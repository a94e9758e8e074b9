------------------------------ MODULE EcoBridge ------------------------------
(* The economy bridge of the minecraft manager: RemoteEconomyBridge          *)
(* (eco_bridge_client.py) sends each request over a connection of its own    *)
(* and tries again when no answer comes; BridgeServer and OogaDB             *)
(* (eco_bridge_server.py) serve each connection in a thread and write the    *)
(* wallets and their ledger in one transaction.                              *)
(*                                                                           *)
(* A request carries no identity, and giving up on an answer takes nothing   *)
(* back: the server may still execute what the client has stopped waiting    *)
(* for, before or after the client's next attempt.                           *)
EXTENDS Integers

CONSTANTS
  Player,       \* wallets of the database
  Call,         \* calls of deduct, credit, transfer or set_balance
  Request,      \* what such a call may ask for
  RetryCount,   \* BridgeConfig.retry_count
  Start,        \* balances to begin with
  None

Attempt == 1 .. RetryCount

ASSUME RetryAssumption == RetryCount \in Nat \ {0}
ASSUME StartAssumption == Start \in [Player -> Nat]
ASSUME RequestAssumption ==
  \A r \in Request :
    /\ r.action \in {"deduct", "credit", "set", "transfer"}
    /\ r.player \in Player /\ r.to \in Player /\ r.amount \in Int
ASSUME NoneAssumption == None \notin Request

VARIABLES
  balance,  \* wallets.balance
  ledger,   \* wallet_ledger, per player: the sum of delta, the last balance_after
  serving,  \* transactions in progress: the connection and the balances it has read
  line,     \* each connection: call i, attempt n
  call,     \* each call: where it is, what it asks for, which attempt it is at
  done,     \* history: how often the call's request was executed
  missed    \* history: an answer of the call was lost

vars == <<balance, ledger, serving, line, call, done, missed>>

\* A call is at "ready" between two attempts; "waiting" holds the client's lock.
Step == {"new", "ready", "waiting", "true", "false"}
\* "sent": the server has or will get the request; "void": it never will.
Line == {"unused", "sent", "served", "yes", "no", "void"}

TypeOK ==
  /\ balance \in [Player -> Int]
  /\ ledger \in [Player -> [sum : Int, after : Int]]
  /\ serving \subseteq [call : Call, attempt : Attempt, seen : [Player -> Int]]
  /\ line \in [Call -> [Attempt -> Line]]
  /\ call \in [Call -> [step : Step, req : Request \cup {None}, attempt : Attempt]]
  /\ done \in [Call -> Nat]
  /\ missed \in [Call -> BOOLEAN]

Init ==
  /\ balance = Start
  /\ ledger = [p \in Player |-> [sum |-> 0, after |-> Start[p]]]
  /\ serving = {}
  /\ line = [i \in Call |-> [n \in Attempt |-> "unused"]]
  /\ call = [i \in Call |-> [step |-> "new", req |-> None, attempt |-> 1]]
  /\ done = [i \in Call |-> 0]
  /\ missed = [i \in Call |-> FALSE]

----------------------------------------------------------------------------
\* What a request does, given the balances its transaction has read.

\* Mutant: the receiver of a transfer gets nothing.
TouchedOne(r) == {r.player}

Touched(r) == IF r.action = "transfer" THEN {r.player, r.to} ELSE {r.player}

\* Mutant: an overdraft is let through.
PermittedAlways(r, seen) == TRUE

\* deduct and transfer refuse what the wallet does not hold. Nothing else is
\* checked: an amount may be negative, in all four requests.
Permitted(r, seen) == r.action \in {"deduct", "transfer"} => seen[r.player] >= r.amount

After(r, seen, p) ==
  CASE r.action = "set"                         -> r.amount
    [] r.action = "credit"                      -> seen[p] + r.amount
    [] r.action = "transfer" /\ p = r.to        -> seen[p] + r.amount
    [] r.action = "deduct"                      -> seen[p] - r.amount
    [] r.action = "transfer" /\ p # r.to        -> seen[p] - r.amount

\* A transfer from a wallet to itself: the UPDATE of the receiver comes last, and
\* adds to what was read before the UPDATE of the sender.
ToItself(r) == r.action = "transfer" /\ r.to = r.player

\* What the rows of the ledger say the request has done to a wallet.
Delta(r, seen, p) == IF ToItself(r) THEN 0 ELSE After(r, seen, p) - seen[p]

----------------------------------------------------------------------------
\* The client: _send_with_retry around _send_command.

Locked == \E i \in Call : call[i].step = "waiting"

Goto(i, step) == call' = [call EXCEPT ![i].step = step]

\* Mutant: the last attempt is followed by another one, without end.
RetryForever(i) ==
  IF call[i].attempt < RetryCount
  THEN call' = [call EXCEPT ![i].step = "ready", ![i].attempt = @ + 1]
  ELSE Goto(i, "ready")

\* Mutant: one attempt too many.
RetryOnceMore(i) ==
  IF call[i].attempt <= RetryCount
  THEN call' = [call EXCEPT ![i].step = "ready", ![i].attempt = @ + 1]
  ELSE Goto(i, "false")

\* An attempt has failed: sleep and try again, or give the caller False.
Retry(i) ==
  IF call[i].attempt < RetryCount
  THEN call' = [call EXCEPT ![i].step = "ready", ![i].attempt = @ + 1]
  ELSE Goto(i, "false")

\* The player's uuid is known, or found by an "info" request, which writes nothing.
Begin(i) ==
  /\ call[i].step = "new"
  /\ \E r \in Request :
       call' = [call EXCEPT ![i].step = "ready", ![i].req = r]
  /\ UNCHANGED <<balance, ledger, serving, line, done, missed>>

\* The player cannot be resolved: the call ends before anything is sent.
Unresolved(i) ==
  /\ call[i].step = "new"
  /\ Goto(i, "false")
  /\ UNCHANGED <<balance, ledger, serving, line, done, missed>>

\* connect is refused or times out.
Refused(i) ==
  /\ call[i].step = "ready" /\ ~Locked
  /\ Retry(i)
  /\ UNCHANGED <<balance, ledger, serving, line, done, missed>>

\* The client's lock is held from here until the attempt is over.
Send(i) ==
  /\ call[i].step = "ready" /\ ~Locked
  /\ Goto(i, "waiting")
  /\ line' = [line EXCEPT ![i][call[i].attempt] = "sent"]
  /\ UNCHANGED <<balance, ledger, serving, done, missed>>

\* Mutant: an answer of the server is taken for success, whatever it says.
ReceiveAny(i) ==
  /\ call[i].step = "waiting"
  /\ line[i][call[i].attempt] \in {"yes", "no"}
  /\ Goto(i, "true")
  /\ UNCHANGED <<balance, ledger, serving, line, done, missed>>

Receive(i) ==
  /\ call[i].step = "waiting"
  /\ \/ line[i][call[i].attempt] = "yes" /\ Goto(i, "true")
     \/ line[i][call[i].attempt] = "no" /\ Goto(i, "false")
  /\ UNCHANGED <<balance, ledger, serving, line, done, missed>>

\* The answer is late, the connection breaks, or the server is gone.
GiveUp(i) ==
  /\ call[i].step = "waiting"
  /\ Retry(i)
  /\ missed' = [missed EXCEPT ![i] = TRUE]
  /\ UNCHANGED <<balance, ledger, serving, line, done>>

\* The answer is cut short: json raises ValueError, which is not tried again.
Garbled(i) ==
  /\ call[i].step = "waiting"
  /\ line[i][call[i].attempt] \in {"yes", "no"}
  /\ Goto(i, "false")
  /\ missed' = [missed EXCEPT ![i] = TRUE]
  /\ UNCHANGED <<balance, ledger, serving, line, done>>

----------------------------------------------------------------------------
\* The server: _handle_client reads the request and calls handle_request.

\* Mutant: requests are executed side by side, without lock or BEGIN IMMEDIATE.
TxBeginAnyTime(i, n) ==
  /\ line[i][n] = "sent"
  /\ line' = [line EXCEPT ![i][n] = "served"]
  /\ serving' = serving \cup {[call |-> i, attempt |-> n, seen |-> balance]}
  /\ UNCHANGED <<balance, ledger, call, done, missed>>

\* The lock, BEGIN IMMEDIATE and the SELECTs.
TxBegin(i, n) ==
  /\ line[i][n] = "sent"
  /\ serving = {}
  /\ line' = [line EXCEPT ![i][n] = "served"]
  /\ serving' = {[call |-> i, attempt |-> n, seen |-> balance]}
  /\ UNCHANGED <<balance, ledger, call, done, missed>>

\* Each wallet's UPDATE, and the row of the ledger that goes with it.
Write(t, r) ==
  /\ balance' = [p \in Player |->
                   IF p \in Touched(r) THEN After(r, t.seen, p) ELSE balance[p]]
  /\ ledger' = [p \in Player |->
                  IF p \in Touched(r)
                  THEN [sum   |-> ledger[p].sum + Delta(r, t.seen, p),
                        after |-> After(r, t.seen, p)]
                  ELSE ledger[p]]

\* COMMIT and the answer {"ok": true}, which may find nobody waiting.
TxCommit(t) ==
  LET r == call[t.call].req IN
  /\ Permitted(r, t.seen)
  /\ Write(t, r)
  /\ serving' = serving \ {t}
  /\ line' = [line EXCEPT ![t.call][t.attempt] = "yes"]
  /\ done' = [done EXCEPT ![t.call] = @ + 1]
  /\ UNCHANGED <<call, missed>>

\* Mutant: something fails after the COMMIT, and the answer says so.
TxRollbackTooLate(t) ==
  /\ Write(t, call[t.call].req)
  /\ serving' = serving \ {t}
  /\ line' = [line EXCEPT ![t.call][t.attempt] = "no"]
  /\ done' = [done EXCEPT ![t.call] = @ + 1]
  /\ UNCHANGED <<call, missed>>

\* ROLLBACK: insufficient funds, no such wallet, or an exception of SQLite.
TxRollback(t) ==
  /\ serving' = serving \ {t}
  /\ line' = [line EXCEPT ![t.call][t.attempt] = "no"]
  /\ UNCHANGED <<balance, ledger, call, done, missed>>

\* The server dies: an open transaction is rolled back, requests it has not
\* executed are gone, answers it has sent may still arrive.
ServerDies ==
  /\ \E i \in Call, n \in Attempt : line[i][n] \in {"sent", "served"}
  /\ serving' = {}
  /\ line' = [i \in Call |-> [n \in Attempt |->
                IF line[i][n] \in {"sent", "served"} THEN "void" ELSE line[i][n]]]
  /\ UNCHANGED <<balance, ledger, call, done, missed>>

----------------------------------------------------------------------------
ClientStep(i) ==
  Begin(i) \/ Unresolved(i) \/ Refused(i) \/ Send(i)
  \/ Receive(i) \/ GiveUp(i) \/ Garbled(i)

ServerStep ==
  \/ \E i \in Call, n \in Attempt : TxBegin(i, n)
  \/ \E t \in serving : TxCommit(t) \/ TxRollback(t)
  \/ ServerDies

Next == ServerStep \/ \E i \in Call : ClientStep(i)

Spec == Init /\ [][Next]_vars

\* A call that has begun goes on: every socket operation of the client has a
\* timeout. Nothing is assumed of the server, of the network, or of callers.
FairSpec ==
  /\ Spec
  /\ \A i \in Call : WF_vars(Refused(i) \/ Send(i) \/ Receive(i) \/ GiveUp(i))

----------------------------------------------------------------------------
\* Every coin of a wallet is accounted for: what the ledger says was paid in
\* and out leads from the opening balance to the present one, and its last
\* balance_after is that balance, whatever overlaps, is retried or crashes. Only
\* a wallet that has made a transfer to itself holds coins of no account.
LedgerExplainsBalance ==
  \A p \in Player :
    /\ ledger[p].after = balance[p]
    /\ \/ balance[p] = Start[p] + ledger[p].sum
       \/ \E i \in Call :
            done[i] > 0 /\ ToItself(call[i].req) /\ call[i].req.player = p

\* A wallet falls below zero by a credit, a set or a transfer of a negative
\* amount and in no other way: a deduct never overdraws, nor does a transfer its
\* sender, although both decide on balances they have read before they write.
OverdrawnOnlyByNegativeAmounts ==
  [][\A p \in Player :
       balance'[p] < 0 /\ balance'[p] < balance[p] =>
         \E t \in serving \ serving' :
           call[t.call].req.action # "deduct" /\ call[t.call].req.amount < 0]_vars

\* A request is executed once, and exactly when the caller is told True, as
\* long as no answer of that call was lost: trying again after a refused
\* connection is harmless. This is what the auction house takes for granted.
ExactlyOnceUnlessLost ==
  \A i \in Call : ~missed[i] =>
    /\ call[i].step = "true" => done[i] = 1
    /\ call[i].step = "false" => done[i] = 0
    /\ done[i] <= 1

\* What remains when answers are lost: True is never told of a request that was
\* not executed, and none is executed more often than it was attempted.
TrueWasDone ==
  \A i \in Call :
    /\ call[i].step = "true" => done[i] >= 1
    /\ done[i] <= call[i].attempt

\* What the callers of the bridge see of it. Of its lines, attempts, transactions
\* and crashes nothing shows except that a request may be executed again.
Promise ==
  INSTANCE Wallets WITH
    wallet   <- balance,
    asked    <- [i \in Call |-> call[i].req],
    answer   <- [i \in Call |-> IF call[i].step \in {"true", "false"} THEN call[i].step
                                                                   ELSE "none"],
    executed <- done,
    Tries    <- RetryCount

\* The bridge keeps that promise: each COMMIT is one request executed on what the
\* wallets hold at that moment, although its balances were read before and its
\* caller may be at another attempt, or gone.
KeepsPromise == Promise!Spec

\* The client does not hang: a call that has begun returns, with the server up
\* or down, and although one lock serialises the attempts of all threads.
CallsReturn ==
  \A i \in Call : call[i].step = "ready" ~> call[i].step \in {"true", "false"}
=============================================================================
