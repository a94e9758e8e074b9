------------------------------- MODULE Wallets -------------------------------
(* What the economy bridge promises its callers, without connections, lines  *)
(* or transactions: requests are executed one at a time on what the wallets  *)
(* hold, and answers say something about whether that has happened.          *)
(*                                                                           *)
(* The promise is weaker than callers assume. A request may be executed      *)
(* several times, also after its caller was told that it failed.             *)
EXTENDS Integers

CONSTANTS
  Player, Call, Request, Start, None,
  Tries       \* how often a request may be executed

VARIABLES
  wallet,     \* what each player owns
  asked,      \* what each call asks for
  answer,     \* what its caller was told
  executed    \* how often it was executed

vars == <<wallet, asked, answer, executed>>

Init ==
  /\ wallet = Start
  /\ asked = [i \in Call |-> None]
  /\ answer = [i \in Call |-> "none"]
  /\ executed = [i \in Call |-> 0]

\* The wallets after request r. What the receiver of a transfer had is read
\* before anything is written: a transfer to oneself adds to the wallet.
Effect(r, w) ==
  CASE r.action = "deduct"   -> [w EXCEPT ![r.player] = @ - r.amount]
    [] r.action = "credit"   -> [w EXCEPT ![r.player] = @ + r.amount]
    [] r.action = "set"      -> [w EXCEPT ![r.player] = r.amount]
    [] r.action = "transfer" -> [w EXCEPT ![r.player] = @ - r.amount, ![r.to] = w[r.to] + r.amount]

\* What is taken from a wallet must be in it.
Covered(r, w) == r.action \in {"deduct", "transfer"} => w[r.player] >= r.amount

Ask(i) ==
  /\ asked[i] = None /\ answer[i] = "none"
  /\ \E r \in Request : asked' = [asked EXCEPT ![i] = r]
  /\ UNCHANGED <<wallet, answer, executed>>

\* A request is executed as a whole, on wallets that hold what it takes.
Execute(i) ==
  /\ asked[i] \in Request
  /\ executed[i] < Tries
  /\ Covered(asked[i], wallet)
  /\ wallet' = Effect(asked[i], wallet)
  /\ executed' = [executed EXCEPT ![i] = @ + 1]
  /\ UNCHANGED <<asked, answer>>

\* "true" says that the request was executed; "false" says nothing.
Answer(i) ==
  /\ answer[i] = "none"
  /\ \/ executed[i] > 0 /\ answer' = [answer EXCEPT ![i] = "true"]
     \/ answer' = [answer EXCEPT ![i] = "false"]
  /\ UNCHANGED <<wallet, asked, executed>>

Next == \E i \in Call : Ask(i) \/ Execute(i) \/ Answer(i)

Spec == Init /\ [][Next]_vars
=============================================================================
