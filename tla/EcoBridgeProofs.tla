--------------------------- MODULE EcoBridgeProofs ---------------------------
(* What holds of the economy bridge for any players, calls and requests and  *)
(* any number of attempts.                                                   *)
EXTENDS EcoBridge, FiniteSetTheorems, TLAPS

\* Lines are used in the order of the attempts: none beyond the present one,
\* and not yet that of a call which is about to try.
LinesOK ==
  \A i \in Call, n \in Attempt :
    line[i][n] # "unused" =>
      /\ call[i].req \in Request
      /\ call[i].step # "new"
      /\ n <= call[i].attempt
      /\ call[i].step = "ready" => n < call[i].attempt

\* A call that tries has something to ask for; before it begins it has nothing.
AsksOK ==
  \A i \in Call :
    /\ call[i].step \in {"ready", "waiting"} => call[i].req \in Request
    /\ call[i].step = "new" => call[i].req = None

\* There is one open transaction at most: that of a line being served, and it
\* has read what the wallets still hold.
ServingOK ==
  /\ \A t \in serving :
       /\ line[t.call][t.attempt] = "served"
       /\ t.seen = balance
  /\ \A t, u \in serving : t = u

\* The attempts of a call that were executed and answered with success.
Yes(i) == {n \in Attempt : line[i][n] = "yes"}

CountOK == \A i \in Call : done[i] = Cardinality(Yes(i))

\* What a call has returned agrees with its lines; without a lost answer it has
\* used no line but that of its last attempt.
AnswersOK ==
  \A i \in Call :
    /\ call[i].step = "true" => Yes(i) # {}
    /\ ~missed[i] =>
         /\ \A n \in Attempt : line[i][n] # "unused" => n = call[i].attempt
         /\ call[i].step = "true" => line[i][call[i].attempt] = "yes"
         /\ call[i].step = "false" => line[i][call[i].attempt] \in {"unused", "no"}

IInv == TypeOK /\ AsksOK /\ LinesOK /\ ServingOK /\ CountOK /\ AnswersOK
        /\ LedgerExplainsBalance

----------------------------------------------------------------------------
\* What a request makes of a wallet. It falls below what it was, and below zero,
\* only if it is taken a negative amount by something else than a deduct.
LEMMA AfterInt ==
  ASSUME NEW r \in Request, NEW seen \in [Player -> Int], NEW p \in Touched(r)
  PROVE  /\ p \in Player /\ After(r, seen, p) \in Int /\ Delta(r, seen, p) \in Int
         /\ ~ToItself(r) => Delta(r, seen, p) = After(r, seen, p) - seen[p]
         /\ ToItself(r) => p = r.player
         /\ Permitted(r, seen) /\ After(r, seen, p) < 0 /\ After(r, seen, p) < seen[p]
              => r.action # "deduct" /\ r.amount < 0
<1>1. /\ r.action \in {"deduct", "credit", "set", "transfer"}
      /\ r.player \in Player /\ r.to \in Player /\ r.amount \in Int
  BY RequestAssumption
<1>2. p \in Player /\ (p = r.player \/ (r.action = "transfer" /\ p = r.to))
  BY <1>1 DEF Touched
<1>3. seen[p] \in Int
  BY <1>2
<1>4. /\ After(r, seen, p) \in Int
      /\ Permitted(r, seen) /\ After(r, seen, p) < 0 /\ After(r, seen, p) < seen[p]
           => r.action # "deduct" /\ r.amount < 0
  <2>1. CASE r.action = "set"
    BY <1>1, <2>1 DEF After
  <2>2. CASE r.action = "credit"
    BY <1>1, <1>3, <2>2 DEF After
  <2>3. CASE r.action = "deduct"
    BY <1>1, <1>2, <1>3, <2>3 DEF After, Permitted
  <2>4. CASE r.action = "transfer" /\ p = r.to
    BY <1>1, <1>3, <2>4 DEF After
  <2>5. CASE r.action = "transfer" /\ p # r.to
    BY <1>1, <1>2, <1>3, <2>5 DEF After, Permitted
  <2>. QED  BY <1>1, <2>1, <2>2, <2>3, <2>4, <2>5
<1>5. Delta(r, seen, p) \in Int
  BY <1>3, <1>4 DEF Delta
<1>6. ToItself(r) => p = r.player
  BY <1>2 DEF ToItself
<1>. QED  BY <1>2, <1>4, <1>5, <1>6 DEF Delta

\* A call keeps its type when it moves to another step, or to its next attempt.
LEMMA GotoTypes ==
  ASSUME TypeOK, NEW i \in Call, NEW s \in Step, Goto(i, s)
  PROVE  /\ call' \in [Call -> [step : Step, req : Request \cup {None}, attempt : Attempt]]
         /\ \A j \in Call : /\ call'[j].req = call[j].req
                            /\ call'[j].attempt = call[j].attempt
                            /\ j # i => call'[j] = call[j]
         /\ call'[i].step = s
<1>1. call[i] \in [step : Step, req : Request \cup {None}, attempt : Attempt]
  BY DEF TypeOK
<1>2. call' = [call EXCEPT ![i] = [call[i] EXCEPT !.step = s]]
  BY DEF Goto
<1>3. [call[i] EXCEPT !.step = s]
        \in [step : Step, req : Request \cup {None}, attempt : Attempt]
  BY <1>1
<1>. QED  BY <1>1, <1>2, <1>3 DEF TypeOK

\* The next attempt, or giving up, keeps the types and the request.
LEMMA RetryTypes ==
  ASSUME TypeOK, NEW i \in Call, Retry(i)
  PROVE  /\ call' \in [Call -> [step : Step, req : Request \cup {None}, attempt : Attempt]]
         /\ \A j \in Call : /\ call'[j].req = call[j].req
                            /\ call'[j].attempt >= call[j].attempt
                            /\ j # i => call'[j] = call[j]
         /\ \/ call'[i].step = "ready" /\ call'[i].attempt = call[i].attempt + 1
            \/ call'[i].step = "false" /\ call'[i].attempt = call[i].attempt
<1>1. call[i] \in [step : Step, req : Request \cup {None}, attempt : Attempt]
  BY DEF TypeOK
<1>2. \A j \in Call : call[j].attempt \in Nat
  BY RetryAssumption DEF TypeOK, Attempt
<1>3. CASE call[i].attempt < RetryCount
  <2>. DEFINE next == [call[i] EXCEPT !.step = "ready", !.attempt = @ + 1]
  <2>1. call[i].attempt + 1 \in Attempt
    BY <1>2, <1>3, RetryAssumption DEF Attempt
  <2>2. next \in [step : Step, req : Request \cup {None}, attempt : Attempt]
    BY <1>1, <2>1 DEF Step
  <2>3. call' = [call EXCEPT ![i] = next]
    BY <1>3 DEF Retry
  <2>4. next.step = "ready" /\ next.req = call[i].req /\ next.attempt = call[i].attempt + 1
    BY <1>1
  <2>. HIDE DEF next
  <2>. QED  BY <1>2, <2>2, <2>3, <2>4 DEF TypeOK
<1>4. CASE ~(call[i].attempt < RetryCount)
  <2>1. Goto(i, "false") /\ "false" \in Step
    BY <1>4 DEF Retry, Step
  <2>. QED  BY <1>2, <2>1, GotoTypes
<1>. QED  BY <1>3, <1>4

\* The attempt a call has got to is one of its attempts, and a number.
LEMMA AttemptNat ==
  ASSUME TypeOK, NEW i \in Call
  PROVE  call[i].attempt \in Attempt /\ call[i].attempt \in Nat
BY RetryAssumption DEF TypeOK, Attempt

\* The executed attempts of a call form a finite set.
LEMMA YesFinite ==
  ASSUME NEW i \in Call
  PROVE  /\ IsFiniteSet(Yes(i)) /\ Cardinality(Yes(i)) \in Nat
         /\ IsFiniteSet(Yes(i)') /\ Cardinality(Yes(i)') \in Nat
<1>1. IsFiniteSet(Attempt)
  BY RetryAssumption, FS_Interval DEF Attempt
<1>2. Yes(i) \subseteq Attempt /\ Yes(i)' \subseteq Attempt
  BY DEF Yes, Attempt
<1>. QED  BY <1>1, <1>2, FS_Subset, FS_CardinalityType

\* No request has been made at the start.
LEMMA InitIInv == Init => IInv
<1>. SUFFICES ASSUME Init PROVE IInv
  OBVIOUS
<1>1. TypeOK
  BY RetryAssumption, StartAssumption DEF Init, TypeOK, Step, Line, Attempt
<1>2. AsksOK /\ LinesOK
  BY DEF Init, AsksOK, LinesOK
<1>3. ServingOK
  BY DEF Init, ServingOK
<1>4. LedgerExplainsBalance
  <2>1. ASSUME NEW p \in Player
        PROVE  balance[p] = Start[p] + ledger[p].sum /\ ledger[p].after = balance[p]
    <3>1. /\ Start[p] \in Nat /\ balance[p] = Start[p]
          /\ ledger[p].sum = 0 /\ ledger[p].after = Start[p]
      BY <2>1, StartAssumption DEF Init
    <3>. QED  BY <3>1
  <2>. QED  BY <2>1 DEF LedgerExplainsBalance
<1>5. ASSUME NEW i \in Call PROVE Yes(i) = {} /\ done[i] = 0 /\ call[i].step = "new"
  BY <1>5 DEF Init, Yes
<1>6. CountOK
  BY <1>5, FS_EmptySet DEF CountOK
<1>7. AnswersOK
  BY <1>5 DEF Init, AnswersOK
<1>. QED  BY <1>1, <1>2, <1>3, <1>4, <1>6, <1>7 DEF IInv

----------------------------------------------------------------------------
\* Steps of the client leave the database and the lines that are used alone:
\* what is left to show of them concerns the call itself.
LEMMA ClientKeepsBooks ==
  ASSUME IInv, UNCHANGED <<balance, ledger, serving, line, done>>,
         \A i \in Call : done[i] > 0 => call'[i].req = call[i].req
  PROVE  ServingOK' /\ LedgerExplainsBalance' /\ CountOK'
BY DEF IInv, ServingOK, LedgerExplainsBalance, CountOK, Yes

\* The actions keep the invariant, one by one. On the client's side: a call
\* begins, or ends without a result;
LEMMA BeginStep ==
  ASSUME IInv, NEW i \in Call, Begin(i) \/ Unresolved(i)
  PROVE  IInv'
<1>. USE DEF IInv
<1>1. /\ call' \in [Call -> [step : Step, req : Request \cup {None}, attempt : Attempt]]
      /\ \A j \in Call : j # i => call'[j] = call[j]
      /\ call'[i].step \in {"ready", "false"} /\ call'[i].attempt = call[i].attempt
      /\ call'[i].step = "ready" => call'[i].req \in Request
  <2>1. CASE Begin(i)
    <3>1. PICK r \in Request : call' = [call EXCEPT ![i].step = "ready", ![i].req = r]
      BY <2>1 DEF Begin
    <3>2. call[i] \in [step : Step, req : Request \cup {None}, attempt : Attempt]
      BY DEF TypeOK
    <3>3. DEFINE next == [call[i] EXCEPT !.step = "ready", !.req = r]
    <3>4. /\ next \in [step : Step, req : Request \cup {None}, attempt : Attempt]
          /\ next.step = "ready" /\ next.attempt = call[i].attempt /\ next.req = r
      BY <3>2 DEF Step
    <3>5. call' = [call EXCEPT ![i] = next]
      BY <3>1
    <3>. HIDE DEF next
    <3>. QED  BY <3>4, <3>5 DEF TypeOK
  <2>2. CASE Unresolved(i)
    <3>1. Goto(i, "false") /\ "false" \in Step
      BY <2>2 DEF Unresolved, Step
    <3>. QED  BY <3>1, GotoTypes
  <2>. QED  BY <2>1, <2>2
<1>2. call[i].step = "new" /\ UNCHANGED <<balance, ledger, serving, line, done, missed>>
  BY DEF Begin, Unresolved
<1>3. \A n \in Attempt : line[i][n] = "unused"
  BY <1>2 DEF LinesOK
<1>4. TypeOK'
  BY <1>1, <1>2 DEF TypeOK
<1>5. AsksOK' /\ LinesOK'
  BY <1>1, <1>2, <1>3 DEF AsksOK, LinesOK
<1>6. ServingOK' /\ LedgerExplainsBalance' /\ CountOK'
  <2>1. Yes(i) = {}
    BY <1>3 DEF Yes
  <2>2. done[i] = 0
    BY <2>1, FS_EmptySet DEF CountOK
  <2>. QED  BY <1>1, <1>2, <2>2, ClientKeepsBooks
<1>7. AnswersOK'
  <2>. SUFFICES ASSUME NEW j \in Call
       PROVE /\ call'[j].step = "true" => Yes(j)' # {}
             /\ ~missed'[j] =>
                  /\ \A n \in Attempt : line'[j][n] # "unused" => n = call'[j].attempt
                  /\ call'[j].step = "true" => line'[j][call'[j].attempt] = "yes"
                  /\ call'[j].step = "false" => line'[j][call'[j].attempt] \in {"unused", "no"}
    BY DEF AnswersOK
  <2>1. CASE j = i
    BY <1>1, <1>2, <1>3, <2>1, AttemptNat
  <2>2. CASE j # i
    BY <1>1, <1>2, <2>2 DEF AnswersOK, Yes
  <2>. QED  BY <2>1, <2>2
<1>. QED  BY <1>4, <1>5, <1>6, <1>7

\* a connection is refused or given up;
LEMMA RetryStep ==
  ASSUME IInv, NEW i \in Call, Refused(i) \/ GiveUp(i)
  PROVE  IInv'
<1>. USE DEF IInv
<1>1. /\ Retry(i) /\ call[i].step \in {"ready", "waiting"}
      /\ UNCHANGED <<balance, ledger, serving, line, done>>
      /\ \/ missed' = missed /\ call[i].step = "ready"
         \/ missed' = [missed EXCEPT ![i] = TRUE]
  BY DEF Refused, GiveUp
<1>2. /\ call' \in [Call -> [step : Step, req : Request \cup {None}, attempt : Attempt]]
      /\ \A j \in Call : /\ call'[j].req = call[j].req
                         /\ call'[j].attempt >= call[j].attempt
                         /\ j # i => call'[j] = call[j]
      /\ \/ call'[i].step = "ready" /\ call'[i].attempt = call[i].attempt + 1
         \/ call'[i].step = "false" /\ call'[i].attempt = call[i].attempt
  BY <1>1, RetryTypes
<1>3. missed' \in [Call -> BOOLEAN] /\ \A j \in Call : j # i => missed'[j] = missed[j]
  BY <1>1 DEF TypeOK
<1>4. TypeOK'
  BY <1>1, <1>2, <1>3 DEF TypeOK
<1>5. LinesOK'
  <2>. SUFFICES ASSUME NEW j \in Call, NEW n \in Attempt, line[j][n] # "unused"
       PROVE  /\ call'[j].req \in Request
              /\ call'[j].step # "new"
              /\ n <= call'[j].attempt
              /\ call'[j].step = "ready" => n < call'[j].attempt
    BY <1>1 DEF LinesOK
  <2>1. /\ call[j].req \in Request /\ call[j].step # "new" /\ n <= call[j].attempt
        /\ call[j].step = "ready" => n < call[j].attempt
    BY DEF LinesOK
  <2>2. n \in Nat /\ call[j].attempt \in Nat
    BY AttemptNat DEF Attempt
  <2>. QED  BY <1>2, <2>1, <2>2
<1>6. AsksOK' /\ ServingOK' /\ LedgerExplainsBalance' /\ CountOK'
  BY <1>1, <1>2, ClientKeepsBooks DEF AsksOK
<1>7. AnswersOK'
  <2>. SUFFICES ASSUME NEW j \in Call
       PROVE /\ call'[j].step = "true" => Yes(j)' # {}
             /\ ~missed'[j] =>
                  /\ \A n \in Attempt : line'[j][n] # "unused" => n = call'[j].attempt
                  /\ call'[j].step = "true" => line'[j][call'[j].attempt] = "yes"
                  /\ call'[j].step = "false" => line'[j][call'[j].attempt] \in {"unused", "no"}
    BY DEF AnswersOK
  <2>1. CASE j = i
    <3>1. CASE missed'[i]
      BY <1>2, <2>1, <3>1
    <3>2. CASE ~missed'[i]
      <4>1. missed' = missed /\ call[i].step = "ready"
        BY <1>1, <3>2 DEF TypeOK
      <4>2. ~missed[i] /\ \A n \in Attempt : n = call[i].attempt => ~(n < call[i].attempt)
        BY <3>2, <4>1, AttemptNat
      <4>3. \A n \in Attempt : line[i][n] = "unused"
        BY <4>1, <4>2 DEF LinesOK, AnswersOK
      <4>. QED  BY <1>1, <1>2, <2>1, <4>3, AttemptNat
    <3>. QED  BY <3>1, <3>2
  <2>2. CASE j # i
    BY <1>1, <1>2, <1>3, <2>2 DEF AnswersOK, Yes
  <2>. QED  BY <2>1, <2>2
<1>. QED  BY <1>4, <1>5, <1>6, <1>7

\* an answer arrives whole or cut short;
LEMMA AnswerStep ==
  ASSUME IInv, NEW i \in Call, Receive(i) \/ Garbled(i)
  PROVE  IInv'
<1>. USE DEF IInv
<1>1. PICK s \in Step :
        /\ Goto(i, s) /\ call[i].step = "waiting"
        /\ UNCHANGED <<balance, ledger, serving, line, done>>
        /\ \/ s = "true" /\ line[i][call[i].attempt] = "yes" /\ missed' = missed
           \/ s = "false" /\ line[i][call[i].attempt] = "no" /\ missed' = missed
           \/ s = "false" /\ missed' = [missed EXCEPT ![i] = TRUE]
  BY DEF Receive, Garbled, Step
<1>2. /\ call' \in [Call -> [step : Step, req : Request \cup {None}, attempt : Attempt]]
      /\ \A j \in Call : /\ call'[j].req = call[j].req
                         /\ call'[j].attempt = call[j].attempt
                         /\ j # i => call'[j] = call[j]
      /\ call'[i].step = s
  BY <1>1, GotoTypes
<1>3. missed' \in [Call -> BOOLEAN] /\ \A j \in Call : j # i => missed'[j] = missed[j]
  BY <1>1 DEF TypeOK
<1>4. TypeOK'
  BY <1>1, <1>2, <1>3 DEF TypeOK
<1>5. s # "new" /\ s # "ready"
  BY <1>1
<1>6. LinesOK'
  BY <1>1, <1>2, <1>5 DEF LinesOK
<1>7. AsksOK' /\ ServingOK' /\ LedgerExplainsBalance' /\ CountOK'
  BY <1>1, <1>2, <1>5, ClientKeepsBooks DEF AsksOK
<1>8. AnswersOK'
  <2>. SUFFICES ASSUME NEW j \in Call
       PROVE /\ call'[j].step = "true" => Yes(j)' # {}
             /\ ~missed'[j] =>
                  /\ \A n \in Attempt : line'[j][n] # "unused" => n = call'[j].attempt
                  /\ call'[j].step = "true" => line'[j][call'[j].attempt] = "yes"
                  /\ call'[j].step = "false" => line'[j][call'[j].attempt] \in {"unused", "no"}
    BY DEF AnswersOK
  <2>1. CASE j = i
    <3>1. call'[i].step = "true" => line[i][call[i].attempt] = "yes"
      BY <1>1, <1>2
    <3>2. call'[i].step = "true" => Yes(i)' # {}
      BY <1>1, <3>1, AttemptNat DEF Yes
    <3>3. ~missed'[i] => /\ ~missed[i]
                         /\ call'[i].step = "false" => line[i][call[i].attempt] = "no"
      BY <1>1, <1>2 DEF TypeOK
    <3>. QED  BY <1>1, <1>2, <2>1, <3>1, <3>2, <3>3 DEF AnswersOK
  <2>2. CASE j # i
    BY <1>1, <1>2, <1>3, <2>2 DEF AnswersOK, Yes
  <2>. QED  BY <2>1, <2>2
<1>. QED  BY <1>4, <1>6, <1>7, <1>8

\* a request is sent on a line that no attempt has used.
LEMMA SendStep ==
  ASSUME IInv, NEW i \in Call, Send(i)
  PROVE  IInv'
<1>. USE DEF IInv
<1>. DEFINE a == call[i].attempt
<1>1. /\ Goto(i, "waiting") /\ "waiting" \in Step /\ call[i].step = "ready"
      /\ line' = [line EXCEPT ![i][a] = "sent"]
      /\ UNCHANGED <<balance, ledger, serving, done, missed>>
  BY DEF Send, Step
<1>2. /\ call' \in [Call -> [step : Step, req : Request \cup {None}, attempt : Attempt]]
      /\ \A j \in Call : /\ call'[j].req = call[j].req
                         /\ call'[j].attempt = call[j].attempt
                         /\ j # i => call'[j] = call[j]
      /\ call'[i].step = "waiting"
  BY <1>1, GotoTypes
<1>3. a \in Attempt /\ a \in Nat
  BY AttemptNat
<1>4. /\ line' \in [Call -> [Attempt -> Line]]
      /\ \A j \in Call, n \in Attempt :
           line'[j][n] = IF j = i /\ n = a THEN "sent" ELSE line[j][n]
  BY <1>1, <1>3 DEF TypeOK, Line
<1>. HIDE DEF a
<1>5. line[i][a] = "unused"
  BY <1>1, <1>3 DEF LinesOK, a
<1>6. TypeOK'
  BY <1>1, <1>2, <1>4 DEF TypeOK
<1>7. call[i].req \in Request
  BY <1>1 DEF AsksOK
<1>8. AsksOK'
  BY <1>2, <1>7 DEF AsksOK
<1>8a. LinesOK'
  <2>1. ASSUME NEW j \in Call, NEW n \in Attempt, line'[j][n] # "unused", j # i
        PROVE  /\ call'[j].req \in Request /\ call'[j].step # "new"
               /\ n <= call'[j].attempt
               /\ call'[j].step = "ready" => n < call'[j].attempt
    BY <1>2, <1>4, <2>1 DEF LinesOK
  <2>2. ASSUME NEW n \in Attempt, line'[i][n] # "unused"
        PROVE  n <= call[i].attempt
    <3>1. n = a \/ line[i][n] # "unused"
      BY <1>4, <2>2
    <3>. QED  BY <1>3, <3>1 DEF LinesOK, a
  <2>. QED  BY <1>2, <1>7, <2>1, <2>2 DEF LinesOK
<1>9. ServingOK'
  <2>1. \A t \in serving : line'[t.call][t.attempt] = line[t.call][t.attempt]
    BY <1>4, <1>5 DEF TypeOK, ServingOK
  <2>. QED  BY <1>1, <2>1 DEF ServingOK
<1>10. ASSUME NEW j \in Call PROVE Yes(j)' = Yes(j)
  BY <1>4, <1>5 DEF Yes
<1>11. LedgerExplainsBalance' /\ CountOK'
  BY <1>1, <1>2, <1>10 DEF LedgerExplainsBalance, CountOK
<1>12. AnswersOK'
  <2>. SUFFICES ASSUME NEW j \in Call
       PROVE /\ call'[j].step = "true" => Yes(j)' # {}
             /\ ~missed[j] =>
                  /\ \A n \in Attempt : line'[j][n] # "unused" => n = call'[j].attempt
                  /\ call'[j].step = "true" => line'[j][call'[j].attempt] = "yes"
                  /\ call'[j].step = "false" => line'[j][call'[j].attempt] \in {"unused", "no"}
    BY <1>1 DEF AnswersOK
  <2>1. CASE j = i
    BY <1>2, <1>4, <2>1 DEF AnswersOK, a
  <2>2. CASE j # i
    BY <1>2, <1>4, <1>10, <2>2, AttemptNat DEF AnswersOK
  <2>. QED  BY <2>1, <2>2
<1>. QED  BY <1>6, <1>8, <1>8a, <1>9, <1>11, <1>12

----------------------------------------------------------------------------
Writes(i, n, v) == line' = [line EXCEPT ![i][n] = v]

\* A step of the server: it closes or opens a transaction and writes the line it
\* belongs to, which was in use and stays in use.
LEMMA LineWritten ==
  ASSUME IInv, NEW i \in Call, NEW n \in Attempt, NEW v \in Line \ {"unused"},
         line[i][n] \in {"sent", "served"},
         Writes(i, n, v), call' = call, missed' = missed
  PROVE  /\ line' \in [Call -> [Attempt -> Line]]
         /\ \A j \in Call, k \in Attempt :
              line'[j][k] = IF j = i /\ k = n THEN v ELSE line[j][k]
         /\ AsksOK' /\ LinesOK' /\ AnswersOK'
         /\ \A j \in Call :
              Yes(j)' = IF j = i /\ v = "yes" THEN Yes(j) \cup {n} ELSE Yes(j)
         /\ n \notin Yes(i)
<1>. USE DEF IInv
<1>1. line' \in [Call -> [Attempt -> Line]]
  BY DEF TypeOK, Writes
<1>2. \A j \in Call, k \in Attempt :
        line'[j][k] = IF j = i /\ k = n THEN v ELSE line[j][k]
  BY DEF TypeOK, Writes
<1>3. AsksOK' /\ LinesOK'
  BY <1>2 DEF AsksOK, LinesOK
<1>4. n \notin Yes(i)
  BY DEF Yes
<1>5. \A j \in Call :
        Yes(j)' = IF j = i /\ v = "yes" THEN Yes(j) \cup {n} ELSE Yes(j)
  BY <1>2, <1>4 DEF Yes
<1>6. AnswersOK'
  <2>. SUFFICES ASSUME NEW j \in Call
       PROVE /\ call[j].step = "true" => Yes(j)' # {}
             /\ ~missed[j] =>
                  /\ \A k \in Attempt : line'[j][k] # "unused" => k = call[j].attempt
                  /\ call[j].step = "true" => line'[j][call[j].attempt] = "yes"
                  /\ call[j].step = "false" => line'[j][call[j].attempt] \in {"unused", "no"}
    BY DEF AnswersOK
  <2>1. call[j].step = "true" => Yes(j)' # {}
    BY <1>5 DEF AnswersOK
  <2>2. ASSUME ~missed[j]
        PROVE  /\ \A k \in Attempt : line[j][k] # "unused" => k = call[j].attempt
               /\ call[j].step = "true" => line[j][call[j].attempt] = "yes"
               /\ call[j].step = "false" => line[j][call[j].attempt] \in {"unused", "no"}
    BY <2>2 DEF AnswersOK
  <2>3. call[j].attempt \in Attempt
    BY AttemptNat
  <2>4. CASE j = i
    BY <1>2, <2>1, <2>2, <2>3, <2>4
  <2>5. CASE j # i
    BY <1>2, <2>1, <2>2, <2>3, <2>5
  <2>. QED  BY <2>4, <2>5
<1>. QED  BY <1>1, <1>2, <1>3, <1>4, <1>5, <1>6

\* On the server's side: a transaction begins, which finds no other one open;
LEMMA TxBeginStep ==
  ASSUME IInv, NEW i \in Call, NEW n \in Attempt, TxBegin(i, n)
  PROVE  IInv'
<1>. USE DEF IInv
<1>. DEFINE t == [call |-> i, attempt |-> n, seen |-> balance]
<1>1. /\ line[i][n] = "sent" /\ "served" \in Line \ {"unused"}
      /\ Writes(i, n, "served")
      /\ serving = {} /\ serving' = {t}
      /\ UNCHANGED <<balance, ledger, call, done, missed>>
  BY DEF TxBegin, Line, Writes
<1>2. /\ line' \in [Call -> [Attempt -> Line]] /\ line'[i][n] = "served"
      /\ AsksOK' /\ LinesOK' /\ AnswersOK'
      /\ \A j \in Call : Yes(j)' = Yes(j)
  BY <1>1, LineWritten
<1>3. t \in [call : Call, attempt : Attempt, seen : [Player -> Int]]
  BY DEF TypeOK
<1>4. TypeOK'
  BY <1>1, <1>2, <1>3 DEF TypeOK
<1>5. t.call = i /\ t.attempt = n /\ t.seen = balance
  OBVIOUS
<1>. HIDE DEF t
<1>6. ServingOK'
  BY <1>1, <1>2, <1>5 DEF ServingOK
<1>7. LedgerExplainsBalance' /\ CountOK'
  BY <1>1, <1>2 DEF LedgerExplainsBalance, CountOK
<1>. QED  BY <1>2, <1>4, <1>6, <1>7

\* What serving a request needs to know of its transaction.
LEMMA ServedLine ==
  ASSUME IInv, NEW t \in serving
  PROVE  /\ t.call \in Call /\ t.attempt \in Attempt
         /\ t.seen = balance /\ serving \ {t} = {}
         /\ line[t.call][t.attempt] = "served"
         /\ call[t.call].req \in Request
BY DEF IInv, TypeOK, ServingOK, LinesOK

\* it is refused;
LEMMA TxRollbackStep ==
  ASSUME IInv, NEW t \in serving, TxRollback(t)
  PROVE  IInv'
<1>. USE DEF IInv
<1>1. /\ "no" \in Line \ {"unused"}
      /\ Writes(t.call, t.attempt, "no")
      /\ serving' = serving \ {t}
      /\ UNCHANGED <<balance, ledger, call, done, missed>>
  BY DEF TxRollback, Line, Writes
<1>2. /\ t.call \in Call /\ t.attempt \in Attempt /\ serving' = {}
      /\ line[t.call][t.attempt] = "served"
  BY <1>1, ServedLine
<1>3. /\ line' \in [Call -> [Attempt -> Line]]
      /\ AsksOK' /\ LinesOK' /\ AnswersOK'
      /\ \A j \in Call : Yes(j)' = Yes(j)
  BY <1>1, <1>2, LineWritten
<1>4. TypeOK' /\ ServingOK' /\ LedgerExplainsBalance' /\ CountOK'
  BY <1>1, <1>2, <1>3 DEF TypeOK, ServingOK, LedgerExplainsBalance, CountOK
<1>. QED  BY <1>3, <1>4

\* it is committed, and so counted, booked and answered at once;
LEMMA TxCommitStep ==
  ASSUME IInv, NEW t \in serving, TxCommit(t)
  PROVE  IInv'
<1>. USE DEF IInv
<1>. DEFINE r == call[t.call].req
<1>1. /\ "yes" \in Line \ {"unused"}
      /\ Writes(t.call, t.attempt, "yes")
      /\ serving' = serving \ {t}
      /\ done' = [done EXCEPT ![t.call] = @ + 1]
      /\ Permitted(r, t.seen) /\ Write(t, r)
      /\ UNCHANGED <<call, missed>>
  BY DEF TxCommit, Line, Writes
<1>2. /\ t.call \in Call /\ t.attempt \in Attempt /\ serving' = {}
      /\ line[t.call][t.attempt] = "served"
      /\ r \in Request /\ t.seen = balance
  BY <1>1, ServedLine
<1>3. /\ line' \in [Call -> [Attempt -> Line]]
      /\ AsksOK' /\ LinesOK' /\ AnswersOK'
      /\ \A j \in Call :
           Yes(j)' = IF j = t.call THEN Yes(j) \cup {t.attempt} ELSE Yes(j)
      /\ t.attempt \notin Yes(t.call)
  BY <1>1, <1>2, LineWritten
<1>. HIDE DEF r
<1>4. balance \in [Player -> Int]
  BY DEF TypeOK
<1>5. \A p \in Touched(r) :
        /\ After(r, t.seen, p) \in Int /\ Delta(r, t.seen, p) \in Int
        /\ ~ToItself(r) => Delta(r, t.seen, p) = After(r, t.seen, p) - t.seen[p]
        /\ ToItself(r) => p = r.player
  BY <1>2, <1>4, AfterInt
<1>6. balance' \in [Player -> Int]
  BY <1>1, <1>4, <1>5 DEF Write
<1>7. ledger' \in [Player -> [sum : Int, after : Int]]
  <2>1. \A p \in Player : ledger[p] \in [sum : Int, after : Int]
    BY DEF TypeOK
  <2>2. ASSUME NEW p \in Touched(r) \cap Player
        PROVE  [sum |-> ledger[p].sum + Delta(r, t.seen, p),
                after |-> After(r, t.seen, p)] \in [sum : Int, after : Int]
    <3>1. ledger[p].sum \in Int /\ Delta(r, t.seen, p) \in Int /\ After(r, t.seen, p) \in Int
      BY <1>5, <2>1, <2>2
    <3>. QED  BY <3>1
  <2>. QED  BY <1>1, <2>1, <2>2 DEF Write
<1>8. done' \in [Call -> Nat]
  BY <1>1, <1>2 DEF TypeOK
<1>9. TypeOK'
  BY <1>1, <1>2, <1>3, <1>6, <1>7, <1>8 DEF TypeOK
<1>10. ServingOK'
  BY <1>2 DEF ServingOK
<1>11. LedgerExplainsBalance'
  <2>. DEFINE Gift(p) == \E i \in Call :
                done[i] > 0 /\ ToItself(call[i].req) /\ call[i].req.player = p
              GiftNext(p) == \E i \in Call :
                done'[i] > 0 /\ ToItself(call[i].req) /\ call[i].req.player = p
  <2>1. \A p : Gift(p) => GiftNext(p)
    BY <1>1, <1>2 DEF TypeOK
  <2>2. done'[t.call] > 0
    BY <1>1, <1>2 DEF TypeOK
  <2>3. ASSUME ToItself(r) PROVE GiftNext(r.player)
    BY <1>2, <2>2, <2>3 DEF r
  <2>. HIDE DEF Gift, GiftNext
  <2>. SUFFICES ASSUME NEW p \in Player
       PROVE  /\ ledger'[p].after = balance'[p]
              /\ balance'[p] = Start[p] + ledger'[p].sum \/ GiftNext(p)
    BY <1>1 DEF LedgerExplainsBalance, GiftNext
  <2>4. /\ balance[p] = Start[p] + ledger[p].sum \/ Gift(p)
        /\ ledger[p].after = balance[p]
    BY DEF LedgerExplainsBalance, Gift
  <2>5. balance[p] \in Int /\ ledger[p].sum \in Int /\ Start[p] \in Int
    BY StartAssumption DEF TypeOK
  <2>6. CASE p \in Touched(r)
    <3>1. /\ balance'[p] = After(r, t.seen, p)
          /\ ledger'[p].sum = ledger[p].sum + Delta(r, t.seen, p)
          /\ ledger'[p].after = After(r, t.seen, p)
      BY <1>1, <2>6 DEF Write
    <3>2. CASE ToItself(r)
      BY <1>5, <2>3, <2>6, <3>1, <3>2
    <3>3. CASE ~ToItself(r)
      <4>1. /\ Delta(r, t.seen, p) = After(r, t.seen, p) - balance[p]
            /\ After(r, t.seen, p) \in Int
        BY <1>2, <1>5, <2>6, <3>3
      <4>. QED  BY <2>1, <2>4, <2>5, <3>1, <4>1
    <3>. QED  BY <3>2, <3>3
  <2>7. CASE p \notin Touched(r)
    <3>1. balance'[p] = balance[p] /\ ledger'[p] = ledger[p]
      BY <1>1, <2>7 DEF Write
    <3>. QED  BY <2>1, <2>4, <3>1
  <2>. QED  BY <2>6, <2>7
<1>12. CountOK'
  <2>. SUFFICES ASSUME NEW j \in Call PROVE done'[j] = Cardinality(Yes(j)')
    BY DEF CountOK
  <2>1. done[j] = Cardinality(Yes(j)) /\ IsFiniteSet(Yes(j))
    BY YesFinite DEF CountOK
  <2>2. CASE j = t.call
    <3>1. Cardinality(Yes(j) \cup {t.attempt}) = Cardinality(Yes(j)) + 1
      BY <1>3, <2>1, <2>2, FS_AddElement
    <3>2. done'[j] = done[j] + 1
      BY <1>1, <1>2, <2>2 DEF TypeOK
    <3>. QED  BY <1>3, <2>1, <2>2, <3>1, <3>2
  <2>3. CASE j # t.call
    <3>1. done'[j] = done[j]
      BY <1>1, <1>2, <2>3 DEF TypeOK
    <3>. QED  BY <1>3, <2>1, <2>3, <3>1
  <2>. QED  BY <2>2, <2>3
<1>. QED  BY <1>3, <1>9, <1>10, <1>11, <1>12

\* or the server dies, and its open transaction with it.
LEMMA ServerDiesStep ==
  ASSUME IInv, ServerDies
  PROVE  IInv'
<1>. USE DEF IInv
<1>1. /\ serving' = {}
      /\ line' = [i \in Call |-> [n \in Attempt |->
                   IF line[i][n] \in {"sent", "served"} THEN "void" ELSE line[i][n]]]
      /\ UNCHANGED <<balance, ledger, call, done, missed>>
  BY DEF ServerDies
<1>2. \A i \in Call, n \in Attempt :
        /\ line[i][n] \in Line
        /\ line'[i][n] = IF line[i][n] \in {"sent", "served"} THEN "void" ELSE line[i][n]
  BY <1>1 DEF TypeOK
<1>3. line' \in [Call -> [Attempt -> Line]]
  <2>1. \A i \in Call, n \in Attempt :
          (IF line[i][n] \in {"sent", "served"} THEN "void" ELSE line[i][n]) \in Line
    BY <1>2 DEF Line
  <2>. QED  BY <1>1, <2>1
<1>4. \A i \in Call, n \in Attempt :
        /\ line'[i][n] = "unused" <=> line[i][n] = "unused"
        /\ line'[i][n] = "yes" <=> line[i][n] = "yes"
        /\ line'[i][n] = "no" <=> line[i][n] = "no"
  BY <1>2
<1>5. \A i \in Call : Yes(i)' = Yes(i)
  BY <1>4 DEF Yes
<1>6. TypeOK' /\ ServingOK' /\ LedgerExplainsBalance'
  BY <1>1, <1>3 DEF TypeOK, ServingOK, LedgerExplainsBalance
<1>7. AsksOK' /\ LinesOK'
  BY <1>1, <1>4 DEF AsksOK, LinesOK
<1>8. CountOK'
  BY <1>1, <1>5 DEF CountOK
<1>9. AnswersOK'
  <2>1. \A i \in Call : call[i].attempt \in Attempt
    BY AttemptNat
  <2>. QED  BY <1>1, <1>4, <1>5, <2>1 DEF AnswersOK
<1>. QED  BY <1>6, <1>7, <1>8, <1>9

\* Nothing happens.
LEMMA StutterStep == IInv /\ UNCHANGED vars => IInv'
<1>. SUFFICES ASSUME IInv, UNCHANGED vars PROVE IInv'
  OBVIOUS
<1>1. TypeOK' /\ AsksOK' /\ LinesOK' /\ ServingOK' /\ LedgerExplainsBalance'
  BY DEF IInv, vars, TypeOK, AsksOK, LinesOK, ServingOK, LedgerExplainsBalance
<1>2. CountOK' /\ AnswersOK'
  BY DEF IInv, vars, CountOK, AnswersOK, Yes
<1>. QED  BY <1>1, <1>2 DEF IInv

\* So every step keeps the invariant.
LEMMA NextIInv == IInv /\ [Next]_vars => IInv'
<1>. SUFFICES ASSUME IInv, [Next]_vars PROVE IInv'
  OBVIOUS
<1>1. ASSUME NEW i \in Call, ClientStep(i) PROVE IInv'
  BY <1>1, BeginStep, RetryStep, SendStep, AnswerStep DEF ClientStep
<1>2. CASE ServerStep
  <2>1. CASE \E i \in Call, n \in Attempt : TxBegin(i, n)
    BY <2>1, TxBeginStep
  <2>2. CASE \E t \in serving : TxCommit(t) \/ TxRollback(t)
    BY <2>2, TxCommitStep, TxRollbackStep
  <2>3. CASE ServerDies
    BY <2>3, ServerDiesStep
  <2>. QED  BY <1>2, <2>1, <2>2, <2>3 DEF ServerStep
<1>3. CASE UNCHANGED vars
  BY <1>3, StutterStep
<1>. QED  BY <1>1, <1>2, <1>3 DEF Next

\* The inductive invariant holds in every behaviour.
THEOREM Invariance == Spec => []IInv
<1>1. Init => IInv
  BY InitIInv
<1>2. IInv /\ [Next]_vars => IInv'
  BY NextIInv
<1>. QED  BY <1>1, <1>2, PTL DEF Spec

\* Every variable keeps its type, however many attempts a call may make.
THEOREM TypeCorrect == Spec => []TypeOK
<1>1. IInv => TypeOK
  BY DEF IInv
<1>. QED  BY <1>1, Invariance, PTL

\* The ledger accounts for every coin of every wallet that has made no transfer
\* to itself.
THEOREM BooksBalance == Spec => []LedgerExplainsBalance
<1>1. IInv => LedgerExplainsBalance
  BY DEF IInv
<1>. QED  BY <1>1, Invariance, PTL

\* Only COMMIT writes to a wallet, and what it writes is below zero for no other
\* reason than a negative amount.
LEMMA NextOverdraws ==
  ASSUME IInv, [Next]_vars, NEW p \in Player, balance'[p] < 0, balance'[p] < balance[p]
  PROVE  \E t \in serving \ serving' :
           call[t.call].req.action # "deduct" /\ call[t.call].req.amount < 0
<1>1. balance[p] \in Int
  BY DEF IInv, TypeOK
<1>2. balance' # balance
  BY <1>1
<1>3. PICK t \in serving : TxCommit(t)
  <2>1. \A i \in Call : ClientStep(i) => balance' = balance
    BY DEF ClientStep, Begin, Unresolved, Refused, Send, Receive, GiveUp, Garbled
  <2>2. ServerStep => balance' = balance \/ \E t \in serving : TxCommit(t)
    BY DEF ServerStep, TxBegin, TxRollback, ServerDies
  <2>. QED  BY <1>2, <2>1, <2>2 DEF Next, vars
<1>. DEFINE r == call[t.call].req
<1>4. /\ r \in Request /\ t.seen = balance /\ balance \in [Player -> Int]
      /\ serving' = {} /\ Permitted(r, balance)
      /\ balance'[p] = IF p \in Touched(r) THEN After(r, balance, p) ELSE balance[p]
  BY <1>3, ServedLine DEF TxCommit, Write, IInv, TypeOK
<1>. HIDE DEF r
<1>5. p \in Touched(r) /\ balance'[p] = After(r, balance, p)
  BY <1>1, <1>4
<1>6. r.action # "deduct" /\ r.amount < 0
  BY <1>4, <1>5, AfterInt
<1>. QED  BY <1>4, <1>6 DEF r

\* A deduct never overdraws a wallet, nor does a transfer its sender: below zero
\* lead negative amounts only.
THEOREM OverdraftsAreAskedFor == Spec => OverdrawnOnlyByNegativeAmounts
<1>1. IInv /\ [Next]_vars =>
        [\A p \in Player :
           balance'[p] < 0 /\ balance'[p] < balance[p] =>
             \E t \in serving \ serving' :
               call[t.call].req.action # "deduct" /\ call[t.call].req.amount < 0]_vars
  BY NextOverdraws
<1>. QED  BY <1>1, Invariance, PTL DEF Spec, OverdrawnOnlyByNegativeAmounts

\* The lines count the executions: none for a call that was not told True.
LEMMA DoneWithinAttempts == IInv => TrueWasDone
<1>1. ASSUME IInv, NEW i \in Call
      PROVE  /\ call[i].step = "true" => done[i] >= 1
             /\ done[i] <= call[i].attempt
  <2>. DEFINE a == call[i].attempt
  <2>. USE <1>1 DEF IInv
  <2>1. a \in Nat /\ a \in Attempt
    BY AttemptNat
  <2>2. done[i] = Cardinality(Yes(i)) /\ IsFiniteSet(Yes(i)) /\ Cardinality(Yes(i)) \in Nat
    BY YesFinite DEF CountOK
  <2>3. Yes(i) \subseteq 1 .. a
    BY <2>1, RetryAssumption DEF LinesOK, Yes, Attempt
  <2>4. IsFiniteSet(1 .. a) /\ Cardinality(1 .. a) = a
    <3>1. /\ IsFiniteSet(1 .. a)
          /\ Cardinality(1 .. a) = IF 1 > a THEN 0 ELSE a - 1 + 1
      BY <2>1, FS_Interval
    <3>. QED  BY <2>1, <3>1, RetryAssumption DEF Attempt
  <2>5. Cardinality(Yes(i)) <= a
    BY <2>3, <2>4, FS_Subset
  <2>6. call[i].step = "true" => Cardinality(Yes(i)) # 0
    BY <2>2, FS_EmptySet DEF AnswersOK
  <2>. QED  BY <2>2, <2>5, <2>6
<1>. QED  BY <1>1 DEF TrueWasDone

\* The same of the next state.
LEMMA DoneWithinAttemptsNext == IInv' => TrueWasDone'
BY DoneWithinAttempts, PTL

\* True is told only of requests that were executed, at most once per attempt.
THEOREM TrueMeansDone == Spec => []TrueWasDone
BY DoneWithinAttempts, Invariance, PTL

\* A call none of whose answers was lost is executed once if it returns True and
\* not at all if it returns False.
THEOREM ExactlyOnce == Spec => []ExactlyOnceUnlessLost
<1>1. ASSUME IInv, NEW i \in Call, ~missed[i]
      PROVE  /\ call[i].step = "true" => done[i] = 1
             /\ call[i].step = "false" => done[i] = 0
             /\ done[i] <= 1
  <2>. DEFINE a == call[i].attempt
  <2>. USE <1>1 DEF IInv
  <2>1. done[i] = Cardinality(Yes(i)) /\ a \in Attempt
    BY AttemptNat DEF CountOK
  <2>2. Yes(i) \subseteq {a}
    BY DEF AnswersOK, Yes
  <2>3. Cardinality({}) = 0 /\ Cardinality({a}) = 1
    BY FS_EmptySet, FS_Singleton
  <2>4. Yes(i) = {} \/ Yes(i) = {a}
    BY <2>2
  <2>5. call[i].step = "true" => Yes(i) # {}
    BY DEF AnswersOK
  <2>6. call[i].step = "false" => a \notin Yes(i)
    BY <2>1 DEF AnswersOK, Yes
  <2>. QED  BY <2>1, <2>3, <2>4, <2>5, <2>6
<1>2. IInv => ExactlyOnceUnlessLost
  BY <1>1 DEF ExactlyOnceUnlessLost
<1>. QED  BY <1>2, Invariance, PTL

----------------------------------------------------------------------------
\* The bridge implements Wallets.

\* How the variables of Wallets are read off those of the bridge.
Asked == [i \in Call |-> call[i].req]
Told  == [i \in Call |-> IF call[i].step \in {"true", "false"} THEN call[i].step ELSE "none"]

\* A transaction that commits does to the wallets what its request says.
LEMMA WriteIsEffect ==
  ASSUME IInv, NEW t \in serving, TxCommit(t)
  PROVE  balance' = Promise!Effect(call[t.call].req, balance)
<1>. DEFINE r == call[t.call].req
<1>1. r \in Request /\ t.seen = balance
  BY ServedLine
<1>2. /\ r.action \in {"deduct", "credit", "set", "transfer"}
      /\ r.player \in Player /\ r.to \in Player /\ r.amount \in Int
  BY <1>1, RequestAssumption
<1>3. balance' = [p \in Player |-> IF p \in Touched(r) THEN After(r, balance, p) ELSE balance[p]]
  BY <1>1 DEF TxCommit, Write
<1>4. balance \in [Player -> Int] /\ balance[r.player] \in Int /\ balance[r.to] \in Int
  BY <1>2 DEF IInv, TypeOK
<1>4a. DOMAIN balance = Player /\ balance = [p \in Player |-> balance[p]]
  BY <1>4
<1>. HIDE DEF r
<1>5. CASE r.action = "deduct"
  <2>. DEFINE x == balance[r.player] - r.amount
  <2>1. \A p \in Player : p \in Touched(r) <=> p = r.player
    BY <1>2, <1>5 DEF Touched
  <2>2. After(r, balance, r.player) = x
    BY <1>5 DEF After
  <2>. HIDE DEF x
  <2>3. balance' = [balance EXCEPT ![r.player] = x]
    BY <1>2, <1>3, <1>4a, <2>1, <2>2
  <2>. QED  BY <1>5, <2>3 DEF Promise!Effect, r, x
<1>6. CASE r.action = "credit"
  <2>. DEFINE x == balance[r.player] + r.amount
  <2>1. \A p \in Player : p \in Touched(r) <=> p = r.player
    BY <1>2, <1>6 DEF Touched
  <2>2. After(r, balance, r.player) = x
    BY <1>6 DEF After
  <2>. HIDE DEF x
  <2>3. balance' = [balance EXCEPT ![r.player] = x]
    BY <1>2, <1>3, <1>4a, <2>1, <2>2
  <2>. QED  BY <1>6, <2>3 DEF Promise!Effect, r, x
<1>7. CASE r.action = "set"
  <2>1. \A p \in Player : p \in Touched(r) <=> p = r.player
    BY <1>2, <1>7 DEF Touched
  <2>2. After(r, balance, r.player) = r.amount
    BY <1>7 DEF After
  <2>3. balance' = [balance EXCEPT ![r.player] = r.amount]
    BY <1>2, <1>3, <1>4, <2>1, <2>2
  <2>. QED  BY <1>7, <2>3 DEF Promise!Effect, r
<1>8. CASE r.action = "transfer"
  <2>. DEFINE x == balance[r.player] - r.amount
              y == balance[r.to] + r.amount
  <2>1. \A p \in Player : p \in Touched(r) <=> p = r.player \/ p = r.to
    BY <1>2, <1>8 DEF Touched
  <2>2. \A p \in {r.player, r.to} : After(r, balance, p) = IF p = r.to THEN y ELSE x
    BY <1>8, <2>1 DEF After
  <2>. HIDE DEF x, y
  <2>3. balance' = [balance EXCEPT ![r.player] = x, ![r.to] = y]
    BY <1>2, <1>3, <1>4a, <2>1, <2>2
  <2>4. balance' = [balance EXCEPT ![r.player] = @ - r.amount, ![r.to] = balance[r.to] + r.amount]
    BY <1>2, <1>4a, <2>1, <2>3 DEF x, y
  <2>. QED  BY <1>8, <2>4 DEF Promise!Effect, r
<1>. QED  BY <1>2, <1>5, <1>6, <1>7, <1>8

\* A COMMIT is an execution: the request was permitted and had an attempt left.
LEMMA CommitExecutes ==
  ASSUME IInv, IInv', NEW t \in serving, TxCommit(t)
  PROVE  Promise!Execute(t.call)
<1>. DEFINE i == t.call
<1>1. i \in Call /\ call[i].req \in Request
  BY ServedLine
<1>2. balance' = Promise!Effect(Asked[i], balance)
  BY <1>1, WriteIsEffect DEF Asked
<1>3. Promise!Covered(Asked[i], balance)
  BY <1>1, ServedLine DEF TxCommit, Permitted, Promise!Covered, Asked
<1>4. done' = [done EXCEPT ![i] = @ + 1] /\ call' = call
  BY DEF TxCommit
<1>5. done[i] < RetryCount
  <2>1. done[i] \in Nat /\ done'[i] = done[i] + 1 /\ call[i].attempt \in Nat
    BY <1>1, <1>4, AttemptNat DEF IInv, TypeOK
  <2>2. done'[i] <= call'[i].attempt
    BY <1>1, DoneWithinAttemptsNext DEF TrueWasDone
  <2>3. call[i].attempt <= RetryCount
    BY <1>1, AttemptNat, RetryAssumption DEF IInv, Attempt
  <2>. QED  BY <1>4, <2>1, <2>2, <2>3, RetryAssumption
<1>6. Asked' = Asked /\ Told' = Told /\ Asked[i] \in Request
  BY <1>1, <1>4 DEF Asked, Told
<1>. QED  BY <1>2, <1>3, <1>4, <1>5, <1>6 DEF Promise!Execute, Asked, Told

\* Every step of the bridge is a step of Wallets or changes nothing there.
LEMMA StepRefines ==
  IInv /\ IInv' /\ [Next]_vars => [Promise!Next]_(Promise!vars)
<1>. SUFFICES ASSUME IInv, IInv', [Next]_vars PROVE [Promise!Next]_(Promise!vars)
  OBVIOUS
<1>1. ASSUME UNCHANGED <<balance, done>>, Asked' = Asked, Told' = Told
      PROVE  UNCHANGED Promise!vars
  BY <1>1 DEF Promise!vars, Asked, Told
<1>2. ASSUME call' = call, UNCHANGED <<balance, done>> PROVE UNCHANGED Promise!vars
  BY <1>1, <1>2 DEF Asked, Told
<1>3. ASSUME NEW i \in Call, Begin(i) PROVE Promise!Ask(i)
  <2>1. PICK r \in Request : call' = [call EXCEPT ![i].step = "ready", ![i].req = r]
    BY <1>3 DEF Begin
  <2>2. /\ call[i].step = "new" /\ UNCHANGED <<balance, done>>
        /\ \A j \in Call : /\ call'[j].req = IF j = i THEN r ELSE call[j].req
                           /\ call'[j].step = IF j = i THEN "ready" ELSE call[j].step
    BY <1>3, <2>1 DEF Begin, IInv, TypeOK
  <2>3. call[i].req = None
    BY <2>2 DEF IInv, AsksOK
  <2>4. Asked[i] = None /\ Told[i] = "none" /\ Told' = Told /\ Asked' = [Asked EXCEPT ![i] = r]
    BY <2>2, <2>3 DEF Asked, Told
  <2>. QED  BY <2>2, <2>4 DEF Promise!Ask, Asked, Told
<1>4. ASSUME NEW i \in Call, Retry(i), call[i].step \in {"ready", "waiting"},
             UNCHANGED <<balance, done>>
      PROVE  Promise!Answer(i) \/ UNCHANGED Promise!vars
  <2>1. /\ \A j \in Call : call'[j].req = call[j].req
        /\ \A j \in Call : j # i => call'[j] = call[j]
        /\ call'[i].step \in {"ready", "false"}
    BY <1>4, RetryTypes DEF IInv
  <2>2. Asked' = Asked /\ Told[i] = "none"
    BY <1>4, <2>1 DEF Asked, Told
  <2>3. CASE call'[i].step = "ready"
    <3>1. Told' = Told
      BY <1>4, <2>1, <2>3 DEF Told
    <3>. QED  BY <1>1, <1>4, <2>2, <3>1
  <2>4. CASE call'[i].step = "false"
    <3>1. Told' = [Told EXCEPT ![i] = "false"]
      BY <1>4, <2>1, <2>4 DEF Told
    <3>. QED  BY <1>4, <2>2, <3>1 DEF Promise!Answer, Asked, Told
  <2>. QED  BY <2>1, <2>3, <2>4
<1>5. ASSUME NEW i \in Call, NEW s \in {"waiting", "true", "false"}, Goto(i, s),
             call[i].step \in {"new", "ready", "waiting"}, UNCHANGED <<balance, done>>
      PROVE  Promise!Answer(i) \/ UNCHANGED Promise!vars
  <2>1. /\ \A j \in Call : call'[j].req = call[j].req
        /\ \A j \in Call : j # i => call'[j] = call[j]
        /\ call'[i].step = s
    BY <1>5, GotoTypes DEF IInv, Step
  <2>2. Asked' = Asked /\ Told[i] = "none"
    BY <1>5, <2>1 DEF Asked, Told
  <2>3. CASE s = "waiting"
    <3>1. Told' = Told
      BY <1>5, <2>1, <2>3 DEF Told
    <3>. QED  BY <1>1, <1>5, <2>2, <3>1
  <2>4. CASE s \in {"true", "false"}
    <3>1. Told' = [Told EXCEPT ![i] = s]
      BY <1>5, <2>1, <2>4 DEF Told
    <3>2. s = "true" => done[i] > 0
      <4>1. s = "true" => done'[i] >= 1
        BY <2>1, DoneWithinAttemptsNext DEF TrueWasDone
      <4>2. done'[i] = done[i] /\ done[i] \in Nat
        BY <1>5 DEF IInv, TypeOK
      <4>. QED  BY <4>1, <4>2
    <3>. QED  BY <1>5, <2>2, <2>4, <3>1, <3>2 DEF Promise!Answer, Asked, Told
  <2>. QED  BY <2>3, <2>4
<1>6. ASSUME NEW i \in Call, ClientStep(i)
      PROVE  Promise!Next \/ UNCHANGED Promise!vars
  <2>1. CASE Begin(i)
    BY <1>3, <2>1 DEF Promise!Next
  <2>2. CASE Unresolved(i)
    BY <1>5, <2>2 DEF Unresolved, Promise!Next
  <2>3. CASE Refused(i)
    BY <1>4, <2>3 DEF Refused, Promise!Next
  <2>4. CASE Send(i)
    BY <1>5, <2>4 DEF Send, Promise!Next
  <2>5. CASE Receive(i)
    BY <1>5, <2>5 DEF Receive, Promise!Next
  <2>6. CASE GiveUp(i)
    BY <1>4, <2>6 DEF GiveUp, Promise!Next
  <2>7. CASE Garbled(i)
    BY <1>5, <2>7 DEF Garbled, Promise!Next
  <2>. QED  BY <1>6, <2>1, <2>2, <2>3, <2>4, <2>5, <2>6, <2>7 DEF ClientStep
<1>7. ASSUME ServerStep PROVE Promise!Next \/ UNCHANGED Promise!vars
  <2>1. ASSUME NEW t \in serving, TxCommit(t) PROVE Promise!Next
    BY <2>1, CommitExecutes, ServedLine DEF Promise!Next
  <2>2. ASSUME ~(\E t \in serving : TxCommit(t)) PROVE call' = call /\ UNCHANGED <<balance, done>>
    BY <1>7, <2>2 DEF ServerStep, TxBegin, TxRollback, ServerDies
  <2>. QED  BY <1>2, <2>1, <2>2
<1>8. CASE UNCHANGED vars
  BY <1>2, <1>8 DEF vars
<1>. QED  BY <1>6, <1>7, <1>8 DEF Next

\* The bridge keeps its promise: whatever is lost, late or repeated, it behaves
\* as wallets that execute one whole request at a time.
THEOREM BridgeImplementsWallets == Spec => KeepsPromise
<1>1. Init => Promise!Init
  BY DEF Init, Promise!Init
<1>. QED  BY <1>1, StepRefines, Invariance, PTL DEF Spec, KeepsPromise, Promise!Spec
=============================================================================
