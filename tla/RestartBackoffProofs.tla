------------------------ MODULE RestartBackoffProofs ------------------------
(***************************************************************************)
(* Proofs about RestartBackoff: its type invariant, and that the delays    *)
(* alone keep a script from being restarted a fifth time within ten        *)
(* seconds, whatever its policy, the commands and the luck of its launches.*)
(***************************************************************************)
EXTENDS RestartBackoff, TLAPS

-----------------------------------------------------------------------------
(* The delays *)

\* The doubling delays in half seconds: the fifth is the last one that a run
\* which is not stable can wait for, the sixth is longer than a stable run.
LEMMA Delays ==
  /\ Delay(0) = 1 /\ Delay(1) = 2 /\ Delay(2) = 4
  /\ Delay(3) = 8 /\ Delay(4) = 16 /\ Delay(5) = 32
PROOF
  <1>1. /\ 2^0 = 1 /\ 2^1 = 2 /\ 2^2 = 4 /\ 2^3 = 8 /\ 2^4 = 16 /\ 2^5 = 32
    OBVIOUS
  <1> QED
    BY <1>1 DEF Delay, Cap

\* A delay is a number of half seconds.
LEMMA DelayType == \A n \in 0 .. 5 : Delay(n) \in 1 .. 32
PROOF
  <1>1. \A n \in 0 .. 5 : n = 0 \/ n = 1 \/ n = 2 \/ n = 3 \/ n = 4 \/ n = 5
    OBVIOUS
  <1> QED
    BY <1>1, Delays

-----------------------------------------------------------------------------
(* The inductive invariant *)

\* While the latest restart is recent, it is what last_start stands for.
LatestIsLogged == restarts[1] <= Stable => since = restarts[1] /\ count >= 1

\* A recent restart that is not the latest has been followed by a wait for the
\* delay of its turn, and every restart since was counted.
Spaced ==
  \A i \in 2 .. 5 :
    restarts[i] <= Stable =>
      /\ count >= i
      /\ restarts[i] >= restarts[i - 1] + Delay(count - i + 1)

BackoffInv == TypeOK /\ LatestIsLogged /\ Spaced

-----------------------------------------------------------------------------
(* Initiation, and what the history does *)

\* No restart has been made when the engine starts.
LEMMA InitBackoff == Init => BackoffInv
PROOF
  BY DEF Init, BackoffInv, TypeOK, LatestIsLogged, Spaced, Forgotten, Old, Stable, Far, Cap

\* What becomes of the history is a history.
LEMMA HistoryTypes ==
  ASSUME TypeOK
  PROVE  /\ Forgotten \in [1 .. 5 -> 0 .. Old]
         /\ Restarted \in [1 .. 5 -> 0 .. Old]
         /\ Aged \in [1 .. 5 -> 0 .. Old]
PROOF
  BY DEF TypeOK, Forgotten, Restarted, Aged, Old, Stable

\* Steps that leave the log entry alone, and steps that forget the history.
LEMMA KeepsLog ==
  ASSUME BackoffInv, TypeOK', UNCHANGED <<count, since, restarts>>
  PROVE  BackoffInv'
PROOF
  BY DEF BackoffInv, LatestIsLogged, Spaced

\* Commands and clean shutdowns forget it altogether.
LEMMA Forgets ==
  ASSUME BackoffInv, TypeOK', restarts' = Forgotten
  PROVE  BackoffInv'
PROOF
  BY DEF BackoffInv, LatestIsLogged, Spaced, Forgotten, Old, Stable

\* The heart of the argument. A restart after an age of at most ten seconds has
\* waited for the delay of the count, and counts on. One after a longer age may
\* start counting anew: by then the history holds nothing recent.
LEMMA RestartKeeps ==
  ASSUME BackoffInv, Restart, UNCHANGED policy
  PROVE  BackoffInv'
PROOF
  <1> DEFINE n == IF since > Stable THEN 0 ELSE count
  <1>1. /\ since >= Delay(n) /\ count' = n + 1 /\ since' = 0
        /\ restarts' = Restarted /\ Launch
    BY DEF Restart
  <1>2. TypeOK
    BY DEF BackoffInv
  <1>3. n \in 0 .. 4
    <2>1. CASE since > Stable
      BY <2>1
    <2>2. CASE ~(since > Stable)
      <3>1. n = count /\ count \in 0 .. 5
        BY <2>2, <1>2 DEF TypeOK
      <3>2. count # 5
        BY <3>1, <2>2, <1>1, <1>2, Delays DEF TypeOK, Stable
      <3> QED
        BY <3>1, <3>2
    <2> QED
      BY <2>1, <2>2
  <1>4. TypeOK'
    BY <1>1, <1>2, <1>3, HistoryTypes DEF TypeOK, Launch, Far, Cap
  <1>5. LatestIsLogged'
    BY <1>1, <1>3 DEF LatestIsLogged, Restarted, Stable
  <1>6. Spaced'
    <2> SUFFICES ASSUME NEW i \in 2 .. 5, restarts'[i] <= Stable
                 PROVE  /\ count' >= i
                        /\ restarts'[i] >= restarts'[i - 1] + Delay(count' - i + 1)
      BY DEF Spaced
    <2>1. restarts'[i] = restarts[i - 1] /\ restarts[i - 1] <= Stable
      BY <1>1 DEF Restarted
    <2>2. CASE i = 2
      <3>1. since = restarts[1] /\ count >= 1 /\ since <= Stable
        BY <2>1, <2>2 DEF BackoffInv, LatestIsLogged
      <3>2. n = count /\ restarts'[1] = 0
        BY <3>1, <1>1, <1>2 DEF Restarted, TypeOK, Stable
      <3>3. count' - 2 + 1 = n
        BY <1>1, <1>3
      <3>4. Delay(n) \in 1 .. 32 /\ since \in Int
        BY <1>2, <1>3, DelayType DEF TypeOK
      <3> QED
        BY <1>1, <1>2, <2>1, <2>2, <3>1, <3>2, <3>3, <3>4 DEF TypeOK
    <2>3. CASE i # 2
      <3> DEFINE j == i - 1
      <3>1. j \in 2 .. 5 /\ restarts[j] <= Stable /\ j = i - 1
        BY <2>1, <2>3
      <3>2. count >= j /\ restarts[j] >= restarts[j - 1] + Delay(count - j + 1)
        BY <3>1 DEF BackoffInv, Spaced
      <3>3. since <= Stable
        <4>1. \A k \in 2 .. 5 : restarts[k] <= Stable => restarts[k - 1] <= Stable
          <5> SUFFICES ASSUME NEW k \in 2 .. 5, restarts[k] <= Stable
                       PROVE  restarts[k - 1] <= Stable
            OBVIOUS
          <5>1. count >= k /\ restarts[k] >= restarts[k - 1] + Delay(count - k + 1)
            BY DEF BackoffInv, Spaced
          <5>2. count - k + 1 \in 0 .. 5
            BY <5>1, <1>2 DEF TypeOK
          <5> QED
            BY <5>1, <5>2, <1>2, DelayType DEF TypeOK, Stable
        <4>2. restarts[1] <= Stable
          BY <3>1, <4>1
        <4> QED
          BY <4>2 DEF BackoffInv, LatestIsLogged
      <3>4. n = count /\ restarts'[i - 1] = restarts[j - 1]
        BY <3>1, <3>3, <1>1, <1>2, <2>3 DEF Restarted, TypeOK, Stable
      <3>5. count' - i + 1 = count - j + 1 /\ count' >= i
        BY <3>1, <3>2, <3>4, <1>1, <1>2 DEF TypeOK
      <3> QED
        BY <2>1, <3>1, <3>2, <3>4, <3>5
    <2> QED
      BY <2>2, <2>3
  <1> QED
    BY <1>4, <1>5, <1>6 DEF BackoffInv

\* Time makes every recent restart older by the same amount.
LEMMA TickKeeps ==
  ASSUME BackoffInv, Tick
  PROVE  BackoffInv'
PROOF
  <1>1. TypeOK /\ TypeOK'
    BY HistoryTypes DEF BackoffInv, Tick, TypeOK, Older, Far, Cap
  <1>2. LatestIsLogged'
    BY <1>1 DEF BackoffInv, LatestIsLogged, Tick, Aged, Older, TypeOK, Old, Stable, Far, Cap
  <1>3. Spaced'
    <2> SUFFICES ASSUME NEW i \in 2 .. 5, restarts'[i] <= Stable
                 PROVE  /\ count' >= i
                        /\ restarts'[i] >= restarts'[i - 1] + Delay(count' - i + 1)
      BY DEF Spaced
    <2>1. count' = count /\ restarts' = Aged
      BY DEF Tick
    <2>2. restarts'[i] = restarts[i] + 1 /\ restarts[i] <= Stable
      BY <1>1, <2>1 DEF Aged, TypeOK, Old, Stable
    <2>3. count >= i /\ restarts[i] >= restarts[i - 1] + Delay(count - i + 1)
      BY <2>2 DEF BackoffInv, Spaced
    <2>4. restarts'[i - 1] <= restarts[i - 1] + 1
      BY <1>1, <2>1 DEF Aged, TypeOK, Old, Stable
    <2>5. Delay(count - i + 1) \in 1 .. 32
      <3>1. count - i + 1 \in 0 .. 5
        BY <1>1, <2>3 DEF TypeOK
      <3> QED
        BY <3>1, DelayType
    <2>6. restarts'[i - 1] \in Int /\ restarts[i - 1] \in Int /\ restarts[i] \in Int
      BY <1>1 DEF TypeOK
    <2> QED
      BY <2>1, <2>2, <2>3, <2>4, <2>5, <2>6
  <1> QED
    BY <1>1, <1>2, <1>3 DEF BackoffInv

-----------------------------------------------------------------------------
(* Consecution, by action *)

\* One step per action; only Restart needs more than the ages moving on.
LEMMA StepKeeps == BackoffInv /\ [Next]_vars => BackoffInv'
PROOF
  <1> SUFFICES ASSUME BackoffInv, [Next]_vars
               PROVE  BackoffInv'
    OBVIOUS
  <1> USE HistoryTypes
  <1>0. TypeOK
    BY DEF BackoffInv
  <1>1. CASE CrashCycle
    <2>1. CASE policy # "never" /\ Restart
      BY <1>1, <2>1, RestartKeeps DEF CrashCycle
    <2>2. CASE policy # "never" /\ Wait
      <3>1. TypeOK' /\ UNCHANGED <<count, since, restarts>>
        BY <1>0, <1>1, <2>2 DEF CrashCycle, Wait, TypeOK
      <3> QED
        BY <3>1, KeepsLog
    <2>3. CASE policy = "never"
      <3>1. TypeOK' /\ UNCHANGED <<count, since, restarts>>
        BY <1>0, <1>1, <2>3 DEF CrashCycle, TypeOK
      <3> QED
        BY <3>1, KeepsLog
    <2> QED
      BY <1>1, <2>1, <2>2, <2>3 DEF CrashCycle
  <1>2. CASE CleanCycle
    <2>1. TypeOK' /\ restarts' = Forgotten
      BY <1>0, <1>2 DEF CleanCycle, TypeOK, Far, Cap
    <2> QED
      BY <2>1, Forgets
  <1>3. CASE StartCommand
    <2>1. TypeOK' /\ restarts' = Forgotten
      BY <1>0, <1>3 DEF StartCommand, Launch, TypeOK, Far, Cap
    <2> QED
      BY <2>1, Forgets
  <1>4. CASE StopCommand
    <2>1. TypeOK' /\ restarts' = Forgotten
      BY <1>0, <1>4 DEF StopCommand, TypeOK, Far, Cap
    <2> QED
      BY <2>1, Forgets
  <1>5. CASE ProcessDies
    <2>1. TypeOK' /\ UNCHANGED <<count, since, restarts>>
      BY <1>0, <1>5 DEF ProcessDies, TypeOK
    <2> QED
      BY <2>1, KeepsLog
  <1>6. CASE MarkerSeen
    <2>1. TypeOK' /\ UNCHANGED <<count, since, restarts>>
      BY <1>0, <1>6 DEF MarkerSeen, TypeOK
    <2> QED
      BY <2>1, KeepsLog
  <1>7. CASE Tick
    BY <1>7, TickKeeps
  <1>8. CASE UNCHANGED vars
    <2>1. TypeOK' /\ UNCHANGED <<count, since, restarts>>
      BY <1>0, <1>8 DEF vars, TypeOK
    <2> QED
      BY <2>1, KeepsLog
  <1> QED
    BY <1>1, <1>2, <1>3, <1>4, <1>5, <1>6, <1>7, <1>8 DEF Next

\* Five recent restarts would need delays that add up to more than ten seconds:
\* with a count of five the first two waits are already 12 seconds.
LEMMA NoFifth == BackoffInv => NoRestartStorm
PROOF
  <1> SUFFICES ASSUME BackoffInv, restarts[5] <= Stable
               PROVE  FALSE
    BY DEF BackoffInv, TypeOK, NoRestartStorm, Old, Stable
  <1>1. TypeOK
    BY DEF BackoffInv
  <1>2. count = 5 /\ restarts[5] >= restarts[4] + Delay(1)
    BY <1>1 DEF BackoffInv, Spaced, TypeOK
  <1>3. restarts[4] <= Stable
    BY <1>1, <1>2, Delays DEF TypeOK, Stable
  <1>4. restarts[4] >= restarts[3] + Delay(2)
    BY <1>2, <1>3 DEF BackoffInv, Spaced
  <1>5. restarts[3] <= Stable
    BY <1>1, <1>3, <1>4, Delays DEF TypeOK, Stable
  <1>6. restarts[3] >= restarts[2] + Delay(3)
    BY <1>2, <1>5 DEF BackoffInv, Spaced
  <1>7. restarts[2] <= Stable
    BY <1>1, <1>5, <1>6, Delays DEF TypeOK, Stable
  <1>8. restarts[2] >= restarts[1] + Delay(4)
    BY <1>2, <1>7 DEF BackoffInv, Spaced
  <1> QED
    BY <1>1, <1>4, <1>5, <1>6, <1>8, Delays DEF TypeOK, Stable

-----------------------------------------------------------------------------
(* Theorems *)

\* The invariant holds in every behaviour.
LEMMA Invariance == Spec => []BackoffInv
PROOF
  BY InitBackoff, StepKeeps, PTL DEF Spec

\* Every variable keeps its type; the count of a log entry never passes five.
THEOREM TypeCorrect == Spec => []TypeOK
PROOF
  <1>1. BackoffInv => TypeOK
    BY DEF BackoffInv
  <1> QED
    BY <1>1, Invariance, PTL

\* Between two commands the engine itself restarts a script at most four times
\* within ten seconds, for every set of policies.
THEOREM StormsAreBounded == Spec => []NoRestartStorm
PROOF
  BY Invariance, NoFifth, PTL

\* What the code does give of "resets to zero if the last run lasted more than ten
\* seconds": the count falls, or stays, at a restart only when more than ten
\* seconds have passed since the restart before (process_wrapper.py:265-267).
CountsOn == [][ since' = 0 /\ since > 0 /\ count' <= count => since > Stable ]_vars

\* The part of that docstring which holds, whatever the policy: a count is reset by
\* a long age, never by a short one.
THEOREM RestartsAreCounted == Spec => CountsOn
PROOF
  <1>1. BackoffInv /\ [Next]_vars
          => [since' = 0 /\ since > 0 /\ count' <= count => since > Stable]_vars
    <2> SUFFICES ASSUME BackoffInv, Next, since' = 0, since > 0, count' <= count
                 PROVE  since > Stable
      OBVIOUS
    <2>1. TypeOK
      BY DEF BackoffInv
    <2>2. CASE CrashCycle
      BY <2>1, <2>2 DEF CrashCycle, Restart, Wait, TypeOK, Stable
    <2>3. CASE Tick
      BY <2>1, <2>3 DEF Tick, Older, TypeOK, Far, Cap
    <2>4. CASE CleanCycle \/ StopCommand
      BY <2>1, <2>4 DEF CleanCycle, StopCommand, TypeOK, Far, Cap
    <2>5. CASE StartCommand \/ ProcessDies \/ MarkerSeen
      BY <2>1, <2>5 DEF StartCommand, ProcessDies, MarkerSeen, TypeOK
    <2> QED
      BY <2>2, <2>3, <2>4, <2>5 DEF Next
  <1> QED
    BY <1>1, Invariance, PTL DEF Spec, CountsOn
=============================================================================
