--------------------------- MODULE RestartBackoff ---------------------------
(***************************************************************************)
(* The restart backoff of engine/process_wrapper.py (_restart_backoff and  *)
(* the part of apply_restart_policy around it), for one script. Time is    *)
(* counted in half seconds, the smallest delay.                            *)
(*                                                                         *)
(* The log entry of a script keeps last_start and last_restart; they are   *)
(* always written together (lines 280-281), so one age, "since", stands    *)
(* for both. last_run_duration is overwritten with that age right before   *)
(* it is read (lines 320-322) and needs no variable. Ages stop at Far:     *)
(* nothing distinguishes longer ones.                                      *)
(***************************************************************************)
EXTENDS Integers

CONSTANT Policies   \* the restart policies a script may have

ASSUME PoliciesAssumption == Policies \subseteq {"never", "on-failure", "always"}

Stable == 20      \* a run of more than 10 seconds is stable
Cap    == 60      \* the longest delay, 30 seconds
Far    == Cap + 1 \* an age longer than every constant of the code
Old    == Stable + 1 \* a restart of this age or more is long ago

VARIABLES
  policy,   \* restart_policy of the script, which never changes
  record,   \* status of the process record in running, "absent" without one
  proc,     \* the process: "up", "dead", or "marked" once its marker was seen
  count,    \* "count" of the log entry of the script, 0 without an entry
  since,    \* age of last_start and last_restart, Far without an entry
  ran,      \* history: how long the last process has run
  restarts  \* history: ages of the last five automatic restarts, the latest
            \* first, Old for those before the last command or clean shutdown

vars == <<policy, record, proc, count, since, ran, restarts>>

-----------------------------------------------------------------------------
Older(age) == IF age < Far THEN age + 1 ELSE Far

Forgotten == [i \in 1 .. 5 |-> Old]

\* The restarts once there is a new one, and half a second later
Restarted == [i \in 1 .. 5 |-> IF i = 1 THEN 0 ELSE restarts[i - 1]]
Aged      == [i \in 1 .. 5 |-> IF restarts[i] < Old THEN restarts[i] + 1 ELSE Old]

\* delay = min(0.5 * 2 ** count, 30)
Delay(n) == IF 2 ^ n < Cap THEN 2 ^ n ELSE Cap

\* A new process, or none when the launch fails.
Launch ==
  \/ record' = "running" /\ proc' = "up" /\ ran' = 0
  \/ record' = "crashed" /\ proc' = "dead" /\ UNCHANGED ran

Init ==
  /\ policy \in Policies
  /\ \/ record = "running" /\ proc = "up"
     \/ record = "crashed" /\ proc = "dead"
  /\ count = 0 /\ since = Far /\ ran = 0 /\ restarts = Forgotten

\* Mutant: a stable run does not reset the count.
RestartNoReset ==
  /\ since >= Delay(count)
  /\ count' = count + 1
  /\ since' = 0
  /\ restarts' = Restarted
  /\ Launch

\* Mutant: the delay is not waited for.
RestartAtOnce ==
  LET n == IF since > Stable THEN 0 ELSE count IN
  /\ count' = n + 1
  /\ since' = 0
  /\ restarts' = Restarted
  /\ Launch

\* _restart_backoff once the delay is over. A long age resets the count first,
\* however short the run was that the age has grown since.
Restart ==
  LET n == IF since > Stable THEN 0 ELSE count IN
  /\ since >= Delay(n)
  /\ count' = n + 1
  /\ since' = 0
  /\ restarts' = Restarted
  /\ Launch

\* Mutant: every cycle stamps last_restart.
WaitStamped ==
  /\ since < Delay(IF since > Stable THEN 0 ELSE count)
  /\ record' = "crashed"
  /\ since' = 0
  /\ UNCHANGED <<proc, count, ran, restarts>>

\* The delay is not over: the record stays crashed until a later cycle.
Wait ==
  /\ since < Delay(IF since > Stable THEN 0 ELSE count)
  /\ record' = "crashed"
  /\ UNCHANGED <<proc, count, since, ran, restarts>>

\* One cycle of monitor_scripts over a record that is crashed, or that turns out
\* to be.
CrashCycle ==
  /\ record = "crashed" \/ (record = "running" /\ proc = "dead")
  /\ UNCHANGED policy
  /\ \/ /\ policy = "never"
        /\ record' = "absent"
        /\ UNCHANGED <<proc, count, since, ran, restarts>>
     \/ policy # "never" /\ (Restart \/ Wait)

\* A cycle that finds the marker kills the process if it still lives and drops
\* the log entry.
CleanCycle ==
  /\ record = "running" /\ proc = "marked"
  /\ record' = "absent" /\ proc' = "dead"
  /\ count' = 0 /\ since' = Far /\ restarts' = Forgotten
  /\ UNCHANGED <<policy, ran>>

\* "start" and "reload": the log entry stays as it is.
StartCommand ==
  /\ Launch
  /\ restarts' = Forgotten
  /\ UNCHANGED <<policy, count, since>>

\* "stop": the record that is left over disappears, or is of no consequence, but
\* a process that ended with exit code 0 takes the log entry with it.
StopCommand ==
  /\ record = "running"
  /\ record' = "absent" /\ proc' = "dead" /\ restarts' = Forgotten
  /\ \/ UNCHANGED <<count, since>>
     \/ count' = 0 /\ since' = Far
  /\ UNCHANGED <<policy, ran>>

ProcessDies ==
  /\ proc = "up"
  /\ proc' = "dead"
  /\ UNCHANGED <<policy, record, count, since, ran, restarts>>

\* The drain thread may see the marker after the process has ended.
MarkerSeen ==
  /\ record = "running" /\ proc # "marked"
  /\ proc' = "marked"
  /\ UNCHANGED <<policy, record, count, since, ran, restarts>>

\* Half a second passes.
Tick ==
  /\ since' = Older(since)
  /\ ran' = IF proc = "dead" THEN ran ELSE Older(ran)
  /\ restarts' = Aged
  /\ UNCHANGED <<policy, record, proc, count>>

Next ==
  \/ CrashCycle \/ CleanCycle \/ StartCommand \/ StopCommand
  \/ ProcessDies \/ MarkerSeen \/ Tick

\* The main loop runs a cycle again and again, and time goes on.
Fairness == WF_vars(CrashCycle) /\ WF_vars(Tick)

Spec     == Init /\ [][Next]_vars
FairSpec == Spec /\ Fairness

-----------------------------------------------------------------------------
TypeOK ==
  /\ policy \in Policies
  /\ record \in {"running", "crashed", "absent"}
  /\ proc \in {"up", "marked", "dead"}
  /\ count \in 0 .. 5
  /\ since \in 0 .. Far
  /\ ran \in 0 .. Far
  /\ restarts \in [1 .. 5 -> 0 .. Old]

\* A script that keeps crashing is started by the engine itself at most four
\* times within ten seconds, however often the main loop looks at it: the delays
\* add up (process_wrapper.py:269-276).
NoRestartStorm == restarts[5] = Old

JustRestarted == restarts[1] = 0

\* A crashed script whose policy asks for it is tried again: waiting never makes
\* the delay start over, and never ends in a record that nobody looks at
\* (process_wrapper.py:272-284, 321-331).
CrashIsRetried ==
  record = "crashed" /\ policy # "never" ~> record # "crashed" \/ JustRestarted

\* "Resets to zero if the script's last run lasted >10 seconds": the count goes
\* on growing after a shorter run (process_wrapper.py:251, 265-267).
ResetsWhenStable ==
  [][ since' = 0 /\ since > 0 /\ count' <= count => ran > Stable ]_vars
=============================================================================
