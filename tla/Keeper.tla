------------------------------- MODULE Keeper -------------------------------
(* What the engine promises about the processes it keeps, without dicts,     *)
(* records, passes or pipes. Each of its two threads keeps at most one live  *)
(* process per script; what the console stopped is started again only on     *)
(* request; and an end in good order leaves nothing of the main thread's.    *)
(*                                                                           *)
(* Nothing is said of processes launched at boot, while both threads write   *)
(* one dict, and nothing of one thread's processes to the other: each may    *)
(* start a script that the other has stopped or is running.                  *)
CONSTANTS Script, Child, Thread, None

VARIABLES
  live,       \* per thread and script: the live processes that the thread launched
  halted,     \* per script: who stopped it last, if nobody has asked for it since
  phase       \* "up" and "closing", then the end, "clean" or "broken"

vars == <<live, halted, phase>>

Init ==
  /\ live   = [t \in Thread |-> [s \in Script |-> {}]]
  /\ halted = [s \in Script |-> None]
  /\ phase  = "up"

\* While the main thread makes its final stops, the other one goes on.
Working(t) == phase = "up" \/ (phase = "closing" /\ t # "main")

Launch(t, s) ==
  /\ live[t][s] = {}
  /\ \E c \in Child :
       /\ \A u \in Thread, r \in Script : c \notin live[u][r]
       /\ live' = [live EXCEPT ![t][s] = {c}]

\* A start or reload that was asked for, or a change of a file; it may fail.
Start(t, s) ==
  /\ Working(t)
  /\ halted' = [halted EXCEPT ![s] = None]
  /\ Launch(t, s) \/ UNCHANGED live
  /\ UNCHANGED phase

\* The main thread starts a script again that has crashed.
Retry(s) ==
  /\ Working("main") /\ halted[s] # "main"
  /\ Launch("main", s)
  /\ UNCHANGED <<halted, phase>>

\* A stop is over when the process is.
Stop(t, s) ==
  /\ Working(t) /\ live[t][s] = {}
  /\ halted' = [halted EXCEPT ![s] = t]
  /\ UNCHANGED <<live, phase>>

\* A process exits or is killed, at any time, also after the engine.
Die(t, s) ==
  /\ \E c \in live[t][s] : live' = [live EXCEPT ![t][s] = @ \ {c}]
  /\ UNCHANGED <<halted, phase>>

Close ==
  /\ phase = "up" /\ phase' = "closing"
  /\ UNCHANGED <<live, halted>>

EndInOrder ==
  /\ phase = "closing" /\ \A s \in Script : live["main"][s] = {}
  /\ phase' = "clean"
  /\ UNCHANGED <<live, halted>>

\* After an interrupt, or an exception in a loop, anything may be left.
Break ==
  /\ phase \in {"up", "closing"} /\ phase' = "broken"
  /\ UNCHANGED <<live, halted>>

Next ==
  \/ \E t \in Thread, s \in Script : Start(t, s) \/ Stop(t, s) \/ Die(t, s)
  \/ \E s \in Script : Retry(s)
  \/ Close \/ EndInOrder \/ Break

Spec == Init /\ [][Next]_vars
=============================================================================
