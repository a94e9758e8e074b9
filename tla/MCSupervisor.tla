---------------------------- MODULE MCSupervisor ----------------------------
(* Small engines. "web" is enabled, watched and always restarted; "one" is   *)
(* only ever started by command and restarted on failure.                    *)
EXTENDS Supervisor, FiniteSets, TLC

CONSTANTS web, one, p1, p2, p3

MCWeb       == {web}
MCWebPolicy == web :> "always"

MCOne       == {one}
MCOnePolicy == one :> "on-failure"

MCNoScripts == {}

MCTwoChildren   == {p1, p2}
MCThreeChildren == {p1, p2, p3}

\* What a process that nothing refers to was once is of no further consequence.
View == <<[c \in Child |-> IF Free(c) THEN None ELSE child[c]], dict, shared, mainPc,
          todo, keys, fresh, job, batch, queue, recent, halted, cause>>

\* The pool of processes is symmetric.
ChildSymmetry == Permutations(Child)
=============================================================================
