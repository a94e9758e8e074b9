------------------------------- MODULE Journal -------------------------------
(* What a session makes of its messages, without ring, marks, hashes or      *)
(* failures of SQLite. A message waits from the moment it is said, until it  *)
(* is saved or given up. All that wait are saved together, so that nothing   *)
(* newer is saved while something older still waits; what is given up is the *)
(* oldest of what waits; and what was given up comes back only as part of a  *)
(* picture of what once waited. What is saved stays.                         *)
EXTENDS Naturals

VARIABLES
  said,     \* how many messages there have been
  saved,    \* those that are saved
  waiting,  \* those that would be saved next
  pictures  \* what waited when a picture was taken, with some that were saved by then

vars == <<said, saved, waiting, pictures>>

Init == said = 0 /\ saved = {} /\ waiting = {} /\ pictures = {{}}

Oldest(m) == m \in waiting /\ \A k \in waiting : m <= k

\* A new message; where room is short, the oldest one that waits makes way.
Say ==
  /\ said' = said + 1
  /\ \E gone \in SUBSET waiting :
       /\ \A m \in gone : Oldest(m)
       /\ waiting' = (waiting \ gone) \cup {said + 1}
  /\ UNCHANGED <<saved, pictures>>

Save ==
  /\ saved' = saved \cup waiting
  /\ waiting' = {}
  /\ UNCHANGED <<said, pictures>>

\* A save that fails gives up the messages up to some point, a crash all of them.
GiveUp ==
  /\ \E n \in 0 .. said : waiting' = {m \in waiting : m > n}
  /\ UNCHANGED <<said, saved, pictures>>

TakePicture ==
  /\ \E seen \in SUBSET saved : pictures' = pictures \cup {waiting \cup seen}
  /\ UNCHANGED <<said, saved, waiting>>

\* What waited is given up for what waits in a picture and has not been saved.
Recall ==
  /\ \E picture \in pictures : waiting' = picture \ saved
  /\ UNCHANGED <<said, saved, pictures>>

Next == Say \/ Save \/ GiveUp \/ TakePicture \/ Recall

Spec == Init /\ [][Next]_vars
=============================================================================
