---------------------------- MODULE SessionBuffer ----------------------------
(* The session of the Deepsky client (session_manager.py): a ring of the     *)
(* latest messages, flushes of it to SQLite, checkpoints, crashes, and the   *)
(* recovery of a later process from a checkpoint. Every method runs under    *)
(* the buffer's lock to its end, so that each is one step here, with the     *)
(* ways in which SQLite can make it fail.                                    *)
(*                                                                           *)
(* Each message's state_hash covers that of the message before it. Messages  *)
(* are written once, so a hash stands for one message: it is the message's   *)
(* number here, and 0 is the empty hash a chain begins with.                 *)
EXTENDS Naturals, Sequences

CONSTANTS
  Capacity,       \* buffer_maxlen
  MaxMessages,    \* bound: messages appended
  MaxCheckpoints  \* bound: rows of state_checkpoints

ASSUME CapacityAssumption == Capacity \in Nat \ {0}
ASSUME BoundsAssumption == MaxMessages \in Nat /\ MaxCheckpoints \in Nat

VARIABLES
  phase,        \* of the process: down, up, or saved: between shutdown's two writes
  buffer,       \* _buffer: the ring
  last,         \* _last_hash
  healthy,      \* _healthy
  stored,       \* messages in session_state
  sheet,        \* is_healthy of the latest row of session_metadata
  checkpoints,  \* state_checkpoints, in the order of their ids
  appended,     \* messages ever appended
  lost,         \* history: messages given up by a failed flush, a recovery or an exit
  pushed        \* history: messages the full ring pushed out before any flush

process == <<phase, buffer, last, healthy>>
database == <<stored, sheet, checkpoints>>
vars == <<process, database, appended, lost, pushed>>

Message == 1 .. MaxMessages
Entry == [id : Message, prev : 0 .. MaxMessages, flushed : BOOLEAN]

\* Kinds of checkpoint, and their created_at, in seconds.
Kind == {"last_good", "bug_checkpoint", "recovery"}

TypeOK ==
  /\ phase \in {"down", "up", "saved"}
  /\ buffer \in Seq(Entry) /\ Len(buffer) <= Capacity
  /\ last \in 0 .. MaxMessages
  /\ healthy \in BOOLEAN
  /\ stored \subseteq Message
  /\ sheet \in {"none", "healthy", "unhealthy"}
  /\ checkpoints \in Seq([kind : Kind, snapshot : Seq(Entry), at : Nat])
  /\ Len(checkpoints) <= MaxCheckpoints
  /\ appended \in 0 .. MaxMessages
  /\ lost \subseteq Message /\ pushed \subseteq Message

Init ==
  /\ phase = "down" /\ buffer = <<>> /\ last = 0 /\ healthy = TRUE
  /\ stored = {} /\ sheet = "none" /\ checkpoints = <<>>
  /\ appended = 0 /\ lost = {} /\ pushed = {}

----------------------------------------------------------------------------
Ids(ks) == {buffer[k].id : k \in ks}

\* entries_to_flush
Unflushed == {k \in DOMAIN buffer : ~buffer[k].flushed}

Mark(ks) == [k \in DOMAIN buffer |-> [buffer[k] EXCEPT !.flushed = @ \/ k \in ks]]

\* Two checkpoints may carry the same second.
Checkpoint(kind, snapshot) ==
  /\ Len(checkpoints) < MaxCheckpoints
  /\ \E tick \in {0, 1} :
       LET at == IF checkpoints = <<>> THEN 0 ELSE checkpoints[Len(checkpoints)].at
       IN checkpoints' = Append(checkpoints, [kind |-> kind, snapshot |-> snapshot, at |-> at + tick])

\* Mutant: a buffer without maxlen.
AppendUnbounded ==
  /\ phase = "up"
  /\ appended < MaxMessages
  /\ buffer' = Append(buffer, [id |-> appended + 1, prev |-> last, flushed |-> FALSE])
  /\ last' = appended + 1
  /\ appended' = appended + 1
  /\ UNCHANGED <<phase, healthy, database, lost, pushed>>

\* A message enters the ring; a full ring drops its oldest one.
AppendMessage ==
  /\ phase = "up"
  /\ appended < MaxMessages
  /\ LET entry == [id |-> appended + 1, prev |-> last, flushed |-> FALSE]
         full  == Len(buffer) = Capacity
     IN /\ buffer' = Append(IF full THEN Tail(buffer) ELSE buffer, entry)
        /\ pushed' = IF full /\ ~buffer[1].flushed THEN pushed \cup {buffer[1].id} ELSE pushed
  /\ last' = appended + 1
  /\ appended' = appended + 1
  /\ UNCHANGED <<phase, healthy, database, lost>>

\* Mutant: the entries are marked before they are written, and written without
\* the last one.
WriteButLast ==
  /\ buffer' = Mark(Unflushed)
  /\ stored' = stored \cup Ids({k \in Unflushed : k < Len(buffer)})
  /\ sheet' = IF healthy THEN "healthy" ELSE "unhealthy"

\* Mutant: only the newest entry is written.
WriteNewest ==
  /\ buffer' = Mark(Unflushed \cap {Len(buffer)})
  /\ stored' = stored \cup Ids(Unflushed \cap {Len(buffer)})
  /\ sheet' = IF healthy THEN "healthy" ELSE "unhealthy"

\* What a flush that succeeds does to the ring, the messages and the metadata.
Write ==
  /\ buffer' = Mark(Unflushed)
  /\ stored' = stored \cup Ids(Unflushed)
  /\ sheet' = IF healthy THEN "healthy" ELSE "unhealthy"

\* flush: timer, lost connection, healing agent.
Flush ==
  /\ phase = "up"
  /\ Unflushed # {}
  /\ Write
  /\ UNCHANGED <<phase, last, healthy, checkpoints, appended, lost, pushed>>

\* flush(BUG_DETECTED) also takes a checkpoint, of the entries as marked. With
\* nothing left to flush it returns True before it gets there: no step.
FlushBug ==
  /\ phase = "up"
  /\ Unflushed # {}
  /\ Write
  /\ Checkpoint("bug_checkpoint", Mark(Unflushed))
  /\ UNCHANGED <<phase, last, healthy, appended, lost, pushed>>

\* Entries are marked one after the other, each before its INSERT. SQLite fails
\* to connect, at an INSERT or at the COMMIT: nothing is written, and what has
\* been marked is not tried again. The flush of a shutdown can fail, too, and its
\* result is not looked at.
FlushFails ==
  /\ phase \in {"up", "saved"} /\ phase' = "up"
  /\ \E n \in 0 .. Len(buffer) :
       LET marked == {k \in Unflushed : k <= n}
       IN /\ buffer' = Mark(marked)
          /\ lost' = lost \cup (Ids(marked) \ stored)
  /\ healthy' = FALSE
  /\ UNCHANGED <<last, database, appended, pushed>>

\* graceful_shutdown: a checkpoint first, in a transaction of its own; when that
\* fails, the exception leaves the final flush out.
ShutdownCheckpoint ==
  /\ phase = "up"
  /\ Checkpoint("last_good", buffer)
  /\ phase' = "saved"
  /\ UNCHANGED <<buffer, last, healthy, stored, sheet, appended, lost, pushed>>

\* Mutant: the final flush closes the connection without its COMMIT.
ShutdownUncommitted ==
  /\ phase = "saved" /\ phase' = "up"
  /\ buffer' = Mark(Unflushed)
  /\ UNCHANGED <<last, healthy, database, appended, lost, pushed>>

\* flush(SHUTDOWN). The process is still there: the signal handler and run() both
\* call shutdown, so that all of it may happen twice.
ShutdownFlush ==
  /\ phase = "saved" /\ phase' = "up"
  /\ Write
  /\ UNCHANGED <<last, healthy, checkpoints, appended, lost, pushed>>

\* The process ends, in good order or not, and with it what the ring had not
\* written: the next one begins with an empty ring.
ProcessEnds ==
  /\ phase # "down" /\ phase' = "down"
  /\ lost' = lost \cup (Ids(Unflushed) \ stored)
  /\ buffer' = <<>> /\ last' = 0 /\ healthy' = TRUE
  /\ UNCHANGED <<database, appended, pushed>>

----------------------------------------------------------------------------
\* The entries of a snapshot up to the first whose hash does not follow.
Verified(snapshot) ==
  LET follows(k) == snapshot[k].prev = (IF k = 1 THEN 0 ELSE snapshot[k - 1].id)
      sound == {n \in 0 .. Len(snapshot) : \A k \in 1 .. n : follows(k)}
  IN SubSeq(snapshot, 1, CHOOSE n \in sound : \A m \in sound : m <= n)

\* Mutant: _last_hash is not taken back to the end of what was restored.
ReloadKeepsLast(snapshot) ==
  /\ buffer' = Verified(snapshot)
  /\ last' = last

Reload(snapshot) ==
  /\ buffer' = Verified(snapshot)
  /\ last' = IF Verified(snapshot) = <<>> THEN 0
             ELSE Verified(snapshot)[Len(Verified(snapshot))].id

\* restore_from_checkpoint: the ring is replaced, and a recovery checkpoint of it
\* is written, unless SQLite fails after all.
Restore(c) ==
  /\ Reload(c.snapshot)
  /\ \/ Checkpoint("recovery", Verified(c.snapshot))
     \/ UNCHANGED checkpoints

\* ORDER BY created_at DESC LIMIT 1 takes any of those of the latest second.
Latest ==
  {k \in DOMAIN checkpoints :
     /\ checkpoints[k].kind # "recovery"
     /\ \A j \in DOMAIN checkpoints :
          checkpoints[j].kind # "recovery" => checkpoints[j].at <= checkpoints[k].at}

\* A new process recovers when the last metadata were those of an unhealthy one.
Start ==
  /\ phase = "down"
  /\ phase' = "up"
  /\ \/ /\ sheet = "unhealthy"
        /\ \E k \in Latest : Restore(checkpoints[k])
     \/ /\ sheet = "unhealthy" => Latest = {}
        /\ UNCHANGED <<buffer, last, checkpoints>>
  /\ UNCHANGED <<healthy, stored, sheet, appended, lost, pushed>>

\* _recover_session of the healing agent asks for the checkpoint whose id is the
\* number of its work order: any, or none, which changes nothing.
Recover ==
  /\ phase = "up"
  /\ \E k \in DOMAIN checkpoints : Restore(checkpoints[k])
  /\ lost' = lost \cup (Ids(Unflushed) \ stored)
  /\ UNCHANGED <<phase, healthy, stored, sheet, appended, pushed>>

Next ==
  \/ AppendMessage \/ Flush \/ FlushBug \/ FlushFails
  \/ ShutdownCheckpoint \/ ShutdownFlush \/ ProcessEnds
  \/ Start \/ Recover

Spec == Init /\ [][Next]_vars

----------------------------------------------------------------------------
\* No message disappears in a way that is not known: each is in the database, or
\* in the ring and still to be flushed, or it was given up by a flush that failed,
\* wiped by a recovery or unwritten when its process ended, or the full ring pushed
\* it out. That last way is not what a test of the repository expects: see
\* "Findings" in the README.
LossHasACause ==
  \A m \in 1 .. appended : m \in stored \cup lost \cup pushed \cup Ids(Unflushed)

\* The messages of a sequence of entries that count as flushed.
Marked(s) == {s[k].id : k \in {j \in DOMAIN s : s[j].flushed}}

\* A message that counts as flushed is in the database, unless a flush has
\* failed; this holds of the ring and of every snapshot that may replace it.
MarkedIsStored ==
  /\ Marked(buffer) \subseteq stored \cup lost
  /\ \A c \in DOMAIN checkpoints : Marked(checkpoints[c].snapshot) \subseteq stored \cup lost

\* The ring is one piece of a hash chain, whatever was dropped or restored: what
\* verify_state_integrity finds broken, it finds broken at the first message. So
\* recovery brings back all of a snapshot or none of it, and never a part that
\* looks whole. None of it is what it brings back of a ring that had dropped its
\* oldest message, which is not what the class documents: see "Findings" in the
\* README.
AllOrNothing ==
  /\ Verified(buffer) \in {buffer, <<>>}
  /\ buffer # <<>> => last = buffer[Len(buffer)].id
  /\ \A c \in DOMAIN checkpoints :
       LET s == checkpoints[c].snapshot IN
       Verified(s) = (IF s # <<>> /\ s[1].prev = 0 THEN s ELSE <<>>)

\* The messages of a sequence of entries that are still to be flushed.
Open(s) == {s[k].id : k \in {j \in DOMAIN s : ~s[j].flushed}}

\* Seen from outside, a session is a journal: whatever the ring drops, whichever
\* flush fails and whichever checkpoint a recovery takes, the database never
\* skips a message that still waits, loses none it had, and gets back of what
\* was given up only what a checkpoint of the ring had kept.
Record ==
  INSTANCE Journal WITH
    said     <- appended,
    saved    <- stored,
    waiting  <- Open(buffer) \ stored,
    pictures <- {{}} \cup {Open(checkpoints[c].snapshot) : c \in DOMAIN checkpoints}

KeepsJournal == Record!Spec

=============================================================================
