------------------------- MODULE SessionBufferProofs -------------------------
(* What holds of the session for a ring of any size, and any number of       *)
(* messages and checkpoints.                                                 *)
EXTENDS SessionBuffer, SequenceTheorems, TLAPS

\* Each entry names the one before it.
Chained(s) == \A k \in 2 .. Len(s) : s[k].prev = s[k - 1].id

RingOK(s) == s \in Seq(Entry) /\ Len(s) <= Capacity /\ Chained(s)

LastOK == buffer # <<>> => last = buffer[Len(buffer)].id

DownIsEmpty == phase = "down" => buffer = <<>>

SnapshotsOK == \A c \in DOMAIN checkpoints : RingOK(checkpoints[c].snapshot)

IInv ==
  /\ TypeOK
  /\ DownIsEmpty
  /\ RingOK(buffer) /\ LastOK /\ SnapshotsOK
  /\ LossHasACause /\ MarkedIsStored

\* The messages a flush would write, seen as a property of the ring's content.
LEMMA OpenIsUnflushed == Open(buffer) = Ids(Unflushed)
BY DEF Open, Ids, Unflushed

\* The messages of entries are messages.
LEMMA IdsAreMessages ==
  ASSUME NEW s \in Seq(Entry)
  PROVE  Open(s) \subseteq Message /\ Marked(s) \subseteq Message
<1>1. DOMAIN s = 1 .. Len(s) /\ \A k \in DOMAIN s : s[k] \in Entry
  BY LenProperties
<1>. QED  BY <1>1 DEF Open, Marked, Entry

\* All of a chain is verified, or nothing of it.
LEMMA VerifiedChain ==
  ASSUME NEW s \in Seq(Entry), Chained(s)
  PROVE  Verified(s) = (IF s # <<>> /\ s[1].prev = 0 THEN s ELSE <<>>)
<1>. DEFINE follows(k) == s[k].prev = (IF k = 1 THEN 0 ELSE s[k - 1].id)
            sound == {n \in 0 .. Len(s) : \A k \in 1 .. n : follows(k)}
<1>1. Verified(s) = SubSeq(s, 1, CHOOSE n \in sound : \A m \in sound : m <= n)
  BY DEF Verified
<1>2. Len(s) \in Nat /\ s \in [1 .. Len(s) -> Entry]
  BY LenProperties
<1>3. CASE s # <<>> /\ s[1].prev = 0
  <2>1. \A k \in 1 .. Len(s) : follows(k)
    BY <1>2, <1>3 DEF Chained
  <2>2. Len(s) \in sound /\ sound \subseteq 0 .. Len(s)
    BY <1>2, <2>1
  <2>. HIDE DEF sound
  <2>3. ASSUME NEW n \in sound
        PROVE  (\A m \in sound : m <= n) <=> n = Len(s)
    <3>1. n \in 0 .. Len(s) /\ Len(s) \in Nat
      BY <1>2, <2>2
    <3>2. (\A m \in sound : m <= n) => n = Len(s)
      BY <2>2, <3>1
    <3>3. n = Len(s) => \A m \in sound : m <= n
      BY <2>2, <3>1
    <3>. QED  BY <3>2, <3>3
  <2>4. (CHOOSE n \in sound : \A m \in sound : m <= n) = Len(s)
    BY <2>2, <2>3
  <2>5. SubSeq(s, 1, Len(s)) = s
    BY SubSeqFull
  <2>. QED  BY <1>1, <1>3, <2>4, <2>5
<1>4. CASE s = <<>> \/ s[1].prev # 0
  <2>1. \A n \in sound : n = 0
    <3>1. CASE s = <<>>
      <4>1. Len(s) = 0
        BY <3>1, EmptySeq
      <4>. QED  BY <4>1
    <3>2. CASE s[1].prev # 0
      <4>1. ~follows(1)
        BY <3>2
      <4>. QED  BY <1>2, <4>1
    <3>. QED  BY <1>4, <3>1, <3>2
  <2>2. 0 \in sound
    BY <1>2
  <2>. HIDE DEF sound
  <2>3. (CHOOSE n \in sound : \A m \in sound : m <= n) = 0
    BY <2>1, <2>2
  <2>4. SubSeq(s, 1, 0) = <<>>
    BY SubSeqEmpty
  <2>. QED  BY <1>1, <1>4, <2>3, <2>4
<1>. QED  BY <1>3, <1>4

\* Marking entries changes nothing else about them.
LEMMA MarkOK ==
  ASSUME RingOK(buffer), NEW ks \in SUBSET Unflushed
  PROVE  /\ RingOK(Mark(ks))
         /\ Len(Mark(ks)) = Len(buffer)
         /\ \A k \in 1 .. Len(buffer) : Mark(ks)[k].id = buffer[k].id
         /\ Marked(Mark(ks)) \subseteq Marked(buffer) \cup Ids(ks)
         /\ Open(buffer) \subseteq Open(Mark(ks)) \cup Ids(ks)
<1>1. /\ DOMAIN buffer = 1 .. Len(buffer) /\ Len(buffer) \in Nat
      /\ \A k \in 1 .. Len(buffer) : buffer[k] \in Entry
  BY LenProperties DEF RingOK
<1>2. /\ Mark(ks) = [k \in 1 .. Len(buffer) |-> Mark(ks)[k]]
      /\ DOMAIN Mark(ks) = 1 .. Len(buffer)
  BY <1>1 DEF Mark
<1>3. ASSUME NEW k \in 1 .. Len(buffer)
      PROVE  /\ Mark(ks)[k] \in Entry
             /\ Mark(ks)[k].id = buffer[k].id
             /\ Mark(ks)[k].prev = buffer[k].prev
             /\ Mark(ks)[k].flushed <=> buffer[k].flushed \/ k \in ks
  <2>1. Mark(ks)[k] = [buffer[k] EXCEPT !.flushed = buffer[k].flushed \/ k \in ks]
    BY <1>1 DEF Mark
  <2>2. buffer[k] \in [id : Message, prev : 0 .. MaxMessages, flushed : BOOLEAN]
    BY <1>1 DEF Entry
  <2>3. (buffer[k].flushed \/ k \in ks) \in BOOLEAN
    OBVIOUS
  <2>. QED  BY <2>1, <2>2, <2>3 DEF Entry
<1>4. Mark(ks) \in Seq(Entry) /\ Len(Mark(ks)) = Len(buffer)
  BY <1>1, <1>2, <1>3, IsASeq, LenProperties
<1>5. Chained(Mark(ks))
  BY <1>1, <1>3, <1>4 DEF Chained, RingOK
<1>6. Marked(Mark(ks)) \subseteq Marked(buffer) \cup Ids(ks)
  BY <1>1, <1>2, <1>3 DEF Marked, Ids
<1>7. Open(buffer) \subseteq Open(Mark(ks)) \cup Ids(ks)
  BY <1>1, <1>2, <1>3 DEF Open, Ids
<1>. QED  BY <1>3, <1>4, <1>5, <1>6, <1>7 DEF RingOK

\* A checkpoint adds its snapshot to the others.
LEMMA CheckpointOK ==
  ASSUME TypeOK, SnapshotsOK, NEW kind \in Kind, NEW snapshot, RingOK(snapshot),
         Checkpoint(kind, snapshot)
  PROVE  /\ checkpoints' \in Seq([kind : Kind, snapshot : Seq(Entry), at : Nat])
         /\ Len(checkpoints') <= MaxCheckpoints
         /\ SnapshotsOK'
         /\ \A c \in DOMAIN checkpoints' :
              \/ checkpoints'[c].snapshot = snapshot
              \/ c \in DOMAIN checkpoints /\ checkpoints'[c] = checkpoints[c]
         /\ \A c \in DOMAIN checkpoints : c \in DOMAIN checkpoints' /\ checkpoints'[c] = checkpoints[c]
         /\ \E c \in DOMAIN checkpoints' : checkpoints'[c].snapshot = snapshot
<1>. DEFINE Row == [kind : Kind, snapshot : Seq(Entry), at : Nat]
            at == IF checkpoints = <<>> THEN 0 ELSE checkpoints[Len(checkpoints)].at
<1>1. checkpoints \in Seq(Row) /\ Len(checkpoints) \in Nat
      /\ DOMAIN checkpoints = 1 .. Len(checkpoints)
      /\ \A c \in 1 .. Len(checkpoints) : checkpoints[c] \in Row
  BY LenProperties DEF TypeOK
<1>2. at \in Nat
  <2>1. CASE checkpoints = <<>>
    BY <2>1
  <2>2. CASE checkpoints # <<>>
    <3>1. Len(checkpoints) \in 1 .. Len(checkpoints)
      BY <1>1, <2>2, EmptySeq
    <3>. QED  BY <1>1, <2>2, <3>1
  <2>. QED  BY <2>1, <2>2
<1>3. PICK tick \in {0, 1} :
        checkpoints' = Append(checkpoints,
                              [kind |-> kind, snapshot |-> snapshot, at |-> at + tick])
  BY DEF Checkpoint
<1>. DEFINE row == [kind |-> kind, snapshot |-> snapshot, at |-> at + tick]
<1>4. row \in Row /\ row.snapshot = snapshot
  BY <1>2 DEF RingOK
<1>. HIDE DEF row, Row, at
<1>5. /\ checkpoints' \in Seq(Row) /\ Len(checkpoints') = Len(checkpoints) + 1
      /\ \A c \in 1 .. Len(checkpoints) : checkpoints'[c] = checkpoints[c]
      /\ checkpoints'[Len(checkpoints) + 1] = row
  BY <1>1, <1>3, <1>4, AppendProperties DEF row
<1>6. DOMAIN checkpoints' = 1 .. Len(checkpoints) + 1
  BY <1>5, LenProperties
<1>7. \A c \in DOMAIN checkpoints' :
        \/ checkpoints'[c].snapshot = snapshot
        \/ c \in DOMAIN checkpoints /\ checkpoints'[c] = checkpoints[c]
  BY <1>1, <1>4, <1>5, <1>6
<1>8. Len(checkpoints') <= MaxCheckpoints
  BY <1>1, <1>5, BoundsAssumption DEF Checkpoint
<1>9. \A c \in DOMAIN checkpoints : c \in DOMAIN checkpoints' /\ checkpoints'[c] = checkpoints[c]
  BY <1>1, <1>5, <1>6
<1>10. \E c \in DOMAIN checkpoints' : checkpoints'[c].snapshot = snapshot
  BY <1>1, <1>4, <1>5, <1>6
<1>. QED  BY <1>5, <1>7, <1>8, <1>9, <1>10 DEF Row, SnapshotsOK

\* The types of what most steps leave alone, and what is said of the snapshots.
LEMMA FrameOK ==
  ASSUME IInv, RingOK(buffer'), UNCHANGED checkpoints,
         phase' \in {"down", "up", "saved"}, last' \in 0 .. MaxMessages, healthy' \in BOOLEAN,
         sheet' \in {"none", "healthy", "unhealthy"}, appended' \in 0 .. MaxMessages,
         stored \subseteq stored', stored' \subseteq Message,
         lost \subseteq lost', lost' \subseteq Message, pushed' \subseteq Message,
         Marked(buffer') \subseteq stored' \cup lost'
  PROVE  TypeOK' /\ SnapshotsOK' /\ MarkedIsStored'
<1>1. TypeOK'
  BY DEF IInv, TypeOK, RingOK
<1>2. SnapshotsOK'
  BY DEF IInv, SnapshotsOK
<1>3. MarkedIsStored'
  <2>1. ASSUME NEW c \in DOMAIN checkpoints
        PROVE  Marked(checkpoints[c].snapshot) \subseteq stored' \cup lost'
    BY DEF IInv, MarkedIsStored
  <2>. QED  BY <2>1 DEF MarkedIsStored
<1>. QED  BY <1>1, <1>2, <1>3

\* The same with one more checkpoint.
LEMMA FrameCheckpointOK ==
  ASSUME IInv, RingOK(buffer'),
         NEW kind \in Kind, NEW snapshot, RingOK(snapshot), Checkpoint(kind, snapshot),
         Marked(snapshot) \subseteq stored' \cup lost',
         phase' \in {"down", "up", "saved"}, last' \in 0 .. MaxMessages, healthy' \in BOOLEAN,
         sheet' \in {"none", "healthy", "unhealthy"}, appended' \in 0 .. MaxMessages,
         stored \subseteq stored', stored' \subseteq Message,
         lost \subseteq lost', lost' \subseteq Message, pushed' \subseteq Message,
         Marked(buffer') \subseteq stored' \cup lost'
  PROVE  TypeOK' /\ SnapshotsOK' /\ MarkedIsStored'
<1>1. /\ checkpoints' \in Seq([kind : Kind, snapshot : Seq(Entry), at : Nat])
      /\ Len(checkpoints') <= MaxCheckpoints
      /\ SnapshotsOK'
      /\ \A c \in DOMAIN checkpoints' :
           \/ checkpoints'[c].snapshot = snapshot
           \/ c \in DOMAIN checkpoints /\ checkpoints'[c] = checkpoints[c]
  BY CheckpointOK DEF IInv
<1>2. TypeOK'
  BY <1>1 DEF TypeOK, RingOK
<1>3. MarkedIsStored'
  <2>1. ASSUME NEW c \in DOMAIN checkpoints'
        PROVE  Marked(checkpoints'[c].snapshot) \subseteq stored' \cup lost'
    <3>1. CASE checkpoints'[c].snapshot = snapshot
      BY <3>1
    <3>2. CASE c \in DOMAIN checkpoints /\ checkpoints'[c] = checkpoints[c]
      BY <3>2 DEF IInv, MarkedIsStored
    <3>. QED  BY <1>1, <3>1, <3>2
  <2>. QED  BY <2>1 DEF MarkedIsStored
<1>. QED  BY <1>1, <1>2, <1>3

\* What the steps below need to know of a good state.
LEMMA Facts ==
  ASSUME IInv
  PROVE  /\ phase \in {"down", "up", "saved"} /\ healthy \in BOOLEAN
         /\ last \in 0 .. MaxMessages /\ appended \in 0 .. MaxMessages
         /\ sheet \in {"none", "healthy", "unhealthy"}
         /\ stored \subseteq Message /\ lost \subseteq Message /\ pushed \subseteq Message
         /\ Ids(Unflushed) \subseteq Message
         /\ Marked(buffer) \subseteq stored \cup lost
         /\ RingOK(buffer) /\ buffer \in Seq(Entry)
<1>1. buffer \in Seq(Entry)
  BY DEF IInv, TypeOK
<1>2. Ids(Unflushed) \subseteq Message
  BY <1>1, IdsAreMessages, OpenIsUnflushed
<1>. QED  BY <1>1, <1>2 DEF IInv, TypeOK, MarkedIsStored

----------------------------------------------------------------------------
\* The ring has no room left; what an append keeps of it, how far it moves it
\* down, and what it adds.
Full == Len(buffer) = Capacity

Kept == IF Full THEN Tail(buffer) ELSE buffer

Gap == IF Full THEN 1 ELSE 0

NewEntry == [id |-> appended + 1, prev |-> last, flushed |-> FALSE]

\* What an append makes of the ring, entry by entry.
LEMMA AppendShape ==
  ASSUME IInv, AppendMessage
  PROVE  /\ buffer \in Seq(Entry) /\ Len(buffer) \in Nat /\ Len(buffer) <= Capacity
         /\ DOMAIN buffer = 1 .. Len(buffer) /\ \A k \in 1 .. Len(buffer) : buffer[k] \in Entry
         /\ appended + 1 \in Message /\ last \in 0 .. MaxMessages /\ appended \in Nat
         /\ appended' = appended + 1 /\ appended' \in 0 .. MaxMessages
         /\ Len(Kept) \in Nat /\ Len(Kept) = Len(buffer) - Gap /\ Len(Kept) < Capacity
         /\ Gap \in {0, 1} /\ (Full <=> Gap = 1)
         /\ buffer' \in Seq(Entry) /\ Len(buffer') = Len(Kept) + 1
         /\ DOMAIN buffer' = 1 .. Len(Kept) + 1
         /\ \A k \in 1 .. Len(Kept) : buffer'[k] = buffer[k + Gap] /\ k + Gap \in 1 .. Len(buffer)
         /\ buffer'[Len(Kept) + 1] = NewEntry
<1>1. /\ buffer \in Seq(Entry) /\ Len(buffer) \in Nat /\ Len(buffer) <= Capacity
      /\ DOMAIN buffer = 1 .. Len(buffer) /\ \A k \in 1 .. Len(buffer) : buffer[k] \in Entry
  BY Facts, LenProperties DEF RingOK
<1>2. appended + 1 \in Message /\ last \in 0 .. MaxMessages /\ appended \in Nat
      /\ appended' = appended + 1 /\ appended' \in 0 .. MaxMessages
  BY Facts, BoundsAssumption DEF AppendMessage, Message
<1>3. NewEntry \in Entry /\ NewEntry.id = appended + 1 /\ NewEntry.prev = last /\ NewEntry.flushed = FALSE
  BY <1>2 DEF Entry, NewEntry
<1>4. /\ Kept \in Seq(Entry) /\ Len(Kept) \in Nat
      /\ Len(Kept) = Len(buffer) - Gap
      /\ Len(Kept) < Capacity
      /\ \A k \in 1 .. Len(Kept) : Kept[k] = buffer[k + Gap]
      /\ Gap \in {0, 1} /\ (Full <=> Gap = 1)
  <2>1. CASE Full
    <3>1. buffer # <<>>
      BY <2>1, EmptySeq, CapacityAssumption DEF Full
    <3>2. /\ Tail(buffer) \in Seq(Entry) /\ Len(Tail(buffer)) = Len(buffer) - 1
          /\ \A k \in 1 .. Len(Tail(buffer)) : Tail(buffer)[k] = buffer[k + 1]
      BY <1>1, <3>1, HeadTailProperties
    <3>3. Len(Tail(buffer)) \in Nat
      BY <3>2, LenProperties
    <3>. QED  BY <1>1, <2>1, <3>2, <3>3, CapacityAssumption DEF Full, Kept, Gap
  <2>2. CASE ~Full
    <3>1. Kept = buffer /\ Gap = 0
      BY <2>2 DEF Kept, Gap
    <3>2. \A k \in 1 .. Len(buffer) : k + 0 = k
      BY <1>1
    <3>3. Len(buffer) # Capacity /\ Capacity \in Nat
      BY <2>2, CapacityAssumption DEF Full
    <3>4. Len(buffer) < Capacity
      <4>1. Len(buffer) \in Nat /\ Len(buffer) <= Capacity
        BY <1>1
      <4>. QED  BY <3>3, <4>1
    <3>5. Len(buffer) - 0 = Len(buffer)
      BY <1>1
    <3>. QED  BY <1>1, <2>2, <3>1, <3>2, <3>4, <3>5
  <2>. QED  BY <2>1, <2>2
<1>5. buffer' = Append(Kept, NewEntry)
  BY DEF AppendMessage, Kept, Full, NewEntry
<1>6. /\ buffer' \in Seq(Entry) /\ Len(buffer') = Len(Kept) + 1
      /\ \A k \in 1 .. Len(Kept) : buffer'[k] = Kept[k]
      /\ buffer'[Len(Kept) + 1] = NewEntry
  BY <1>3, <1>4, <1>5, AppendProperties
<1>7. /\ DOMAIN buffer' = 1 .. Len(Kept) + 1
      /\ \A k \in 1 .. Len(Kept) : buffer'[k] = buffer[k + Gap] /\ k + Gap \in 1 .. Len(buffer)
  BY <1>1, <1>4, <1>6, LenProperties
<1>. QED  BY <1>1, <1>2, <1>4, <1>6, <1>7

\* A ring that has lost its oldest entry, or none, and got a new one.
LEMMA AppendOK ==
  ASSUME IInv, AppendMessage
  PROVE  IInv'
<1>1. /\ buffer \in Seq(Entry) /\ Len(buffer) \in Nat /\ Len(buffer) <= Capacity
      /\ DOMAIN buffer = 1 .. Len(buffer) /\ \A k \in 1 .. Len(buffer) : buffer[k] \in Entry
  BY AppendShape
<1>2. appended + 1 \in Message /\ last \in 0 .. MaxMessages /\ appended \in Nat
      /\ appended' = appended + 1 /\ appended' \in 0 .. MaxMessages
  BY AppendShape
<1>3. NewEntry \in Entry /\ NewEntry.id = appended + 1 /\ NewEntry.prev = last /\ NewEntry.flushed = FALSE
  BY <1>2 DEF Entry, NewEntry
<1>4. /\ Len(Kept) \in Nat /\ Len(Kept) = Len(buffer) - Gap /\ Len(Kept) < Capacity
      /\ Gap \in {0, 1} /\ (Full <=> Gap = 1)
  BY AppendShape
<1>5. last' = appended + 1
      /\ pushed' = (IF Full /\ ~buffer[1].flushed THEN pushed \cup {buffer[1].id} ELSE pushed)
      /\ UNCHANGED <<phase, healthy, stored, sheet, checkpoints, lost>> /\ phase = "up"
  BY DEF AppendMessage, Full, database
<1>6. buffer' \in Seq(Entry) /\ Len(buffer') = Len(Kept) + 1 /\ buffer'[Len(Kept) + 1] = NewEntry
  BY AppendShape
<1>7. /\ DOMAIN buffer' = 1 .. Len(Kept) + 1
      /\ \A k \in 1 .. Len(Kept) : buffer'[k] = buffer[k + Gap] /\ k + Gap \in 1 .. Len(buffer)
  BY AppendShape
<1>8. Full => 1 \in 1 .. Len(buffer)
  BY <1>1, CapacityAssumption DEF Full
<1>9. Chained(buffer')
  <2>. SUFFICES ASSUME NEW k \in 2 .. Len(buffer')
                PROVE  buffer'[k].prev = buffer'[k - 1].id
    BY DEF Chained
  <2>1. CASE k <= Len(Kept)
    <3>1. k + Gap \in 2 .. Len(buffer) /\ k - 1 \in 1 .. Len(Kept) /\ k \in 1 .. Len(Kept)
          /\ (k - 1) + Gap = (k + Gap) - 1
      BY <1>1, <1>4, <1>6, <2>1
    <3>. QED  BY <1>7, <3>1 DEF IInv, RingOK, Chained
  <2>2. CASE k > Len(Kept)
    <3>1. k = Len(Kept) + 1 /\ Len(Kept) \in 1 .. Len(Kept) /\ Len(Kept) + Gap = Len(buffer)
      BY <1>1, <1>4, <1>6, <2>2
    <3>2. buffer # <<>>
      BY <1>1, <1>4, <3>1, EmptySeq
    <3>. QED  BY <1>3, <1>6, <1>7, <3>1, <3>2 DEF IInv, LastOK
  <2>. QED  BY <1>4, <1>6, <2>1, <2>2
<1>10. RingOK(buffer')
  BY <1>4, <1>6, <1>9, CapacityAssumption DEF RingOK
<1>11. LastOK' /\ DownIsEmpty'
  BY <1>3, <1>5, <1>6 DEF LastOK, DownIsEmpty
<1>12. Marked(buffer') \subseteq Marked(buffer)
  <2>. SUFFICES ASSUME NEW k \in 1 .. Len(Kept) + 1, buffer'[k].flushed
                PROVE  buffer'[k].id \in Marked(buffer)
    BY <1>7 DEF Marked
  <2>1. k \in 1 .. Len(Kept)
    BY <1>3, <1>4, <1>6
  <2>. QED  BY <1>1, <1>7, <2>1 DEF Marked
<1>13. pushed \subseteq pushed' /\ pushed' \subseteq Message
  BY <1>1, <1>5, <1>8, Facts DEF Entry
<1>14. TypeOK' /\ SnapshotsOK' /\ MarkedIsStored'
  BY <1>2, <1>5, <1>10, <1>12, <1>13, Facts, FrameOK DEF Message
<1>15. Open(buffer) \subseteq Open(buffer') \cup pushed'
  <2>. SUFFICES ASSUME NEW k \in 1 .. Len(buffer), ~buffer[k].flushed
                PROVE  buffer[k].id \in Open(buffer') \cup pushed'
    BY <1>1 DEF Open
  <2>1. CASE Full /\ k = 1
    BY <1>5, <2>1
  <2>2. CASE ~(Full /\ k = 1)
    <3>1. k - Gap \in 1 .. Len(Kept) /\ (k - Gap) + Gap = k
      BY <1>1, <1>4, <2>2
    <3>2. buffer'[k - Gap] = buffer[k] /\ k - Gap \in DOMAIN buffer'
      BY <1>4, <1>7, <3>1
    <3>. QED  BY <3>2 DEF Open
  <2>. QED  BY <2>1, <2>2
<1>16. appended + 1 \in Open(buffer')
  BY <1>3, <1>4, <1>6, <1>7 DEF Open
<1>17. LossHasACause'
  <2>. SUFFICES ASSUME NEW m \in 1 .. appended + 1
                PROVE  m \in stored \cup lost \cup pushed' \cup Ids(Unflushed)'
    BY <1>2, <1>5 DEF LossHasACause
  <2>1. Ids(Unflushed)' = Open(buffer')
    BY DEF Open, Ids, Unflushed
  <2>2. m \in 1 .. appended => m \in stored \cup lost \cup pushed \cup Open(buffer)
    BY OpenIsUnflushed DEF IInv, LossHasACause
  <2>3. m \in 1 .. appended \/ m = appended + 1
    BY <1>2
  <2>. QED  BY <1>13, <1>15, <1>16, <2>1, <2>2, <2>3
<1>. QED  BY <1>10, <1>11, <1>14, <1>17 DEF IInv

\* What has been written, or given up, no longer has to be flushed.
LEMMA MarkedLater ==
  ASSUME IInv, NEW ks \in SUBSET Unflushed, buffer' = Mark(ks),
         phase' # "down", UNCHANGED <<last, appended, pushed>>,
         stored \subseteq stored', lost \subseteq lost', Ids(ks) \subseteq stored' \cup lost'
  PROVE  /\ RingOK(buffer') /\ LastOK' /\ DownIsEmpty' /\ LossHasACause'
         /\ Marked(buffer') \subseteq stored' \cup lost'
<1>1. RingOK(buffer)
  BY DEF IInv
<1>2. /\ RingOK(buffer') /\ Len(buffer') = Len(buffer)
      /\ \A k \in 1 .. Len(buffer) : buffer'[k].id = buffer[k].id
      /\ Marked(buffer') \subseteq Marked(buffer) \cup Ids(ks)
      /\ Open(buffer) \subseteq Open(buffer') \cup Ids(ks)
  BY <1>1, MarkOK
<1>3. buffer' = <<>> <=> buffer = <<>>
  BY <1>1, <1>2, EmptySeq DEF RingOK
<1>4. LastOK'
  <2>. SUFFICES ASSUME buffer' # <<>> PROVE last = buffer'[Len(buffer')].id
    BY DEF LastOK
  <2>1. Len(buffer) \in 1 .. Len(buffer)
    <3>1. Len(buffer) \in Nat /\ Len(buffer) # 0
      BY <1>1, <1>3, EmptySeq, LenProperties DEF RingOK
    <3>. QED  BY <3>1
  <2>. QED  BY <1>2, <1>3, <2>1 DEF IInv, LastOK
<1>5. DownIsEmpty'
  BY DEF DownIsEmpty
<1>6. LossHasACause'
  <2>1. Ids(Unflushed)' = Open(buffer')
    BY DEF Open, Ids, Unflushed
  <2>2. ASSUME NEW m \in 1 .. appended
        PROVE  m \in stored' \cup lost' \cup pushed \cup Open(buffer')
    <3>1. m \in stored \cup lost \cup pushed \cup Open(buffer)
      BY OpenIsUnflushed DEF IInv, LossHasACause
    <3>. QED  BY <1>2, <3>1
  <2>. QED  BY <2>1, <2>2 DEF LossHasACause
<1>7. Marked(buffer') \subseteq stored' \cup lost'
  BY <1>2, Facts
<1>. QED  BY <1>2, <1>4, <1>5, <1>6, <1>7

\* Flushes, whether they succeed or fail.
LEMMA FlushOK ==
  ASSUME IInv, Flush \/ FlushBug \/ ShutdownFlush \/ FlushFails
  PROVE  IInv'
<1>1. CASE Flush \/ FlushBug \/ ShutdownFlush
  <2>1. /\ buffer' = Mark(Unflushed) /\ stored' = stored \cup Ids(Unflushed)
        /\ sheet' \in {"none", "healthy", "unhealthy"}
        /\ phase' = "up" /\ UNCHANGED <<last, healthy, appended, lost, pushed>>
    BY <1>1 DEF Flush, FlushBug, ShutdownFlush, Write
  <2>2. /\ RingOK(buffer') /\ LastOK' /\ DownIsEmpty' /\ LossHasACause'
        /\ Marked(buffer') \subseteq stored' \cup lost'
    BY <2>1, MarkedLater
  <2>3. stored \subseteq stored' /\ stored' \subseteq Message
    BY <2>1, Facts
  <2>4. TypeOK' /\ SnapshotsOK' /\ MarkedIsStored'
    <3>1. CASE UNCHANGED checkpoints
      BY <2>1, <2>2, <2>3, <3>1, Facts, FrameOK
    <3>2. CASE Checkpoint("bug_checkpoint", Mark(Unflushed))
      <4>1. "bug_checkpoint" \in Kind /\ RingOK(Mark(Unflushed))
        BY <2>1, <2>2 DEF Kind
      <4>. QED  BY <2>1, <2>2, <2>3, <3>2, <4>1, Facts, FrameCheckpointOK
    <3>. QED  BY <1>1, <3>1, <3>2 DEF Flush, FlushBug, ShutdownFlush
  <2>. QED  BY <2>2, <2>4 DEF IInv
<1>2. CASE FlushFails
  <2>1. PICK ks \in SUBSET Unflushed : buffer' = Mark(ks) /\ lost' = lost \cup (Ids(ks) \ stored)
    BY <1>2 DEF FlushFails
  <2>2. /\ healthy' = FALSE /\ phase' = "up"
        /\ UNCHANGED <<last, stored, sheet, checkpoints, appended, pushed>>
    BY <1>2 DEF FlushFails, database
  <2>3. Ids(ks) \subseteq Ids(Unflushed)
    BY DEF Ids
  <2>4. /\ lost \subseteq lost' /\ lost' \subseteq Message /\ stored \subseteq stored'
        /\ stored' \subseteq Message /\ Ids(ks) \subseteq stored' \cup lost'
    BY <2>1, <2>2, <2>3, Facts
  <2>5. /\ RingOK(buffer') /\ LastOK' /\ DownIsEmpty' /\ LossHasACause'
        /\ Marked(buffer') \subseteq stored' \cup lost'
    BY <2>1, <2>2, <2>4, MarkedLater
  <2>6. TypeOK' /\ SnapshotsOK' /\ MarkedIsStored'
    BY <2>2, <2>4, <2>5, Facts, FrameOK
  <2>. QED  BY <2>5, <2>6 DEF IInv
<1>. QED  BY <1>1, <1>2

\* The end of a process: what was open is stored, or known to be lost.
LEMMA EndOK ==
  ASSUME IInv, phase' = "down", buffer' = <<>>, last' = 0, healthy' = TRUE,
         UNCHANGED <<checkpoints, appended>>, sheet' \in {"none", "healthy", "unhealthy"},
         stored \subseteq stored', stored' \subseteq Message,
         lost \subseteq lost', lost' \subseteq Message, UNCHANGED pushed,
         Ids(Unflushed) \subseteq stored' \cup lost'
  PROVE  IInv'
<1>1. RingOK(buffer') /\ Marked(buffer') = {} /\ LastOK' /\ DownIsEmpty'
  <2>1. <<>> \in Seq(Entry) /\ Len(<<>>) = 0 /\ DOMAIN <<>> = {}
    BY EmptySeq
  <2>. QED  BY <2>1, CapacityAssumption DEF RingOK, Marked, LastOK, DownIsEmpty, Chained
<1>2. TypeOK' /\ SnapshotsOK' /\ MarkedIsStored'
  <2>1. 0 \in 0 .. MaxMessages
    BY BoundsAssumption
  <2>. QED  BY <1>1, <2>1, Facts, FrameOK
<1>3. LossHasACause'
  BY DEF IInv, LossHasACause
<1>. QED  BY <1>1, <1>2, <1>3 DEF IInv

\* A restored ring is one of the snapshots, or empty.
LEMMA RestoreOK ==
  ASSUME IInv, NEW c \in DOMAIN checkpoints, Restore(checkpoints[c]),
         phase' = "up", UNCHANGED <<healthy, stored, sheet, appended>>,
         lost \subseteq lost', lost' \subseteq Message, UNCHANGED pushed,
         Ids(Unflushed) \subseteq stored \cup lost'
  PROVE  IInv'
<1>. DEFINE s == checkpoints[c].snapshot
            v == Verified(s)
<1>1. RingOK(s) /\ s \in Seq(Entry) /\ Marked(s) \subseteq stored \cup lost
  BY DEF IInv, SnapshotsOK, RingOK, MarkedIsStored
<1>2. v = s \/ v = <<>>
  BY <1>1, VerifiedChain DEF RingOK
<1>3. RingOK(v) /\ Marked(v) \subseteq stored \cup lost
  <2>1. <<>> \in Seq(Entry) /\ Len(<<>>) = 0 /\ DOMAIN <<>> = {}
    BY EmptySeq
  <2>2. RingOK(<<>>) /\ Marked(<<>>) = {}
    BY <2>1, CapacityAssumption DEF RingOK, Marked, Chained
  <2>. QED  BY <1>1, <1>2, <2>2
<1>4. /\ buffer' = v /\ last' = (IF v = <<>> THEN 0 ELSE v[Len(v)].id)
      /\ Checkpoint("recovery", v) \/ UNCHANGED checkpoints
  BY DEF Restore, Reload
<1>. HIDE DEF v
<1>5. last' \in 0 .. MaxMessages
  <2>1. CASE v = <<>>
    BY <1>4, <2>1, BoundsAssumption
  <2>2. CASE v # <<>>
    <3>1. Len(v) \in 1 .. Len(v)
      <4>1. v \in Seq(Entry) /\ Len(v) \in Nat /\ Len(v) # 0
        BY <1>3, <2>2, EmptySeq, LenProperties DEF RingOK
      <4>. QED  BY <4>1
    <3>2. v[Len(v)] \in Entry
      BY <1>3, <3>1, ElementOfSeq DEF RingOK
    <3>. QED  BY <1>4, <2>2, <3>2, BoundsAssumption DEF Entry, Message
  <2>. QED  BY <2>1, <2>2
<1>6. /\ RingOK(buffer') /\ LastOK' /\ DownIsEmpty'
      /\ Marked(buffer') \subseteq stored' \cup lost'
  BY <1>3, <1>4 DEF LastOK, DownIsEmpty
<1>7. TypeOK' /\ SnapshotsOK' /\ MarkedIsStored'
  <2>1. CASE UNCHANGED checkpoints
    BY <1>5, <1>6, <2>1, Facts, FrameOK
  <2>2. CASE Checkpoint("recovery", v)
    <3>1. "recovery" \in Kind /\ Marked(v) \subseteq stored' \cup lost'
      BY <1>3 DEF Kind
    <3>. QED  BY <1>3, <1>5, <1>6, <2>2, <3>1, Facts, FrameCheckpointOK
  <2>. QED  BY <1>4, <2>1, <2>2
<1>8. LossHasACause'
  BY DEF IInv, LossHasACause
<1>. QED  BY <1>6, <1>7, <1>8 DEF IInv

----------------------------------------------------------------------------
\* Nothing has been appended, stored or saved at first.
LEMMA Initially == Init => IInv
<1>. SUFFICES ASSUME Init PROVE IInv
  OBVIOUS
<1>1. <<>> \in Seq(Entry) /\ Len(<<>>) = 0 /\ DOMAIN <<>> = {}
      /\ <<>> \in Seq([kind : Kind, snapshot : Seq(Entry), at : Nat])
  BY EmptySeq
<1>2. TypeOK
  BY <1>1, CapacityAssumption, BoundsAssumption DEF Init, TypeOK
<1>3. RingOK(buffer) /\ LastOK /\ SnapshotsOK /\ DownIsEmpty
  BY <1>1, CapacityAssumption DEF Init, RingOK, Chained, LastOK, SnapshotsOK, DownIsEmpty
<1>4. LossHasACause
  BY DEF Init, LossHasACause
<1>5. MarkedIsStored
  BY <1>1 DEF Init, MarkedIsStored, Marked
<1>. QED  BY <1>2, <1>3, <1>4, <1>5 DEF IInv

\* Every step keeps the invariant.
LEMMA StepOK ==
  ASSUME IInv, [Next]_vars
  PROVE  IInv'
<1>1. CASE AppendMessage
  BY <1>1, AppendOK
<1>2. CASE Flush \/ FlushBug \/ ShutdownFlush \/ FlushFails
  BY <1>2, FlushOK
<1>3. CASE ShutdownCheckpoint
  <2>1. /\ Checkpoint("last_good", buffer) /\ phase' = "saved" /\ phase = "up"
        /\ UNCHANGED <<buffer, last, healthy, stored, sheet, appended, lost, pushed>>
    BY <1>3 DEF ShutdownCheckpoint
  <2>2. "last_good" \in Kind
    BY DEF Kind
  <2>3. TypeOK' /\ SnapshotsOK' /\ MarkedIsStored'
    BY <2>1, <2>2, Facts, FrameCheckpointOK
  <2>4. LastOK' /\ DownIsEmpty' /\ LossHasACause' /\ RingOK(buffer')
    BY <2>1 DEF IInv, LastOK, DownIsEmpty, LossHasACause, Ids, Unflushed
  <2>. QED  BY <2>3, <2>4 DEF IInv
<1>5. CASE ProcessEnds
  <2>1. /\ phase' = "down" /\ buffer' = <<>> /\ last' = 0 /\ healthy' = TRUE
        /\ lost' = lost \cup (Ids(Unflushed) \ stored)
        /\ UNCHANGED <<stored, sheet, checkpoints, appended, pushed>>
    BY <1>5 DEF ProcessEnds, database
  <2>. QED  BY <2>1, Facts, EndOK
<1>6. CASE Start
  <2>1. /\ phase = "down" /\ phase' = "up"
        /\ UNCHANGED <<healthy, stored, sheet, appended, lost, pushed>>
    BY <1>6 DEF Start
  <2>2. Ids(Unflushed) = {}
    <3>1. buffer = <<>> /\ DOMAIN <<>> = {}
      BY <2>1, EmptySeq DEF IInv, DownIsEmpty
    <3>. QED  BY <3>1 DEF Ids, Unflushed
  <2>3. CASE \E k \in Latest : Restore(checkpoints[k])
    <3>1. PICK k \in DOMAIN checkpoints : Restore(checkpoints[k])
      BY <2>3 DEF Latest
    <3>. QED  BY <2>1, <2>2, <3>1, Facts, RestoreOK
  <2>4. CASE UNCHANGED <<buffer, last, checkpoints>>
    <3>1. TypeOK' /\ SnapshotsOK' /\ MarkedIsStored'
      BY <2>1, <2>4, Facts, FrameOK
    <3>2. LastOK' /\ DownIsEmpty' /\ LossHasACause' /\ RingOK(buffer')
      BY <2>1, <2>4 DEF IInv, LastOK, DownIsEmpty, LossHasACause, Ids, Unflushed
    <3>. QED  BY <3>1, <3>2 DEF IInv
  <2>. QED  BY <1>6, <2>3, <2>4 DEF Start
<1>7. CASE Recover
  <2>1. PICK k \in DOMAIN checkpoints : Restore(checkpoints[k])
    BY <1>7 DEF Recover
  <2>2. /\ phase' = "up" /\ lost' = lost \cup (Ids(Unflushed) \ stored)
        /\ UNCHANGED <<healthy, stored, sheet, appended, pushed>>
    BY <1>7 DEF Recover
  <2>. QED  BY <2>1, <2>2, Facts, RestoreOK
<1>8. CASE UNCHANGED vars
  BY <1>8 DEF vars, process, database, IInv, TypeOK, DownIsEmpty, LastOK, SnapshotsOK,
     LossHasACause, MarkedIsStored, Ids, Unflushed
<1>. QED  BY <1>1, <1>2, <1>3, <1>5, <1>6, <1>7, <1>8 DEF Next

\* The invariant holds of every state, over any number of processes, crashes and
\* recoveries.
THEOREM Invariance == Spec => []IInv
<1>1. Init => IInv
  BY Initially
<1>2. IInv /\ [Next]_vars => IInv'
  BY StepOK
<1>. QED  BY <1>1, <1>2, PTL DEF Spec

\* Every variable keeps its type; the ring never grows beyond its size.
THEOREM TypeCorrect == Spec => []TypeOK
<1>1. IInv => TypeOK
  BY DEF IInv
<1>. QED  BY <1>1, Invariance, PTL

\* Every message is stored, still to be flushed, given up in a known way, or pushed
\* out by the full ring (session_manager.py:199-234, 287-357).
THEOREM NothingVanishes == Spec => []LossHasACause
<1>1. IInv => LossHasACause
  BY DEF IInv
<1>. QED  BY <1>1, Invariance, PTL

\* What counts as flushed, in the ring or in a snapshot, is stored or known to be
\* lost (session_manager.py:287-372).
THEOREM MarkedMeansStored == Spec => []MarkedIsStored
<1>1. IInv => MarkedIsStored
  BY DEF IInv
<1>. QED  BY <1>1, Invariance, PTL

\* A recovery brings back all of a snapshot or nothing of it, and the chain goes
\* on from its end (session_manager.py:459-542).
THEOREM RecoveryIsWhole == Spec => []AllOrNothing
<1>1. IInv => AllOrNothing
  <2>. SUFFICES ASSUME IInv PROVE AllOrNothing
    OBVIOUS
  <2>1. Verified(buffer) \in {buffer, <<>>}
    BY VerifiedChain DEF IInv, RingOK
  <2>2. ASSUME NEW c \in DOMAIN checkpoints
        PROVE  LET s == checkpoints[c].snapshot
               IN Verified(s) = (IF s # <<>> /\ s[1].prev = 0 THEN s ELSE <<>>)
    BY VerifiedChain DEF IInv, SnapshotsOK, RingOK
  <2>. QED  BY <2>1, <2>2 DEF AllOrNothing, IInv, LastOK
<1>. QED  BY <1>1, Invariance, PTL

----------------------------------------------------------------------------
(* That the session is a journal needs the order of its messages: the ring   *)
(* and every snapshot hold messages that have been appended, oldest first,   *)
(* so that what a full ring drops, and what a failing flush marks, is the    *)
(* oldest of what waits.                                                     *)
Rising(s, n) == \A k \in 1 .. Len(s) : s[k].id <= n /\ \A j \in 1 .. k - 1 : s[j].id < s[k].id

Ordered ==
  /\ stored \subseteq 1 .. appended
  /\ Rising(buffer, appended)
  /\ \A c \in DOMAIN checkpoints : Rising(checkpoints[c].snapshot, appended)

\* What the journal sees of the ring and of the checkpoints.
Waiting == Open(buffer) \ stored

Pictures == {{}} \cup {Open(checkpoints[c].snapshot) : c \in DOMAIN checkpoints}

\* Later entries are newer, and open ones have been appended.
LEMMA RisingFacts ==
  ASSUME NEW s \in Seq(Entry), NEW n \in Nat, Rising(s, n)
  PROVE  /\ Len(s) \in Nat /\ DOMAIN s = 1 .. Len(s)
         /\ \A k \in 1 .. Len(s) : s[k].id \in Nat /\ s[k].id >= 1 /\ s[k].id <= n
         /\ \A j, k \in 1 .. Len(s) : j < k => s[j].id < s[k].id
         /\ Open(s) \subseteq 1 .. n
<1>1. Len(s) \in Nat /\ DOMAIN s = 1 .. Len(s) /\ \A k \in 1 .. Len(s) : s[k] \in Entry
  BY LenProperties
<1>2. \A k \in 1 .. Len(s) : s[k].id \in Nat /\ s[k].id >= 1 /\ s[k].id <= n
  BY <1>1, BoundsAssumption DEF Rising, Entry, Message
<1>3. ASSUME NEW j \in 1 .. Len(s), NEW k \in 1 .. Len(s), j < k
      PROVE  s[j].id < s[k].id
  <2>1. j \in 1 .. k - 1
    BY <1>1, <1>3
  <2>. QED  BY <2>1 DEF Rising
<1>4. Open(s) \subseteq 1 .. n
  BY <1>1, <1>2 DEF Open
<1>. QED  BY <1>1, <1>2, <1>3, <1>4

\* An empty ring or snapshot is in order, and nothing of it is open.
LEMMA NothingOpen ==
  ASSUME NEW n
  PROVE  Open(<<>>) = {} /\ Rising(<<>>, n)
<1>1. Len(<<>>) = 0 /\ DOMAIN <<>> = {}
  BY EmptySeq
<1>. QED  BY <1>1 DEF Open, Rising

\* Marking leaves open what it does not mark, and the order as it is.
LEMMA MarkOpen ==
  ASSUME IInv, NEW ks \in SUBSET Unflushed, NEW n
  PROVE  /\ Open(Mark(ks)) = {buffer[k].id : k \in Unflushed \ ks}
         /\ Rising(buffer, n) => Rising(Mark(ks), n)
<1>1. RingOK(buffer) /\ DOMAIN buffer = 1 .. Len(buffer) /\ Len(buffer) \in Nat
      /\ \A k \in 1 .. Len(buffer) : buffer[k] \in Entry
  BY LenProperties DEF IInv, RingOK
<1>2. Len(Mark(ks)) = Len(buffer) /\ \A k \in 1 .. Len(buffer) : Mark(ks)[k].id = buffer[k].id
  BY <1>1, MarkOK
<1>3. DOMAIN Mark(ks) = 1 .. Len(buffer)
  BY <1>1 DEF Mark
<1>4. ASSUME NEW k \in 1 .. Len(buffer)
      PROVE  Mark(ks)[k].flushed <=> buffer[k].flushed \/ k \in ks
  <2>1. Mark(ks)[k] = [buffer[k] EXCEPT !.flushed = buffer[k].flushed \/ k \in ks]
    BY <1>1 DEF Mark
  <2>2. buffer[k] \in [id : Message, prev : 0 .. MaxMessages, flushed : BOOLEAN]
    BY <1>1 DEF Entry
  <2>. QED  BY <2>1, <2>2
<1>5. Open(Mark(ks)) = {buffer[k].id : k \in Unflushed \ ks}
  <2>1. {k \in DOMAIN Mark(ks) : ~Mark(ks)[k].flushed} = Unflushed \ ks
    BY <1>1, <1>3, <1>4 DEF Unflushed
  <2>2. \A k \in Unflushed \ ks : Mark(ks)[k].id = buffer[k].id
    BY <1>1, <1>2 DEF Unflushed
  <2>. QED  BY <2>1, <2>2 DEF Open
<1>6. Rising(buffer, n) => Rising(Mark(ks), n)
  BY <1>1, <1>2 DEF Rising
<1>. QED  BY <1>5, <1>6

\* A flush that writes everything leaves nothing open.
LEMMA AllMarked ==
  ASSUME IInv
  PROVE  Open(Mark(Unflushed)) = {}
BY MarkOpen

\* A new checkpoint is one more picture.
LEMMA Pictured ==
  ASSUME IInv, NEW kind \in Kind, NEW snapshot, RingOK(snapshot), Checkpoint(kind, snapshot)
  PROVE  Pictures' = Pictures \cup {Open(snapshot)}
<1>1. /\ \A c \in DOMAIN checkpoints' :
           \/ checkpoints'[c].snapshot = snapshot
           \/ c \in DOMAIN checkpoints /\ checkpoints'[c] = checkpoints[c]
      /\ \A c \in DOMAIN checkpoints : c \in DOMAIN checkpoints' /\ checkpoints'[c] = checkpoints[c]
      /\ \E c \in DOMAIN checkpoints' : checkpoints'[c].snapshot = snapshot
  BY CheckpointOK DEF IInv
<1>2. Pictures' = {{}} \cup {Open(checkpoints'[c].snapshot) : c \in DOMAIN checkpoints'}
  BY DEF Pictures, Open
<1>3. {Open(checkpoints'[c].snapshot) : c \in DOMAIN checkpoints'} =
        {Open(checkpoints[c].snapshot) : c \in DOMAIN checkpoints} \cup {Open(snapshot)}
  BY <1>1
<1>. QED  BY <1>2, <1>3 DEF Pictures

\* A recovery takes a picture, or nothing, and leaves the pictures as they are.
LEMMA Recalled ==
  ASSUME IInv, Ordered, NEW c \in DOMAIN checkpoints, Restore(checkpoints[c])
  PROVE  /\ \E picture \in Pictures : Open(buffer') = picture
         /\ Pictures' = Pictures
         /\ Rising(buffer', appended)
         /\ \A d \in DOMAIN checkpoints' : Rising(checkpoints'[d].snapshot, appended)
<1>. DEFINE s == checkpoints[c].snapshot
            v == Verified(s)
<1>1. RingOK(s) /\ Rising(s, appended)
  BY DEF IInv, SnapshotsOK, Ordered
<1>2. v = s \/ v = <<>>
  BY <1>1, VerifiedChain DEF RingOK
<1>3. RingOK(<<>>)
  <2>1. <<>> \in Seq(Entry) /\ Len(<<>>) = 0
    BY EmptySeq
  <2>. QED  BY <2>1, CapacityAssumption DEF RingOK, Chained
<1>4. RingOK(v) /\ Rising(v, appended)
  BY <1>1, <1>2, <1>3, NothingOpen
<1>5. Open(v) \in Pictures
  BY <1>2, NothingOpen DEF Pictures
<1>6. buffer' = v /\ (Checkpoint("recovery", v) \/ UNCHANGED checkpoints)
  BY DEF Restore, Reload
<1>. HIDE DEF v
<1>7. CASE UNCHANGED checkpoints
  <2>1. Pictures' = Pictures
    BY <1>7 DEF Pictures, Open
  <2>. QED  BY <1>4, <1>5, <1>6, <1>7, <2>1 DEF Ordered
<1>8. CASE Checkpoint("recovery", v)
  <2>1. "recovery" \in Kind
    BY DEF Kind
  <2>2. Pictures' = Pictures
    BY <1>4, <1>5, <1>8, <2>1, Pictured
  <2>3. \A d \in DOMAIN checkpoints' :
          \/ checkpoints'[d].snapshot = v
          \/ d \in DOMAIN checkpoints /\ checkpoints'[d] = checkpoints[d]
    BY <1>4, <1>8, <2>1, CheckpointOK DEF IInv
  <2>4. \A d \in DOMAIN checkpoints' : Rising(checkpoints'[d].snapshot, appended)
    BY <1>4, <2>3 DEF Ordered
  <2>. QED  BY <1>4, <1>5, <1>6, <2>2, <2>4
<1>. QED  BY <1>6, <1>7, <1>8
\* What waits has been appended and is not stored.
LEMMA WaitingFacts ==
  ASSUME IInv, Ordered
  PROVE  /\ buffer \in Seq(Entry) /\ appended \in Nat /\ Rising(buffer, appended)
         /\ Open(buffer) \subseteq 1 .. appended
         /\ Waiting \subseteq 1 .. appended
         /\ Ids(Unflushed) = Open(buffer)
<1>1. buffer \in Seq(Entry) /\ appended \in Nat /\ Rising(buffer, appended)
  BY Facts DEF Ordered
<1>2. Open(buffer) \subseteq 1 .. appended
  BY <1>1, RisingFacts
<1>. QED  BY <1>1, <1>2, OpenIsUnflushed DEF Waiting

\* An append says a message, for which the oldest one that waits may make way.
LEMMA AppendSays ==
  ASSUME IInv, Ordered, AppendMessage
  PROVE  Ordered' /\ Record!Say
<1>. DEFINE n == appended + 1
            dropped == IF Full /\ ~buffer[1].flushed THEN {buffer[1].id} ELSE {}
            gone == dropped \ stored
<1>1. /\ buffer \in Seq(Entry) /\ Len(buffer) \in Nat
      /\ DOMAIN buffer = 1 .. Len(buffer) /\ \A k \in 1 .. Len(buffer) : buffer[k] \in Entry
      /\ appended \in Nat /\ appended' = n
      /\ Len(Kept) \in Nat /\ Len(Kept) = Len(buffer) - Gap
      /\ Gap \in {0, 1} /\ (Full <=> Gap = 1)
  BY AppendShape
<1>2. /\ Len(buffer') = Len(Kept) + 1 /\ DOMAIN buffer' = 1 .. Len(Kept) + 1
      /\ \A k \in 1 .. Len(Kept) : buffer'[k] = buffer[k + Gap] /\ k + Gap \in 1 .. Len(buffer)
      /\ buffer'[Len(Kept) + 1].id = n /\ buffer'[Len(Kept) + 1].flushed = FALSE
  BY AppendShape DEF NewEntry
<1>3. UNCHANGED <<stored, checkpoints>>
  BY DEF AppendMessage, database
<1>4. Full => 1 \in 1 .. Len(buffer)
  BY <1>1, CapacityAssumption DEF Full
<1>5. /\ \A k \in 1 .. Len(buffer) : buffer[k].id \in Nat /\ buffer[k].id >= 1 /\ buffer[k].id <= appended
      /\ \A j, k \in 1 .. Len(buffer) : j < k => buffer[j].id < buffer[k].id
      /\ Open(buffer) \subseteq 1 .. appended
  BY <1>1, WaitingFacts, RisingFacts
<1>6. Rising(buffer', n)
  <2>. SUFFICES ASSUME NEW k \in 1 .. Len(buffer')
                PROVE  buffer'[k].id <= n /\ \A j \in 1 .. k - 1 : buffer'[j].id < buffer'[k].id
    BY DEF Rising
  <2>1. CASE k \in 1 .. Len(Kept)
    <3>1. buffer'[k].id <= n
      <4>1. buffer'[k].id \in Nat /\ buffer'[k].id <= appended
        BY <1>2, <1>5, <2>1
      <4>. QED  BY <1>1, <4>1
    <3>2. ASSUME NEW j \in 1 .. k - 1
          PROVE  buffer'[j].id < buffer'[k].id
      <4>1. j \in 1 .. Len(Kept) /\ j + Gap < k + Gap
        BY <1>1, <2>1
      <4>2. j + Gap \in 1 .. Len(buffer) /\ k + Gap \in 1 .. Len(buffer)
        BY <1>2, <2>1, <4>1
      <4>. QED  BY <1>2, <1>5, <2>1, <4>1, <4>2
    <3>. QED  BY <3>1, <3>2
  <2>2. CASE k = Len(Kept) + 1
    <3>1. ASSUME NEW j \in 1 .. k - 1
          PROVE  buffer'[j].id < n
      <4>1. j \in 1 .. Len(Kept)
        BY <1>1, <2>2
      <4>. QED  BY <1>1, <1>2, <1>5, <4>1
    <3>2. buffer'[k].id = n
      BY <1>2, <2>2
    <3>3. buffer'[k].id <= n
      BY <1>1, <3>2
    <3>4. \A j \in 1 .. k - 1 : buffer'[j].id < buffer'[k].id
      BY <3>1, <3>2
    <3>. QED  BY <3>3, <3>4
  <2>3. k \in 1 .. Len(Kept) \/ k = Len(Kept) + 1
    BY <1>1, <1>2
  <2>. QED  BY <2>1, <2>2, <2>3
<1>7. Ordered'
  <2>1. stored' \subseteq 1 .. appended'
    BY <1>1, <1>3 DEF Ordered
  <2>2. ASSUME NEW c \in DOMAIN checkpoints
        PROVE  Rising(checkpoints[c].snapshot, n)
    <3>1. RingOK(checkpoints[c].snapshot) /\ Rising(checkpoints[c].snapshot, appended)
      BY DEF IInv, SnapshotsOK, Ordered
    <3>2. \A k \in 1 .. Len(checkpoints[c].snapshot) :
            checkpoints[c].snapshot[k].id \in Nat /\ checkpoints[c].snapshot[k].id <= appended
      BY <1>1, <3>1, RisingFacts DEF RingOK
    <3>3. \A k \in 1 .. Len(checkpoints[c].snapshot) : checkpoints[c].snapshot[k].id <= n
      BY <1>1, <3>2
    <3>. QED  BY <3>1, <3>3 DEF Rising
  <2>. QED  BY <1>1, <1>3, <1>6, <2>1, <2>2 DEF Ordered
<1>8. Open(buffer') = (Open(buffer) \ dropped) \cup {n}
  <2>1. ASSUME NEW k \in 1 .. Len(Kept), ~buffer'[k].flushed
        PROVE  buffer'[k].id \in Open(buffer) \ dropped
    <3>1. buffer'[k].id \in Open(buffer)
      BY <1>1, <1>2, <2>1 DEF Open
    <3>2. ASSUME Full PROVE buffer'[k].id # buffer[1].id
      <4>1. k + Gap \in 1 .. Len(buffer) /\ 1 < k + Gap /\ 1 \in 1 .. Len(buffer)
        BY <1>1, <1>2, <1>4, <2>1, <3>2
      <4>. QED  BY <1>2, <1>5, <2>1, <4>1
    <3>. QED  BY <3>1, <3>2
  <2>2. n \in Open(buffer')
    BY <1>1, <1>2 DEF Open
  <2>3. ASSUME NEW k \in 1 .. Len(buffer), ~buffer[k].flushed, buffer[k].id \notin dropped
        PROVE  buffer[k].id \in Open(buffer')
    <3>1. ~(Full /\ k = 1)
      BY <2>3
    <3>2. k - Gap \in 1 .. Len(Kept) /\ (k - Gap) + Gap = k
      BY <1>1, <3>1
    <3>3. buffer'[k - Gap] = buffer[k] /\ k - Gap \in DOMAIN buffer'
      BY <1>1, <1>2, <3>2
    <3>. QED  BY <2>3, <3>3 DEF Open
  <2>4. Open(buffer') \subseteq (Open(buffer) \ dropped) \cup {n}
    <3>. SUFFICES ASSUME NEW k \in 1 .. Len(Kept) + 1, ~buffer'[k].flushed
                  PROVE  buffer'[k].id \in (Open(buffer) \ dropped) \cup {n}
      BY <1>2 DEF Open
    <3>1. k \in 1 .. Len(Kept) \/ k = Len(Kept) + 1
      BY <1>1
    <3>. QED  BY <1>2, <2>1, <3>1
  <2>5. (Open(buffer) \ dropped) \cup {n} \subseteq Open(buffer')
    <3>. HIDE DEF dropped
    <3>1. \A m \in Open(buffer) : \E k \in 1 .. Len(buffer) : ~buffer[k].flushed /\ m = buffer[k].id
      BY <1>1 DEF Open
    <3>. QED  BY <2>2, <2>3, <3>1
  <2>. QED  BY <2>4, <2>5
<1>9. n \notin stored
  BY <1>1 DEF Ordered
<1>10. Waiting' = (Waiting \ gone) \cup {n}
  <2>1. Waiting' = Open(buffer') \ stored
    BY <1>3 DEF Waiting, Open
  <2>. HIDE DEF dropped
  <2>. QED  BY <1>8, <1>9, <2>1 DEF Waiting
<1>11. gone \subseteq Waiting
  BY <1>1, <1>4 DEF Waiting, Open
<1>12. \A m \in gone : \A k \in Waiting : m <= k
  <2>. SUFFICES ASSUME Full, NEW k \in 1 .. Len(buffer)
                PROVE  buffer[1].id <= buffer[k].id
    BY <1>1 DEF Waiting, Open
  <2>1. 1 \in 1 .. Len(buffer) /\ (k = 1 \/ 1 < k)
    BY <1>4
  <2>2. CASE 1 < k
    <3>1. buffer[1].id < buffer[k].id
      BY <1>5, <2>1, <2>2
    <3>. QED  BY <1>5, <2>1, <3>1
  <2>. QED  BY <1>5, <2>1, <2>2
<1>13. Pictures' = Pictures
  BY <1>3 DEF Pictures, Open
<1>. HIDE DEF gone
<1>14. Record!Say
  <2>1. \A m \in gone : Record!Oldest(m)
    BY <1>11, <1>12 DEF Record!Oldest, Waiting
  <2>2. gone \in SUBSET (Open(buffer) \ stored)
    BY <1>11 DEF Waiting
  <2>3. (Open(buffer) \ stored)' = ((Open(buffer) \ stored) \ gone) \cup {appended + 1}
    BY <1>10 DEF Waiting
  <2>4. UNCHANGED <<stored, {{}} \cup {Open(checkpoints[c].snapshot) : c \in DOMAIN checkpoints}>>
    BY <1>3, <1>13 DEF Pictures
  <2>. QED  BY <1>1, <2>1, <2>2, <2>3, <2>4 DEF Record!Say
<1>. QED  BY <1>7, <1>14
\* A flush saves all that waits, or gives up what it has marked: the messages up
\* to some point.
LEMMA FlushSaves ==
  ASSUME IInv, Ordered, Flush \/ FlushBug \/ ShutdownFlush \/ FlushFails
  PROVE  Ordered' /\ (Record!Save \/ Record!GiveUp)
<1>1. CASE Flush \/ FlushBug \/ ShutdownFlush
  <2>1. /\ buffer' = Mark(Unflushed) /\ stored' = stored \cup Open(buffer)
        /\ UNCHANGED appended
    BY <1>1, WaitingFacts DEF Flush, FlushBug, ShutdownFlush, Write
  <2>2. Open(buffer') = {} /\ Rising(buffer', appended)
    BY <2>1, MarkOpen, AllMarked, WaitingFacts
  <2>3. /\ Pictures' = Pictures
        /\ \A c \in DOMAIN checkpoints' : Rising(checkpoints'[c].snapshot, appended)
    <3>1. CASE UNCHANGED checkpoints
      BY <3>1 DEF Pictures, Open, Ordered
    <3>2. CASE Checkpoint("bug_checkpoint", Mark(Unflushed))
      <4>1. "bug_checkpoint" \in Kind /\ RingOK(Mark(Unflushed))
        BY MarkOK DEF Kind, IInv
      <4>2. Pictures' = Pictures \cup {{}}
        BY <3>2, <4>1, Pictured, AllMarked
      <4>3. \A c \in DOMAIN checkpoints' :
              \/ checkpoints'[c].snapshot = Mark(Unflushed)
              \/ c \in DOMAIN checkpoints /\ checkpoints'[c] = checkpoints[c]
        BY <3>2, <4>1, CheckpointOK DEF IInv
      <4>4. \A c \in DOMAIN checkpoints' : Rising(checkpoints'[c].snapshot, appended)
        BY <2>1, <2>2, <4>3 DEF Ordered
      <4>. QED  BY <4>2, <4>4 DEF Pictures
    <3>. QED  BY <1>1, <3>1, <3>2 DEF Flush, FlushBug, ShutdownFlush
  <2>4. Ordered'
    BY <2>1, <2>2, <2>3, WaitingFacts DEF Ordered
  <2>5. Record!Save
    <3>1. stored' = stored \cup (Open(buffer) \ stored) /\ (Open(buffer) \ stored)' = {}
      BY <2>1, <2>2
    <3>2. UNCHANGED <<appended, {{}} \cup {Open(checkpoints[c].snapshot) : c \in DOMAIN checkpoints}>>
      BY <2>1, <2>3 DEF Pictures
    <3>. QED  BY <3>1, <3>2 DEF Record!Save
  <2>. QED  BY <2>4, <2>5
<1>2. CASE FlushFails
  <2>1. PICK n \in 0 .. Len(buffer) : buffer' = Mark({k \in Unflushed : k <= n})
    BY <1>2 DEF FlushFails
  <2>. DEFINE ks == {k \in Unflushed : k <= n}
              bound == IF n = 0 THEN 0 ELSE buffer[n].id
  <2>2. UNCHANGED <<stored, checkpoints, appended>>
    BY <1>2 DEF FlushFails, database
  <2>3. Open(buffer') = {buffer[k].id : k \in Unflushed \ ks} /\ Rising(buffer', appended)
    BY <2>1, MarkOpen, WaitingFacts
  <2>4. /\ Len(buffer) \in Nat /\ DOMAIN buffer = 1 .. Len(buffer)
        /\ \A k \in 1 .. Len(buffer) : buffer[k].id \in Nat /\ buffer[k].id >= 1 /\ buffer[k].id <= appended
        /\ \A j, k \in 1 .. Len(buffer) : j < k => buffer[j].id < buffer[k].id
    BY WaitingFacts, RisingFacts
  <2>5. bound \in 0 .. appended
    <3>1. CASE n = 0
      BY <3>1, WaitingFacts
    <3>2. CASE n # 0
      <4>1. n \in 1 .. Len(buffer)
        BY <2>4, <3>2
      <4>. QED  BY <2>4, <3>2, <4>1, WaitingFacts
    <3>. QED  BY <3>1, <3>2
  <2>6. ASSUME NEW k \in 1 .. Len(buffer)
        PROVE  k <= n <=> buffer[k].id <= bound
    <3>1. CASE n = 0
      BY <2>4, <3>1
    <3>2. CASE n # 0
      <4>1. n \in 1 .. Len(buffer) /\ bound = buffer[n].id
        BY <2>4, <3>2
      <4>2. k < n => buffer[k].id < buffer[n].id
        BY <2>4, <4>1
      <4>3. n < k => buffer[n].id < buffer[k].id
        BY <2>4, <4>1
      <4>4. buffer[k].id \in Nat /\ buffer[n].id \in Nat /\ k \in Nat /\ n \in Nat
        BY <2>4, <4>1
      <4>5. k = n => buffer[k].id = buffer[n].id
        OBVIOUS
      <4>. HIDE DEF bound
      <4>. QED  BY <4>1, <4>2, <4>3, <4>4, <4>5
    <3>. QED  BY <3>1, <3>2
  <2>. HIDE DEF bound
  <2>7. Open(buffer') = {m \in Open(buffer) : m > bound}
    <3>1. ASSUME NEW k \in 1 .. Len(buffer)
          PROVE  ~(k <= n) <=> buffer[k].id > bound
      BY <2>4, <2>5, <2>6
    <3>2. Unflushed \ ks = {k \in Unflushed : ~(k <= n)} /\ Unflushed \subseteq 1 .. Len(buffer)
      BY <2>4 DEF Unflushed
    <3>3. Open(buffer) = {buffer[k].id : k \in Unflushed}
      BY DEF Open, Unflushed
    <3>. HIDE DEF ks
    <3>. QED  BY <2>3, <3>1, <3>2, <3>3
  <2>8. Record!GiveUp
    <3>1. (Open(buffer) \ stored)' = {m \in Open(buffer) \ stored : m > bound}
      BY <2>2, <2>7
    <3>2. UNCHANGED <<appended, stored, {{}} \cup {Open(checkpoints[c].snapshot) : c \in DOMAIN checkpoints}>>
      BY <2>2 DEF Open
    <3>. QED  BY <2>5, <3>1, <3>2 DEF Record!GiveUp
  <2>9. Ordered'
    BY <2>2, <2>3 DEF Ordered
  <2>. QED  BY <2>8, <2>9
<1>. QED  BY <1>1, <1>2

\* The end of a process gives up all that waits; a checkpoint takes a picture of it.
LEMMA EndKeeps ==
  ASSUME IInv, Ordered, ShutdownCheckpoint \/ ProcessEnds
  PROVE  Ordered' /\ (Record!TakePicture \/ Record!GiveUp)
<1>1. CASE ShutdownCheckpoint
  <2>1. Checkpoint("last_good", buffer) /\ UNCHANGED <<buffer, stored, appended>>
    BY <1>1 DEF ShutdownCheckpoint
  <2>2. "last_good" \in Kind /\ RingOK(buffer)
    BY DEF Kind, IInv
  <2>3. Pictures' = Pictures \cup {Open(buffer)}
    BY <2>1, <2>2, Pictured
  <2>4. \A c \in DOMAIN checkpoints' :
          \/ checkpoints'[c].snapshot = buffer
          \/ c \in DOMAIN checkpoints /\ checkpoints'[c] = checkpoints[c]
    BY <2>1, <2>2, CheckpointOK DEF IInv
  <2>5. Ordered'
    BY <2>1, <2>4 DEF Ordered
  <2>6. Open(buffer) = (Open(buffer) \ stored) \cup (Open(buffer) \cap stored)
        /\ (Open(buffer) \cap stored) \in SUBSET stored
    OBVIOUS
  <2>7. Record!TakePicture
    <3>1. (Open(buffer) \ stored)' = Open(buffer) \ stored
      BY <2>1
    <3>. QED  BY <2>1, <2>3, <2>6, <3>1 DEF Record!TakePicture, Pictures
  <2>. QED  BY <2>5, <2>7
<1>2. CASE ProcessEnds
  <2>1. buffer' = <<>> /\ UNCHANGED <<checkpoints, appended, stored>>
    BY <1>2 DEF ProcessEnds, database
  <2>2. Open(buffer') = {} /\ Rising(buffer', appended)
    BY <2>1, NothingOpen
  <2>3. (Open(buffer) \ stored)' = {}
    BY <2>2
  <2>4. UNCHANGED <<appended, {{}} \cup {Open(checkpoints[c].snapshot) : c \in DOMAIN checkpoints}>>
    BY <2>1 DEF Open
  <2>5. Ordered'
    BY <2>1, <2>2 DEF Ordered
  <2>6. {m \in Open(buffer) \ stored : m > appended} = {} /\ appended \in 0 .. appended
    BY WaitingFacts
  <2>. QED  BY <2>1, <2>3, <2>4, <2>5, <2>6 DEF Record!GiveUp
<1>. QED  BY <1>1, <1>2

\* What recovers takes back a picture, or nothing.
LEMMA RestoreRecalls ==
  ASSUME IInv, Ordered, NEW c \in DOMAIN checkpoints, Restore(checkpoints[c]),
         UNCHANGED <<stored, appended>>
  PROVE  Ordered' /\ Record!Recall
<1>1. /\ \E picture \in Pictures : Open(buffer') = picture
      /\ Pictures' = Pictures
      /\ Rising(buffer', appended)
      /\ \A d \in DOMAIN checkpoints' : Rising(checkpoints'[d].snapshot, appended)
  BY Recalled
<1>2. Ordered'
  BY <1>1 DEF Ordered
<1>3. PICK picture \in Pictures : Open(buffer') = picture
  BY <1>1
<1>4. (Open(buffer) \ stored)' = picture \ stored
  BY <1>3
<1>. QED  BY <1>1, <1>2, <1>4 DEF Record!Recall, Pictures

\* Every step keeps the order, and is one of the journal's or not seen by it.
LEMMA StepKeepsJournal ==
  ASSUME IInv, Ordered, [Next]_vars
  PROVE  Ordered' /\ [Record!Next]_(Record!vars)
<1>1. CASE AppendMessage
  BY <1>1, AppendSays DEF Record!Next
<1>2. CASE Flush \/ FlushBug \/ ShutdownFlush \/ FlushFails
  BY <1>2, FlushSaves DEF Record!Next
<1>3. CASE ShutdownCheckpoint \/ ProcessEnds
  BY <1>3, EndKeeps DEF Record!Next
<1>4. CASE \E c \in DOMAIN checkpoints : Restore(checkpoints[c]) /\ UNCHANGED <<stored, appended>>
  BY <1>4, RestoreRecalls DEF Record!Next
<1>5. CASE UNCHANGED <<buffer, stored, checkpoints, appended>>
  BY <1>5 DEF Ordered, Record!vars, Open
<1>6. Start => \/ \E c \in DOMAIN checkpoints : Restore(checkpoints[c]) /\ UNCHANGED <<stored, appended>>
               \/ UNCHANGED <<buffer, stored, checkpoints, appended>>
  BY DEF Start, Latest
<1>7. Recover => \E c \in DOMAIN checkpoints : Restore(checkpoints[c]) /\ UNCHANGED <<stored, appended>>
  BY DEF Recover
<1>8. UNCHANGED vars => UNCHANGED <<buffer, stored, checkpoints, appended>>
  BY DEF vars, process, database
<1>. QED  BY <1>1, <1>2, <1>3, <1>4, <1>5, <1>6, <1>7, <1>8 DEF Next

\* The session is a journal, for a ring of any size: whatever the ring drops,
\* whichever flush fails and whichever checkpoint a recovery takes, nothing newer
\* is stored while something older waits, nothing stored is lost, and only what a
\* checkpoint has kept comes back (session_manager.py:199-372, 459-542).
THEOREM SessionIsAJournal == Spec => KeepsJournal
<1>1. Init => Ordered /\ Record!Init
  <2>. SUFFICES ASSUME Init PROVE Ordered /\ Record!Init
    OBVIOUS
  <2>1. DOMAIN checkpoints = {} /\ buffer = <<>> /\ stored = {} /\ appended = 0
    BY EmptySeq DEF Init
  <2>2. Open(buffer) = {} /\ Rising(buffer, appended)
    BY <2>1, NothingOpen
  <2>. QED  BY <2>1, <2>2 DEF Ordered, Record!Init
<1>2. IInv /\ Ordered /\ [Next]_vars => Ordered' /\ [Record!Next]_(Record!vars)
  BY StepKeepsJournal
<1>. QED  BY <1>1, <1>2, Initially, StepOK, PTL DEF Spec, KeepsJournal, Record!Spec
=============================================================================
