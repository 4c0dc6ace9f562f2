------------------------ MODULE SessionReplay_proofs ------------------------
(***************************************************************************)
(* Proofs about the files of a recording process, at every moment of its   *)
(* life and whatever write fails, about what SessionReplay loads from      *)
(* them, and that process and files together are one log (TelemetryLog).   *)
(***************************************************************************)
EXTENDS SessionReplay, TelemetryIngress_proofs, FiniteSetTheorems, WellFoundedInduction

(***************************************************************************)
(* The inductive invariant.  The queue is the end of what was accepted,    *)
(* the record in hand comes before it, and every row comes before both.    *)
(***************************************************************************)

\* A record, but for the offset the worker gives it.
SameRecord(p, r) == RowOf(p, r) /\ p.bytes = r.bytes

\* How many records the worker has done with.
Written == Len(recAccepted) - Len(recQueue) - InHand

AcceptedInv ==
  /\ Len(recAccepted) = recIngressOrder
  /\ \A i \in 1 .. Len(recAccepted) : recAccepted[i].order = i

QueueInv ==
  /\ Len(recQueue) + InHand <= Len(recAccepted)
  /\ \A i \in 1 .. Len(recQueue) :
       recQueue[i] = recAccepted[Len(recAccepted) - Len(recQueue) + i]
  /\ InHand = 1 => SameRecord(recPending, recAccepted[Written + 1])
  /\ recPc \in {"raw", "timeline"} => recPending.kind = "gsi"
  /\ recPc = "supplementary" => recPending.kind = "supplementary"

\* A row of a file of one kind stands for one of the first n records.
IsRow(row, kind, records, n) ==
  /\ row.kind = kind
  /\ row.order \in 1 .. n
  /\ RowOf(row, records[row.order])

AreRows(rows, kind, records, n) ==
  /\ \A i \in 1 .. Len(rows) : IsRow(rows[i], kind, records, n)
  /\ \A i, j \in 1 .. Len(rows) : i < j => rows[i].order < rows[j].order

RowsInv ==
  /\ AreRows(timeline, "gsi", recAccepted, Written)
  /\ AreRows(suppTimeline, "supplementary", recAccepted, Written)

\* The bytes a row names are in the file, and are those of its record.
HasBody(row, file) ==
  /\ row.offset + row.bytes <= Len(file)
  /\ \A k \in 1 .. row.bytes : file[row.offset + k] = row.order

BodiesInv ==
  /\ recPc \notin {"catch", "done"} => rawOffset = Len(raw)
  /\ recPc = "timeline" => HasBody(recPending, raw)
  /\ \A i \in 1 .. Len(timeline) :
       /\ HasBody(timeline[i], raw)
       /\ timeline[i].bytes = recAccepted[timeline[i].order].bytes \/ timelineStream = "bad"

\* As long as no row of the timeline is lost, the rows are those of the first records.
Rows == Len(timeline) + Len(suppTimeline)

CompleteInv ==
  timelineStream = "good" =>
    /\ \A i \in 1 .. Len(timeline) : timeline[i].order <= Rows
    /\ \A i \in 1 .. Len(suppTimeline) : suppTimeline[i].order <= Rows
    /\ recPc \notin {"catch", "done"} => Written = Rows

FilesInv == AcceptedInv /\ QueueInv /\ RowsInv /\ BodiesInv /\ CompleteInv

(***************************************************************************)
(* Rows and bodies, of any files.                                          *)
(***************************************************************************)

\* Rows stay rows while the worker goes on and records are accepted.
LEMMA RowsKept ==
  ASSUME NEW rows, NEW kind, NEW records, NEW later, NEW m \in Nat, NEW n \in Nat,
         m <= n, \A i \in 1 .. m : later[i] = records[i],
         AreRows(rows, kind, records, m)
  PROVE  AreRows(rows, kind, later, n)
  BY DEF AreRows, IsRow

\* The row of the next record may be added.
LEMMA RowAdded ==
  ASSUME NEW rows \in Seq(Record), NEW kind, NEW records, NEW m \in Nat, NEW row \in Record,
         row.kind = kind, row.order = m + 1, RowOf(row, records[m + 1]),
         AreRows(rows, kind, records, m)
  PROVE  AreRows(Append(rows, row), kind, records, m + 1)
  <1> DEFINE more == Append(rows, row)
  <1>1. /\ Len(rows) \in Nat /\ Len(more) = Len(rows) + 1
        /\ \A i \in 1 .. Len(rows) : more[i] = rows[i]
        /\ more[Len(rows) + 1] = row
    OBVIOUS
  <1>2. \A i \in 1 .. Len(more) : i \in 1 .. Len(rows) \/ i = Len(rows) + 1
    BY <1>1
  <1>3. \A i \in 1 .. Len(rows) : rows[i].order \in Nat /\ rows[i].order < m + 1
    BY DEF AreRows, IsRow
  <1> HIDE DEF more
  <1>4. \A i \in 1 .. Len(more) : IsRow(more[i], kind, records, m + 1)
    <2>1. IsRow(row, kind, records, m + 1)
      BY DEF IsRow
    <2>2. \A i \in 1 .. Len(rows) : IsRow(rows[i], kind, records, m + 1)
      BY DEF AreRows, IsRow
    <2>3. QED
      BY <1>1, <1>2, <2>1, <2>2
  <1>5. ASSUME NEW i \in 1 .. Len(more), NEW j \in 1 .. Len(more), i < j
        PROVE  more[i].order < more[j].order
    <2>1. i \in 1 .. Len(rows)
      BY <1>1, <1>5
    <2>2. CASE j \in 1 .. Len(rows)
      BY <1>1, <1>5, <2>1, <2>2 DEF AreRows
    <2>3. CASE j = Len(rows) + 1
      BY <1>1, <1>3, <2>1, <2>3
    <2>4. QED
      BY <1>2, <2>2, <2>3
  <1>6. AreRows(more, kind, records, m + 1)
    BY <1>4, <1>5 DEF AreRows
  <1>7. QED
    BY <1>6 DEF more

\* A body stays where it is when the file grows.
LEMMA BodyKept ==
  ASSUME NEW file, NEW longer, NEW row \in Record,
         Len(file) \in Nat, Len(longer) \in Nat, Len(file) <= Len(longer),
         \A k \in 1 .. Len(file) : longer[k] = file[k],
         HasBody(row, file)
  PROVE  HasBody(row, longer)
  <1>1. row.offset \in Nat /\ row.bytes \in Nat
    BY DEF Record
  <1>2. \A k \in 1 .. row.bytes : row.offset + k \in 1 .. Len(file)
    BY <1>1 DEF HasBody
  <1>3. QED
    BY <1>1, <1>2 DEF HasBody

\* What appending bytes does to the file.
LEMMA RawGrows ==
  ASSUME raw \in Seq(Nat), NEW order \in Nat, NEW n \in Nat
  PROVE  /\ Len(RawAppended(order, n)) = Len(raw) + n
         /\ \A k \in 1 .. Len(raw) : RawAppended(order, n)[k] = raw[k]
         /\ \A k \in 1 .. n : RawAppended(order, n)[Len(raw) + k] = order
  <1> DEFINE body == [i \in 1 .. n |-> order]
  <1>1. body \in Seq(Nat) /\ Len(body) = n
    OBVIOUS
  <1>2. \A k \in 1 .. n : body[k] = order
    OBVIOUS
  <1> HIDE DEF body
  <1>3. /\ Len(raw \o body) = Len(raw) + n
        /\ \A k \in 1 .. Len(raw) : (raw \o body)[k] = raw[k]
        /\ \A k \in 1 .. n : (raw \o body)[Len(raw) + k] = body[k]
    BY <1>1
  <1>4. QED
    BY <1>2, <1>3 DEF RawAppended, body

(***************************************************************************)
(* The worker's steps.                                                     *)
(***************************************************************************)

LEMMA Shapes ==
  ASSUME RecorderTypeOK, QueueInv
  PROVE  /\ Len(recAccepted) \in Nat /\ Len(recQueue) \in Nat /\ InHand \in {0, 1}
         /\ Len(timeline) \in Nat /\ Len(suppTimeline) \in Nat
         /\ Len(raw) \in Nat /\ rawOffset \in Nat
         /\ Written \in Nat /\ Written + InHand + Len(recQueue) = Len(recAccepted)
         /\ recPending \in Record
         /\ \A i \in 1 .. Len(recAccepted) : recAccepted[i] \in Record
         /\ \A i \in 1 .. Len(timeline) : timeline[i] \in Record
         /\ \A i \in 1 .. Len(suppTimeline) : suppTimeline[i] \in Record
  <1>1. /\ Len(recAccepted) \in Nat /\ Len(recQueue) \in Nat /\ InHand \in {0, 1}
        /\ Len(timeline) \in Nat /\ Len(suppTimeline) \in Nat
        /\ Len(raw) \in Nat /\ rawOffset \in Nat
    BY DEF RecorderTypeOK, InHand
  <1>2. Written \in Nat /\ Written + InHand + Len(recQueue) = Len(recAccepted)
    BY <1>1 DEF QueueInv, Written
  <1>3. /\ recPending \in Record
        /\ \A i \in 1 .. Len(recAccepted) : recAccepted[i] \in Record
        /\ \A i \in 1 .. Len(timeline) : timeline[i] \in Record
        /\ \A i \in 1 .. Len(suppTimeline) : suppTimeline[i] \in Record
    BY DEF RecorderTypeOK
  <1>4. QED
    BY <1>1, <1>2, <1>3

\* Steps that leave the queue, the record in hand and the files alone.
Quiet ==
  /\ UNCHANGED <<recIngressOrder, recAccepted, recQueue, recPending, recorderFiles>>
  /\ \/ recPc' = recPc
     \/ recPc \in {"check", "waiting"} /\ recPc' \in {"check", "waiting", "done"}

LEMMA RecorderCases ==
  ASSUME RecorderStep
  PROVE  \/ Quiet \/ RecorderPop \/ PersistRaw \/ PersistRawFails
         \/ PersistTimelineRow \/ PersistTimelineRowFails
         \/ PersistSupplementary \/ PersistSupplementaryFails \/ RecorderCatch
         \/ \E r \in Record : Recorded(r)
  <1> USE DEF Quiet, recorderMemory
  <1>1. CASE UNCHANGED recorderVars
    BY <1>1 DEF recorderVars
  <1>2. CASE RecorderNotify \/ RecorderRequestStop \/ RecorderJoin
    BY <1>2 DEF RecorderNotify, RecorderRequestStop, RecorderJoin
  <1>3. CASE RecorderWait \/ RecorderExit
    BY <1>3 DEF RecorderWait, RecorderExit
  <1>4. QED
    BY <1>1, <1>2, <1>3 DEF RecorderStep, RecorderWorker

LEMMA QuietKeepsFiles ==
  ASSUME FilesInv, Quiet
  PROVE  FilesInv'
  <1> USE DEF Quiet, recorderFiles
  <1>1. InHand' = InHand
    BY DEF InHand
  <1>2. Written' = Written /\ Rows' = Rows
    BY <1>1 DEF Written, Rows
  <1>3. AcceptedInv' /\ QueueInv'
    BY <1>1, <1>2 DEF FilesInv, AcceptedInv, QueueInv, SameRecord
  <1>4. RowsInv' /\ BodiesInv' /\ CompleteInv'
    BY <1>2 DEF FilesInv, RowsInv, BodiesInv, CompleteInv
  <1>5. QED
    BY <1>3, <1>4 DEF FilesInv

\* A record is accepted: it joins the end of the queue.
LEMMA AcceptingKeepsFiles ==
  ASSUME RecorderTypeOK, FilesInv, NEW r \in Record, Recorded(r)
  PROVE  FilesInv'
  <1> USE DEF Recorded, RecorderPush, recorderFiles
  <1>0. QueueInv
    BY DEF FilesInv
  <1>1. /\ Len(recAccepted) \in Nat /\ Len(recQueue) \in Nat /\ InHand \in {0, 1}
        /\ Written \in Nat /\ Written + InHand + Len(recQueue) = Len(recAccepted)
    BY <1>0, Shapes
  <1>2. /\ Len(recAccepted') = Len(recAccepted) + 1
        /\ \A i \in 1 .. Len(recAccepted) : recAccepted'[i] = recAccepted[i]
        /\ recAccepted'[Len(recAccepted) + 1] = r
        /\ Len(recQueue') = Len(recQueue) + 1
        /\ \A i \in 1 .. Len(recQueue) : recQueue'[i] = recQueue[i]
        /\ recQueue'[Len(recQueue) + 1] = r
    BY DEF RecorderTypeOK
  <1>3. InHand' = InHand /\ Written' = Written
    BY <1>1, <1>2 DEF InHand, Written
  <1>4. AcceptedInv'
    <2>1. \A i \in 1 .. Len(recAccepted') : i \in 1 .. Len(recAccepted) \/ i = Len(recAccepted) + 1
      BY <1>1, <1>2
    <2>2. QED
      BY <1>1, <1>2, <2>1 DEF FilesInv, AcceptedInv
  <1>5. QueueInv'
    <2>1. ASSUME NEW i \in 1 .. Len(recQueue')
          PROVE  recQueue'[i] = recAccepted'[Len(recAccepted') - Len(recQueue') + i]
      <3>1. CASE i = Len(recQueue) + 1
        <4>1. Len(recAccepted') - Len(recQueue') + i = Len(recAccepted) + 1
          BY <1>1, <1>2, <3>1
        <4>2. QED
          BY <1>2, <3>1, <4>1
      <3>2. CASE i \in 1 .. Len(recQueue)
        <4>1. Len(recAccepted') - Len(recQueue') + i = Len(recAccepted) - Len(recQueue) + i
          BY <1>1, <1>2
        <4>2. Len(recAccepted) - Len(recQueue) + i \in 1 .. Len(recAccepted)
          BY <1>1, <3>2
        <4>3. QED
          BY <1>0, <1>2, <3>2, <4>1, <4>2 DEF QueueInv
      <3>3. i = Len(recQueue) + 1 \/ i \in 1 .. Len(recQueue)
        BY ONLY <1>1, <1>2, i \in 1 .. Len(recQueue')
      <3>4. QED
        BY <3>1, <3>2, <3>3
    <2>2. InHand' = 1 => SameRecord(recPending', recAccepted'[Written' + 1])
      <3>1. InHand = 1 => Written + 1 \in 1 .. Len(recAccepted)
        BY <1>1
      <3>2. QED
        BY <1>0, <1>2, <1>3, <3>1 DEF QueueInv
    <2>3. Len(recQueue') + InHand' <= Len(recAccepted')
      BY <1>1, <1>2, <1>3
    <2>4. QED
      BY <1>0, <2>1, <2>2, <2>3 DEF QueueInv
  <1>6. \A i \in 1 .. Written : recAccepted'[i] = recAccepted[i]
    BY <1>1, <1>2
  <1>7. RowsInv'
    <2>1. Written <= Written' /\ Written' \in Nat
      BY <1>1, <1>3
    <2>2. /\ AreRows(timeline, "gsi", recAccepted, Written)
          /\ AreRows(suppTimeline, "supplementary", recAccepted, Written)
      BY DEF FilesInv, RowsInv
    <2>3. /\ AreRows(timeline, "gsi", recAccepted', Written')
          /\ AreRows(suppTimeline, "supplementary", recAccepted', Written')
      BY <1>1, <1>6, <2>1, <2>2, RowsKept
    <2>4. QED
      BY <2>3 DEF RowsInv
  <1>8. BodiesInv'
    <2>1. \A i \in 1 .. Len(timeline) : timeline[i].order \in 1 .. Written
      BY DEF FilesInv, RowsInv, AreRows, IsRow
    <2>2. QED
      BY <1>6, <2>1 DEF FilesInv, BodiesInv
  <1>9. CompleteInv'
    BY <1>3 DEF FilesInv, CompleteInv, Rows
  <1>10. QED
    BY <1>4, <1>5, <1>7, <1>8, <1>9 DEF FilesInv

\* The first record of the queue is taken in hand.
LEMMA PopKeepsFiles ==
  ASSUME RecorderTypeOK, FilesInv, RecorderPop
  PROVE  FilesInv'
  <1> USE DEF RecorderPop, recorderMemory, recorderFiles
  <1>0. QueueInv
    BY DEF FilesInv
  <1>1. /\ Len(recAccepted) \in Nat /\ Len(recQueue) \in Nat /\ InHand = 0
        /\ Written \in Nat /\ Written + Len(recQueue) = Len(recAccepted)
    BY <1>0, Shapes DEF InHand
  <1>2. /\ Len(recQueue) >= 1
        /\ Len(recQueue') = Len(recQueue) - 1
        /\ \A i \in 1 .. Len(recQueue') : recQueue'[i] = recQueue[i + 1]
        /\ recPending' = recQueue[1] /\ recPending' \in Record
    BY DEF RecorderTypeOK
  <1>3. InHand' = 1 /\ Written' = Written
    BY <1>1, <1>2 DEF InHand, Written
  <1>4. recPending' = recAccepted[Written + 1]
    <2>1. recQueue[1] = recAccepted[Len(recAccepted) - Len(recQueue) + 1]
      BY <1>0, <1>1, <1>2 DEF QueueInv
    <2>2. Len(recAccepted) - Len(recQueue) = Written
      BY <1>1
    <2>3. QED
      BY <1>2, <2>1, <2>2
  <1>5. QueueInv'
    <2>1. ASSUME NEW i \in 1 .. Len(recQueue')
          PROVE  recQueue'[i] = recAccepted'[Len(recAccepted') - Len(recQueue') + i]
      <3>1. i + 1 \in 1 .. Len(recQueue)
        BY <1>1, <1>2
      <3>2. recQueue[i + 1] = recAccepted[Len(recAccepted) - Len(recQueue) + (i + 1)]
        BY <1>0, <3>1 DEF QueueInv
      <3>3. Len(recAccepted) - Len(recQueue) + (i + 1) = Len(recAccepted') - Len(recQueue') + i
        BY <1>1, <1>2
      <3>4. QED
        BY <1>2, <3>2, <3>3
    <2>2. Len(recQueue') + InHand' <= Len(recAccepted')
      BY <1>1, <1>2, <1>3
    <2>3. recPending'.kind \in {"gsi", "supplementary"}
      BY <1>2 DEF Record
    <2>4. SameRecord(recPending', recAccepted'[Written' + 1])
      BY <1>3, <1>4 DEF SameRecord, RowOf
    <2>5. QED
      BY <1>2, <2>1, <2>2, <2>3, <2>4 DEF QueueInv
  <1>6. AcceptedInv' /\ RowsInv' /\ BodiesInv' /\ CompleteInv'
    BY <1>3 DEF FilesInv, AcceptedInv, RowsInv, BodiesInv, CompleteInv, Rows
  <1>7. QED
    BY <1>5, <1>6 DEF FilesInv

\* A body is written, and its offset noted.
LEMMA RawKeepsFiles ==
  ASSUME RecorderTypeOK, FilesInv, PersistRaw
  PROVE  FilesInv'
  <1> USE DEF PersistRaw, recorderMemory
  <1>0. QueueInv /\ BodiesInv /\ InHand = 1
    BY DEF FilesInv, InHand
  <1>1. /\ Len(recAccepted) \in Nat /\ Len(recQueue) \in Nat
        /\ Written \in Nat /\ recPending \in Record
        /\ Len(raw) \in Nat /\ rawOffset = Len(raw)
    BY <1>0, Shapes DEF BodiesInv
  <1>2. /\ recPending.order \in Nat /\ recPending.bytes \in Nat /\ recPending.kind = "gsi"
    BY <1>0, <1>1 DEF QueueInv, Record
  <1>3. /\ recPending'.offset = rawOffset
        /\ recPending'.bytes = recPending.bytes
        /\ SameRecord(recPending', recPending)
    BY <1>1 DEF Record, SameRecord, RowOf
  <1>4. /\ Len(raw') = Len(raw) + recPending.bytes
        /\ \A k \in 1 .. Len(raw) : raw'[k] = raw[k]
        /\ \A k \in 1 .. recPending.bytes : raw'[Len(raw) + k] = recPending.order
    <2>1. raw \in Seq(Nat)
      BY DEF RecorderTypeOK
    <2>2. raw' = RawAppended(recPending.order, recPending.bytes)
      OBVIOUS
    <2>3. /\ Len(RawAppended(recPending.order, recPending.bytes)) = Len(raw) + recPending.bytes
          /\ \A k \in 1 .. Len(raw) :
               RawAppended(recPending.order, recPending.bytes)[k] = raw[k]
          /\ \A k \in 1 .. recPending.bytes :
               RawAppended(recPending.order, recPending.bytes)[Len(raw) + k] = recPending.order
      BY <1>2, <2>1, RawGrows, Zenon
    <2>4. QED
      BY ONLY <2>2, <2>3, Zenon
  <1>5. InHand' = 1 /\ Written' = Written /\ Rows' = Rows
    BY <1>0 DEF InHand, Written, Rows
  <1>6. QueueInv'
    BY <1>0, <1>2, <1>3, <1>5 DEF QueueInv, SameRecord, RowOf
  <1>7. BodiesInv'
    <2>1. HasBody(recPending', raw')
      BY <1>1, <1>2, <1>3, <1>4 DEF HasBody, SameRecord, RowOf
    <2>2. \A i \in 1 .. Len(timeline) : HasBody(timeline[i], raw')
      <3>1. \A i \in 1 .. Len(timeline) : timeline[i] \in Record
        BY DEF RecorderTypeOK
      <3>2. Len(raw') \in Nat /\ Len(raw) <= Len(raw')
        BY <1>1, <1>2, <1>4
      <3>3. QED
        BY <1>0, <1>1, <1>4, <3>1, <3>2, BodyKept DEF BodiesInv
    <2>3. rawOffset' = Len(raw')
      BY <1>1, <1>4
    <2>4. QED
      BY <1>0, <2>1, <2>2, <2>3 DEF BodiesInv
  <1>8. AcceptedInv' /\ RowsInv' /\ CompleteInv'
    BY <1>5 DEF FilesInv, AcceptedInv, RowsInv, CompleteInv
  <1>9. QED
    BY <1>6, <1>7, <1>8 DEF FilesInv

\* Part of a body is written, and the worker gives up.
LEMMA RawFailureKeepsFiles ==
  ASSUME RecorderTypeOK, FilesInv, PersistRawFails
  PROVE  FilesInv'
  <1> USE DEF PersistRawFails, recorderMemory
  <1>0. QueueInv /\ BodiesInv /\ InHand = 1
    BY DEF FilesInv, InHand
  <1>1. /\ Len(recAccepted) \in Nat /\ Len(recQueue) \in Nat
        /\ Written \in Nat /\ Written + 1 + Len(recQueue) = Len(recAccepted)
        /\ recPending \in Record /\ Len(raw) \in Nat
    BY <1>0, Shapes
  <1>2. recPending.order \in Nat /\ recPending.bytes \in Nat
    BY <1>1 DEF Record
  <1>3. PICK n \in 0 .. recPending.bytes - 1 : raw' = RawAppended(recPending.order, n)
    OBVIOUS
  <1>4. Len(raw') \in Nat /\ Len(raw) <= Len(raw') /\ \A k \in 1 .. Len(raw) : raw'[k] = raw[k]
    <2>1. n \in Nat
      BY <1>2
    <2>2. QED
      <3>1. raw \in Seq(Nat)
        BY DEF RecorderTypeOK
      <3>2. /\ Len(RawAppended(recPending.order, n)) = Len(raw) + n
            /\ \A k \in 1 .. Len(raw) : RawAppended(recPending.order, n)[k] = raw[k]
        BY <1>2, <2>1, <3>1, RawGrows
      <3>3. QED
        BY <1>1, <1>3, <2>1, <3>2
  <1>5. InHand' = 0 /\ Written' = Written + 1 /\ Rows' = Rows
    BY <1>0, <1>1 DEF InHand, Written, Rows
  <1>6. QueueInv'
    BY <1>0, <1>1, <1>5 DEF QueueInv
  <1>7. RowsInv'
    BY <1>1, <1>5, RowsKept DEF FilesInv, RowsInv
  <1>8. BodiesInv'
    <2>1. \A i \in 1 .. Len(timeline) : timeline[i] \in Record
      BY DEF RecorderTypeOK
    <2>2. \A i \in 1 .. Len(timeline) : HasBody(timeline[i], raw')
      BY <1>0, <1>1, <1>4, <2>1, BodyKept DEF BodiesInv
    <2>3. QED
      BY <1>0, <2>2 DEF BodiesInv
  <1>9. AcceptedInv' /\ CompleteInv'
    BY <1>5 DEF FilesInv, AcceptedInv, CompleteInv
  <1>10. QED
    BY <1>6, <1>7, <1>8, <1>9 DEF FilesInv

\* A row of the timeline is written or, when the stream is bad, dropped.
LEMMA TimelineKeepsFiles ==
  ASSUME RecorderTypeOK, FilesInv, PersistTimelineRow
  PROVE  FilesInv'
  <1> USE DEF PersistTimelineRow, recorderMemory
  <1>0. QueueInv /\ BodiesInv /\ RowsInv /\ CompleteInv /\ InHand = 1
    BY DEF FilesInv, InHand
  <1>1. /\ Len(recAccepted) \in Nat /\ Len(recQueue) \in Nat
        /\ Written \in Nat /\ Written + 1 + Len(recQueue) = Len(recAccepted)
        /\ recPending \in Record
        /\ Len(timeline) \in Nat /\ Len(suppTimeline) \in Nat
        /\ \A i \in 1 .. Len(timeline) : timeline[i] \in Record
        /\ \A i \in 1 .. Len(suppTimeline) : suppTimeline[i] \in Record
    BY <1>0, Shapes
  <1>2. InHand' = 0 /\ Written' = Written + 1
    BY <1>0, <1>1 DEF InHand, Written
  <1>3. AcceptedInv' /\ QueueInv'
    <2>1. AcceptedInv'
      BY DEF FilesInv, AcceptedInv
    <2>2. QueueInv'
      BY <1>0, <1>1, <1>2 DEF QueueInv
    <2>3. QED
      BY <2>1, <2>2
  <1>4. AreRows(suppTimeline, "supplementary", recAccepted, Written + 1)
    BY <1>0, <1>1, RowsKept DEF RowsInv
  <1>5. CASE timelineStream # "good"
    <2>1. AreRows(timeline, "gsi", recAccepted, Written + 1)
      BY <1>0, <1>1, RowsKept DEF RowsInv
    <2>2. QED
      BY <1>0, <1>2, <1>3, <1>4, <1>5, <2>1 DEF FilesInv, RowsInv, BodiesInv, CompleteInv
  <1>6. CASE timelineStream = "good"
    <2>1. /\ Len(timeline') = Len(timeline) + 1
          /\ \A i \in 1 .. Len(timeline) : timeline'[i] = timeline[i]
          /\ timeline'[Len(timeline) + 1] = recPending
          /\ \A i \in 1 .. Len(timeline') : i \in 1 .. Len(timeline) \/ i = Len(timeline) + 1
      BY <1>6 DEF RecorderTypeOK
    <2>2. /\ recPending.kind = "gsi" /\ recPending.order = Written + 1
          /\ RowOf(recPending, recAccepted[Written + 1])
          /\ recPending.bytes = recAccepted[Written + 1].bytes
      BY <1>0, <1>1 DEF FilesInv, AcceptedInv, QueueInv, SameRecord, RowOf
    <2>3. AreRows(Append(timeline, recPending), "gsi", recAccepted, Written + 1)
      <3>1. timeline \in Seq(Record) /\ AreRows(timeline, "gsi", recAccepted, Written)
        BY <1>0 DEF RecorderTypeOK, RowsInv
      <3>2. QED
        BY <1>1, <2>2, <3>1, RowAdded
    <2>4. RowsInv'
      BY <1>2, <1>4, <1>6, <2>3 DEF RowsInv
    <2>5. BodiesInv'
      <3>1. HasBody(recPending, raw)
        BY <1>0 DEF BodiesInv
      <3>2. \A i \in 1 .. Len(timeline') :
              HasBody(timeline'[i], raw) /\ timeline'[i].bytes = recAccepted[timeline'[i].order].bytes
        BY <1>0, <1>6, <2>1, <2>2, <3>1 DEF BodiesInv
      <3>3. QED
        BY <1>0, <3>2 DEF BodiesInv
    <2>6. CompleteInv'
      <3>1. Rows = Written /\ Rows' = Rows + 1
        BY <1>0, <1>1, <1>6, <2>1 DEF CompleteInv, Rows
      <3>2. \A i \in 1 .. Len(timeline') : timeline'[i].order <= Rows + 1
        <4>1. \A i \in 1 .. Len(timeline) : timeline[i].order <= Rows /\ timeline[i].order \in Nat
          BY <1>0, <1>1, <1>6 DEF CompleteInv, Record
        <4>2. QED
          BY <1>1, <2>1, <2>2, <3>1, <4>1
      <3>3. \A i \in 1 .. Len(suppTimeline) : suppTimeline[i].order <= Rows + 1
        <4>1. \A i \in 1 .. Len(suppTimeline) :
                suppTimeline[i].order <= Rows /\ suppTimeline[i].order \in Nat
          BY <1>0, <1>1, <1>6 DEF CompleteInv, Record
        <4>2. QED
          BY <1>1, <3>1, <4>1
      <3>4. QED
        BY <1>2, <3>1, <3>2, <3>3 DEF CompleteInv
    <2>7. QED
      BY <1>3, <2>4, <2>5, <2>6 DEF FilesInv
  <1>7. QED
    BY <1>5, <1>6

\* The flush of a row fails; from here on the timeline is not good.
LEMMA TimelineFailureKeepsFiles ==
  ASSUME RecorderTypeOK, FilesInv, PersistTimelineRowFails
  PROVE  FilesInv'
  <1> USE DEF PersistTimelineRowFails, recorderMemory
  <1>0. QueueInv /\ BodiesInv /\ RowsInv /\ InHand = 1
    BY DEF FilesInv, InHand
  <1>1. /\ Len(recAccepted) \in Nat /\ Len(recQueue) \in Nat
        /\ Written \in Nat /\ Written + 1 + Len(recQueue) = Len(recAccepted)
        /\ recPending \in Record
        /\ Len(timeline) \in Nat /\ Len(suppTimeline) \in Nat /\ Len(raw) \in Nat
    BY <1>0, Shapes
  <1>2. InHand' = 0 /\ Written' = Written + 1
    BY <1>0, <1>1 DEF InHand, Written
  <1>3. AcceptedInv' /\ QueueInv'
    <2>1. AcceptedInv'
      BY DEF FilesInv, AcceptedInv
    <2>2. QueueInv'
      BY <1>0, <1>1, <1>2 DEF QueueInv
    <2>3. QED
      BY <2>1, <2>2
  <1>4. AreRows(suppTimeline, "supplementary", recAccepted, Written + 1)
    BY <1>0, <1>1, RowsKept DEF RowsInv
  <1>5. CompleteInv'
    BY DEF CompleteInv
  <1>6. CASE UNCHANGED timeline
    <2>1. AreRows(timeline, "gsi", recAccepted, Written + 1)
      BY <1>0, <1>1, RowsKept DEF RowsInv
    <2>2. BodiesInv'
      BY <1>0, <1>6 DEF BodiesInv
    <2>3. QED
      BY <1>2, <1>3, <1>4, <1>5, <1>6, <2>1, <2>2 DEF FilesInv, RowsInv
  <1>7. ASSUME NEW n \in Nat, n <= recPending.bytes, timelineStream' = "bad",
               timeline' = Append(timeline, [recPending EXCEPT !.bytes = n])
        PROVE  FilesInv'
    <2> DEFINE row == [recPending EXCEPT !.bytes = n]
    <2>1. /\ row \in Record /\ row.bytes = n
          /\ row.kind = recPending.kind /\ row.order = recPending.order
          /\ row.sequence = recPending.sequence /\ row.relative = recPending.relative
          /\ row.offset = recPending.offset
      BY <1>1 DEF Record
    <2> HIDE DEF row
    <2>2. /\ row.kind = "gsi" /\ row.order = Written + 1
          /\ RowOf(row, recAccepted[Written + 1])
      BY <1>0, <1>1, <2>1 DEF FilesInv, AcceptedInv, QueueInv, SameRecord, RowOf
    <2>3. AreRows(Append(timeline, row), "gsi", recAccepted, Written + 1)
      <3>1. timeline \in Seq(Record) /\ AreRows(timeline, "gsi", recAccepted, Written)
        BY <1>0 DEF RecorderTypeOK, RowsInv
      <3>2. QED
        BY <1>1, <2>1, <2>2, <3>1, RowAdded
    <2>4. RowsInv'
      BY <1>2, <1>4, <1>7, <2>3 DEF RowsInv, row
    <2>5. /\ Len(timeline') = Len(timeline) + 1
          /\ \A i \in 1 .. Len(timeline) : timeline'[i] = timeline[i]
          /\ timeline'[Len(timeline) + 1] = row
          /\ \A i \in 1 .. Len(timeline') : i \in 1 .. Len(timeline) \/ i = Len(timeline) + 1
      BY <1>7, <2>1 DEF RecorderTypeOK, row
    <2>6. HasBody(row, raw)
      <3>1. recPending.offset \in Nat /\ recPending.bytes \in Nat
        BY <1>1 DEF Record
      <3>2. HasBody(recPending, raw)
        BY <1>0 DEF BodiesInv
      <3>3. Len(raw) \in Nat /\ n \in Nat /\ n <= recPending.bytes
        BY <1>1, <1>7
      <3>4. row.offset = recPending.offset /\ row.bytes = n /\ row.order = recPending.order
        BY <2>1
      <3>5. row.offset + row.bytes <= Len(raw)
        BY ONLY <3>1, <3>2, <3>3, <3>4 DEF HasBody
      <3>6. \A k \in 1 .. row.bytes : raw[row.offset + k] = row.order
        BY ONLY <3>1, <3>2, <3>3, <3>4 DEF HasBody
      <3>7. QED
        BY <3>5, <3>6 DEF HasBody
    <2>7. \A i \in 1 .. Len(timeline') : HasBody(timeline'[i], raw)
      BY <1>0, <2>5, <2>6 DEF BodiesInv
    <2>8. BodiesInv'
      BY <1>0, <1>7, <2>7 DEF BodiesInv
    <2>9. QED
      BY <1>3, <1>5, <2>4, <2>8 DEF FilesInv
  <1>8. CASE timelineStream' = "bad" /\ timeline' = Append(timeline, recPending)
    <2>1. recPending.bytes \in Nat /\ recPending = [recPending EXCEPT !.bytes = recPending.bytes]
      BY <1>1 DEF Record
    <2>2. QED
      BY <1>7, <1>8, <2>1
  <1>9. CASE /\ timelineStream' = "bad"
             /\ timeline' = Append(timeline, [recPending EXCEPT !.bytes = @ \div 10])
    <2>1. recPending.bytes \in Nat
      BY <1>1 DEF Record
    <2>2. recPending.bytes \div 10 \in Nat /\ recPending.bytes \div 10 <= recPending.bytes
      BY <2>1
    <2>3. QED
      BY <1>7, <1>9, <2>2
  <1>10. QED
    BY <1>6, <1>8, <1>9

\* The row of a supplementary record is written, whether or not its flush worked.
LEMMA SupplementaryRowAdded ==
  ASSUME RecorderTypeOK, FilesInv, recPc = "supplementary",
         suppTimeline' = Append(suppTimeline, recPending),
         recPc' \in {"check", "catch"},
         UNCHANGED <<recorderMemory, recQueue, rawOffset, raw, timeline, timelineStream>>
  PROVE  FilesInv'
  <1> USE DEF recorderMemory
  <1>0. QueueInv /\ BodiesInv /\ RowsInv /\ CompleteInv /\ InHand = 1
    BY DEF FilesInv, InHand
  <1>1. /\ Len(recAccepted) \in Nat /\ Len(recQueue) \in Nat
        /\ Written \in Nat /\ Written + 1 + Len(recQueue) = Len(recAccepted)
        /\ recPending \in Record
        /\ Len(timeline) \in Nat /\ Len(suppTimeline) \in Nat
        /\ \A i \in 1 .. Len(timeline) : timeline[i] \in Record
        /\ \A i \in 1 .. Len(suppTimeline) : suppTimeline[i] \in Record
    BY <1>0, Shapes
  <1>2. InHand' = 0 /\ Written' = Written + 1
    BY <1>0, <1>1 DEF InHand, Written
  <1>3. AcceptedInv' /\ QueueInv'
    <2>1. AcceptedInv'
      BY DEF FilesInv, AcceptedInv
    <2>2. QueueInv'
      BY <1>0, <1>1, <1>2 DEF QueueInv
    <2>3. QED
      BY <2>1, <2>2
  <1>4. /\ Len(suppTimeline') = Len(suppTimeline) + 1
        /\ \A i \in 1 .. Len(suppTimeline) : suppTimeline'[i] = suppTimeline[i]
        /\ suppTimeline'[Len(suppTimeline) + 1] = recPending
        /\ \A i \in 1 .. Len(suppTimeline') :
             i \in 1 .. Len(suppTimeline) \/ i = Len(suppTimeline) + 1
    BY DEF RecorderTypeOK
  <1>5. /\ recPending.kind = "supplementary" /\ recPending.order = Written + 1
        /\ RowOf(recPending, recAccepted[Written + 1])
    BY <1>0, <1>1 DEF FilesInv, AcceptedInv, QueueInv, SameRecord, RowOf
  <1>6. RowsInv'
    <2>1. /\ suppTimeline \in Seq(Record)
          /\ AreRows(suppTimeline, "supplementary", recAccepted, Written)
          /\ AreRows(timeline, "gsi", recAccepted, Written)
      BY <1>0 DEF RecorderTypeOK, RowsInv
    <2>2. AreRows(Append(suppTimeline, recPending), "supplementary", recAccepted, Written + 1)
      BY <1>1, <1>5, <2>1, RowAdded
    <2>3. AreRows(timeline, "gsi", recAccepted, Written + 1)
      BY <1>1, <2>1, RowsKept
    <2>4. QED
      BY <1>2, <2>2, <2>3 DEF RowsInv
  <1>7. BodiesInv'
    BY <1>0 DEF BodiesInv
  <1>8. CompleteInv'
    <2>1. SUFFICES ASSUME timelineStream = "good" PROVE CompleteInv'
      BY DEF CompleteInv
    <2>2. Rows = Written /\ Rows' = Rows + 1
      BY <1>0, <1>1, <1>4, <2>1 DEF CompleteInv, Rows
    <2>3. \A i \in 1 .. Len(timeline) : timeline[i].order <= Rows + 1
      <3>1. \A i \in 1 .. Len(timeline) : timeline[i].order <= Rows /\ timeline[i].order \in Nat
        BY <1>0, <1>1, <2>1 DEF CompleteInv, Record
      <3>2. QED
        BY <1>1, <2>2, <3>1
    <2>4. \A i \in 1 .. Len(suppTimeline') : suppTimeline'[i].order <= Rows + 1
      <3>1. \A i \in 1 .. Len(suppTimeline) :
              suppTimeline[i].order <= Rows /\ suppTimeline[i].order \in Nat
        BY <1>0, <1>1, <2>1 DEF CompleteInv, Record
      <3>2. QED
        BY <1>1, <1>4, <1>5, <2>2, <3>1
    <2>5. QED
      BY <1>2, <2>2, <2>3, <2>4 DEF CompleteInv
  <1>9. QED
    BY <1>3, <1>6, <1>7, <1>8 DEF FilesInv

\* The worker gives up without having written the row.
LEMMA SupplementaryRowLost ==
  ASSUME RecorderTypeOK, FilesInv, recPc = "supplementary", recPc' = "catch",
         UNCHANGED <<recorderMemory, recQueue, rawOffset, raw, timeline, timelineStream,
                     suppTimeline>>
  PROVE  FilesInv'
  <1> USE DEF recorderMemory
  <1>0. QueueInv /\ BodiesInv /\ RowsInv /\ InHand = 1
    BY DEF FilesInv, InHand
  <1>1. /\ Len(recAccepted) \in Nat /\ Len(recQueue) \in Nat
        /\ Written \in Nat /\ Written + 1 + Len(recQueue) = Len(recAccepted)
    BY <1>0, Shapes
  <1>2. InHand' = 0 /\ Written' = Written + 1
    BY <1>0, <1>1 DEF InHand, Written
  <1>3. AcceptedInv' /\ QueueInv'
    <2>1. AcceptedInv'
      BY DEF FilesInv, AcceptedInv
    <2>2. QueueInv'
      BY <1>0, <1>1, <1>2 DEF QueueInv
    <2>3. QED
      BY <2>1, <2>2
  <1>4. RowsInv'
    BY <1>0, <1>1, <1>2, RowsKept DEF RowsInv
  <1>5. BodiesInv' /\ CompleteInv'
    BY <1>0 DEF FilesInv, BodiesInv, CompleteInv, Rows
  <1>6. QED
    BY <1>3, <1>4, <1>5 DEF FilesInv

\* The queue is dropped.
LEMMA CatchKeepsFiles ==
  ASSUME RecorderTypeOK, FilesInv, RecorderCatch
  PROVE  FilesInv'
  <1> USE DEF RecorderCatch, recorderMemory, recorderFiles
  <1>0. QueueInv /\ RowsInv /\ InHand = 0
    BY DEF FilesInv, InHand
  <1>1. /\ Len(recAccepted) \in Nat /\ Len(recQueue) \in Nat
        /\ Written \in Nat /\ Written + Len(recQueue) = Len(recAccepted)
    BY <1>0, Shapes
  <1>2. InHand' = 0 /\ Len(recQueue') = 0 /\ Written' = Len(recAccepted)
    BY <1>1 DEF InHand, Written
  <1>3. AcceptedInv' /\ QueueInv'
    BY <1>1, <1>2 DEF FilesInv, AcceptedInv, QueueInv
  <1>4. RowsInv'
    BY <1>0, <1>1, <1>2, RowsKept DEF RowsInv
  <1>5. BodiesInv' /\ CompleteInv'
    BY DEF FilesInv, BodiesInv, CompleteInv, Rows
  <1>6. QED
    BY <1>3, <1>4, <1>5 DEF FilesInv

THEOREM FilesInvariant == Spec => []FilesInv
  <1>1. ASSUME Init PROVE FilesInv
    <2>1. /\ recAccepted = <<>> /\ recQueue = <<>> /\ timeline = <<>> /\ suppTimeline = <<>>
          /\ raw = <<>> /\ rawOffset = 0 /\ recIngressOrder = 0 /\ recPc = "check"
      BY <1>1 DEF Init, RecorderInit
    <2>2. InHand = 0 /\ Written = 0 /\ Rows = 0
      <3>1. Len(recAccepted) = 0 /\ Len(recQueue) = 0 /\ Len(timeline) = 0 /\ Len(suppTimeline) = 0
        BY <2>1
      <3>2. InHand = 0
        BY <2>1 DEF InHand
      <3>3. QED
        BY <3>1, <3>2 DEF Written, Rows
    <2>3. AcceptedInv /\ QueueInv
      BY <2>1, <2>2 DEF AcceptedInv, QueueInv
    <2>4. RowsInv /\ BodiesInv /\ CompleteInv
      BY <2>1, <2>2 DEF RowsInv, AreRows, BodiesInv, CompleteInv
    <2>5. QED
      BY <2>3, <2>4 DEF FilesInv
  <1>2. ASSUME IngressInv, FilesInv, [Next]_vars PROVE FilesInv'
    <2>1. RecorderTypeOK /\ RecorderStep
      BY <1>2, RecorderSteps DEF IngressInv, TypeOK
    <2>2. CASE PersistSupplementary \/ PersistSupplementaryFails
      BY <1>2, <2>1, <2>2, SupplementaryRowAdded, SupplementaryRowLost
      DEF PersistSupplementary, PersistSupplementaryFails
    <2>3. QED
      BY <1>2, <2>1, <2>2, RecorderCases, QuietKeepsFiles, AcceptingKeepsFiles, PopKeepsFiles,
         RawKeepsFiles, RawFailureKeepsFiles, TimelineKeepsFiles, TimelineFailureKeepsFiles,
         CatchKeepsFiles
  <1>3. QED
    BY <1>1, <1>2, IngressInvariant, PTL DEF Spec

(***************************************************************************)
(* What replay finds.                                                      *)
(***************************************************************************)

LEMMA SliceOf ==
  ASSUME NEW file \in Seq(Nat), NEW m \in Nat, NEW n \in Nat, m + n <= Len(file)
  PROVE  /\ DOMAIN SubSeq(file, m + 1, m + n) = 1 .. n
         /\ \A k \in 1 .. n : SubSeq(file, m + 1, m + n)[k] = file[m + k]
  <1> DEFINE slice == SubSeq(file, m + 1, m + n)
  <1>1. /\ slice \in Seq(Nat)
        /\ Len(slice) = n
        /\ \A k \in 1 .. n : slice[k] = file[m + 1 + k - 1]
    <2>1. \A i \in (m + 1) .. (m + n) : file[i] \in Nat
      OBVIOUS
    <2>2. Len(slice) = IF m + 1 <= m + n THEN (m + n) - (m + 1) + 1 ELSE 0
      BY <2>1, SubSeqProperties
    <2>3. QED
      BY <2>1, <2>2, SubSeqProperties
  <1>2. QED
    BY <1>1

\* Whatever write fails and wherever the process is killed, a row of the timeline
\* names bytes that are in raw.gsi and are its own record's (persist_snapshot:
\* the body before the row, the offset moved only by a body that was written).
THEOREM RowsHaveTheirBodies == Spec => []EveryRowHasItsBody
  <1>1. ASSUME IngressInv, FilesInv PROVE EveryRowHasItsBody
    <2>1. SUFFICES ASSUME NEW i \in 1 .. Len(timeline)
                   PROVE  /\ ~ShortRead(timeline[i])
                          /\ \A k \in DOMAIN LoadReplayBody(timeline[i]) :
                               LoadReplayBody(timeline[i])[k] = timeline[i].order
                          /\ \/ timeline[i].bytes = recAccepted[timeline[i].order].bytes
                             \/ timelineStream = "bad"
      BY DEF EveryRowHasItsBody
    <2> DEFINE row == timeline[i]
    <2>2. raw \in Seq(Nat) /\ row \in Record
      BY <1>1 DEF IngressInv, TypeOK, RecorderTypeOK
    <2>3. row.offset \in Nat /\ row.bytes \in Nat /\ Len(raw) \in Nat
      BY <2>2 DEF Record
    <2>4. HasBody(row, raw)
      BY <1>1 DEF FilesInv, BodiesInv
    <2>5. row.bytes = recAccepted[row.order].bytes \/ timelineStream = "bad"
      BY <1>1 DEF FilesInv, BodiesInv
    <2> HIDE DEF row
    <2>6. ~ShortRead(row)
      BY <2>3, <2>4 DEF HasBody, ShortRead
    <2>7. /\ DOMAIN LoadReplayBody(row) = 1 .. row.bytes
          /\ \A k \in 1 .. row.bytes : LoadReplayBody(row)[k] = raw[row.offset + k]
      <3>1. row.offset + row.bytes <= Len(raw)
        BY <2>4 DEF HasBody
      <3>2. QED
        BY <2>2, <2>3, <3>1, SliceOf DEF LoadReplayBody
    <2>8. QED
      BY <2>4, <2>5, <2>6, <2>7 DEF HasBody, row
  <1>2. QED
    BY <1>1, IngressInvariant, FilesInvariant, PTL

(***************************************************************************)
(* Sorting distinct keys: the place of each row is one more than the       *)
(* number of keys below its own.                                           *)
(***************************************************************************)

Distinct(keys) == \A j, k \in DOMAIN keys : j # k => keys[j] # keys[k]

Below(keys, k) == {j \in DOMAIN keys : keys[j] < keys[k]}

Rank(keys, k) == Cardinality(Below(keys, k)) + 1

LEMMA RankType ==
  ASSUME NEW n \in Nat, NEW keys \in [1 .. n -> Nat], NEW k \in 1 .. n
  PROVE  /\ IsFiniteSet(Below(keys, k))
         /\ Rank(keys, k) \in 1 .. n
  <1>1. IsFiniteSet(1 .. n) /\ Cardinality(1 .. n) = n
    BY FS_Interval
  <1>2. IsFiniteSet((1 .. n) \ {k}) /\ Cardinality((1 .. n) \ {k}) = n - 1
    BY <1>1, FS_RemoveElement
  <1>3. Below(keys, k) \in SUBSET ((1 .. n) \ {k})
    BY DEF Below
  <1>4. IsFiniteSet(Below(keys, k)) /\ Cardinality(Below(keys, k)) <= n - 1
    BY <1>2, <1>3, FS_Subset
  <1>5. Cardinality(Below(keys, k)) \in Nat
    BY <1>4, FS_CardinalityType
  <1>6. QED
    BY <1>4, <1>5 DEF Rank

\* The ranks are in the order of the keys.
LEMMA RankIsMonotone ==
  ASSUME NEW n \in Nat, NEW keys \in [1 .. n -> Nat],
         NEW j \in 1 .. n, NEW k \in 1 .. n, keys[j] < keys[k]
  PROVE  Rank(keys, j) < Rank(keys, k)
  <1>1. Below(keys, j) \in SUBSET Below(keys, k)
    BY DEF Below
  <1>2. j \in Below(keys, k) /\ j \notin Below(keys, j)
    BY DEF Below
  <1>3. IsFiniteSet(Below(keys, k)) /\ IsFiniteSet(Below(keys, j))
    BY RankType
  <1>4. /\ Cardinality(Below(keys, j)) <= Cardinality(Below(keys, k))
        /\ Cardinality(Below(keys, j)) # Cardinality(Below(keys, k))
    BY <1>1, <1>2, <1>3, FS_Subset
  <1>5. Cardinality(Below(keys, j)) \in Nat /\ Cardinality(Below(keys, k)) \in Nat
    BY <1>3, FS_CardinalityType
  <1>6. QED
    BY <1>4, <1>5 DEF Rank

\* Every place is taken by one row.
LEMMA RankIsOnto ==
  ASSUME NEW n \in Nat, NEW keys \in [1 .. n -> Nat], Distinct(keys), NEW i \in 1 .. n
  PROVE  \E k \in 1 .. n : Rank(keys, k) = i
  <1> DEFINE rank == [k \in 1 .. n |-> Rank(keys, k)]
  <1>1. rank \in [1 .. n -> 1 .. n]
    BY RankType
  <1>2. \A j, k \in 1 .. n : rank[j] = rank[k] => j = k
    <2>1. SUFFICES ASSUME NEW j \in 1 .. n, NEW k \in 1 .. n, j # k PROVE rank[j] # rank[k]
      OBVIOUS
    <2>2. keys[j] < keys[k] \/ keys[k] < keys[j]
      BY <2>1 DEF Distinct
    <2>3. Rank(keys, j) < Rank(keys, k) \/ Rank(keys, k) < Rank(keys, j)
      BY <2>2, RankIsMonotone
    <2>4. QED
      BY <1>1, <2>3
  <1>3. rank \in Injection(1 .. n, 1 .. n)
    BY <1>1, <1>2 DEF Injection, IsInjective
  <1>4. IsFiniteSet(1 .. n)
    BY FS_Interval
  <1>5. rank \in Surjection(1 .. n, 1 .. n)
    BY <1>3, <1>4, FS_Injection
  <1>6. QED
    BY <1>5 DEF Surjection

\* Keys that are the numbers from 1 to n are their own ranks.
LEMMA RankIsKey ==
  ASSUME NEW n \in Nat, NEW keys \in [1 .. n -> 1 .. n], Distinct(keys), NEW k \in 1 .. n
  PROVE  Rank(keys, k) = keys[k]
  <1>0. keys \in [1 .. n -> Nat] /\ keys[k] \in 1 .. n
    OBVIOUS
  <1>1. keys \in Injection(1 .. n, 1 .. n)
    BY DEF Injection, IsInjective, Distinct
  <1>2. keys \in Surjection(1 .. n, 1 .. n)
    <2>1. IsFiniteSet(1 .. n)
      BY FS_Interval
    <2>2. QED
      BY <1>1, <2>1, FS_Injection
  <1> DEFINE small == [j \in Below(keys, k) |-> keys[j]]
  <1>3. small \in Surjection(Below(keys, k), 1 .. (keys[k] - 1))
    <2>1. \A j \in Below(keys, k) : keys[j] \in 1 .. (keys[k] - 1)
      BY <1>0 DEF Below
    <2>2. ASSUME NEW t \in 1 .. (keys[k] - 1) PROVE \E j \in Below(keys, k) : small[j] = t
      <3>1. t \in 1 .. n /\ t < keys[k]
        BY <1>0
      <3>2. PICK j \in 1 .. n : keys[j] = t
        BY <1>2, <3>1 DEF Surjection
      <3>3. j \in Below(keys, k)
        BY <3>1, <3>2 DEF Below
      <3>4. QED
        BY <3>2, <3>3
    <2>3. QED
      BY <2>1, <2>2 DEF Surjection
  <1>4. small \in Injection(Below(keys, k), 1 .. (keys[k] - 1))
    BY <1>0, <1>3 DEF Injection, IsInjective, Surjection, Distinct, Below
  <1>5. Cardinality(1 .. (keys[k] - 1)) = Cardinality(Below(keys, k))
    <2>1. IsFiniteSet(Below(keys, k))
      BY <1>0, RankType
    <2>2. QED
      BY <1>3, <1>4, <2>1, FS_Surjection
  <1>6. Cardinality(1 .. (keys[k] - 1)) = keys[k] - 1
    <2>1. keys[k] - 1 \in Nat
      BY <1>0
    <2>2. \A t \in Nat : Cardinality(1 .. t) = t
      BY ONLY FS_Interval
    <2>3. QED
      BY <2>1, <2>2, Zenon
  <1>7. QED
    BY <1>0, <1>5, <1>6 DEF Rank

(***************************************************************************)
(* The stream that is replayed.                                            *)
(***************************************************************************)

\* The rows of both files, and their orders.
BothFiles == timeline \o suppTimeline

Orders == [k \in 1 .. Rows |-> BothFiles[k].order]

\* The row that is replayed as the i-th.
Source(i) == CHOOSE k \in 1 .. Rows : Rank(Orders, k) = i

\* No two rows of a session have the same order, and each stands for a record.
LEMMA RowsAreDistinct ==
  ASSUME RecorderTypeOK, FilesInv
  PROVE  /\ Rows \in Nat /\ Len(BothFiles) = Rows /\ BothFiles \in Seq(Record)
         /\ \A k \in 1 .. Rows : /\ BothFiles[k] \in Record
                                 /\ BothFiles[k].order \in 1 .. Len(recAccepted)
                                 /\ RowOf(BothFiles[k], recAccepted[BothFiles[k].order])
         /\ Orders \in [1 .. Rows -> Nat] /\ Distinct(Orders)
         /\ \A k \in 1 .. Rows : Orders[k] = BothFiles[k].order
  <1>0. RowsInv /\ QueueInv
    BY DEF FilesInv
  <1>1. /\ Len(timeline) \in Nat /\ Len(suppTimeline) \in Nat /\ Len(recAccepted) \in Nat
        /\ Written \in Nat /\ Written <= Len(recAccepted)
        /\ timeline \in Seq(Record) /\ suppTimeline \in Seq(Record)
    BY <1>0, Shapes DEF RecorderTypeOK
  <1>2. /\ Rows \in Nat /\ Len(BothFiles) = Rows /\ BothFiles \in Seq(Record)
        /\ \A k \in 1 .. Len(timeline) : BothFiles[k] = timeline[k]
        /\ \A k \in 1 .. Len(suppTimeline) : BothFiles[Len(timeline) + k] = suppTimeline[k]
    BY <1>1 DEF Rows, BothFiles
  <1>3. \A k \in 1 .. Rows :
          \/ k \in 1 .. Len(timeline)
          \/ k - Len(timeline) \in 1 .. Len(suppTimeline)
             /\ k = Len(timeline) + (k - Len(timeline))
    BY <1>1, <1>2 DEF Rows
  <1>4. ASSUME NEW k \in 1 .. Rows
        PROVE  \/ k \in 1 .. Len(timeline) /\ BothFiles[k] = timeline[k]
                  /\ IsRow(BothFiles[k], "gsi", recAccepted, Written)
               \/ k - Len(timeline) \in 1 .. Len(suppTimeline)
                  /\ BothFiles[k] = suppTimeline[k - Len(timeline)]
                  /\ IsRow(BothFiles[k], "supplementary", recAccepted, Written)
    BY <1>0, <1>2, <1>3 DEF RowsInv, AreRows
  <1>5. \A k \in 1 .. Rows : /\ BothFiles[k] \in Record
                             /\ BothFiles[k].order \in 1 .. Len(recAccepted)
                             /\ RowOf(BothFiles[k], recAccepted[BothFiles[k].order])
    <2>1. \A k \in 1 .. Rows : BothFiles[k] \in Record
      BY <1>2
    <2>2. \A k \in 1 .. Rows : /\ BothFiles[k].order \in 1 .. Written
                               /\ RowOf(BothFiles[k], recAccepted[BothFiles[k].order])
      BY <1>4 DEF IsRow
    <2>3. QED
      BY <1>1, <2>1, <2>2
  <1>6. ASSUME NEW j \in 1 .. Rows, NEW k \in 1 .. Rows, j < k
        PROVE  BothFiles[j].order # BothFiles[k].order
    <2>1. CASE j \in 1 .. Len(timeline) /\ k \in 1 .. Len(timeline)
      BY <1>0, <1>2, <1>5, <1>6, <2>1 DEF RowsInv, AreRows
    <2>2. CASE j \notin 1 .. Len(timeline) /\ k \notin 1 .. Len(timeline)
      <3>1. /\ j - Len(timeline) \in 1 .. Len(suppTimeline)
            /\ k - Len(timeline) \in 1 .. Len(suppTimeline)
            /\ j - Len(timeline) < k - Len(timeline)
        BY <1>1, <1>3, <1>6, <2>2
      <3>2. suppTimeline[j - Len(timeline)].order < suppTimeline[k - Len(timeline)].order
        BY <1>0, <3>1 DEF RowsInv, AreRows
      <3>3. BothFiles[j].order < BothFiles[k].order
        BY <1>4, <2>2, <3>2
      <3>4. QED
        BY <1>5, <3>3
    <2>3. CASE j \in 1 .. Len(timeline) /\ k \notin 1 .. Len(timeline)
      <3>1. BothFiles[j].kind = "gsi" /\ BothFiles[k].kind = "supplementary"
        <4>1. IsRow(BothFiles[k], "supplementary", recAccepted, Written)
          BY <1>4, <2>3
        <4>2. IsRow(BothFiles[j], "gsi", recAccepted, Written)
          BY <1>0, <1>2, <2>3 DEF RowsInv, AreRows
        <4>3. QED
          BY <4>1, <4>2 DEF IsRow
      <3>2. /\ BothFiles[j].kind = recAccepted[BothFiles[j].order].kind
            /\ BothFiles[k].kind = recAccepted[BothFiles[k].order].kind
        BY <1>5 DEF RowOf
      <3>3. QED
        BY <3>1, <3>2
    <2>4. QED
      BY <1>1, <1>6, <2>1, <2>2, <2>3
  <1>7. /\ Orders \in [1 .. Rows -> Nat]
        /\ \A k \in 1 .. Rows : Orders[k] = BothFiles[k].order
    BY <1>1, <1>5 DEF Orders
  <1>8. Distinct(Orders)
    <2>1. DOMAIN Orders = 1 .. Rows
      BY DEF Orders
    <2>2. SUFFICES ASSUME NEW j \in 1 .. Rows, NEW k \in 1 .. Rows, j # k
                   PROVE  BothFiles[j].order # BothFiles[k].order
      BY <1>7, <2>1 DEF Distinct
    <2>3. j < k \/ k < j
      BY <1>2, <2>2
    <2>4. QED
      BY <1>6, <2>3
  <1>9. QED
    BY <1>2, <1>5, <1>7, <1>8

\* std::stable_sort puts the rows in the order of their orders.
LEMMA StreamIsSorted ==
  ASSUME RecorderTypeOK, FilesInv
  PROVE  /\ DOMAIN LoadReplayStream = 1 .. Rows
         /\ \A i \in 1 .. Rows : /\ Source(i) \in 1 .. Rows
                                 /\ Rank(Orders, Source(i)) = i
                                 /\ LoadReplayStream[i] = BothFiles[Source(i)]
  <1>1. /\ DOMAIN BothFiles = 1 .. Rows
        /\ DOMAIN Orders = 1 .. Rows
        /\ \A k \in 1 .. Rows : BothFiles[k].order = Orders[k]
        /\ Rows \in Nat /\ Orders \in [1 .. Rows -> Nat] /\ Distinct(Orders)
    BY RowsAreDistinct DEF Orders
  <1>2. ASSUME NEW j \in 1 .. Rows, NEW k \in 1 .. Rows
        PROVE  SortedBefore(BothFiles, j, k) <=> Orders[j] < Orders[k]
    <2>1. Orders[j] \in Nat /\ Orders[k] \in Nat
      BY <1>1
    <2>2. CASE j = k
      BY <1>1, <2>1, <2>2 DEF SortedBefore, ReplayedBefore, KindOrder
    <2>3. CASE j # k
      <3>1. Orders[j] # Orders[k]
        BY <1>1, <2>3 DEF Distinct
      <3>2. /\ ReplayedBefore(BothFiles[j], BothFiles[k]) <=> Orders[j] < Orders[k]
            /\ ReplayedBefore(BothFiles[k], BothFiles[j]) <=> Orders[k] < Orders[j]
        BY <1>1, <3>1 DEF ReplayedBefore
      <3>3. QED
        BY <2>1, <3>1, <3>2 DEF SortedBefore
    <2>4. QED
      BY <2>2, <2>3
  <1> DEFINE Place(k) == Cardinality({j \in DOMAIN BothFiles : SortedBefore(BothFiles, j, k)}) + 1
  <1>3. \A k \in 1 .. Rows : Place(k) = Rank(Orders, k)
    <2>1. ASSUME NEW k \in 1 .. Rows
          PROVE  {j \in DOMAIN BothFiles : SortedBefore(BothFiles, j, k)} = Below(Orders, k)
      BY <1>1, <1>2 DEF Below
    <2>2. QED
      BY <2>1 DEF Rank
  <1>4. LoadReplayStream =
          [i \in DOMAIN BothFiles |-> BothFiles[CHOOSE k \in DOMAIN BothFiles : Place(k) = i]]
    BY DEF LoadReplayStream, BothFiles
  <1> HIDE DEF Place
  <1>5. ASSUME NEW i \in 1 .. Rows
        PROVE  (CHOOSE k \in DOMAIN BothFiles : Place(k) = i) = Source(i)
    BY <1>1, <1>3 DEF Source
  <1>6. \A i \in 1 .. Rows : Source(i) \in 1 .. Rows /\ Rank(Orders, Source(i)) = i
    BY <1>1, RankIsOnto DEF Source
  <1>7. QED
    BY <1>1, <1>4, <1>5, <1>6

\* A session that can be loaded replays accepted records only, each once and in
\* the order of acceptance, whatever rows were lost (load_replay_stream).
THEOREM ReplayKeepsOrder == Spec => []ReplayIsInOrder
  <1>1. ASSUME IngressInv, FilesInv PROVE ReplayIsInOrder
    <2>0. RecorderTypeOK
      BY <1>1 DEF IngressInv, TypeOK
    <2> DEFINE stream == LoadReplayStream
    <2>1. /\ DOMAIN stream = 1 .. Rows
          /\ \A i \in 1 .. Rows : /\ Source(i) \in 1 .. Rows
                                  /\ Rank(Orders, Source(i)) = i
                                  /\ stream[i] = BothFiles[Source(i)]
      BY <1>1, <2>0, StreamIsSorted
    <2>2. /\ Rows \in Nat /\ Orders \in [1 .. Rows -> Nat] /\ Distinct(Orders)
          /\ \A k \in 1 .. Rows : /\ BothFiles[k].order \in 1 .. Len(recAccepted)
                                  /\ RowOf(BothFiles[k], recAccepted[BothFiles[k].order])
                                  /\ Orders[k] = BothFiles[k].order
      BY <1>1, <2>0, RowsAreDistinct
    <2> HIDE DEF stream
    <2>3. ASSUME NEW i \in 1 .. Rows, NEW j \in 1 .. Rows, i < j
          PROVE  stream[i].order < stream[j].order
      <3>1. Source(i) \in 1 .. Rows /\ Source(j) \in 1 .. Rows /\ Source(i) # Source(j)
        BY <2>1, <2>3
      <3>2. Orders[Source(i)] < Orders[Source(j)] \/ Orders[Source(j)] < Orders[Source(i)]
        BY <2>2, <3>1 DEF Distinct
      <3>3. ~(Orders[Source(j)] < Orders[Source(i)])
        <4>1. SUFFICES ASSUME Orders[Source(j)] < Orders[Source(i)] PROVE FALSE
          OBVIOUS
        <4>2. Rank(Orders, Source(j)) < Rank(Orders, Source(i))
          BY <2>2, <3>1, <4>1, RankIsMonotone
        <4>3. QED
          BY <2>1, <2>3, <4>2
      <3>4. QED
        BY <2>1, <2>2, <3>1, <3>2, <3>3
    <2>4. QED
      BY <2>1, <2>2, <2>3 DEF ReplayIsInOrder, stream
  <1>2. QED
    BY <1>1, IngressInvariant, FilesInvariant, PTL

\* Without a lost row the orders are the numbers from 1 on, so each row is
\* replayed in the place of its record.
LEMMA StreamIsThePrefix ==
  ASSUME RecorderTypeOK, FilesInv, timelineStream = "good"
  PROVE  \A i \in 1 .. Rows : RowOf(LoadReplayStream[i], recAccepted[i])
  <1>1. /\ Rows \in Nat /\ Distinct(Orders) /\ DOMAIN Orders = 1 .. Rows
        /\ \A k \in 1 .. Rows : /\ BothFiles[k].order \in Nat /\ BothFiles[k].order >= 1
                                /\ RowOf(BothFiles[k], recAccepted[BothFiles[k].order])
                                /\ Orders[k] = BothFiles[k].order
    BY RowsAreDistinct
  <1>2. \A k \in 1 .. Rows : BothFiles[k].order <= Rows
    <2>1. /\ Len(timeline) \in Nat /\ Len(suppTimeline) \in Nat
          /\ Rows = Len(timeline) + Len(suppTimeline)
          /\ \A k \in 1 .. Len(timeline) : BothFiles[k] = timeline[k]
          /\ \A k \in 1 .. Len(suppTimeline) : BothFiles[Len(timeline) + k] = suppTimeline[k]
      BY DEF RecorderTypeOK, BothFiles, Rows
    <2>2. \A k \in 1 .. Rows :
            \/ k \in 1 .. Len(timeline)
            \/ k - Len(timeline) \in 1 .. Len(suppTimeline)
               /\ k = Len(timeline) + (k - Len(timeline))
      BY <2>1
    <2>3. /\ \A i \in 1 .. Len(timeline) : timeline[i].order <= Rows
          /\ \A i \in 1 .. Len(suppTimeline) : suppTimeline[i].order <= Rows
      BY DEF FilesInv, CompleteInv
    <2>4. QED
      BY <2>1, <2>2, <2>3
  <1>3. Orders \in [1 .. Rows -> 1 .. Rows]
    <2>1. \A k \in 1 .. Rows : Orders[k] \in 1 .. Rows
      BY <1>1, <1>2
    <2>2. QED
      BY <1>1, <2>1 DEF Orders
  <1>4. ASSUME NEW i \in 1 .. Rows PROVE RowOf(LoadReplayStream[i], recAccepted[i])
    <2>1. /\ Source(i) \in 1 .. Rows
          /\ Rank(Orders, Source(i)) = i
          /\ LoadReplayStream[i] = BothFiles[Source(i)]
      BY StreamIsSorted
    <2>2. Orders[Source(i)] = i
      BY <1>1, <1>3, <2>1, RankIsKey
    <2>3. QED
      BY <1>1, <2>1, <2>2
  <1>5. QED
    BY <1>4

\* As long as no row of the timeline was lost, what a killed process leaves
\* behind replays as the first records it accepted, with none missing
\* (worker_loop persists in the order of the queue).
THEOREM CrashLosesOnlyTheEnd == Spec => []CrashReplayIsPrefix
  <1>1. ASSUME IngressInv, FilesInv PROVE CrashReplayIsPrefix
    <2>1. RecorderTypeOK
      BY <1>1 DEF IngressInv, TypeOK
    <2>2. DOMAIN LoadReplayStream = 1 .. Rows
      BY <1>1, <2>1, StreamIsSorted
    <2>3. QED
      BY <1>1, <2>1, <2>2, StreamIsThePrefix DEF CrashReplayIsPrefix
  <1>2. QED
    BY <1>1, IngressInvariant, FilesInvariant, PTL

(***************************************************************************)
(* The time of replay.  Clock and sleeps are defined along the stream, so  *)
(* what they come to is proved by the least place where it would fail.     *)
(***************************************************************************)

LEMMA LeastOf ==
  ASSUME NEW S \in SUBSET Nat, S # {}
  PROVE  \E n \in S : \A k \in S : ~(k < n)
  <1> DEFINE R == OpToRel(<, Nat)
  <1>1. IsWellFoundedOn(R, Nat)
    BY NatLessThanWellFounded
  <1>2. PICK n \in S : \A k \in S : ~(<<k, n>> \in R)
    <2> HIDE DEF R
    <2>1. QED
      BY <1>1, WFMin
  <1>3. \A k \in S : ~(k < n)
    <2>1. SUFFICES ASSUME NEW k \in S, k < n PROVE FALSE
      OBVIOUS
    <2>2. <<k, n>> \in R
      BY <2>1 DEF OpToRel
    <2> HIDE DEF R
    <2>3. QED
      BY <1>2, <2>2
  <1> HIDE DEF R
  <1>4. QED
    BY <1>3

\* What holds of the first place and passes from each place to the next holds of all.
LEMMA AllPlaces ==
  ASSUME NEW m \in Nat, NEW S,
         1 \in 1 .. m => 1 \in S,
         \A n \in 2 .. m : n - 1 \in S => n \in S
  PROVE  \A n \in 1 .. m : n \in S
  <1> DEFINE bad == {n \in 1 .. m : n \notin S}
  <1>1. SUFFICES ASSUME bad # {} PROVE FALSE
    OBVIOUS
  <1>2. PICK n \in bad : \A k \in bad : ~(k < n)
    <2>1. bad \in SUBSET Nat
      OBVIOUS
    <2> HIDE DEF bad
    <2>2. QED
      BY <1>1, <2>1, LeastOf
  <1>3. n \in 1 .. m /\ n \notin S /\ n # 1
    OBVIOUS
  <1>4. n - 1 \in 1 .. m /\ n - 1 < n /\ n \in 2 .. m
    BY <1>3
  <1>5. n - 1 \in S
    BY <1>2, <1>4
  <1>6. QED
    BY <1>3, <1>4, <1>5

\* The latest observation up to each place of a stream.
Latest(stream, n) == Max({stream[i].relative : i \in 1 .. n})

LEMMA MaxOf ==
  ASSUME NEW S \in SUBSET Nat, NEW x \in S, \A y \in S : y <= x
  PROVE  Max(S) = x
  <1>1. \A y \in S : x >= y
    OBVIOUS
  <1>2. Max(S) \in S /\ \A y \in S : Max(S) >= y
    BY <1>1 DEF Max
  <1> DEFINE top == Max(S)
  <1>3. top \in S /\ top >= x /\ x >= top /\ x \in Nat
    BY <1>1, <1>2
  <1> HIDE DEF top
  <1>4. top = x
    BY <1>3
  <1>5. QED
    BY <1>4 DEF top

LEMMA LatestInTurn ==
  ASSUME NEW m \in Nat, NEW stream, \A i \in 1 .. m : stream[i].relative \in Nat
  PROVE  \A n \in 1 .. m :
           /\ Latest(stream, n) \in Nat
           /\ n = 1 => Latest(stream, n) = stream[1].relative
           /\ n > 1 => Latest(stream, n) =
                IF stream[n].relative > Latest(stream, n - 1) THEN stream[n].relative
                                                              ELSE Latest(stream, n - 1)
  <1> DEFINE rel(i) == stream[i].relative
             upTo(n) == {rel(i) : i \in 1 .. n}
             S == {n \in 1 .. m : /\ Latest(stream, n) \in upTo(n)
                                  /\ \A y \in upTo(n) : y <= Latest(stream, n)}
             step(n) == IF rel(n) > Latest(stream, n - 1) THEN rel(n) ELSE Latest(stream, n - 1)
  <1>1. \A n \in 1 .. m : upTo(n) \in SUBSET Nat
    OBVIOUS
  <1>2. ASSUME 1 \in 1 .. m
        PROVE  Latest(stream, 1) = rel(1) /\ 1 \in S
    <2>1. upTo(1) = {rel(1)} /\ rel(1) \in Nat
      BY <1>2
    <2>2. Latest(stream, 1) = rel(1)
      BY <2>1, MaxOf DEF Latest
    <2>3. QED
      BY <1>2, <2>1, <2>2
  <1>3. ASSUME NEW n \in 2 .. m, n - 1 \in S
        PROVE  Latest(stream, n) = step(n) /\ n \in S
    <2> DEFINE before == Latest(stream, n - 1)
    <2>1. before \in upTo(n - 1) /\ \A y \in upTo(n - 1) : y <= before
      BY <1>3
    <2>2. upTo(n) = upTo(n - 1) \cup {rel(n)} /\ rel(n) \in Nat /\ before \in Nat
          /\ upTo(n) \in SUBSET Nat
      <3>1. 1 .. n = (1 .. n - 1) \cup {n} /\ n \in 1 .. m /\ n - 1 \in 1 .. m
        OBVIOUS
      <3>2. QED
        BY <1>1, <2>1, <3>1
    <2> HIDE DEF before
    <2>3. step(n) \in upTo(n) /\ \A y \in upTo(n) : y <= step(n)
      <3>1. step(n) = IF rel(n) > before THEN rel(n) ELSE before
        BY DEF before
      <3>2. upTo(n - 1) \in SUBSET Nat
        BY <2>2
      <3> HIDE DEF upTo, rel, step
      <3>3. QED
        BY <2>1, <2>2, <3>1, <3>2
    <2> HIDE DEF step
    <2>4. Max(upTo(n)) = step(n)
      <3> HIDE DEF upTo
      <3>1. QED
        BY <2>2, <2>3, MaxOf
    <2>5. Latest(stream, n) = step(n)
      BY <2>4 DEF Latest
    <2>6. QED
      BY <2>3, <2>5
  <1>4. \A n \in 1 .. m : n \in S
    <2> HIDE DEF S
    <2>1. QED
      BY <1>2, <1>3, AllPlaces
  <1>5. SUFFICES ASSUME NEW n \in 1 .. m
                 PROVE  /\ Latest(stream, n) \in Nat
                        /\ n = 1 => Latest(stream, n) = rel(1)
                        /\ n > 1 => Latest(stream, n) = step(n)
    OBVIOUS
  <1>6. Latest(stream, n) \in Nat
    BY <1>1, <1>4
  <1>7. n > 1 => n \in 2 .. m /\ n - 1 \in 1 .. m
    OBVIOUS
  <1> HIDE DEF S, step
  <1>8. QED
    BY <1>2, <1>3, <1>4, <1>6, <1>7

LEMMA ClockIsLatest ==
  ASSUME NEW m \in Nat, NEW stream, DOMAIN stream = 1 .. m,
         \A i \in 1 .. m : stream[i].relative \in Nat
  PROVE  \A n \in 1 .. m : ReplayClock(stream)[n] = Latest(stream, n)
  <1> DEFINE rel(i) == stream[i].relative
             body(f, i) == IF i = 1 \/ rel(i) > f[i - 1] THEN rel(i) ELSE f[i - 1]
             clock == CHOOSE f : f = [i \in DOMAIN stream |-> body(f, i)]
             g == [i \in 1 .. m |-> Latest(stream, i)]
             S == {n \in 1 .. m : clock[n] = Latest(stream, n)}
  <1>1. ReplayClock(stream) = clock
    BY Zenon DEF ReplayClock
  <1>2. \A n \in 1 .. m :
          /\ Latest(stream, n) \in Nat
          /\ n = 1 => Latest(stream, n) = rel(1)
          /\ n > 1 => Latest(stream, n) =
               IF rel(n) > Latest(stream, n - 1) THEN rel(n) ELSE Latest(stream, n - 1)
    BY LatestInTurn
  <1> HIDE DEF rel
  <1>3. \A n \in 1 .. m : n # 1 => n > 1 /\ n - 1 \in 1 .. m
    OBVIOUS
  <1>4. g = [i \in 1 .. m |-> body(g, i)]
    <2>1. SUFFICES ASSUME NEW i \in 1 .. m PROVE g[i] = body(g, i)
      BY Zenon
    <2>2. CASE i = 1
      BY <1>2, <2>2
    <2>3. CASE i # 1
      BY <1>2, <1>3, <2>3
    <2>4. QED
      BY <2>2, <2>3
  <1> HIDE DEF g
  <1>5. clock = [i \in 1 .. m |-> body(clock, i)]
    <2> HIDE DEF body, S
    <2>1. \E f : f = [i \in DOMAIN stream |-> body(f, i)]
      <3>1. g = [i \in DOMAIN stream |-> body(g, i)]
        BY <1>4, Zenon
      <3>2. QED
        BY <3>1, Zenon
    <2>2. clock = [i \in DOMAIN stream |-> body(clock, i)]
      BY <2>1, Zenon
    <2>3. QED
      BY <2>2, Zenon
  <1> HIDE DEF clock
  <1>6. 1 \in 1 .. m => 1 \in S
    BY <1>2, <1>5
  <1>7. \A n \in 2 .. m : n - 1 \in S => n \in S
    <2>1. SUFFICES ASSUME NEW n \in 2 .. m, n - 1 \in S PROVE n \in S
      OBVIOUS
    <2>2. n \in 1 .. m /\ n # 1 /\ n > 1
      OBVIOUS
    <2>3. clock[n] = body(clock, n) /\ clock[n - 1] = Latest(stream, n - 1)
      BY <1>5, <2>1, <2>2
    <2>4. QED
      BY <1>2, <2>2, <2>3
  <1> HIDE DEF S
  <1>8. \A n \in 1 .. m : n \in S
    BY <1>6, <1>7, AllPlaces
  <1>9. QED
    BY <1>1, <1>8 DEF S

LEMMA SleptIsLatest ==
  ASSUME NEW m \in Nat, NEW stream, DOMAIN stream = 1 .. m,
         \A i \in 1 .. m : stream[i].relative \in Nat
  PROVE  \A n \in 1 .. m : ReplaySlept(stream)[n] = Latest(stream, n) - stream[1].relative
  <1> DEFINE rel(i) == stream[i].relative
             sleeps == ReplaySleep(stream)
             body(f, i) == IF i = 1 THEN sleeps[1] ELSE f[i - 1] + sleeps[i]
             slept == CHOOSE f : f = [i \in DOMAIN stream |-> body(f, i)]
             g == [i \in 1 .. m |-> Latest(stream, i) - rel(1)]
             S == {n \in 1 .. m : slept[n] = Latest(stream, n) - rel(1)}
  <1>1. ReplaySlept(stream) = slept
    BY Zenon DEF ReplaySlept
  <1>2. \A n \in 1 .. m :
          /\ Latest(stream, n) \in Nat
          /\ n = 1 => Latest(stream, n) = rel(1)
          /\ n > 1 => Latest(stream, n) =
               IF rel(n) > Latest(stream, n - 1) THEN rel(n) ELSE Latest(stream, n - 1)
    BY LatestInTurn
  <1>3. \A n \in 1 .. m : n # 1 => n > 1 /\ n \in 2 .. m /\ n - 1 \in 1 .. m
    OBVIOUS
  <1>4. \A n \in 1 .. m :
          sleeps[n] = IF n > 1 /\ rel(n) > Latest(stream, n - 1)
                      THEN rel(n) - Latest(stream, n - 1) ELSE 0
    <2>1. \A n \in 1 .. m : ReplayClock(stream)[n] = Latest(stream, n)
      BY ClockIsLatest
    <2>2. \A n \in 1 .. m :
            sleeps[n] = IF n > 1 /\ rel(n) > ReplayClock(stream)[n - 1]
                        THEN rel(n) - ReplayClock(stream)[n - 1] ELSE 0
      BY DEF ReplaySleep
    <2> HIDE DEF sleeps, rel
    <2>3. QED
      BY <1>3, <2>1, <2>2
  <1>5. \A n \in 1 .. m : rel(n) \in Nat
    OBVIOUS
  <1> HIDE DEF rel, sleeps
  <1>6. ASSUME NEW n \in 1 .. m
        PROVE  /\ n = 1 => sleeps[1] = Latest(stream, 1) - rel(1)
               /\ n # 1 => Latest(stream, n) - rel(1) =
                             (Latest(stream, n - 1) - rel(1)) + sleeps[n]
    <2>1. CASE n = 1
      <3>1. sleeps[1] = 0 /\ Latest(stream, 1) = rel(1) /\ rel(1) \in Nat
        BY <1>2, <1>4, <1>5, <2>1
      <3>2. QED
        BY <2>1, <3>1
    <2>2. CASE n # 1
      <3> DEFINE now1 == Latest(stream, n)
                 before == Latest(stream, n - 1)
                 x == rel(n)
                 first == rel(1)
                 s == sleeps[n]
      <3>1. 1 \in 1 .. m /\ n - 1 \in 1 .. m /\ n > 1
        BY <1>3, <2>2
      <3>2. /\ now1 \in Nat /\ before \in Nat /\ x \in Nat /\ first \in Nat
            /\ now1 = IF x > before THEN x ELSE before
            /\ s = IF x > before THEN x - before ELSE 0
        BY <1>2, <1>4, <1>5, <3>1
      <3> HIDE DEF now1, before, x, first, s
      <3>3. now1 - first = (before - first) + s
        BY <3>2
      <3>4. QED
        BY <2>2, <3>3 DEF now1, before, x, first, s
    <2>3. QED
      BY <2>1, <2>2
  <1>7. g = [i \in 1 .. m |-> body(g, i)]
    <2>1. SUFFICES ASSUME NEW i \in 1 .. m PROVE g[i] = body(g, i)
      BY Zenon
    <2>2. CASE i = 1
      BY <1>6, <2>2
    <2>3. CASE i # 1
      BY <1>3, <1>6, <2>3
    <2>4. QED
      BY <2>2, <2>3
  <1> HIDE DEF g
  <1>8. slept = [i \in 1 .. m |-> body(slept, i)]
    <2>1. \E f : f = [i \in DOMAIN stream |-> body(f, i)]
      BY <1>7, Zenon
    <2>2. slept = [i \in DOMAIN stream |-> body(slept, i)]
      BY <2>1, Zenon
    <2>3. QED
      BY <2>2, Zenon
  <1> HIDE DEF slept
  <1>9. 1 \in 1 .. m => 1 \in S
    BY <1>6, <1>8
  <1>10. \A n \in 2 .. m : n - 1 \in S => n \in S
    <2>1. SUFFICES ASSUME NEW n \in 2 .. m, n - 1 \in S PROVE n \in S
      OBVIOUS
    <2>2. n \in 1 .. m /\ n # 1
      OBVIOUS
    <2>3. slept[n] = slept[n - 1] + sleeps[n] /\ slept[n - 1] = Latest(stream, n - 1) - rel(1)
      BY <1>8, <2>1, <2>2
    <2>4. QED
      BY <1>6, <2>2, <2>3
  <1> HIDE DEF S
  <1>11. \A n \in 1 .. m : n \in S
    BY <1>9, <1>10, AllPlaces
  <1>12. QED
    BY <1>1, <1>11 DEF S, rel

\* Replay keeps the recorded time, whatever times the records carry.
THEOREM ReplayTakesItsTime == Spec => []ReplayKeepsTime
  <1>1. ASSUME IngressInv, FilesInv PROVE ReplayKeepsTime
    <2> DEFINE stream == LoadReplayStream
    <2>0. RecorderTypeOK
      BY <1>1 DEF IngressInv, TypeOK
    <2>1. /\ DOMAIN stream = 1 .. Rows
          /\ \A i \in 1 .. Rows : Source(i) \in 1 .. Rows /\ stream[i] = BothFiles[Source(i)]
      BY <1>1, <2>0, StreamIsSorted
    <2>2. Rows \in Nat /\ \A k \in 1 .. Rows : BothFiles[k] \in Record
      BY <1>1, <2>0, RowsAreDistinct
    <2> HIDE DEF stream
    <2>3. \A i \in 1 .. Rows : stream[i].relative \in Nat
      BY <2>1, <2>2 DEF Record
    <2>4. \A n \in 1 .. Rows :
            ReplaySlept(stream)[n] = Latest(stream, n) - stream[1].relative
      BY <2>1, <2>2, <2>3, SleptIsLatest
    <2>5. QED
      BY <2>1, <2>4 DEF ReplayKeepsTime, Latest, stream
  <1>2. QED
    BY <1>1, IngressInvariant, FilesInvariant, PTL

-----------------------------------------------------------------------------
(***************************************************************************)
(* The log: a recording process whose disk works implements TelemetryLog.  *)
(* What its files replay and what its live pipeline processes are two      *)
(* readings of the one log of accepted observations.                       *)
(***************************************************************************)

\* The first n observations of a sequence of records.
First(records, n) == [i \in 1 .. n |-> Observation(records[i])]

\* What a disk that works rules out.
Healthy ==
  /\ timelineStream = "good"
  /\ recPc # "catch"
  /\ ~recError

LogInv == IngressInv /\ FilesInv /\ LiveAccounted /\ RecorderDrain /\ Healthy

\* The process as the log sees it.
LogView ==
  /\ Len(recAccepted) \in Nat /\ Rows \in Nat /\ Len(liveProcessed) \in Nat
  /\ Rows <= Len(recAccepted) /\ Len(liveProcessed) <= Len(recAccepted)
  /\ Observations(recAccepted) = First(recAccepted, Len(recAccepted))
  /\ Observations(LoadReplayStream) = First(recAccepted, Rows)
  /\ Observations(liveProcessed) = First(recAccepted, Len(liveProcessed))

(***************************************************************************)
(* The state.                                                              *)
(***************************************************************************)

LEMMA HealthyStep ==
  ASSUME Faults = {}, Healthy, [Next]_vars, IngressInv
  PROVE  Healthy'
  <1>1. RecorderStep
    BY RecorderSteps
  <1> USE DEF Healthy, recorderMemory, recorderFiles
  <1>2. CASE UNCHANGED recorderVars
    BY <1>2 DEF recorderVars
  <1>3. CASE RecorderNotify \/ RecorderRequestStop \/ RecorderJoin
    BY <1>3 DEF RecorderNotify, RecorderRequestStop, RecorderJoin
  <1>4. CASE RecorderWait \/ RecorderPop \/ RecorderExit \/ RecorderCatch
    BY <1>4 DEF RecorderWait, RecorderPop, RecorderExit, RecorderCatch
  <1>5. CASE PersistRaw \/ PersistTimelineRow \/ PersistSupplementary
    BY <1>5 DEF PersistRaw, PersistTimelineRow, PersistSupplementary
  <1>6. CASE PersistRawFails \/ PersistTimelineRowFails \/ PersistSupplementaryFails
    BY <1>6 DEF PersistRawFails, PersistTimelineRowFails, PersistSupplementaryFails
  <1>7. ASSUME NEW r \in Record, Recorded(r) PROVE Healthy'
    BY <1>7 DEF Recorded, RecorderPush
  <1>8. QED
    BY <1>1, <1>2, <1>3, <1>4, <1>5, <1>6, <1>7 DEF RecorderStep, RecorderWorker

LEMMA SameObservation ==
  ASSUME NEW row \in Record, NEW record \in Record, RowOf(row, record)
  PROVE  Observation(row) = Observation(record)
  BY DEF Observation, RowOf, Record

\* With a disk that works, the files hold the first records, and replay shows them.
LEMMA LogIsViewed ==
  ASSUME LogInv
  PROVE  LogView
  <1>0. RecorderTypeOK /\ QueueInv /\ FilesInv
    BY DEF LogInv, IngressInv, TypeOK, FilesInv
  <1>1. /\ Len(recAccepted) \in Nat /\ Len(recQueue) \in Nat /\ InHand \in {0, 1}
        /\ Len(timeline) \in Nat /\ Len(suppTimeline) \in Nat
        /\ \A i \in 1 .. Len(recAccepted) : recAccepted[i] \in Record
        /\ recAccepted \in Seq(Record)
    BY <1>0, Shapes DEF RecorderTypeOK
  <1>2. Rows \in Nat /\ Rows <= Len(recAccepted)
    <2>1. Len(timeline) + Len(suppTimeline) + InHand + Len(recQueue) = Len(recAccepted)
      BY DEF LogInv, RecorderDrain, Healthy
    <2>2. QED
      BY <1>1, <2>1 DEF Rows
  <1>3. Observations(recAccepted) = First(recAccepted, Len(recAccepted))
    BY <1>1 DEF Observations, First
  <1>4. Observations(LoadReplayStream) = First(recAccepted, Rows)
    <2>1. /\ DOMAIN LoadReplayStream = 1 .. Rows
          /\ \A i \in 1 .. Rows : /\ Source(i) \in 1 .. Rows
                                  /\ LoadReplayStream[i] = BothFiles[Source(i)]
      BY <1>0, StreamIsSorted
    <2>2. \A i \in 1 .. Rows : LoadReplayStream[i] \in Record
      BY <1>0, <2>1, RowsAreDistinct
    <2>3. \A i \in 1 .. Rows : RowOf(LoadReplayStream[i], recAccepted[i])
      BY <1>0, <2>1, StreamIsThePrefix DEF LogInv, Healthy
    <2>4. \A i \in 1 .. Rows : recAccepted[i] \in Record
      BY <1>1, <1>2
    <2>5. \A i \in 1 .. Rows : Observation(LoadReplayStream[i]) = Observation(recAccepted[i])
      BY <2>2, <2>3, <2>4, SameObservation
    <2>6. QED
      BY <2>1, <2>5 DEF Observations, First
  <1>5. /\ Len(liveProcessed) \in Nat /\ Len(liveProcessed) <= Len(recAccepted)
        /\ Observations(liveProcessed) = First(recAccepted, Len(liveProcessed))
    <2>1. /\ liveProcessed \in Seq(Record) /\ livePending \in Seq(Record)
          /\ liveQueue \in Seq(Record) /\ liveAccepted \in Seq(Record)
          /\ LiveIsPrefixOfRecording /\ LiveAccounted
      BY DEF LogInv, IngressInv, TypeOK, LiveTypeOK, LiveInv
    <2> DEFINE rest == livePending \o liveQueue
    <2>2. rest \in Seq(Record) /\ liveProcessed \o rest = liveAccepted
      <3>0. liveProcessed \in Seq(Record) /\ livePending \in Seq(Record) /\ liveQueue \in Seq(Record)
        BY <2>1
      <3>1. (liveProcessed \o livePending) \o liveQueue = liveProcessed \o rest
        BY ONLY <3>0, ConcatAssociative
      <3>2. QED
        BY <2>1, <3>1 DEF LiveAccounted
    <2> HIDE DEF rest
    <2>3. /\ Len(liveProcessed) \in Nat /\ Len(rest) \in Nat
          /\ Len(liveAccepted) = Len(liveProcessed) + Len(rest)
          /\ \A i \in 1 .. Len(liveProcessed) : liveAccepted[i] = liveProcessed[i]
      <3>1. /\ Len(liveProcessed \o rest) = Len(liveProcessed) + Len(rest)
            /\ \A i \in 1 .. Len(liveProcessed) : (liveProcessed \o rest)[i] = liveProcessed[i]
        BY <2>1, <2>2
      <3>2. QED
        BY <2>1, <2>2, <3>1
    <2>4. /\ Len(liveProcessed) <= Len(recAccepted)
          /\ \A i \in 1 .. Len(liveProcessed) : liveProcessed[i] = recAccepted[i]
      BY <1>1, <2>1, <2>3 DEF LiveIsPrefixOfRecording
    <2>5. DOMAIN liveProcessed = 1 .. Len(liveProcessed)
      BY <2>1
    <2>6. QED
      BY <2>3, <2>4, <2>5 DEF Observations, First
  <1>6. QED
    BY <1>1, <1>2, <1>3, <1>4, <1>5 DEF LogView

(***************************************************************************)
(* The steps.                                                              *)
(***************************************************************************)

LEMMA FirstType ==
  ASSUME NEW records \in Seq(Record), NEW n \in Nat, n <= Len(records)
  PROVE  /\ First(records, n) \in Seq(Record) /\ Len(First(records, n)) = n
         /\ \A i \in 1 .. n : /\ First(records, n)[i] = Observation(records[i])
                              /\ First(records, n)[i] \in Record
  <1>1. \A i \in 1 .. n : Observation(records[i]) \in Record
    <2>1. \A i \in 1 .. n : records[i] \in Record
      OBVIOUS
    <2>2. QED
      BY <2>1 DEF Observation, Record
  <1>2. QED
    BY <1>1 DEF First

\* More of the log.
LEMMA FirstGrows ==
  ASSUME NEW records \in Seq(Record), NEW n \in Nat, n < Len(records)
  PROVE  /\ Len(First(records, n)) = n
         /\ First(records, n + 1) = Append(First(records, n), First(records, Len(records))[n + 1])
  <1>1. \A i \in 1 .. n + 1 : Observation(records[i]) \in Record
    <2>1. n + 1 \in Nat /\ n + 1 <= Len(records)
      OBVIOUS
    <2>2. QED
      BY <2>1, FirstType
  <1>2. First(records, n) \in Seq(Record) /\ Len(First(records, n)) = n
    BY FirstType
  <1>3. /\ First(records, Len(records))[n + 1] = Observation(records[n + 1])
        /\ First(records, n + 1) = [i \in 1 .. n + 1 |-> Observation(records[i])]
    BY DEF First
  <1>4. Append(First(records, n), Observation(records[n + 1]))
          = [i \in 1 .. n + 1 |-> Observation(records[i])]
    BY <1>1, <1>2 DEF First
  <1>5. QED
    BY <1>2, <1>3, <1>4

LEMMA FirstKept ==
  ASSUME NEW records, NEW later, NEW n \in Nat, \A i \in 1 .. n : later[i] = records[i]
  PROVE  First(later, n) = First(records, n)
  BY DEF First

\* A record is accepted.
LEMMA AcceptIsAccept ==
  ASSUME RecorderTypeOK, LogView, LogView', NEW r \in Record, Recorded(r),
         UNCHANGED liveProcessed
  PROVE  Log!Accept
  <1> USE DEF Recorded, RecorderPush, recorderFiles
  <1>1. /\ recAccepted \in Seq(Record) /\ recAccepted' \in Seq(Record)
        /\ Len(recAccepted) \in Nat /\ Len(recAccepted') = Len(recAccepted) + 1
        /\ \A i \in 1 .. Len(recAccepted) : recAccepted'[i] = recAccepted[i]
    BY DEF RecorderTypeOK
  <1>2. /\ Rows' = Rows /\ Rows \in Nat /\ Rows <= Len(recAccepted)
        /\ Len(liveProcessed) \in Nat /\ Len(liveProcessed) <= Len(recAccepted)
    BY DEF LogView, Rows
  <1> DEFINE n == Len(recAccepted)
  <1>3. First(recAccepted', n) = First(recAccepted, n)
    BY <1>1, FirstKept
  <1>4. /\ Observations(LoadReplayStream)' = Observations(LoadReplayStream)
        /\ Observations(liveProcessed)' = Observations(liveProcessed)
    <2>1. First(recAccepted', Rows) = First(recAccepted, Rows)
      <3>1. \A i \in 1 .. Rows : recAccepted'[i] = recAccepted[i]
        BY <1>1, <1>2
      <3>2. QED
        BY <1>2, <3>1, FirstKept
    <2>2. First(recAccepted', Len(liveProcessed)) = First(recAccepted, Len(liveProcessed))
      <3>1. \A i \in 1 .. Len(liveProcessed) : recAccepted'[i] = recAccepted[i]
        BY <1>1, <1>2
      <3>2. QED
        BY <1>2, <3>1, FirstKept
    <2>3. QED
      BY <1>2, <2>1, <2>2 DEF LogView
  <1>5. Observations(recAccepted') # <<>> /\ Log!Front(Observations(recAccepted')) = Observations(recAccepted)
    <2> DEFINE old == First(recAccepted, n)
               e == First(recAccepted', n + 1)[n + 1]
    <2>1. Observations(recAccepted') = Append(old, e)
      <3>1. First(recAccepted', n + 1) = Append(First(recAccepted', n), e)
        <4>1. n \in Nat /\ n < Len(recAccepted')
          BY <1>1
        <4>2. QED
          BY <1>1, <4>1, FirstGrows
      <3>2. QED
        BY <1>1, <1>3, <3>1 DEF LogView
    <2>2. old \in Seq(Record) /\ e \in Record
      <3>1. n \in Nat /\ n <= Len(recAccepted) /\ n + 1 \in Nat /\ n + 1 <= Len(recAccepted')
        BY <1>1
      <3>2. old \in Seq(Record)
        BY <1>1, <3>1, FirstType
      <3>3. \A i \in 1 .. n + 1 : First(recAccepted', n + 1)[i] \in Record
        BY <1>1, <3>1, FirstType
      <3>4. n + 1 \in 1 .. n + 1
        BY <1>1
      <3>5. QED
        BY <3>2, <3>3, <3>4
    <2> HIDE DEF old, e
    <2>3. Append(old, e) # <<>> /\ Log!Front(Append(old, e)) = old
      BY <2>2 DEF Log!Front
    <2>4. QED
      BY <2>1, <2>3 DEF LogView, old
  <1>6. RecorderOpen /\ RecorderOpen' = RecorderOpen
    BY Zenon DEF RecorderOpen
  <1>7. [disk |-> Observations(LoadReplayStream), live |-> Observations(liveProcessed)]'
          = [disk |-> Observations(LoadReplayStream), live |-> Observations(liveProcessed)]
    BY <1>4
  <1>8. QED
    BY <1>5, <1>6, <1>7 DEF Log!Accept

\* What each reader has, as a function.
ByReader(disk, live) == [r \in {"disk", "live"} |-> IF r = "disk" THEN disk ELSE live]

LEMMA ReadersAre ==
  ASSUME NEW disk, NEW live
  PROVE  [disk |-> disk, live |-> live] = ByReader(disk, live)
  BY DEF ByReader

LEMMA ReadersHave ==
  ASSUME NEW disk, NEW live
  PROVE  /\ ByReader(disk, live)["disk"] = disk
         /\ ByReader(disk, live)["live"] = live
  BY DEF ByReader

\* The abstract step, in terms of the two readings.
LEMMA DiskTakes ==
  ASSUME Len(Observations(LoadReplayStream)) < Len(Observations(recAccepted)),
         Observations(LoadReplayStream)' = Append(Observations(LoadReplayStream),
           Observations(recAccepted)[Len(Observations(LoadReplayStream)) + 1]),
         Observations(liveProcessed)' = Observations(liveProcessed),
         Observations(recAccepted)' = Observations(recAccepted),
         RecorderOpen' = RecorderOpen
  PROVE  Log!Take("disk")
  <1> DEFINE disk == Observations(LoadReplayStream)
             live == Observations(liveProcessed)
             entry == Observations(recAccepted)[Len(disk) + 1]
             read == [disk |-> disk, live |-> live]
  <1>1. read = ByReader(disk, live) /\ read["disk"] = disk
    <2>1. read = ByReader(disk, live)
      BY ReadersAre
    <2>2. QED
      BY <2>1, ReadersHave
  <1>2. [disk |-> disk', live |-> live'] = ByReader(disk', live')
    BY ReadersAre
  <1>3. [read EXCEPT !["disk"] = Append(@, entry)] = [disk |-> disk', live |-> live']
    <2>1. [read EXCEPT !["disk"] = Append(@, entry)] = [ByReader(disk, live) EXCEPT !["disk"] = Append(disk, entry)]
      BY <1>1
    <2>2. [ByReader(disk, live) EXCEPT !["disk"] = Append(disk, entry)] = ByReader(Append(disk, entry), live)
      BY DEF ByReader
    <2>3. ByReader(disk', live') = ByReader(Append(disk, entry), live)
      OBVIOUS
    <2>4. QED
      BY <1>2, <2>1, <2>2, <2>3
  <1>4. QED
    BY <1>1, <1>3 DEF Log!Take

\* The abstract step, in terms of the two readings.
LEMMA LiveTakes ==
  ASSUME Len(Observations(liveProcessed)) < Len(Observations(recAccepted)),
         Observations(liveProcessed)' = Append(Observations(liveProcessed),
           Observations(recAccepted)[Len(Observations(liveProcessed)) + 1]),
         Observations(LoadReplayStream)' = Observations(LoadReplayStream),
         Observations(recAccepted)' = Observations(recAccepted),
         RecorderOpen' = RecorderOpen
  PROVE  Log!Take("live")
  <1> DEFINE disk == Observations(LoadReplayStream)
             live == Observations(liveProcessed)
             entry == Observations(recAccepted)[Len(live) + 1]
             read == [disk |-> disk, live |-> live]
  <1>1. read = ByReader(disk, live) /\ read["live"] = live
    <2>1. read = ByReader(disk, live)
      BY ReadersAre
    <2>2. QED
      BY <2>1, ReadersHave
  <1>2. [disk |-> disk', live |-> live'] = ByReader(disk', live')
    BY ReadersAre
  <1>3. [read EXCEPT !["live"] = Append(@, entry)] = [disk |-> disk', live |-> live']
    <2>1. [read EXCEPT !["live"] = Append(@, entry)] = [ByReader(disk, live) EXCEPT !["live"] = Append(live, entry)]
      BY <1>1
    <2>2. [ByReader(disk, live) EXCEPT !["live"] = Append(live, entry)] = ByReader(disk, Append(live, entry))
      BY DEF ByReader
    <2>3. ByReader(disk', live') = ByReader(disk, Append(live, entry))
      OBVIOUS
    <2>4. QED
      BY <1>2, <2>1, <2>2, <2>3
  <1>4. QED
    BY <1>1, <1>3 DEF Log!Take

\* A reader takes the next entry.
LEMMA TakeIsTake ==
  ASSUME recAccepted \in Seq(Record), LogView, LogView',
         UNCHANGED recAccepted, RecorderOpen' <=> RecorderOpen,
         \/ Rows' = Rows + 1 /\ Len(liveProcessed') = Len(liveProcessed)
         \/ Rows' = Rows /\ Len(liveProcessed') = Len(liveProcessed) + 1
  PROVE  \E r \in {"disk", "live"} : Log!Take(r)
  <1>0. RecorderOpen' = RecorderOpen
    BY Zenon DEF RecorderOpen
  <1>1. ASSUME NEW n \in Nat, n + 1 <= Len(recAccepted)
        PROVE  /\ Len(First(recAccepted, n)) = n
               /\ Len(Observations(recAccepted)) = Len(recAccepted)
               /\ First(recAccepted, n + 1)
                    = Append(First(recAccepted, n), Observations(recAccepted)[n + 1])
    <2>1. Len(recAccepted) \in Nat /\ n < Len(recAccepted)
      BY <1>1 DEF LogView
    <2>2. Len(Observations(recAccepted)) = Len(recAccepted)
      BY DEF Observations
    <2>3. QED
      BY <2>1, <2>2, FirstGrows DEF LogView
  <1>2. CASE Rows' = Rows + 1 /\ Len(liveProcessed') = Len(liveProcessed)
    <2>1. Rows \in Nat /\ Rows + 1 <= Len(recAccepted)
      BY <1>2 DEF LogView
    <2>2. /\ Len(Observations(LoadReplayStream)) < Len(Observations(recAccepted))
          /\ Observations(LoadReplayStream)' = Append(Observations(LoadReplayStream),
               Observations(recAccepted)[Len(Observations(LoadReplayStream)) + 1])
          /\ Observations(liveProcessed)' = Observations(liveProcessed)
      BY <1>1, <1>2, <2>1 DEF LogView
    <2>3. Log!Take("disk")
      BY <1>0, <2>2, DiskTakes
    <2>4. QED
      BY <2>3
  <1>3. CASE Rows' = Rows /\ Len(liveProcessed') = Len(liveProcessed) + 1
    <2>1. Len(liveProcessed) \in Nat /\ Len(liveProcessed) + 1 <= Len(recAccepted)
      BY <1>3 DEF LogView
    <2>2. /\ Len(Observations(liveProcessed)) < Len(Observations(recAccepted))
          /\ Observations(liveProcessed)' = Append(Observations(liveProcessed),
               Observations(recAccepted)[Len(Observations(liveProcessed)) + 1])
          /\ Observations(LoadReplayStream)' = Observations(LoadReplayStream)
      BY <1>1, <1>3, <2>1 DEF LogView
    <2>3. Log!Take("live")
      BY <1>0, <2>2, LiveTakes
    <2>4. QED
      BY <2>3
  <1>4. QED
    BY <1>2, <1>3

\* Nothing the log shows changes.
LEMMA NothingIsNothing ==
  ASSUME LogView, LogView', UNCHANGED <<recAccepted, Rows, liveProcessed>>,
         RecorderOpen' = RecorderOpen
  PROVE  UNCHANGED <<Observations(recAccepted), RecorderOpen,
                     [disk |-> Observations(LoadReplayStream),
                      live |-> Observations(liveProcessed)]>>
  <1>1. /\ Observations(recAccepted)' = Observations(recAccepted)
        /\ Observations(LoadReplayStream)' = Observations(LoadReplayStream)
        /\ Observations(liveProcessed)' = Observations(liveProcessed)
    BY DEF LogView
  <1>2. [disk |-> Observations(LoadReplayStream), live |-> Observations(liveProcessed)]'
          = [disk |-> Observations(LoadReplayStream), live |-> Observations(liveProcessed)]
    BY <1>1
  <1>3. QED
    BY <1>1, <1>2

\* Only the live worker's own step adds to what it processed.
LEMMA WhoProcesses ==
  ASSUME [Next]_vars
  PROVE  UNCHANGED liveProcessed \/ (LiveProcess /\ UNCHANGED recorderVars)
  <1>1. ASSUME NEW t \in Threads, Ingress(t) PROVE UNCHANGED liveProcessed
    BY <1>1 DEF Ingress, IngressRecord, IngressRecordThrows, IngressNotify, IngressFanOut,
                IngressFanOutThrows, LiveEnqueue, liveVars
  <1>2. CASE Stopping
    BY <1>2 DEF Stopping, StopLive, NotifyLive, JoinLive, StopRecorder, NotifyRecorder,
                JoinRecorder, LiveRequestStop, LiveNotify, LiveJoin, liveVars
  <1>3. CASE RecorderThread \/ SpuriousWake
    BY <1>3 DEF RecorderThread, SpuriousWake, LiveSpuriousWake, LiveNotify, liveVars
  <1>4. CASE LiveThread
    BY <1>4 DEF LiveThread, LiveWorker, LiveWait, LivePop, LiveExit, LiveThrow, LiveCatch
  <1>5. CASE RequestStop \/ HttpCheckStop \/ HttpPollAgain \/ HttpAccept \/ HttpRefuse
    BY <1>5 DEF RequestStop, HttpCheckStop, HttpPollAgain, HttpAccept, HttpRefuse, liveVars
  <1>6. ASSUME NEW bytes \in BodySizes, NEW tick \in Ticks, HttpBodyComplete(bytes, tick)
        PROVE  UNCHANGED liveProcessed
    BY <1>6 DEF HttpBodyComplete, liveVars
  <1>7. ASSUME NEW p \in Providers, NEW tick \in Ticks, NEW valid \in BOOLEAN,
               ProviderObserve(p, tick, valid)
        PROVE  UNCHANGED liveProcessed
    BY <1>7 DEF ProviderObserve, liveVars
  <1>8. CASE Exited \/ UNCHANGED vars
    BY <1>8 DEF Exited, vars, liveVars
  <1>9. QED
    BY <1>1, <1>2, <1>3, <1>4, <1>5, <1>6, <1>7, <1>8 DEF Next

LEMMA LogStep ==
  ASSUME Faults = {}, LogInv, LogView, LogView', [Next]_vars
  PROVE  [Log!Next]_<<Observations(recAccepted), RecorderOpen,
                      [disk |-> Observations(LoadReplayStream),
                       live |-> Observations(liveProcessed)]>>
  <1>0. /\ RecorderStep /\ RecorderTypeOK /\ LiveTypeOK /\ Healthy
        /\ recAccepted \in Seq(Record)
        /\ Len(timeline) \in Nat /\ Len(suppTimeline) \in Nat
    BY RecorderSteps DEF LogInv, IngressInv, TypeOK, RecorderTypeOK
  <1>1. CASE LiveProcess /\ UNCHANGED recorderVars
    <2>1. UNCHANGED recAccepted /\ Rows' = Rows /\ (RecorderOpen' <=> RecorderOpen)
      BY <1>1 DEF recorderVars, recorderMemory, recorderFiles, Rows, RecorderOpen
    <2>2. Len(liveProcessed') = Len(liveProcessed) + 1
      BY <1>0, <1>1 DEF LiveProcess, LiveTypeOK
    <2>3. QED
      BY <1>0, <2>1, <2>2, TakeIsTake DEF Log!Next
  <1>2. CASE UNCHANGED liveProcessed
    <2>1. CASE UNCHANGED recorderVars
      <3>1. UNCHANGED <<recAccepted, Rows>> /\ RecorderOpen' = RecorderOpen
        BY <2>1 DEF recorderVars, recorderMemory, recorderFiles, Rows, RecorderOpen
      <3>2. QED
        BY <1>2, <3>1, NothingIsNothing
    <2>2. CASE \/ RecorderNotify \/ RecorderJoin \/ RecorderWait \/ RecorderPop
               \/ RecorderExit \/ PersistRaw
      <3>1. UNCHANGED <<recAccepted, timeline, suppTimeline, recError, recStopping>>
        BY <2>2 DEF RecorderNotify, RecorderJoin, RecorderWait, RecorderPop, RecorderExit,
                    PersistRaw, recorderMemory, recorderFiles
      <3>2. UNCHANGED Rows /\ RecorderOpen' = RecorderOpen
        BY <3>1 DEF Rows, RecorderOpen
      <3>3. QED
        BY <1>2, <3>1, <3>2, NothingIsNothing
    <2>3. CASE RecorderRequestStop
      <3>1. /\ UNCHANGED <<recAccepted, Rows>> /\ ~RecorderOpen'
        BY <2>3 DEF RecorderRequestStop, recorderMemory, recorderFiles, Rows, RecorderOpen
      <3>2. /\ Observations(recAccepted)' = Observations(recAccepted)
            /\ Observations(LoadReplayStream)' = Observations(LoadReplayStream)
            /\ Observations(liveProcessed)' = Observations(liveProcessed)
        BY <1>2, <3>1 DEF LogView
      <3>3. [disk |-> Observations(LoadReplayStream), live |-> Observations(liveProcessed)]'
              = [disk |-> Observations(LoadReplayStream), live |-> Observations(liveProcessed)]
        BY <3>2
      <3>4. RecorderOpen' = FALSE
        <4>1. recStopping' = TRUE
          BY <2>3 DEF RecorderRequestStop
        <4>2. QED
          BY <4>1, Zenon DEF RecorderOpen
      <3>5. Log!Close
        BY <3>2, <3>3, <3>4 DEF Log!Close
      <3>6. QED
        BY <3>5 DEF Log!Next
    <2>4. CASE PersistTimelineRow
      <3>1. UNCHANGED <<recAccepted, suppTimeline, recError, recStopping>>
        BY <2>4 DEF PersistTimelineRow, recorderMemory
      <3>2. Len(timeline') = Len(timeline) + 1
        BY <1>0, <2>4 DEF PersistTimelineRow, Healthy, RecorderTypeOK
      <3>3. Rows' = Rows + 1 /\ (RecorderOpen' <=> RecorderOpen)
        BY <1>0, <3>1, <3>2 DEF Rows, RecorderOpen
      <3>4. QED
        BY <1>0, <1>2, <3>1, <3>3, TakeIsTake DEF Log!Next
    <2>5. CASE PersistSupplementary
      <3>1. UNCHANGED <<recAccepted, timeline, recError, recStopping>>
        BY <2>5 DEF PersistSupplementary, recorderMemory
      <3>2. Len(suppTimeline') = Len(suppTimeline) + 1
        BY <1>0, <2>5 DEF PersistSupplementary, RecorderTypeOK
      <3>3. Rows' = Rows + 1 /\ (RecorderOpen' <=> RecorderOpen)
        BY <1>0, <3>1, <3>2 DEF Rows, RecorderOpen
      <3>4. QED
        BY <1>0, <1>2, <3>1, <3>3, TakeIsTake DEF Log!Next
    <2>6. CASE PersistRawFails \/ PersistTimelineRowFails \/ PersistSupplementaryFails
               \/ RecorderCatch
      BY <1>0, <2>6 DEF PersistRawFails, PersistTimelineRowFails, PersistSupplementaryFails,
                        RecorderCatch, Healthy
    <2>7. ASSUME NEW r \in Record, Recorded(r) PROVE Log!Next
      BY <1>0, <1>2, <2>7, AcceptIsAccept DEF Log!Next
    <2>8. QED
      BY <1>0, <2>1, <2>2, <2>3, <2>4, <2>5, <2>6, <2>7 DEF RecorderStep, RecorderWorker
  <1>3. QED
    BY <1>1, <1>2, WhoProcesses

\* When no write fails, a recording process is one log with two readers: the
\* session it leaves on disk, as replay loads it at any moment, and live
\* processing, whatever the threads do and whoever throws (telemetry_ingress.hpp).
THEOREM ProcessIsOneLog ==
  ASSUME Faults = {}
  PROVE  Spec => IsOneLog
  <1>1. ASSUME Init PROVE Healthy /\ Log!Init
    <2>1. RecorderInit /\ LiveInit
      BY <1>1 DEF Init
    <2>2. Healthy
      BY <2>1 DEF RecorderInit, Healthy
    <2>3. RecorderOpen = TRUE
      BY <2>1, Zenon DEF RecorderInit, RecorderOpen
    <2>4. /\ Observations(recAccepted) = <<>>
          /\ Observations(LoadReplayStream) = <<>>
          /\ Observations(liveProcessed) = <<>>
      <3>1. recAccepted = <<>> /\ liveProcessed = <<>> /\ timeline = <<>> /\ suppTimeline = <<>>
        BY <2>1 DEF RecorderInit, LiveInit
      <3>2. DOMAIN LoadReplayStream = {}
        BY <3>1 DEF LoadReplayStream
      <3>3. QED
        BY <3>1, <3>2 DEF Observations
    <2>5. [disk |-> Observations(LoadReplayStream), live |-> Observations(liveProcessed)]
            = [r \in {"disk", "live"} |-> <<>>]
      BY <2>4
    <2>6. QED
      BY <2>2, <2>3, <2>4, <2>5 DEF Log!Init
  <1>2. IngressInv /\ Healthy /\ [Next]_vars => Healthy'
    BY HealthyStep
  <1>3. LogInv => LogView
    BY LogIsViewed
  <1>4. LogInv /\ LogView /\ LogView' /\ [Next]_vars
          => [Log!Next]_<<Observations(recAccepted), RecorderOpen,
                          [disk |-> Observations(LoadReplayStream),
                           live |-> Observations(liveProcessed)]>>
    BY LogStep
  <1>5. IngressInv /\ FilesInv /\ LiveAccounted /\ RecorderDrain /\ Healthy => LogInv
    BY DEF LogInv
  <1>6. QED
    BY <1>1, <1>2, <1>3, <1>4, <1>5, IngressInvariant, FilesInvariant, LiveAccountsForAll,
       DrainInvariant, PTL DEF Spec, IsOneLog, Log!Spec

=============================================================================
