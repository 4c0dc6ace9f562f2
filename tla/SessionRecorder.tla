------------------------- MODULE SessionRecorder -------------------------
(***************************************************************************)
(* The session recorder (src/src/session.cpp): a FIFO of accepted records  *)
(* in front of one persistence worker that appends to three files,         *)
(* raw.gsi, timeline.tsv and supplementary.timeline.tsv.                   *)
(*                                                                         *)
(* This module holds the recorder's state and one action per critical      *)
(* section or write.  The threads that call it (the HTTP thread, the       *)
(* supplementary providers and main) are in TelemetryIngress, which        *)
(* composes these actions with the live pipeline's.                        *)
(*                                                                         *)
(* A std::ofstream write followed by flush() is one step that either       *)
(* reaches the file or fails; after a failure the stream's bad bit is      *)
(* sticky and every later insertion is a no-op.  Killing the process       *)
(* leaves the files as some state of this module has them, so a property   *)
(* of the files that holds in every state is a property of every crash.    *)
(***************************************************************************)
EXTENDS Integers, Sequences

CONSTANTS
  BodySizes,   \* the sizes in bytes of the request bodies that arrive
  Faults,      \* the streams whose writes may fail, see Streams
  StartTick    \* start_tick_, the clock when the session was created

Streams == {"raw", "timeline", "supplementary"}

ASSUME RecorderAssumption ==
  /\ BodySizes \subseteq Nat
  /\ Faults \subseteq Streams
  /\ StartTick \in Nat

VARIABLES
  recSequence,      \* sequence_
  recSuppSequence,  \* supplementary_sequence_
  recIngressOrder,  \* ingress_order_
  recQueue,         \* queue_
  recStopping,      \* stopping_
  recStopped,       \* stopped_
  recError,         \* worker_error_ is set
  recPc,            \* where the persistence worker is
  recPending,       \* the record the worker popped
  rawOffset,        \* raw_offset_
  raw,              \* the bytes of raw.gsi, each the ingress order of its record
  timeline,         \* the rows of timeline.tsv
  timelineStream,   \* "good", "bad", or "torn": bad, after part of a row
  suppTimeline,     \* the rows of supplementary.timeline.tsv
  suppStream,       \* the same for supplementary_timeline_
  recAccepted       \* history: every record enqueue returned, in order

recorderMemory == <<recSequence, recSuppSequence, recIngressOrder, recAccepted>>
recorderFiles == <<rawOffset, raw, timeline, timelineStream, suppTimeline, suppStream>>
recorderVars == <<recorderMemory, recQueue, recStopping, recStopped, recError,
                  recPc, recPending, recorderFiles>>

Record == [kind : {"gsi", "supplementary"}, order : Nat, sequence : Nat,
           relative : Nat, bytes : Nat, offset : Nat]

NoRecord == [kind |-> "gsi", order |-> 0, sequence |-> 0, relative |-> 0,
             bytes |-> 0, offset |-> 0]

RecorderInit ==
  /\ recSequence = 0 /\ recSuppSequence = 0 /\ recIngressOrder = 0
  /\ recAccepted = <<>>
  /\ recQueue = <<>> /\ recPending = NoRecord
  /\ recStopping = FALSE /\ recStopped = FALSE /\ recError = FALSE
  /\ recPc = "check"
  /\ rawOffset = 0 /\ raw = <<>>
  /\ timeline = <<>> /\ timelineStream = "good"
  /\ suppTimeline = <<>> /\ suppStream = "good"

-----------------------------------------------------------------------------
(* The calls of the producers.                                             *)

\* clock_.seconds_between clamps a tick before the start to zero.
RelativeTime(tick) == IF tick < StartTick THEN 0 ELSE tick - StartTick

\* Both enqueues first rethrow worker_error_, then refuse once stopping_.
RecorderOpen == ~recError /\ ~recStopping

\* The record enqueue returns: the next number of its source and the next
\* ingress order, both assigned under queue_mutex_.
NewSnapshot(tick, bytes) ==
  [kind |-> "gsi", order |-> recIngressOrder + 1, sequence |-> recSequence + 1,
   relative |-> RelativeTime(tick), bytes |-> bytes, offset |-> 0]

\* Mutant: a supplementary record is ordered among its own kind only.
NewSupplementaryByKind(tick) ==
  [kind |-> "supplementary", order |-> recSuppSequence + 1,
   sequence |-> recSuppSequence + 1, relative |-> RelativeTime(tick),
   bytes |-> 0, offset |-> 0]

NewSupplementary(tick) ==
  [kind |-> "supplementary", order |-> recIngressOrder + 1,
   sequence |-> recSuppSequence + 1, relative |-> RelativeTime(tick),
   bytes |-> 0, offset |-> 0]

\* queue_.push under queue_mutex_; notify_one is a later step of the caller.
RecorderPush(record) ==
  /\ recIngressOrder' = record.order
  /\ recQueue' = Append(recQueue, record)
  /\ recAccepted' = Append(recAccepted, record)
  /\ UNCHANGED <<recStopping, recStopped, recError, recPc, recPending, recorderFiles>>

RecorderEnqueue(tick, bytes) ==
  /\ RecorderOpen
  /\ recSequence' = recSequence + 1
  /\ RecorderPush(NewSnapshot(tick, bytes))
  /\ UNCHANGED recSuppSequence

RecorderEnqueueSupplementary(tick) ==
  /\ RecorderOpen
  /\ recSuppSequence' = recSuppSequence + 1
  /\ RecorderPush(NewSupplementary(tick))
  /\ UNCHANGED recSequence

\* Mutant: nobody is woken.
RecorderNotifyNobody == UNCHANGED recorderVars

\* queue_cv_.notify_one / notify_all, and a wake-up nobody asked for.
RecorderNotify ==
  /\ recPc' = IF recPc = "waiting" THEN "check" ELSE recPc
  /\ UNCHANGED <<recorderMemory, recQueue, recStopping, recStopped, recError,
                 recPending, recorderFiles>>

RecorderSpuriousWake == recPc = "waiting" /\ RecorderNotify

\* stop_and_flush, up to its unlock; the notify and the join follow.
RecorderRequestStop ==
  /\ recStopping' = TRUE
  /\ UNCHANGED <<recorderMemory, recQueue, recStopped, recError, recPc,
                 recPending, recorderFiles>>

RecorderJoin ==
  /\ recPc = "done"
  /\ recStopped' = TRUE
  /\ UNCHANGED <<recorderMemory, recQueue, recStopping, recError, recPc,
                 recPending, recorderFiles>>

-----------------------------------------------------------------------------
(* The persistence worker.                                                 *)

RecorderWait ==
  /\ recPc = "check" /\ recQueue = <<>> /\ ~recStopping
  /\ recPc' = "waiting"
  /\ UNCHANGED <<recorderMemory, recQueue, recStopping, recStopped, recError,
                 recPending, recorderFiles>>

RecorderPop ==
  /\ recPc = "check" /\ recQueue # <<>>
  /\ recPending' = Head(recQueue)
  /\ recQueue' = Tail(recQueue)
  /\ recPc' = IF Head(recQueue).kind = "gsi" THEN "raw" ELSE "supplementary"
  /\ UNCHANGED <<recorderMemory, recStopping, recStopped, recError, recorderFiles>>

\* Every row is already flushed, so the three flushes after the loop add nothing.
RecorderExit ==
  /\ recPc = "check" /\ recQueue = <<>> /\ recStopping
  /\ recPc' = "done"
  /\ UNCHANGED <<recorderMemory, recQueue, recStopping, recStopped, recError,
                 recPending, recorderFiles>>

\* n bytes of the body of the given order reach raw.gsi.
RawAppended(order, n) == raw \o [i \in 1 .. n |-> order]

\* Mutant: the offset of a body is read after the body was written.
PersistRawThenOffset ==
  /\ recPc = "raw"
  /\ recPending' = [recPending EXCEPT !.offset = rawOffset + recPending.bytes]
  /\ raw' = RawAppended(recPending.order, recPending.bytes)
  /\ rawOffset' = rawOffset + recPending.bytes
  /\ recPc' = "timeline"
  /\ UNCHANGED <<recorderMemory, recQueue, recStopping, recStopped, recError,
                 timeline, timelineStream, suppTimeline, suppStream>>

PersistRaw ==
  /\ recPc = "raw"
  /\ recPending' = [recPending EXCEPT !.offset = rawOffset]
  /\ raw' = RawAppended(recPending.order, recPending.bytes)
  /\ rawOffset' = rawOffset + recPending.bytes
  /\ recPc' = "timeline"
  /\ UNCHANGED <<recorderMemory, recQueue, recStopping, recStopped, recError,
                 timeline, timelineStream, suppTimeline, suppStream>>

\* The write or its flush fails: part of the body may be in the file, and
\* persist_snapshot throws before raw_offset_ moves.
PersistRawFails ==
  /\ recPc = "raw" /\ "raw" \in Faults
  /\ \E n \in 0 .. recPending.bytes - 1 : raw' = RawAppended(recPending.order, n)
  /\ recPc' = "catch" /\ recPending' = NoRecord
  /\ UNCHANGED <<recorderMemory, recQueue, recStopping, recStopped, recError,
                 rawOffset, timeline, timelineStream, suppTimeline, suppStream>>

\* The row of a snapshot.  timeline_ is never tested after the flush, so
\* the worker goes on in every case; on a bad stream the row is dropped.
PersistTimelineRow ==
  /\ recPc = "timeline"
  /\ timeline' = IF timelineStream = "good" THEN Append(timeline, recPending) ELSE timeline
  /\ recPc' = "check" /\ recPending' = NoRecord
  /\ UNCHANGED <<recorderMemory, recQueue, recStopping, recStopped, recError,
                 rawOffset, raw, timelineStream, suppTimeline, suppStream>>

\* The flush of the row fails: nothing of it is in the file, or a part that
\* does not parse, or all of it but the newline, or but the last digits of
\* body_bytes.
PersistTimelineRowFails ==
  /\ recPc = "timeline" /\ timelineStream = "good" /\ "timeline" \in Faults
  /\ \/ timelineStream' \in {"bad", "torn"} /\ UNCHANGED timeline
     \/ /\ \/ timeline' = Append(timeline, recPending)
           \/ /\ recPending.bytes >= 10
              /\ timeline' = Append(timeline, [recPending EXCEPT !.bytes = @ \div 10])
        /\ timelineStream' = "bad"
  /\ recPc' = "check" /\ recPending' = NoRecord
  /\ UNCHANGED <<recorderMemory, recQueue, recStopping, recStopped, recError,
                 rawOffset, raw, suppTimeline, suppStream>>

PersistSupplementary ==
  /\ recPc = "supplementary"
  /\ suppTimeline' = Append(suppTimeline, recPending)
  /\ recPc' = "check" /\ recPending' = NoRecord
  /\ UNCHANGED <<recorderMemory, recQueue, recStopping, recStopped, recError,
                 rawOffset, raw, timeline, timelineStream, suppStream>>

\* Here the stream is tested, and persist_supplementary throws.  The row may be
\* in the file all the same, but for its newline or the last digits of a count.
PersistSupplementaryFails ==
  /\ recPc = "supplementary" /\ "supplementary" \in Faults
  /\ \/ suppStream' \in {"bad", "torn"} /\ UNCHANGED suppTimeline
     \/ suppStream' = "bad" /\ suppTimeline' = Append(suppTimeline, recPending)
  /\ recPc' = "catch" /\ recPending' = NoRecord
  /\ UNCHANGED <<recorderMemory, recQueue, recStopping, recStopped, recError,
                 rawOffset, raw, timeline, timelineStream>>

\* catch (...) of worker_loop: the error is kept and the queue dropped.
RecorderCatch ==
  /\ recPc = "catch"
  /\ recError' = TRUE
  /\ recStopping' = TRUE
  /\ recQueue' = <<>>
  /\ recPc' = "done"
  /\ UNCHANGED <<recorderMemory, recStopped, recPending, recorderFiles>>

RecorderWorker ==
  \/ RecorderWait
  \/ RecorderPop
  \/ RecorderExit
  \/ PersistRaw
  \/ PersistRawFails
  \/ PersistTimelineRow
  \/ PersistTimelineRowFails
  \/ PersistSupplementary
  \/ PersistSupplementaryFails
  \/ RecorderCatch

-----------------------------------------------------------------------------

RecorderTypeOK ==
  /\ recSequence \in Nat /\ recSuppSequence \in Nat /\ recIngressOrder \in Nat
  /\ recQueue \in Seq(Record) /\ recAccepted \in Seq(Record)
  /\ recStopping \in BOOLEAN /\ recStopped \in BOOLEAN /\ recError \in BOOLEAN
  /\ recPc \in {"check", "waiting", "raw", "timeline", "supplementary", "catch", "done"}
  /\ recPending \in Record
  /\ rawOffset \in Nat /\ raw \in Seq(Nat)
  /\ timeline \in Seq(Record) /\ suppTimeline \in Seq(Record)
  /\ timelineStream \in {"good", "bad", "torn"}
  /\ suppStream \in {"good", "bad", "torn"}

=============================================================================
