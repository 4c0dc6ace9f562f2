--------------------------- MODULE SessionReplay ---------------------------
(***************************************************************************)
(* Loading a recorded session (the load_* functions of                     *)
(* src/src/session.cpp) from the files of a recording process, at any      *)
(* moment of its life: while it runs, after it was killed, after it left.  *)
(*                                                                         *)
(* A schema-v3 session is read.  A file that ends in part of a row makes   *)
(* its loader throw, so LoadThrows says when a session cannot be replayed  *)
(* at all.                                                                 *)
(***************************************************************************)
EXTENDS TelemetryIngress, SequencesExt, TLC

\* "Malformed timeline row", "Malformed supplementary timeline row".
LoadThrows == timelineStream = "torn" \/ suppStream = "torn"

KindOrder(kind) == IF kind = "gsi" THEN 0 ELSE 1

\* Mutant: replay goes by the times of observation.
ReplayedByTime(a, b) ==
  IF a.relative # b.relative THEN a.relative < b.relative ELSE a.order < b.order

\* The comparison load_replay_stream sorts with.
ReplayedBefore(a, b) ==
  IF a.order # b.order THEN a.order < b.order
  ELSE IF a.relative # b.relative THEN a.relative < b.relative
  ELSE KindOrder(a.kind) < KindOrder(b.kind)

\* Whether std::stable_sort puts row j before row k: of two rows the earlier one
\* goes first unless the later one compares less.
SortedBefore(rows, j, k) ==
  IF j < k THEN ~ReplayedBefore(rows[k], rows[j]) ELSE ReplayedBefore(rows[j], rows[k])

\* load_replay_stream: the rows of both files as one stream.
LoadReplayStream ==
  LET rows == timeline \o suppTimeline
      Place(k) == Cardinality({j \in DOMAIN rows : SortedBefore(rows, j, k)}) + 1
  IN  [i \in DOMAIN rows |-> rows[CHOOSE k \in DOMAIN rows : Place(k) = i]]

\* load_replay_body: the slice of raw.gsi a row names; "Short read" if the
\* file does not hold it.
ShortRead(row) == row.offset + row.bytes > Len(raw)
LoadReplayBody(row) == SubSeq(raw, row.offset + 1, row.offset + row.bytes)

\* Mutant: the replay clock follows every item, also one that is late.
ReplayClockFollows(stream) == [i \in DOMAIN stream |-> stream[i].relative]

\* replay_clock_us after each item of the stream: an item observed before one
\* that was replayed does not turn it back.
ReplayClock(stream) ==
  LET clock[i \in DOMAIN stream] ==
        IF i = 1 \/ stream[i].relative > clock[i - 1] THEN stream[i].relative ELSE clock[i - 1]
  IN  clock

\* What command_replay sleeps before an item, at speed 1.
ReplaySleep(stream) ==
  LET clock == ReplayClock(stream)
  IN  [i \in DOMAIN stream |->
        IF i > 1 /\ stream[i].relative > clock[i - 1] THEN stream[i].relative - clock[i - 1] ELSE 0]

\* A row stands for a record: all that enqueue decided is as it was.
RowOf(row, record) ==
  /\ row.kind = record.kind /\ row.order = record.order
  /\ row.sequence = record.sequence /\ row.relative = record.relative

\* What is recorded and processed of an observation, wherever its body is.
Observation(r) == [r EXCEPT !.bytes = 0, !.offset = 0]
Observations(records) == [i \in DOMAIN records |-> Observation(records[i])]

-----------------------------------------------------------------------------

\* Whenever the process is killed, the session that can be loaded replays a
\* prefix of the records that were accepted, in the order they were
\* accepted, whatever times they carry: no record is missing before one that
\* is there.  A timeline stream that went bad is the exception, see
\* ReplayIsInOrder.
CrashReplayIsPrefix ==
  timelineStream = "good" /\ ~LoadThrows =>
    LET stream == LoadReplayStream
    IN  \A i \in DOMAIN stream : RowOf(stream[i], recAccepted[i])

\* Even when rows were dropped, replay presents accepted records only, each
\* once and in the order of acceptance.
ReplayIsInOrder ==
  ~LoadThrows =>
    LET stream == LoadReplayStream
    IN  /\ \A i \in DOMAIN stream :
             /\ stream[i].order \in 1 .. Len(recAccepted)
             /\ RowOf(stream[i], recAccepted[stream[i].order])
        /\ \A i, j \in DOMAIN stream : i < j => stream[i].order < stream[j].order

\* Every row of the timeline names bytes that are in raw.gsi and belong to its
\* own record: the body is written before the row, and a failed write of one
\* body shifts no later one.
EveryRowHasItsBody ==
  \A i \in 1 .. Len(timeline) :
    /\ ~ShortRead(timeline[i])
    /\ \A k \in DOMAIN LoadReplayBody(timeline[i]) :
         LoadReplayBody(timeline[i])[k] = timeline[i].order
    /\ timeline[i].bytes = recAccepted[timeline[i].order].bytes \/ timelineStream = "bad"

\* How long replay has slept when it presents each item of the stream.
ReplaySlept(stream) ==
  LET sleeps == ReplaySleep(stream)
      slept[i \in DOMAIN stream] == IF i = 1 THEN sleeps[1] ELSE slept[i - 1] + sleeps[i]
  IN  slept

\* Replay keeps the recorded time although its items are not in time order: up
\* to each item it has slept, from the first on, as long as it took until the
\* latest observation so far, so that no item is shown before its time and a
\* late one delays nothing after it (main.cpp lines 209-222).
ReplayKeepsTime ==
  LET stream == LoadReplayStream
  IN  \A n \in DOMAIN stream :
        ReplaySlept(stream)[n]
          = Max({stream[i].relative : i \in 1 .. n}) - stream[1].relative

\* A process whose disk works is one log with two readers: the files, as replay
\* loads them, and live processing.  Both take every accepted observation in
\* the one order, one at a time, whatever else happens in between, and nothing
\* is accepted once the recorder stops (telemetry_ingress.hpp).
Log == INSTANCE TelemetryLog WITH
  Readers <- {"disk", "live"},
  log <- Observations(recAccepted),
  open <- RecorderOpen,
  read <- [disk |-> Observations(LoadReplayStream), live |-> Observations(liveProcessed)]

IsOneLog == Log!Spec

=============================================================================
