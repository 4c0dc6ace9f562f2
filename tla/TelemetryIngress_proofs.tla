---------------------- MODULE TelemetryIngress_proofs ----------------------
(***************************************************************************)
(* Proofs about the recording process of TelemetryIngress, for every set   *)
(* of providers, every bound and every set of faults, up to its end.       *)
(***************************************************************************)
EXTENDS TelemetryIngress, SequenceTheorems, TLAPS

(***************************************************************************)
(* Types.  The worker's steps, the producers' calls and the pipeline's     *)
(* steps are treated apart.                                                *)
(***************************************************************************)

LEMMA NoRecordType == NoRecord \in Record
  BY DEF NoRecord, Record

LEMMA RecordUpdate ==
  ASSUME NEW r \in Record, NEW n \in Nat
  PROVE  /\ [r EXCEPT !.offset = n] \in Record
         /\ [r EXCEPT !.bytes = n] \in Record
  BY DEF Record

\* Appending bytes to raw.gsi.
LEMMA RawAppendedType ==
  ASSUME raw \in Seq(Nat), NEW order \in Nat, NEW n \in Nat
  PROVE  RawAppended(order, n) \in Seq(Nat)
  <1>1. [i \in 1 .. n |-> order] \in Seq(Nat)
    OBVIOUS
  <1>2. QED
    BY <1>1 DEF RawAppended

LEMMA NewRecordTypes ==
  ASSUME RecorderTypeOK, NEW tick \in Nat, NEW bytes \in Nat
  PROVE  NewSnapshot(tick, bytes) \in Record /\ NewSupplementary(tick) \in Record
  <1>1. RelativeTime(tick) \in Nat
    BY RecorderAssumption DEF RelativeTime
  <1>2. QED
    BY <1>1 DEF NewSnapshot, NewSupplementary, RecorderTypeOK, Record

LEMMA WorkerTypes ==
  ASSUME RecorderTypeOK, RecorderWorker
  PROVE  RecorderTypeOK'
  <1> USE DEF RecorderTypeOK, recorderMemory, recorderFiles
  <1>a. recPending.order \in Nat /\ recPending.bytes \in Nat
    BY DEF Record
  <1>1. CASE RecorderWait
    BY <1>1 DEF RecorderWait
  <1>2. CASE RecorderPop
    BY <1>2 DEF RecorderPop
  <1>3. CASE RecorderExit
    BY <1>3 DEF RecorderExit
  <1>4. CASE PersistRaw
    <2>1. recPending' \in Record
      BY <1>4, RecordUpdate DEF PersistRaw
    <2>2. rawOffset' \in Nat
      BY <1>4, <1>a DEF PersistRaw
    <2>3. raw' \in Seq(Nat)
      <3>1. RawAppended(recPending.order, recPending.bytes) \in Seq(Nat)
        BY <1>a, RawAppendedType, Zenon
      <3>2. QED
        BY <1>4, <3>1 DEF PersistRaw
    <2>4. QED
      BY <1>4, <2>1, <2>2, <2>3 DEF PersistRaw
  <1>5. CASE PersistRawFails
    <2>1. PICK n \in 0 .. recPending.bytes - 1 : raw' = RawAppended(recPending.order, n)
      BY <1>5 DEF PersistRawFails
    <2>2. raw' \in Seq(Nat)
      <3>1. n \in Nat
        BY <1>a
      <3>2. RawAppended(recPending.order, n) \in Seq(Nat)
        BY <1>a, <3>1, RawAppendedType, Zenon
      <3>3. QED
        BY <2>1, <3>2
    <2>3. QED
      BY <1>5, <2>2, NoRecordType DEF PersistRawFails
  <1>6. CASE PersistTimelineRow
    BY <1>6, NoRecordType DEF PersistTimelineRow
  <1>7. CASE PersistTimelineRowFails
    <2>1. recPending.bytes \div 10 \in Nat
      BY <1>a
    <2>2. [recPending EXCEPT !.bytes = @ \div 10] \in Record
      BY <2>1, RecordUpdate
    <2>3. timeline' \in Seq(Record)
      <3>1. Append(timeline, [recPending EXCEPT !.bytes = @ \div 10]) \in Seq(Record)
        BY <2>2
      <3>2. Append(timeline, recPending) \in Seq(Record)
        OBVIOUS
      <3>3. QED
        BY <1>7, <3>1, <3>2 DEF PersistTimelineRowFails
    <2>4. QED
      BY <1>7, <2>3, NoRecordType DEF PersistTimelineRowFails
  <1>8. CASE PersistSupplementary
    BY <1>8, NoRecordType DEF PersistSupplementary
  <1>9. CASE PersistSupplementaryFails
    <2>1. suppTimeline' \in Seq(Record)
      <3>1. Append(suppTimeline, recPending) \in Seq(Record)
        OBVIOUS
      <3>2. QED
        BY <1>9, <3>1 DEF PersistSupplementaryFails
    <2>2. QED
      BY <1>9, <2>1, NoRecordType DEF PersistSupplementaryFails
  <1>10. CASE RecorderCatch
    BY <1>10 DEF RecorderCatch
  <1>11. QED
    BY <1>1, <1>2, <1>3, <1>4, <1>5, <1>6, <1>7, <1>8, <1>9, <1>10 DEF RecorderWorker

\* The recorder's own calls, made by a thread of the process.
LEMMA RecorderCallTypes ==
  ASSUME TypeOK, IngressAssumption,
         \/ RecorderNotify \/ RecorderRequestStop \/ RecorderJoin
         \/ \E tick, bytes \in Nat : RecorderEnqueue(tick, bytes)
         \/ \E tick \in Nat : RecorderEnqueueSupplementary(tick)
  PROVE  RecorderTypeOK'
  <1> USE DEF TypeOK, RecorderTypeOK, recorderMemory, recorderFiles
  <1>1. CASE RecorderNotify
    BY <1>1 DEF RecorderNotify
  <1>2. CASE RecorderRequestStop
    BY <1>2 DEF RecorderRequestStop
  <1>3. CASE RecorderJoin
    BY <1>3 DEF RecorderJoin
  <1>4. ASSUME NEW tick \in Nat, NEW bytes \in Nat, RecorderEnqueue(tick, bytes)
        PROVE  RecorderTypeOK'
    <2>1. NewSnapshot(tick, bytes) \in Record
      BY NewRecordTypes
    <2>2. NewSnapshot(tick, bytes).order \in Nat
      BY <2>1 DEF Record
    <2>3. QED
      BY <1>4, <2>1, <2>2 DEF RecorderEnqueue, RecorderPush
  <1>5. ASSUME NEW tick \in Nat, RecorderEnqueueSupplementary(tick)
        PROVE  RecorderTypeOK'
    <2>1. NewSupplementary(tick) \in Record
      BY NewRecordTypes
    <2>2. NewSupplementary(tick).order \in Nat
      BY <2>1 DEF Record
    <2>3. QED
      BY <1>5, <2>1, <2>2 DEF RecorderEnqueueSupplementary, RecorderPush
  <1>6. QED
    BY <1>1, <1>2, <1>3, <1>4, <1>5

\* The item the live worker popped is there as long as it is processed.
LivePendingInv ==
  /\ livePc = "process" => Len(livePending) = 1
  /\ livePc \in {"check", "waiting"} => livePending = <<>>

LEMMA LiveStepTypes ==
  ASSUME LiveTypeOK, LivePendingInv,
         \/ LiveWorker \/ LiveNotify \/ LiveRequestStop \/ LiveJoin
         \/ \E item \in Record : LiveEnqueue(item)
  PROVE  LiveTypeOK' /\ LivePendingInv'
  <1> USE DEF LiveTypeOK, LivePendingInv
  <1>1. CASE LiveWait
    BY <1>1 DEF LiveWait
  <1>2. CASE LivePop
    BY <1>2 DEF LivePop
  <1>3. CASE LiveExit
    BY <1>3 DEF LiveExit
  <1>4. CASE LiveProcess
    <2>1. livePending[1] \in Record
      <3>1. livePc = "process"
        BY <1>4, Zenon DEF LiveProcess
      <3>2. Len(livePending) = 1
        BY <3>1
      <3>3. 1 \in 1 .. Len(livePending)
        BY <3>2
      <3>4. QED
        BY <3>3, ElementOfSeq, Zenon
    <2>2. Append(liveProcessed, livePending[1]) \in Seq(Record)
      BY <2>1
    <2>3. liveLatest' \in BOOLEAN
      BY <1>4, Zenon DEF LiveProcess
    <2>4. QED
      BY <1>4, <2>2, <2>3 DEF LiveProcess
  <1>5. CASE LiveThrow
    BY <1>5 DEF LiveThrow
  <1>6. CASE LiveCatch
    BY <1>6 DEF LiveCatch
  <1>7. CASE LiveNotify
    BY <1>7 DEF LiveNotify
  <1>8. CASE LiveRequestStop
    BY <1>8 DEF LiveRequestStop
  <1>9. CASE LiveJoin
    BY <1>9 DEF LiveJoin
  <1>10. ASSUME NEW item \in Record, LiveEnqueue(item)
         PROVE  LiveTypeOK' /\ LivePendingInv'
    BY <1>10 DEF LiveEnqueue
  <1>11. QED
    BY <1>1, <1>2, <1>3, <1>4, <1>5, <1>6, <1>7, <1>8, <1>9, <1>10 DEF LiveWorker

(***************************************************************************)
(* The inductive invariant.  A thread is between the recorder and the      *)
(* pipeline exactly when it holds the gate, and then its record is the     *)
(* last one recorded; so while the pipeline accepts items it is behind the *)
(* recorder by the holder's record and by nothing else, and once it        *)
(* refuses one it refuses every later one.                                 *)
(***************************************************************************)

InGate == {"notify", "fanout"}

GateInv ==
  /\ Len(recAccepted) = recIngressOrder
  /\ \A t \in Threads : pc[t] \in InGate <=> gate = t
  /\ \A t \in Threads : gate = t => recIngressOrder >= 1 /\ call[t].order = recIngressOrder

Behind == IF gate = NoThread THEN 0 ELSE 1

LiveInv ==
  /\ LiveIsPrefixOfRecording
  /\ LiveOpen => Len(liveAccepted) = Len(recAccepted) - Behind

IngressInv == TypeOK /\ LivePendingInv /\ GateInv /\ LiveInv

LEMMA IngressInit == Init => IngressInv
  <1> SUFFICES ASSUME Init PROVE IngressInv
    OBVIOUS
  <1> USE DEF Init, RecorderInit, LiveInit
  <1>0. <<>> \in Seq(Record) /\ <<>> \in Seq(Nat)
    BY EmptySeq
  <1>1. RecorderTypeOK
    BY <1>0, NoRecordType DEF RecorderTypeOK
  <1>2. LiveTypeOK /\ LivePendingInv
    BY <1>0 DEF LiveTypeOK, LivePendingInv
  <1>3. NoCall \in Calls
    BY DEF NoCall, Calls
  <1>4. TypeOK
    BY <1>1, <1>2, <1>3, RecorderAssumption, IngressAssumption DEF TypeOK, Threads
  <1>5. GateInv
    BY IngressAssumption DEF GateInv, Threads, InGate
  <1>6. LiveInv
    BY DEF LiveInv, LiveIsPrefixOfRecording, Behind
  <1>7. QED
    BY <1>2, <1>4, <1>5, <1>6 DEF IngressInv

\* A step of one thread outside the gate, the recorder and the pipeline.
LEMMA ThreadStep ==
  ASSUME IngressInv, UNCHANGED <<recorderVars, liveVars, gate>>,
         NEW t \in Threads, pc[t] \notin InGate,
         NEW label, GoTo(t, label), label \notin InGate,
         t = Main => label \in {"submit", "loop", "select", "receive", "stopLive"},
         t # Main => label \in {"idle", "submit"},
         NEW c \in Calls, call' = [call EXCEPT ![t] = c],
         now' \in Nat, stopRequested' \in BOOLEAN, failed' \in BOOLEAN
  PROVE  IngressInv'
  <1> USE DEF IngressInv, recorderVars, liveVars, recorderMemory, recorderFiles, GoTo
  <1>1. RecorderTypeOK' /\ LiveTypeOK' /\ LivePendingInv'
    BY DEF TypeOK, RecorderTypeOK, LiveTypeOK, LivePendingInv
  <1>2. TypeOK'
    BY <1>1 DEF TypeOK
  <1>3. GateInv'
    BY DEF GateInv, InGate, TypeOK
  <1>4. LiveInv'
    BY DEF LiveInv, LiveIsPrefixOfRecording, LiveOpen, Behind
  <1>5. QED
    BY <1>1, <1>2, <1>3, <1>4

\* A step that neither records, nor submits, nor enters or leaves the gate.
LEMMA NothingSubmitted ==
  ASSUME GateInv, LiveInv, UNCHANGED <<recorderMemory, gate, call, liveAccepted>>,
         LiveOpen' => LiveOpen,
         \A t \in Threads : pc'[t] \in InGate <=> pc[t] \in InGate
  PROVE  GateInv' /\ LiveInv'
  BY DEF GateInv, LiveInv, LiveIsPrefixOfRecording, Behind, recorderMemory

\* The calls and the steps that leave liveAccepted alone never reopen the pipeline.
LEMMA LiveStaysClosed ==
  ASSUME LiveTypeOK, LiveWorker \/ LiveNotify \/ LiveRequestStop \/ LiveJoin
  PROVE  UNCHANGED liveAccepted /\ (LiveOpen' => LiveOpen)
  BY DEF LiveTypeOK, LiveOpen, LiveWorker, LiveWait, LivePop, LiveExit, LiveProcess, LiveThrow,
         LiveCatch, LiveNotify, LiveRequestStop, LiveJoin

LEMMA WorkerRecordsNothing ==
  ASSUME RecorderWorker \/ RecorderNotify \/ RecorderRequestStop \/ RecorderJoin
  PROVE  UNCHANGED recorderMemory
  BY DEF RecorderWorker, RecorderWait, RecorderPop, RecorderExit, PersistRaw, PersistRawFails,
         PersistTimelineRow, PersistTimelineRowFails, PersistSupplementary,
         PersistSupplementaryFails, RecorderCatch, RecorderNotify, RecorderRequestStop,
         RecorderJoin

LEMMA RecordStep ==
  ASSUME IngressInv, NEW t \in Threads, IngressRecord(t)
  PROVE  IngressInv'
  <1> USE DEF IngressInv
  <1>1. /\ pc[t] = "submit" /\ gate = NoThread /\ gate' = t
        /\ call' = [call EXCEPT ![t] = [NoCall EXCEPT !.order = recIngressOrder + 1]]
        /\ pc' = [pc EXCEPT ![t] = "notify"]
        /\ UNCHANGED <<liveVars, now, stopRequested, failed>>
    BY DEF IngressRecord, GoTo
  <1>2. call[t].tick \in Nat /\ call[t].bytes \in Nat
    BY DEF TypeOK, Calls
  <1>3. PICK record \in Record : RecorderPush(record) /\ record.order = recIngressOrder + 1
    <2>1. CASE t = Main
      <3>1. RecorderEnqueue(call[t].tick, call[t].bytes)
        BY <2>1 DEF IngressRecord
      <3>2. NewSnapshot(call[t].tick, call[t].bytes) \in Record
        BY <1>2, NewRecordTypes DEF TypeOK
      <3>3. NewSnapshot(call[t].tick, call[t].bytes).order = recIngressOrder + 1
        BY DEF NewSnapshot
      <3>4. QED
        BY <3>1, <3>2, <3>3 DEF RecorderEnqueue
    <2>2. CASE t # Main
      <3>1. RecorderEnqueueSupplementary(call[t].tick)
        BY <2>2 DEF IngressRecord
      <3>2. NewSupplementary(call[t].tick) \in Record
        BY <1>2, NewRecordTypes DEF TypeOK
      <3>3. NewSupplementary(call[t].tick).order = recIngressOrder + 1
        BY DEF NewSupplementary
      <3>4. QED
        BY <3>1, <3>2, <3>3 DEF RecorderEnqueueSupplementary
    <2>3. QED
      BY <2>1, <2>2
  <1>4. /\ recAccepted' \in Seq(Record)
        /\ Len(recAccepted') = Len(recAccepted) + 1
        /\ \A i \in 1 .. Len(recAccepted) : recAccepted'[i] = recAccepted[i]
        /\ recIngressOrder' = recIngressOrder + 1
        /\ recIngressOrder \in Nat
    BY <1>3 DEF RecorderPush, TypeOK, RecorderTypeOK
  <1>5. RecorderTypeOK'
    <2>1. CASE t = Main
      BY <2>1, <1>2, RecorderCallTypes, IngressAssumption DEF IngressRecord
    <2>2. CASE t # Main
      BY <2>2, <1>2, RecorderCallTypes, IngressAssumption DEF IngressRecord
    <2>3. QED
      BY <2>1, <2>2
  <1>6. LiveTypeOK' /\ LivePendingInv'
    BY <1>1 DEF TypeOK, LiveTypeOK, LivePendingInv, liveVars
  <1>7. call' \in [Threads -> Calls]
    <2>1. [NoCall EXCEPT !.order = recIngressOrder + 1] \in Calls
      <3>1. NoCall \in Calls
        BY DEF NoCall, Calls
      <3>2. recIngressOrder + 1 \in Nat
        BY <1>4
      <3>3. QED
        BY <3>1, <3>2 DEF Calls
    <2>2. QED
      BY <1>1, <2>1 DEF TypeOK
  <1>8. TypeOK'
    BY <1>1, <1>5, <1>6, <1>7 DEF TypeOK
  <1>9. GateInv'
    <2>1. call'[t].order = recIngressOrder + 1
      BY <1>1 DEF TypeOK, NoCall
    <2>2. \A u \in Threads : pc[u] \notin InGate
      BY <1>1, IngressAssumption DEF GateInv, Threads
    <2>3. QED
      BY <1>1, <1>4, <2>1, <2>2 DEF GateInv, InGate, TypeOK
  <1>10. LiveInv'
    <2>1. t # NoThread
      BY IngressAssumption DEF Threads
    <2>2. QED
      BY <1>1, <1>4, <2>1
         DEF LiveInv, LiveIsPrefixOfRecording, LiveOpen, Behind, liveVars, TypeOK, LiveTypeOK
  <1>11. QED
    BY <1>6, <1>8, <1>9, <1>10

LEMMA FanOutStep ==
  ASSUME IngressInv, NEW t \in Threads, IngressFanOut(t)
  PROVE  IngressInv'
  <1> USE DEF IngressInv
  <1>1. /\ pc[t] = "fanout" /\ gate = t /\ gate' = NoThread
        /\ call' = [call EXCEPT ![t] = NoCall]
        /\ pc' = [pc EXCEPT ![t] = IF t = Main THEN "loop" ELSE "idle"]
        /\ UNCHANGED <<recorderVars, now, stopRequested, failed>>
    BY DEF IngressFanOut, IngressLeave, GoTo, GateInv, InGate
  <1>2. /\ call[t].order = Len(recAccepted) /\ Len(recAccepted) >= 1
        /\ recAccepted \in Seq(Record)
    BY <1>1 DEF GateInv, TypeOK, RecorderTypeOK
  <1>3. Submitted(t) \in Record
    BY <1>2 DEF Submitted
  <1>4. LiveEnqueue(Submitted(t)) /\ LiveOpen
    BY DEF IngressFanOut, LiveEnqueue
  <1>5. LiveTypeOK' /\ LivePendingInv'
    BY <1>3, <1>4, LiveStepTypes DEF TypeOK
  <1>6. RecorderTypeOK'
    BY <1>1 DEF TypeOK, RecorderTypeOK, recorderVars, recorderMemory, recorderFiles
  <1>7. call' \in [Threads -> Calls]
    <2>1. NoCall \in Calls
      BY DEF NoCall, Calls
    <2>2. QED
      BY <1>1, <2>1 DEF TypeOK
  <1>8. TypeOK'
    BY <1>1, <1>5, <1>6, <1>7 DEF TypeOK
  <1>9. GateInv'
    BY <1>1, IngressAssumption
       DEF GateInv, InGate, TypeOK, Threads, recorderVars, recorderMemory
  <1>10. LiveInv'
    <2>1. /\ liveAccepted' = Append(liveAccepted, recAccepted[Len(recAccepted)])
          /\ UNCHANGED recAccepted
      BY <1>1, <1>2, <1>4
         DEF LiveEnqueue, Submitted, recorderVars, recorderMemory
    <2>2. t # NoThread
      BY IngressAssumption DEF Threads
    <2>3. Len(liveAccepted) = Len(recAccepted) - 1
      BY <1>1, <1>4, <2>2 DEF LiveInv, Behind
    <2>4. /\ liveAccepted \in Seq(Record)
          /\ Len(recAccepted) \in Nat
          /\ \A i \in 1 .. Len(liveAccepted) : liveAccepted[i] = recAccepted[i]
      BY <1>2 DEF LiveInv, LiveIsPrefixOfRecording, TypeOK, LiveTypeOK
    <2>5. Len(liveAccepted') = Len(recAccepted)
      BY <2>1, <2>3, <2>4
    <2>6. ASSUME NEW i \in 1 .. Len(liveAccepted')
          PROVE  liveAccepted'[i] = recAccepted'[i]
      BY <2>1, <2>3, <2>4, <2>5
    <2>7. QED
      BY <1>1, <2>1, <2>4, <2>5, <2>6 DEF LiveInv, LiveIsPrefixOfRecording, Behind
  <1>11. QED
    BY <1>5, <1>8, <1>9, <1>10

LEMMA FanOutThrowsStep ==
  ASSUME IngressInv, NEW t \in Threads, IngressFanOutThrows(t)
  PROVE  IngressInv'
  <1> USE DEF IngressInv
  <1>1. /\ pc[t] = "fanout" /\ gate = t /\ gate' = NoThread /\ ~LiveOpen
        /\ call' = [call EXCEPT ![t] = NoCall]
        /\ pc' = [pc EXCEPT ![t] = IF t = Main THEN "stopLive" ELSE "idle"]
        /\ failed' \in BOOLEAN
        /\ UNCHANGED <<recorderVars, liveVars, now, stopRequested>>
    <2>1. failed' = (failed \/ t = Main)
      BY DEF IngressFanOutThrows, IngressThrew
    <2>2. failed' \in BOOLEAN
      BY <2>1, Zenon DEF TypeOK
    <2>3. QED
      BY <2>2 DEF IngressFanOutThrows, IngressLeave, IngressThrew, GoTo, GateInv, InGate
  <1>2. RecorderTypeOK' /\ LiveTypeOK' /\ LivePendingInv'
    BY <1>1 DEF TypeOK, RecorderTypeOK, LiveTypeOK, LivePendingInv, liveVars, recorderVars,
                recorderMemory, recorderFiles
  <1>3. call' \in [Threads -> Calls]
    <2>1. NoCall \in Calls
      BY DEF NoCall, Calls
    <2>2. QED
      BY <1>1, <2>1 DEF TypeOK
  <1>4. TypeOK'
    BY <1>1, <1>2, <1>3 DEF TypeOK
  <1>5. GateInv'
    BY <1>1, IngressAssumption
       DEF GateInv, InGate, TypeOK, Threads, recorderVars, recorderMemory
  <1>6. LiveInv'
    BY <1>1 DEF LiveInv, LiveIsPrefixOfRecording, LiveOpen, liveVars, recorderVars, recorderMemory
  <1>7. QED
    BY <1>2, <1>4, <1>5, <1>6

\* A step of a worker, a notify, or a call of main that stops a part.
LEMMA PartStep ==
  ASSUME IngressInv, UNCHANGED <<gate, call, now, stopRequested>>,
         \/ UNCHANGED recorderVars
         \/ RecorderWorker \/ RecorderNotify \/ RecorderRequestStop \/ RecorderJoin,
         \/ UNCHANGED liveVars
         \/ LiveWorker \/ LiveNotify \/ LiveRequestStop \/ LiveJoin,
         failed' \in BOOLEAN,
         \/ UNCHANGED pc
         \/ \E t \in Threads : pc[t] = "notify" /\ GoTo(t, "fanout")
         \/ \E label \in {"notifyLive", "joinLive", "stopRecorder", "notifyRecorder",
                         "joinRecorder", "exited"} :
              pc[Main] \notin InGate /\ GoTo(Main, label)
  PROVE  IngressInv'
  <1> USE DEF IngressInv
  <1>1. RecorderTypeOK' /\ UNCHANGED recorderMemory
    <2>1. CASE UNCHANGED recorderVars
      BY <2>1 DEF TypeOK, RecorderTypeOK, recorderVars, recorderMemory, recorderFiles
    <2>2. CASE RecorderWorker
      BY <2>2, WorkerTypes, WorkerRecordsNothing DEF TypeOK
    <2>3. CASE RecorderNotify \/ RecorderRequestStop \/ RecorderJoin
      BY <2>3, RecorderCallTypes, WorkerRecordsNothing, IngressAssumption
    <2>4. QED
      BY <2>1, <2>2, <2>3
  <1>2. LiveTypeOK' /\ LivePendingInv' /\ UNCHANGED liveAccepted /\ (LiveOpen' => LiveOpen)
    <2>1. CASE UNCHANGED liveVars
      BY <2>1 DEF TypeOK, LiveTypeOK, LivePendingInv, LiveOpen, liveVars
    <2>2. CASE LiveWorker \/ LiveNotify \/ LiveRequestStop \/ LiveJoin
      BY <2>2, LiveStepTypes, LiveStaysClosed DEF TypeOK
    <2>3. QED
      BY <2>1, <2>2
  <1>3. TypeOK' /\ \A t \in Threads : pc'[t] \in InGate <=> pc[t] \in InGate
    <2>1. CASE UNCHANGED pc
      BY <1>1, <1>2, <2>1 DEF TypeOK
    <2>2. ASSUME NEW t \in Threads, pc[t] = "notify", GoTo(t, "fanout")
          PROVE  TypeOK' /\ \A u \in Threads : pc'[u] \in InGate <=> pc[u] \in InGate
      BY <1>1, <1>2, <2>2 DEF TypeOK, GoTo, InGate
    <2>3. ASSUME NEW label \in {"notifyLive", "joinLive", "stopRecorder", "notifyRecorder",
                                "joinRecorder", "exited"},
                 pc[Main] \notin InGate, GoTo(Main, label)
          PROVE  TypeOK' /\ \A u \in Threads : pc'[u] \in InGate <=> pc[u] \in InGate
      BY <1>1, <1>2, <2>3 DEF TypeOK, GoTo, InGate, Threads
    <2>4. QED
      BY <2>1, <2>2, <2>3
  <1>4. GateInv' /\ LiveInv'
    BY <1>1, <1>2, <1>3, NothingSubmitted
  <1>5. QED
    BY <1>2, <1>3, <1>4

LEMMA StoppingStep ==
  ASSUME IngressInv, Stopping
  PROVE  IngressInv'
  <1> USE DEF recorderVars, liveVars
  <1>0. failed' \in BOOLEAN
    <2>1. failed \in BOOLEAN /\ (failed \/ liveError) \in BOOLEAN /\ (failed \/ recError) \in BOOLEAN
      BY Zenon DEF IngressInv, TypeOK
    <2>2. QED
      BY <2>1, Zenon DEF Stopping, StopLive, NotifyLive, JoinLive, StopRecorder, NotifyRecorder,
                         JoinRecorder
  <1>1. CASE StopLive
    BY <1>0, <1>1, PartStep DEF StopLive, InGate
  <1>2. CASE NotifyLive
    BY <1>0, <1>2, PartStep DEF NotifyLive, InGate
  <1>3. CASE JoinLive
    BY <1>0, <1>3, PartStep DEF JoinLive, InGate
  <1>4. CASE StopRecorder
    BY <1>0, <1>4, PartStep DEF StopRecorder, InGate
  <1>5. CASE NotifyRecorder
    BY <1>0, <1>5, PartStep DEF NotifyRecorder, InGate
  <1>6. CASE JoinRecorder
    BY <1>0, <1>6, PartStep DEF JoinRecorder, InGate
  <1>7. QED
    BY <1>1, <1>2, <1>3, <1>4, <1>5, <1>6 DEF Stopping

LEMMA IngressStep ==
  ASSUME IngressInv, NEW t \in Threads, Ingress(t)
  PROVE  IngressInv'
  <1>1. CASE IngressRecord(t)
    BY <1>1, RecordStep
  <1>2. CASE IngressRecordThrows(t)
    <2>1. NoCall \in Calls
      BY DEF NoCall, Calls
    <2>2. failed' \in BOOLEAN
      BY <1>2, Zenon DEF IngressRecordThrows, IngressThrew, IngressInv, TypeOK
    <2>3. /\ pc[t] \notin InGate /\ GoTo(t, IF t = Main THEN "stopLive" ELSE "idle")
          /\ call' = [call EXCEPT ![t] = NoCall]
          /\ UNCHANGED <<recorderVars, liveVars, gate, now, stopRequested>>
      BY <1>2 DEF IngressRecordThrows, IngressThrew, InGate
    <2>4. now' \in Nat /\ stopRequested' \in BOOLEAN
      BY <2>3 DEF IngressInv, TypeOK
    <2>5. CASE t = Main
      BY <2>1, <2>2, <2>3, <2>4, <2>5, ThreadStep DEF InGate
    <2>6. CASE t # Main
      BY <2>1, <2>2, <2>3, <2>4, <2>6, ThreadStep DEF InGate
    <2>7. QED
      BY <2>5, <2>6
  <1>3. CASE IngressNotify(t)
    <2>1. failed' \in BOOLEAN
      BY <1>3 DEF IngressNotify, IngressInv, TypeOK
    <2>2. QED
      BY <1>3, <2>1, PartStep DEF IngressNotify
  <1>4. CASE IngressFanOut(t)
    BY <1>4, FanOutStep
  <1>5. CASE IngressFanOutThrows(t)
    BY <1>5, FanOutThrowsStep
  <1>6. QED
    BY <1>1, <1>2, <1>3, <1>4, <1>5 DEF Ingress

\* The HTTP loop outside the gate.
LEMMA HttpStep ==
  ASSUME IngressInv,
         \/ HttpCheckStop \/ HttpPollAgain \/ HttpAccept \/ HttpRefuse
         \/ \E bytes \in BodySizes, tick \in Ticks : HttpBodyComplete(bytes, tick)
  PROVE  IngressInv'
  <1> USE DEF InGate
  <1>1. Main \in Threads /\ call[Main] \in Calls /\ call = [call EXCEPT ![Main] = call[Main]]
    BY DEF Threads, IngressInv, TypeOK
  <1>2. now \in Nat /\ stopRequested \in BOOLEAN /\ failed \in BOOLEAN
    BY DEF IngressInv, TypeOK
  <1>3. CASE HttpCheckStop
    <2>1. PICK label \in {"stopLive", "select"} : GoTo(Main, label)
      BY <1>3 DEF HttpCheckStop
    <2>2. QED
      BY <1>1, <1>2, <1>3, <2>1, ThreadStep DEF HttpCheckStop
  <1>4. CASE HttpPollAgain
    BY <1>1, <1>2, <1>4, ThreadStep DEF HttpPollAgain
  <1>5. CASE HttpAccept
    BY <1>1, <1>2, <1>5, ThreadStep DEF HttpAccept
  <1>6. CASE HttpRefuse
    BY <1>1, <1>2, <1>6, ThreadStep DEF HttpRefuse
  <1>7. ASSUME NEW bytes \in BodySizes, NEW tick \in Ticks, HttpBodyComplete(bytes, tick)
        PROVE  IngressInv'
    <2>1. tick \in Nat /\ bytes \in Nat
      BY RecorderAssumption, IngressAssumption DEF Ticks
    <2>2. [NoCall EXCEPT !.tick = tick, !.bytes = bytes] \in Calls
      BY <2>1 DEF NoCall, Calls
    <2>3. QED
      BY <1>1, <1>2, <1>7, <2>1, <2>2, ThreadStep DEF HttpBodyComplete
  <1>8. QED
    BY <1>3, <1>4, <1>5, <1>6, <1>7

LEMMA ProviderStep ==
  ASSUME IngressInv, NEW p \in Providers, NEW tick \in Ticks, NEW valid \in BOOLEAN,
         ProviderObserve(p, tick, valid)
  PROVE  IngressInv'
  <1>1. p \in Threads /\ p # Main /\ tick \in Nat
    BY IngressAssumption DEF Threads, Ticks
  <1>2. [NoCall EXCEPT !.tick = tick, !.valid = valid] \in Calls
    BY <1>1 DEF NoCall, Calls
  <1>3. now' \in Nat /\ stopRequested' \in BOOLEAN /\ failed' \in BOOLEAN
    BY <1>1 DEF ProviderObserve, IngressInv, TypeOK
  <1>4. QED
    BY <1>1, <1>2, <1>3, ThreadStep DEF ProviderObserve, InGate

LEMMA NextStep ==
  ASSUME IngressInv, [Next]_vars
  PROVE  IngressInv'
  <1> USE DEF vars, threadVars
  <1>0. failed \in BOOLEAN /\ stopRequested \in BOOLEAN
    BY DEF IngressInv, TypeOK
  <1>1. CASE RequestStop
    BY <1>1 DEF RequestStop, IngressInv, TypeOK, RecorderTypeOK, LiveTypeOK, LivePendingInv, GateInv,
                LiveInv, LiveIsPrefixOfRecording, LiveOpen, Behind, recorderVars, recorderMemory,
                recorderFiles, liveVars
  <1>2. CASE \/ HttpCheckStop \/ HttpPollAgain \/ HttpAccept \/ HttpRefuse
             \/ \E bytes \in BodySizes, tick \in Ticks : HttpBodyComplete(bytes, tick)
    BY <1>2, HttpStep
  <1>3. CASE \E p \in Providers, tick \in Ticks, valid \in BOOLEAN : ProviderObserve(p, tick, valid)
    BY <1>3, ProviderStep
  <1>4. CASE \E t \in Threads : Ingress(t)
    BY <1>4, IngressStep
  <1>5. CASE Stopping
    BY <1>5, StoppingStep
  <1>6. CASE RecorderThread
    BY <1>0, <1>6, PartStep DEF RecorderThread
  <1>7. CASE LiveThread
    BY <1>0, <1>7, PartStep DEF LiveThread
  <1>8. CASE SpuriousWake
    BY <1>0, <1>8, PartStep DEF SpuriousWake, RecorderSpuriousWake, LiveSpuriousWake
  <1>9. CASE UNCHANGED vars \/ Exited
    <2>1. UNCHANGED vars
      BY <1>9 DEF Exited
    <2>2. QED
      BY <1>0, <2>1, PartStep
  <1>10. QED
    BY <1>1, <1>2, <1>3, <1>4, <1>5, <1>6, <1>7, <1>8, <1>9 DEF Next

THEOREM IngressInvariant == Spec => []IngressInv
  <1>1. Init => IngressInv
    BY IngressInit
  <1>2. IngressInv /\ [Next]_vars => IngressInv'
    BY NextStep
  <1>3. QED
    BY <1>1, <1>2, PTL DEF Spec

\* Every reachable state is well typed, whatever the constants.
THEOREM TypeCorrect == Spec => []TypeOK
  <1>1. IngressInv => TypeOK
    BY DEF IngressInv
  <1>2. QED
    BY <1>1, IngressInvariant, PTL

\* The order submitted to the live pipeline is the order recorded, for any
\* number of providers and records and with every fault.
THEOREM LiveFollowsRecording == Spec => []LiveIsPrefixOfRecording
  <1>1. IngressInv => LiveIsPrefixOfRecording
    BY DEF IngressInv, LiveInv
  <1>2. QED
    BY <1>1, IngressInvariant, PTL

(***************************************************************************)
(* The live queue.                                                         *)
(***************************************************************************)

LEMMA ConcatAppend ==
  ASSUME NEW S, NEW p \in Seq(S), NEW q \in Seq(S), NEW e \in S
  PROVE  p \o Append(q, e) = Append(p \o q, e)
  <1>1. p \o q \in Seq(S) /\ <<e>> \in Seq(S)
    BY ConcatProperties
  <1>2. p \o Append(q, e) = p \o (q \o <<e>>)
    BY AppendIsConcat
  <1>3. p \o (q \o <<e>>) = (p \o q) \o <<e>>
    BY <1>1, ConcatAssociative
  <1>4. (p \o q) \o <<e>> = Append(p \o q, e)
    BY <1>1, AppendIsConcat
  <1>5. QED
    BY <1>2, <1>3, <1>4

LEMMA HeadThenTail ==
  ASSUME NEW S, NEW q \in Seq(S), q # <<>>
  PROVE  q = <<Head(q)>> \o Tail(q)
  <1>1. 1 \in 1 .. Len(q) /\ Len(q) \in 1 .. Len(q)
    BY EmptySeq
  <1>2. SubSeq(q, 1, Len(q)) = <<q[1]>> \o SubSeq(q, 1 + 1, Len(q))
    BY <1>1, SubSeqRecursiveFirst
  <1>3. SubSeq(q, 1, Len(q)) = q /\ Tail(q) = SubSeq(q, 2, Len(q))
    BY SubSeqFull, TailIsSubSeq
  <1>4. QED
    BY <1>2, <1>3

LEMMA LiveAccountedStep ==
  ASSUME IngressInv, LiveAccounted, [Next]_vars
  PROVE  LiveAccounted'
  <1> USE DEF LiveAccounted
  <1>1. /\ liveQueue \in Seq(Record) /\ livePending \in Seq(Record)
        /\ liveProcessed \in Seq(Record) /\ liveAccepted \in Seq(Record)
    BY DEF IngressInv, TypeOK, LiveTypeOK
  <1>2. CASE UNCHANGED <<liveQueue, livePending, liveProcessed, liveAccepted>>
    BY <1>2
  <1>3. ASSUME NEW t \in Threads, IngressFanOut(t)
        PROVE  LiveAccounted'
    <2>1. recAccepted \in Seq(Record) /\ call[t].order \in 1 .. Len(recAccepted)
      BY <1>3 DEF IngressFanOut, IngressInv, GateInv, InGate, TypeOK, RecorderTypeOK
    <2>2. Submitted(t) \in Record
      BY <2>1, ElementOfSeq DEF Submitted
    <2>3. liveProcessed \o livePending \in Seq(Record)
      BY <1>1, ConcatProperties
    <2>4. (liveProcessed \o livePending) \o Append(liveQueue, Submitted(t))
            = Append(liveProcessed \o livePending \o liveQueue, Submitted(t))
      BY <1>1, <2>2, <2>3, ConcatAppend
    <2>5. QED
      BY <1>3, <2>4 DEF IngressFanOut, LiveEnqueue
  <1>4. CASE LivePop
    <2>1. livePending = <<>> /\ liveQueue # <<>>
      BY <1>4 DEF LivePop, IngressInv, LivePendingInv
    <2>2. Head(liveQueue) \in Record /\ Tail(liveQueue) \in Seq(Record)
      BY <1>1, <2>1, HeadTailProperties
    <2>3. <<Head(liveQueue)>> \in Seq(Record)
      BY <2>2
    <2>4. (liveProcessed \o <<Head(liveQueue)>>) \o Tail(liveQueue)
            = liveProcessed \o (<<Head(liveQueue)>> \o Tail(liveQueue))
      BY ONLY <1>1, <2>2, <2>3, ConcatAssociative
    <2>5. liveProcessed \o livePending = liveProcessed
      BY <1>1, <2>1, ConcatEmptySeq
    <2>6. <<Head(liveQueue)>> \o Tail(liveQueue) = liveQueue
      BY <1>1, <2>1, HeadThenTail
    <2>7. QED
      BY <1>4, <2>4, <2>5, <2>6 DEF LivePop
  <1>5. CASE LiveProcess
    <2>1. livePc = "process" /\ Len(livePending) = 1
      BY <1>5 DEF LiveProcess, IngressInv, LivePendingInv
    <2>2. livePending[1] \in Record
      BY <1>1, <2>1, ElementOfSeq
    <2>3. livePending = <<livePending[1]>>
      BY <1>1, <2>1
    <2>4. Append(liveProcessed, livePending[1]) = liveProcessed \o livePending
      BY <1>1, <2>2, <2>3, AppendIsConcat
    <2>5. Append(liveProcessed, livePending[1]) \in Seq(Record)
      BY <1>1, <2>2
    <2>6. Append(liveProcessed, livePending[1]) \o <<>> = Append(liveProcessed, livePending[1])
      BY <2>5, ConcatEmptySeq
    <2>7. QED
      BY <1>5, <2>4, <2>6 DEF LiveProcess
  <1>6. QED
    <2>1. CASE \E t \in Threads : Ingress(t)
      BY <2>1, <1>2, <1>3 DEF Ingress, IngressRecord, IngressRecordThrows, IngressNotify,
         IngressFanOutThrows, liveVars
    <2>2. CASE Stopping
      BY <2>2, <1>2 DEF Stopping, StopLive, NotifyLive, JoinLive, StopRecorder, NotifyRecorder,
         JoinRecorder, LiveRequestStop, LiveNotify, LiveJoin, liveVars
    <2>3. CASE LiveThread
      BY <2>3, <1>2, <1>4, <1>5 DEF LiveThread, LiveWorker, LiveWait, LiveExit, LiveThrow, LiveCatch
    <2>4. CASE SpuriousWake
      BY <2>4, <1>2 DEF SpuriousWake, RecorderSpuriousWake, LiveSpuriousWake, LiveNotify, liveVars
    <2>5. CASE UNCHANGED liveVars
      BY <2>5, <1>2 DEF liveVars
    <2>6. RequestStop => UNCHANGED liveVars
      BY DEF RequestStop
    <2>7. (HttpCheckStop \/ HttpPollAgain \/ HttpAccept \/ HttpRefuse) => UNCHANGED liveVars
      BY DEF HttpCheckStop, HttpPollAgain, HttpAccept, HttpRefuse
    <2>8. (\E bytes \in BodySizes, tick \in Ticks : HttpBodyComplete(bytes, tick)) => UNCHANGED liveVars
      BY DEF HttpBodyComplete
    <2>9. (\E p \in Providers, tick \in Ticks, valid \in BOOLEAN : ProviderObserve(p, tick, valid))
            => UNCHANGED liveVars
      BY DEF ProviderObserve
    <2>10. (RecorderThread \/ Exited \/ UNCHANGED vars) => UNCHANGED liveVars
      BY DEF RecorderThread, Exited, vars
    <2>11. QED
      BY <2>1, <2>2, <2>3, <2>4, <2>5, <2>6, <2>7, <2>8, <2>9, <2>10 DEF Next

\* The live pipeline neither loses, duplicates nor reorders what it accepted.
THEOREM LiveAccountsForAll == Spec => []LiveAccounted
  <1>1. Init => LiveAccounted
    BY ConcatEmptySeq, EmptySeq DEF Init, LiveInit, LiveAccounted
  <1>2. IngressInv /\ LiveAccounted /\ [Next]_vars => LiveAccounted'
    BY LiveAccountedStep
  <1>3. QED
    BY <1>1, <1>2, IngressInvariant, PTL DEF Spec

-----------------------------------------------------------------------------
(***************************************************************************)
(* The end of the process: what the queues hold when main has joined the   *)
(* workers, and what main's loop is to the rest.  The steps of the process *)
(* are first seen from each of its parts.                                  *)
(***************************************************************************)

(***************************************************************************)
(* The steps of each part.                                                 *)
(***************************************************************************)

\* The recorder accepts a record.
Recorded(r) ==
  /\ RecorderOpen
  /\ r \in Record /\ r.order = recIngressOrder + 1
  /\ RecorderPush(r)

RecorderStep ==
  \/ UNCHANGED recorderVars
  \/ RecorderWorker \/ RecorderNotify \/ RecorderRequestStop \/ RecorderJoin
  \/ \E r \in Record : Recorded(r)

LiveStep ==
  \/ UNCHANGED liveVars
  \/ LiveWorker \/ LiveNotify \/ LiveRequestStop \/ LiveJoin
  \/ \E item \in Record : LiveEnqueue(item)

LEMMA IngressIsRecorded ==
  ASSUME IngressInv, NEW t \in Threads, IngressRecord(t)
  PROVE  \E r \in Record : Recorded(r)
  <1>1. call[t].tick \in Nat /\ call[t].bytes \in Nat /\ RecorderTypeOK
    BY DEF IngressInv, TypeOK, Calls
  <1>2. CASE t = Main
    <2>1. RecorderEnqueue(call[t].tick, call[t].bytes)
      BY <1>2 DEF IngressRecord
    <2>2. NewSnapshot(call[t].tick, call[t].bytes) \in Record
      BY <1>1, NewRecordTypes
    <2>3. NewSnapshot(call[t].tick, call[t].bytes).order = recIngressOrder + 1
      BY DEF NewSnapshot
    <2>4. QED
      BY <2>1, <2>2, <2>3 DEF RecorderEnqueue, Recorded
  <1>3. CASE t # Main
    <2>1. RecorderEnqueueSupplementary(call[t].tick)
      BY <1>3 DEF IngressRecord
    <2>2. NewSupplementary(call[t].tick) \in Record
      BY <1>1, NewRecordTypes
    <2>3. NewSupplementary(call[t].tick).order = recIngressOrder + 1
      BY DEF NewSupplementary
    <2>4. QED
      BY <2>1, <2>2, <2>3 DEF RecorderEnqueueSupplementary, Recorded
  <1>4. QED
    BY <1>2, <1>3

LEMMA RecorderSteps ==
  ASSUME IngressInv, [Next]_vars
  PROVE  RecorderStep
  <1> USE DEF RecorderStep
  <1>1. ASSUME NEW t \in Threads, Ingress(t) PROVE RecorderStep
    <2>1. CASE IngressRecord(t)
      BY <2>1, IngressIsRecorded
    <2>2. CASE IngressNotify(t)
      BY <2>2 DEF IngressNotify
    <2>3. CASE IngressRecordThrows(t) \/ IngressFanOut(t) \/ IngressFanOutThrows(t)
      BY <2>3 DEF IngressRecordThrows, IngressFanOut, IngressFanOutThrows
    <2>4. QED
      BY <1>1, <2>1, <2>2, <2>3 DEF Ingress
  <1>2. CASE Stopping
    BY <1>2 DEF Stopping, StopLive, NotifyLive, JoinLive, StopRecorder, NotifyRecorder, JoinRecorder
  <1>3. CASE RecorderThread \/ LiveThread \/ SpuriousWake
    BY <1>3 DEF RecorderThread, LiveThread, SpuriousWake, RecorderSpuriousWake
  <1>4. CASE RequestStop \/ HttpCheckStop \/ HttpPollAgain \/ HttpAccept \/ HttpRefuse
    BY <1>4 DEF RequestStop, HttpCheckStop, HttpPollAgain, HttpAccept, HttpRefuse
  <1>5. ASSUME NEW bytes \in BodySizes, NEW tick \in Ticks, HttpBodyComplete(bytes, tick)
        PROVE  RecorderStep
    BY <1>5 DEF HttpBodyComplete
  <1>6. ASSUME NEW p \in Providers, NEW tick \in Ticks, NEW valid \in BOOLEAN,
               ProviderObserve(p, tick, valid)
        PROVE  RecorderStep
    BY <1>6 DEF ProviderObserve
  <1>7. CASE Exited \/ UNCHANGED vars
    BY <1>7 DEF Exited, vars
  <1>8. QED
    BY <1>1, <1>2, <1>3, <1>4, <1>5, <1>6, <1>7 DEF Next

LEMMA LiveSteps ==
  ASSUME IngressInv, [Next]_vars
  PROVE  LiveStep
  <1> USE DEF LiveStep
  <1>1. ASSUME NEW t \in Threads, Ingress(t) PROVE LiveStep
    <2>1. CASE IngressFanOut(t)
      <3>1. recAccepted \in Seq(Record) /\ call[t].order \in 1 .. Len(recAccepted)
        BY <2>1 DEF IngressFanOut, IngressInv, GateInv, InGate, TypeOK, RecorderTypeOK
      <3>2. Submitted(t) \in Record
        BY <3>1, ElementOfSeq DEF Submitted
      <3>3. QED
        BY <2>1, <3>2 DEF IngressFanOut
    <2>2. CASE IngressRecord(t) \/ IngressNotify(t) \/ IngressRecordThrows(t) \/ IngressFanOutThrows(t)
      BY <2>2 DEF IngressRecord, IngressNotify, IngressRecordThrows, IngressFanOutThrows
    <2>3. QED
      BY <1>1, <2>1, <2>2 DEF Ingress
  <1>2. CASE Stopping
    BY <1>2 DEF Stopping, StopLive, NotifyLive, JoinLive, StopRecorder, NotifyRecorder, JoinRecorder
  <1>3. CASE RecorderThread \/ LiveThread \/ SpuriousWake
    BY <1>3 DEF RecorderThread, LiveThread, SpuriousWake, LiveSpuriousWake
  <1>4. CASE RequestStop \/ HttpCheckStop \/ HttpPollAgain \/ HttpAccept \/ HttpRefuse
    BY <1>4 DEF RequestStop, HttpCheckStop, HttpPollAgain, HttpAccept, HttpRefuse
  <1>5. ASSUME NEW bytes \in BodySizes, NEW tick \in Ticks, HttpBodyComplete(bytes, tick)
        PROVE  LiveStep
    BY <1>5 DEF HttpBodyComplete
  <1>6. ASSUME NEW p \in Providers, NEW tick \in Ticks, NEW valid \in BOOLEAN,
               ProviderObserve(p, tick, valid)
        PROVE  LiveStep
    BY <1>6 DEF ProviderObserve
  <1>7. CASE Exited \/ UNCHANGED vars
    BY <1>7 DEF Exited, vars
  <1>8. QED
    BY <1>1, <1>2, <1>3, <1>4, <1>5, <1>6, <1>7 DEF Next

\* What a step does to main, and to the request to stop.
HttpLabels == {"loop", "select", "receive"}
CallLabels == {"submit", "notify", "fanout"}

MainStep ==
  \/ UNCHANGED <<pc[Main], stopRequested>>
  \/ pc'[Main] = pc[Main] /\ stopRequested' = TRUE
  \/ /\ UNCHANGED stopRequested
     /\ \/ pc[Main] = "loop" /\ pc'[Main] = "stopLive" /\ stopRequested
        \/ pc[Main] = "loop" /\ pc'[Main] = "select"
        \/ pc[Main] = "select" /\ pc'[Main] \in {"loop", "receive"}
        \/ pc[Main] = "receive" /\ pc'[Main] \in {"loop", "submit"}
        \/ pc[Main] \in CallLabels /\ pc'[Main] \in CallLabels \cup {"loop", "stopLive"}
        \/ pc[Main] = "stopLive" /\ pc'[Main] = "notifyLive"
        \/ pc[Main] = "notifyLive" /\ pc'[Main] = "joinLive"
        \/ pc[Main] = "joinLive" /\ pc'[Main] = "stopRecorder" /\ livePc = "done"
        \/ pc[Main] = "stopRecorder" /\ pc'[Main] = "notifyRecorder"
        \/ pc[Main] = "notifyRecorder" /\ pc'[Main] = "joinRecorder"
        \/ pc[Main] = "joinRecorder" /\ pc'[Main] = "exited" /\ recPc = "done"

LEMMA MainSteps ==
  ASSUME IngressInv, [Next]_vars
  PROVE  MainStep
  <1>0. Main \in Threads /\ pc \in [Threads -> {"idle", "submit", "notify", "fanout", "loop",
          "select", "receive", "stopLive", "notifyLive", "joinLive", "stopRecorder",
          "notifyRecorder", "joinRecorder", "exited"}]
    BY DEF IngressInv, TypeOK, Threads
  <1> USE <1>0 DEF MainStep, GoTo
  <1>1. ASSUME NEW t \in Threads, Ingress(t) PROVE MainStep
    <2>1. stopRequested' = stopRequested
      BY <1>1 DEF Ingress, IngressRecord, IngressRecordThrows, IngressNotify, IngressFanOut,
                  IngressFanOutThrows
    <2>2. CASE t = Main
      BY <1>1, <2>1, <2>2 DEF Ingress, IngressRecord, IngressRecordThrows, IngressNotify,
         IngressFanOut, IngressFanOutThrows, IngressThrew, CallLabels
    <2>3. CASE t # Main
      <3>1. \E label : pc' = [pc EXCEPT ![t] = label]
        BY <1>1 DEF Ingress, IngressRecord, IngressRecordThrows, IngressNotify, IngressFanOut,
                    IngressFanOutThrows, IngressThrew
      <3>2. QED
        BY <2>1, <2>3, <3>1
    <2>4. QED
      BY <2>2, <2>3
  <1>2. CASE Stopping
    BY <1>2 DEF Stopping, StopLive, NotifyLive, JoinLive, StopRecorder, NotifyRecorder,
                JoinRecorder, LiveJoin, RecorderJoin
  <1>3. CASE RecorderThread \/ LiveThread \/ SpuriousWake \/ Exited \/ UNCHANGED vars
    BY <1>3 DEF RecorderThread, LiveThread, SpuriousWake, Exited, vars, threadVars
  <1>4. CASE RequestStop
    BY <1>4 DEF RequestStop
  <1>5. CASE HttpCheckStop \/ HttpPollAgain \/ HttpAccept \/ HttpRefuse
    BY <1>5 DEF HttpCheckStop, HttpPollAgain, HttpAccept, HttpRefuse
  <1>6. ASSUME NEW bytes \in BodySizes, NEW tick \in Ticks, HttpBodyComplete(bytes, tick)
        PROVE  MainStep
    BY <1>6 DEF HttpBodyComplete
  <1>7. ASSUME NEW p \in Providers, NEW tick \in Ticks, NEW valid \in BOOLEAN,
               ProviderObserve(p, tick, valid)
        PROVE  MainStep
    BY <1>7, IngressAssumption DEF ProviderObserve
  <1>8. QED
    BY <1>1, <1>2, <1>3, <1>4, <1>5, <1>6, <1>7 DEF Next

(***************************************************************************)
(* Main's loop is a listener.                                              *)
(***************************************************************************)

LEMMA ListenerPhases ==
  /\ pc[Main] \in {"loop", "select"} => ListenerPhase = "polling"
  /\ pc[Main] = "receive" => ListenerPhase = "receiving"
  /\ pc[Main] \in CallLabels => ListenerPhase = "submitting"
  /\ pc[Main] \notin HttpLabels \cup CallLabels => ListenerPhase = "left"
  BY DEF ListenerPhase, HttpLabels, CallLabels

LEMMA NextListenerPhases ==
  /\ pc'[Main] \in {"loop", "select"} => ListenerPhase' = "polling"
  /\ pc'[Main] = "receive" => ListenerPhase' = "receiving"
  /\ pc'[Main] \in CallLabels => ListenerPhase' = "submitting"
  /\ pc'[Main] \notin HttpLabels \cup CallLabels => ListenerPhase' = "left"
  /\ pc'[Main] = pc[Main] => ListenerPhase' = ListenerPhase
  BY DEF ListenerPhase, HttpLabels, CallLabels

LEMMA ListenerStep ==
  ASSUME MainStep
  PROVE  [Listener!Next]_<<ListenerPhase, stopRequested>>
  <1> USE ListenerPhases, NextListenerPhases DEF Listener!Becomes, HttpLabels, CallLabels
  <1>1. CASE UNCHANGED <<pc[Main], stopRequested>>
    BY <1>1
  <1>2. CASE pc'[Main] = pc[Main] /\ stopRequested' = TRUE
    BY <1>2 DEF Listener!Next, Listener!RequestStop
  <1>3. CASE pc[Main] = "loop" /\ pc'[Main] = "stopLive" /\ stopRequested
             /\ UNCHANGED stopRequested
    BY <1>3 DEF Listener!Next, Listener!Leave
  <1>4. CASE /\ UNCHANGED stopRequested
             /\ \/ pc[Main] = "loop" /\ pc'[Main] = "select"
                \/ pc[Main] = "select" /\ pc'[Main] \in {"loop", "receive"}
    BY <1>4 DEF Listener!Next, Listener!Accept
  <1>5. CASE /\ UNCHANGED stopRequested
             /\ pc[Main] = "receive" /\ pc'[Main] \in {"loop", "submit"}
    BY <1>5 DEF Listener!Next, Listener!Refuse, Listener!Acknowledge
  <1>6. CASE /\ UNCHANGED stopRequested
             /\ pc[Main] \in CallLabels /\ pc'[Main] \in CallLabels \cup {"loop", "stopLive"}
    BY <1>6 DEF Listener!Next, Listener!Submit, Listener!SubmitThrows
  <1>7. CASE /\ UNCHANGED stopRequested
             /\ pc[Main] \notin HttpLabels \cup CallLabels
             /\ pc'[Main] \notin HttpLabels \cup CallLabels
    BY <1>7
  <1>8. QED
    BY <1>1, <1>2, <1>3, <1>4, <1>5, <1>6, <1>7 DEF MainStep

\* The HTTP thread of the recording process takes one request at a time, submits
\* it before it looks at the next connection, and leaves its loop only on
\* request between two connections or when a submission throws.
THEOREM MainListens == Spec => MainIsListener
  <1>1. Init => Listener!Init
    <2>1. ASSUME Init PROVE pc[Main] = "loop" /\ stopRequested = FALSE
      BY <2>1 DEF Init, Threads
    <2>2. QED
      BY <2>1, ListenerPhases DEF Listener!Init
  <1>2. IngressInv /\ [Next]_vars => [Listener!Next]_<<ListenerPhase, stopRequested>>
    BY MainSteps, ListenerStep
  <1>3. QED
    BY <1>1, <1>2, IngressInvariant, PTL DEF Spec, MainIsListener, Listener!Spec

(***************************************************************************)
(* What is left behind.  A worker that is done found its queue empty while *)
(* it was told to stop, or failed; from then on its part accepts nothing.  *)
(***************************************************************************)

LiveJoined == {"stopRecorder", "notifyRecorder", "joinRecorder", "exited"}

LiveDrain ==
  /\ livePc = "done" => liveStopping
  /\ livePc = "done" /\ ~liveError => liveQueue = <<>> /\ livePending = <<>>
  /\ pc[Main] \in LiveJoined => livePc = "done"

\* The record the persistence worker has in hand.
InHand == IF recPc \in {"raw", "timeline", "supplementary"} THEN 1 ELSE 0

RecorderDrain ==
  /\ recPc = "done" => recStopping
  /\ recPc = "done" /\ ~recError => recQueue = <<>>
  /\ ~recError /\ recPc # "catch" /\ timelineStream = "good" =>
       Len(timeline) + Len(suppTimeline) + InHand + Len(recQueue) = Len(recAccepted)
  /\ pc[Main] = "exited" => recPc = "done"

LEMMA LiveDrainStep ==
  ASSUME IngressInv, LiveDrain, [Next]_vars
  PROVE  LiveDrain'
  <1>0. MainStep /\ LiveStep /\ LiveTypeOK /\ LivePendingInv
    BY MainSteps, LiveSteps DEF IngressInv, TypeOK
  <1>1. /\ livePc = "done" => livePc' = "done"
        /\ livePc' = "done" => liveStopping'
        /\ livePc' = "done" /\ ~liveError' => liveQueue' = <<>> /\ livePending' = <<>>
    <2> USE <1>0 DEF LiveDrain, LiveTypeOK, LivePendingInv
    <2>1. CASE UNCHANGED liveVars
      BY <2>1 DEF liveVars
    <2>2. CASE LiveWorker
      BY <2>2 DEF LiveWorker, LiveWait, LivePop, LiveExit, LiveProcess, LiveThrow, LiveCatch
    <2>3. CASE LiveNotify \/ LiveRequestStop \/ LiveJoin
      BY <2>3 DEF LiveNotify, LiveRequestStop, LiveJoin
    <2>4. ASSUME NEW item \in Record, LiveEnqueue(item)
          PROVE  livePc # "done" /\ livePc' # "done"
      BY <2>4 DEF LiveEnqueue, LiveOpen
    <2>5. QED
      BY <1>0, <2>1, <2>2, <2>3, <2>4 DEF LiveStep
  <1>2. pc'[Main] \in LiveJoined => livePc' = "done"
    <2>1. pc'[Main] \in LiveJoined => pc[Main] \in LiveJoined \/ livePc = "done"
      BY <1>0 DEF MainStep, LiveJoined, CallLabels
    <2>2. QED
      BY <1>1, <2>1 DEF LiveDrain
  <1>3. QED
    BY <1>1, <1>2 DEF LiveDrain

LEMMA RecorderDrainStep ==
  ASSUME IngressInv, RecorderDrain, [Next]_vars
  PROVE  RecorderDrain'
  <1>0. MainStep /\ RecorderStep /\ RecorderTypeOK
    BY MainSteps, RecorderSteps DEF IngressInv, TypeOK
  <1> DEFINE Accounted ==
        ~recError /\ recPc # "catch" /\ timelineStream = "good" =>
          Len(timeline) + Len(suppTimeline) + InHand + Len(recQueue) = Len(recAccepted)
      Parts ==
        /\ recPc = "done" => recStopping
        /\ recPc = "done" /\ ~recError => recQueue = <<>>
        /\ Accounted
  <1>1. (recPc = "done" => recPc' = "done") /\ Parts'
    <2>0. /\ Parts
          /\ Len(timeline) \in Nat /\ Len(suppTimeline) \in Nat
          /\ Len(recQueue) \in Nat /\ Len(recAccepted) \in Nat
          /\ recError \in BOOLEAN
      BY <1>0 DEF RecorderDrain, RecorderTypeOK
    <2> USE <2>0 DEF InHand, recorderMemory, recorderFiles
    <2>1. CASE UNCHANGED recorderVars
      BY <2>1 DEF recorderVars
    <2>2. CASE RecorderWait \/ RecorderExit \/ RecorderNotify \/ RecorderRequestStop \/ RecorderJoin
      BY <2>2 DEF RecorderWait, RecorderExit, RecorderNotify, RecorderRequestStop, RecorderJoin
    <2>3. CASE RecorderPop
      <3>1. Len(recQueue') = Len(recQueue) - 1
        BY <1>0, <2>3 DEF RecorderPop, RecorderTypeOK
      <3>2. QED
        BY <2>3, <3>1 DEF RecorderPop
    <2>4. CASE PersistRaw
      BY <2>4 DEF PersistRaw
    <2>5. CASE PersistRawFails \/ PersistSupplementaryFails
      BY <2>5 DEF PersistRawFails, PersistSupplementaryFails
    <2>6. CASE PersistTimelineRow
      <3>1. timelineStream = "good" => Len(timeline') = Len(timeline) + 1
        BY <1>0, <2>6 DEF PersistTimelineRow, RecorderTypeOK
      <3>2. QED
        BY <2>6, <3>1 DEF PersistTimelineRow
    <2>7. CASE PersistTimelineRowFails
      BY <2>7 DEF PersistTimelineRowFails
    <2>8. CASE PersistSupplementary
      <3>1. Len(suppTimeline') = Len(suppTimeline) + 1
        BY <1>0, <2>8 DEF PersistSupplementary, RecorderTypeOK
      <3>2. QED
        BY <2>8, <3>1 DEF PersistSupplementary
    <2>9. CASE RecorderCatch
      BY <2>9 DEF RecorderCatch
    <2>10. ASSUME NEW r \in Record, Recorded(r)
           PROVE  recPc # "done" /\ recPc' # "done" /\ Parts'
      <3>1. Len(recQueue') = Len(recQueue) + 1 /\ Len(recAccepted') = Len(recAccepted) + 1
        BY <1>0, <2>10 DEF Recorded, RecorderPush, RecorderTypeOK
      <3>2. QED
        BY <2>10, <3>1 DEF Recorded, RecorderPush, RecorderOpen
    <2>11. QED
      BY <1>0, <2>1, <2>2, <2>3, <2>4, <2>5, <2>6, <2>7, <2>8, <2>9, <2>10
      DEF RecorderStep, RecorderWorker
  <1>2. pc'[Main] = "exited" => recPc' = "done"
    <2>1. pc'[Main] = "exited" => pc[Main] = "exited" \/ recPc = "done"
      BY <1>0 DEF MainStep, CallLabels
    <2>2. QED
      BY <1>1, <2>1 DEF RecorderDrain
  <1>3. QED
    BY <1>1, <1>2 DEF RecorderDrain

LEMMA DrainInvariant == Spec => [](LiveDrain /\ RecorderDrain)
  <1>1. ASSUME Init PROVE LiveDrain /\ RecorderDrain
    <2>1. pc[Main] = "loop" /\ LiveInit /\ RecorderInit
      BY <1>1 DEF Init, Threads
    <2>2. LiveDrain
      BY <2>1 DEF LiveInit, LiveDrain, LiveJoined
    <2>3. RecorderDrain
      <3>1. /\ Len(timeline) = 0 /\ Len(suppTimeline) = 0
            /\ Len(recQueue) = 0 /\ Len(recAccepted) = 0
        BY <2>1 DEF RecorderInit
      <3>2. QED
        BY <2>1, <3>1 DEF RecorderInit, RecorderDrain, InHand
    <2>4. QED
      BY <2>2, <2>3
  <1>2. IngressInv /\ LiveDrain /\ [Next]_vars => LiveDrain'
    BY LiveDrainStep
  <1>3. IngressInv /\ RecorderDrain /\ [Next]_vars => RecorderDrain'
    BY RecorderDrainStep
  <1>4. QED
    BY <1>1, <1>2, <1>3, IngressInvariant, PTL DEF Spec

\* When main has joined both workers, nothing that either part accepted is left
\* in a queue, unless its worker died or the timeline went bad, whoever
\* submitted it and whenever (both stop_and_flush and both worker loops).
THEOREM NothingLeftAtExit == Spec => []DrainedAtExit
  <1>1. ASSUME IngressInv, LiveAccounted, LiveDrain, RecorderDrain PROVE DrainedAtExit
    <2>1. SUFFICES ASSUME pc[Main] = "exited"
                   PROVE  /\ ~liveError => liveProcessed = liveAccepted
                          /\ ~recError /\ timelineStream = "good" =>
                               Len(timeline) + Len(suppTimeline) = Len(recAccepted)
      BY DEF DrainedAtExit
    <2>2. ~liveError => liveProcessed = liveAccepted
      <3>1. ~liveError => liveQueue = <<>> /\ livePending = <<>>
        BY <1>1, <2>1 DEF LiveDrain, LiveJoined
      <3>2. liveProcessed \in Seq(Record)
        BY <1>1 DEF IngressInv, TypeOK, LiveTypeOK
      <3>3. liveProcessed \o <<>> \o <<>> = liveProcessed
        BY <3>2, ConcatEmptySeq
      <3>4. QED
        BY <1>1, <3>1, <3>3 DEF LiveAccounted
    <2>3. ~recError /\ timelineStream = "good" =>
            Len(timeline) + Len(suppTimeline) = Len(recAccepted)
      <3>1. Len(timeline) \in Nat /\ Len(suppTimeline) \in Nat
        BY <1>1 DEF IngressInv, TypeOK, RecorderTypeOK
      <3>2. QED
        BY <1>1, <2>1, <3>1 DEF RecorderDrain, InHand
    <2>4. QED
      BY <2>2, <2>3
  <1>2. QED
    BY <1>1, IngressInvariant, LiveAccountsForAll, DrainInvariant, PTL

=============================================================================
