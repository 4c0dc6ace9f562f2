------------------------- MODULE TelemetryIngress -------------------------
(***************************************************************************)
(* A recording process: the serialization gate of                          *)
(* src/src/telemetry_ingress.cpp in front of the recorder and the live     *)
(* pipeline, and the threads around it.                                    *)
(*                                                                         *)
(*   - Main runs command_record (src/src/main.cpp) and, inside it, the     *)
(*     HTTP loop of src/src/http_server.cpp, then stops the pipeline and   *)
(*     the recorder, in that order;                                        *)
(*   - each supplementary provider submits observations through the same   *)
(*     gate;                                                               *)
(*   - the two workers are those of SessionRecorder and LiveEventPipeline. *)
(*                                                                         *)
(* A step is a critical section, a notify, a file write or a blocking call *)
(* that returns.  The gate's mutex is taken in IngressRecord, released in  *)
(* IngressFanOut, and held in between.                                     *)
(***************************************************************************)
EXTENDS SessionRecorder, LiveEventPipeline

CONSTANTS
  Main,         \* the thread of command_record and GsiHttpServer::run
  Providers,    \* the threads that submit supplementary observations
  NoThread,     \* nobody holds the gate's mutex
  MaxRecords,   \* bound: calls of the gate are made while fewer records exist
  MaxTick       \* bound: the last value of the clock

ASSUME IngressAssumption ==
  /\ Main \notin Providers
  /\ NoThread \notin Providers \cup {Main}
  /\ MaxRecords \in Nat
  /\ MaxTick \in Nat
  /\ StartTick <= MaxTick

Threads == Providers \cup {Main}
Ticks == 0 .. MaxTick

VARIABLES
  gate,           \* the holder of mutex_
  pc,             \* where each calling thread is
  call,           \* the call of the gate each thread makes
  now,            \* the last value read from the monotonic clock
  stopRequested,  \* stop_requested_ of the HTTP server
  failed          \* main is unwinding an exception

threadVars == <<gate, pc, call, now, stopRequested, failed>>
vars == <<recorderVars, liveVars, threadVars>>

\* A call of the gate: what was observed and, once the recorder has answered,
\* the ingress order it assigned.
Calls == [tick : Nat, bytes : Nat, valid : BOOLEAN, order : Nat]

NoCall == [tick |-> 0, bytes |-> 0, valid |-> TRUE, order |-> 0]

Init ==
  /\ RecorderInit
  /\ LiveInit
  /\ gate = NoThread
  /\ pc = [t \in Threads |-> IF t = Main THEN "loop" ELSE "idle"]
  /\ call = [t \in Threads |-> NoCall]
  /\ now = StartTick
  /\ stopRequested = FALSE
  /\ failed = FALSE

GoTo(t, label) == pc' = [pc EXCEPT ![t] = label]

-----------------------------------------------------------------------------
\* handle_signal -> GsiHttpServer::request_stop.
RequestStop ==
  /\ ~stopRequested
  /\ stopRequested' = TRUE
  /\ UNCHANGED <<recorderVars, liveVars, gate, pc, call, now, failed>>

-----------------------------------------------------------------------------
(* The HTTP loop.                                                          *)

HttpCheckStop ==
  /\ pc[Main] = "loop"
  /\ GoTo(Main, IF stopRequested THEN "stopLive" ELSE "select")
  /\ UNCHANGED <<recorderVars, liveVars, gate, call, now, stopRequested, failed>>

\* Mutant: an interrupted select() ends the loop.
HttpPollEnds ==
  /\ pc[Main] = "select"
  /\ GoTo(Main, "stopLive")
  /\ UNCHANGED <<recorderVars, liveVars, gate, call, now, stopRequested, failed>>

\* select() times out or is interrupted.
HttpPollAgain ==
  /\ pc[Main] = "select"
  /\ GoTo(Main, "loop")
  /\ UNCHANGED <<recorderVars, liveVars, gate, call, now, stopRequested, failed>>

\* A connection is accepted; from here receive_request blocks in recv().
HttpAccept ==
  /\ pc[Main] = "select"
  /\ GoTo(Main, "receive")
  /\ UNCHANGED <<recorderVars, liveVars, gate, call, now, stopRequested, failed>>

\* No request, or one that is not a POST: 400 or 405, and the loop goes on.
HttpRefuse ==
  /\ pc[Main] = "receive"
  /\ GoTo(Main, "loop")
  /\ UNCHANGED <<recorderVars, liveVars, gate, call, now, stopRequested, failed>>

\* The body is complete: body_complete_tick is read, 200 OK is sent.
HttpBodyComplete(bytes, tick) ==
  /\ pc[Main] = "receive"
  /\ recIngressOrder < MaxRecords
  /\ tick >= now /\ now' = tick
  /\ call' = [call EXCEPT ![Main] = [NoCall EXCEPT !.tick = tick, !.bytes = bytes]]
  /\ GoTo(Main, "submit")
  /\ UNCHANGED <<recorderVars, liveVars, gate, stopRequested, failed>>

-----------------------------------------------------------------------------
(* A provider stamps observed_tick with the session's clock some time      *)
(* before it submits; nothing makes the counts it saw consistent.          *)

ProviderObserve(p, tick, valid) ==
  /\ pc[p] = "idle"
  /\ recIngressOrder < MaxRecords
  /\ now' = IF tick > now THEN tick ELSE now
  /\ call' = [call EXCEPT ![p] = [NoCall EXCEPT !.tick = tick, !.valid = valid]]
  /\ GoTo(p, "submit")
  /\ UNCHANGED <<recorderVars, liveVars, gate, stopRequested, failed>>

-----------------------------------------------------------------------------
(* TelemetryIngress::enqueue_gsi and enqueue_supplementary.                *)

\* enqueue_supplementary refuses bad counts and a tick before the session.
Acceptable(t) ==
  /\ RecorderOpen
  /\ t # Main => call[t].valid /\ call[t].tick >= StartTick

\* Mutant: the gate is not locked.
IngressRecordUnlocked(t) ==
  /\ pc[t] = "submit"
  /\ Acceptable(t)
  /\ gate' = t
  /\ IF t = Main THEN RecorderEnqueue(call[t].tick, call[t].bytes)
                 ELSE RecorderEnqueueSupplementary(call[t].tick)
  /\ call' = [call EXCEPT ![t] = [NoCall EXCEPT !.order = recIngressOrder + 1]]
  /\ GoTo(t, "notify")
  /\ UNCHANGED <<liveVars, now, stopRequested, failed>>

IngressRecord(t) ==
  /\ pc[t] = "submit" /\ gate = NoThread
  /\ Acceptable(t)
  /\ gate' = t
  /\ IF t = Main THEN RecorderEnqueue(call[t].tick, call[t].bytes)
                 ELSE RecorderEnqueueSupplementary(call[t].tick)
  /\ call' = [call EXCEPT ![t] = [NoCall EXCEPT !.order = recIngressOrder + 1]]
  /\ GoTo(t, "notify")
  /\ UNCHANGED <<liveVars, now, stopRequested, failed>>

\* Mutant: a provider's exception stops the process.
IngressThrewIntoMain(t) ==
  /\ GoTo(t, "stopLive")
  /\ failed' = (failed \/ t = Main)

\* After an exception a provider goes back to its own business; in main it
\* leaves run() and unwinds command_record, whose destructors stop the
\* pipeline and then the recorder as the code after run() would.
IngressThrew(t) ==
  /\ GoTo(t, IF t = Main THEN "stopLive" ELSE "idle")
  /\ failed' = (failed \/ t = Main)

IngressRecordThrows(t) ==
  /\ pc[t] = "submit" /\ gate = NoThread
  /\ ~Acceptable(t)
  /\ call' = [call EXCEPT ![t] = NoCall]
  /\ IngressThrew(t)
  /\ UNCHANGED <<recorderVars, liveVars, gate, now, stopRequested>>

\* The recorder's notify_one, after it released queue_mutex_.
IngressNotify(t) ==
  /\ pc[t] = "notify"
  /\ RecorderNotify
  /\ GoTo(t, "fanout")
  /\ UNCHANGED <<liveVars, gate, call, now, stopRequested, failed>>

\* The record the recorder returned to the thread.
Submitted(t) == recAccepted[call[t].order]

\* The end of the call: the mutex is released.
IngressLeave(t) ==
  /\ gate' = NoThread
  /\ call' = [call EXCEPT ![t] = NoCall]

IngressFanOut(t) ==
  /\ pc[t] = "fanout"
  /\ LiveEnqueue(Submitted(t))
  /\ IngressLeave(t)
  /\ GoTo(t, IF t = Main THEN "loop" ELSE "idle")
  /\ UNCHANGED <<recorderVars, now, stopRequested, failed>>

\* The live pipeline refuses what the recorder has already accepted.
IngressFanOutThrows(t) ==
  /\ pc[t] = "fanout"
  /\ ~LiveOpen
  /\ IngressLeave(t)
  /\ IngressThrew(t)
  /\ UNCHANGED <<recorderVars, liveVars, now, stopRequested>>

Ingress(t) ==
  \/ IngressRecord(t)
  \/ IngressRecordThrows(t)
  \/ IngressNotify(t)
  \/ IngressFanOut(t)
  \/ IngressFanOutThrows(t)

-----------------------------------------------------------------------------
(* The end of command_record: live_events.stop_and_flush(), then           *)
(* recorder.stop_and_flush().                                              *)

StopLive ==
  /\ pc[Main] = "stopLive"
  /\ LiveRequestStop
  /\ GoTo(Main, "notifyLive")
  /\ UNCHANGED <<recorderVars, gate, call, now, stopRequested, failed>>

NotifyLive ==
  /\ pc[Main] = "notifyLive"
  /\ LiveNotify
  /\ GoTo(Main, "joinLive")
  /\ UNCHANGED <<recorderVars, gate, call, now, stopRequested, failed>>

\* Rethrows worker_error_; the recorder's destructor then does the rest.
JoinLive ==
  /\ pc[Main] = "joinLive"
  /\ LiveJoin
  /\ failed' = (failed \/ liveError)
  /\ GoTo(Main, "stopRecorder")
  /\ UNCHANGED <<recorderVars, gate, call, now, stopRequested>>

StopRecorder ==
  /\ pc[Main] = "stopRecorder"
  /\ RecorderRequestStop
  /\ GoTo(Main, "notifyRecorder")
  /\ UNCHANGED <<liveVars, gate, call, now, stopRequested, failed>>

NotifyRecorder ==
  /\ pc[Main] = "notifyRecorder"
  /\ RecorderNotify
  /\ GoTo(Main, "joinRecorder")
  /\ UNCHANGED <<liveVars, gate, call, now, stopRequested, failed>>

JoinRecorder ==
  /\ pc[Main] = "joinRecorder"
  /\ RecorderJoin
  /\ failed' = (failed \/ recError)
  /\ GoTo(Main, "exited")
  /\ UNCHANGED <<liveVars, gate, call, now, stopRequested>>

Stopping ==
  StopLive \/ NotifyLive \/ JoinLive \/ StopRecorder \/ NotifyRecorder \/ JoinRecorder

-----------------------------------------------------------------------------

RecorderThread == RecorderWorker /\ UNCHANGED <<liveVars, threadVars>>

LiveThread == LiveWorker /\ UNCHANGED <<recorderVars, threadVars>>

SpuriousWake ==
  \/ RecorderSpuriousWake /\ UNCHANGED <<liveVars, threadVars>>
  \/ LiveSpuriousWake /\ UNCHANGED <<recorderVars, threadVars>>

\* Main has left command_record, and the workers have ended.
Exited == pc[Main] = "exited" /\ UNCHANGED vars

Next ==
  \/ RequestStop
  \/ HttpCheckStop \/ HttpPollAgain \/ HttpAccept \/ HttpRefuse
  \/ \E bytes \in BodySizes, tick \in Ticks : HttpBodyComplete(bytes, tick)
  \/ \E p \in Providers, tick \in Ticks, valid \in BOOLEAN : ProviderObserve(p, tick, valid)
  \/ \E t \in Threads : Ingress(t)
  \/ Stopping
  \/ RecorderThread
  \/ LiveThread
  \/ SpuriousWake
  \/ Exited

Spec == Init /\ [][Next]_vars

\* A thread that can run does: the loop keeps polling, a call of the gate
\* proceeds, main goes on stopping and each worker goes on working.  Nothing
\* is assumed of clients, providers, the clock, signals or spurious wake-ups.
Fairness ==
  /\ WF_vars(HttpCheckStop)
  /\ WF_vars(HttpPollAgain)
  /\ \A t \in Threads : WF_vars(Ingress(t))
  /\ WF_vars(Stopping)
  /\ WF_vars(RecorderThread)
  /\ WF_vars(LiveThread)

FairSpec == Spec /\ Fairness

-----------------------------------------------------------------------------
(* Properties.                                                             *)

LiveTypeOK ==
  /\ liveQueue \in Seq(Record) /\ livePending \in Seq(Record)
  /\ liveAccepted \in Seq(Record) /\ liveProcessed \in Seq(Record)
  /\ liveStopping \in BOOLEAN /\ liveStopped \in BOOLEAN /\ liveError \in BOOLEAN
  /\ livePc \in {"check", "waiting", "process", "catch", "done"}
  /\ liveLatest \in BOOLEAN

\* Every variable keeps its type; main's labels and the providers' differ.
TypeOK ==
  /\ RecorderTypeOK
  /\ LiveTypeOK
  /\ gate \in Threads \cup {NoThread}
  /\ pc \in [Threads -> {"idle", "submit", "notify", "fanout", "loop", "select", "receive",
                        "stopLive", "notifyLive", "joinLive",
                        "stopRecorder", "notifyRecorder", "joinRecorder", "exited"}]
  /\ \A t \in Threads : t # Main => pc[t] \in {"idle", "submit", "notify", "fanout"}
  /\ call \in [Threads -> Calls]
  /\ now \in Nat
  /\ stopRequested \in BOOLEAN /\ failed \in BOOLEAN

\* The order submitted to the live pipeline is the order recorded: at any
\* time the items it accepted are a prefix of the records the recorder
\* accepted, whoever submits them and whoever stops or fails first
\* (telemetry_ingress.hpp: "the cross-source order recorded ... is the same
\* order submitted to the live event pipeline").
LiveIsPrefixOfRecording ==
  /\ Len(liveAccepted) <= Len(recAccepted)
  /\ \A i \in 1 .. Len(liveAccepted) : liveAccepted[i] = recAccepted[i]

\* The live pipeline neither loses, duplicates nor reorders an item: what it
\* processed, what it holds and what it queues are what it accepted.
LiveAccounted == liveProcessed \o livePending \o liveQueue = liveAccepted

\* When main has stopped both parts, each has drained its queue unless its
\* worker died or, silently, timeline.tsv did: nothing accepted while the
\* other part was stopping is left behind.
DrainedAtExit ==
  pc[Main] = "exited" =>
    /\ ~liveError => liveProcessed = liveAccepted
    /\ ~recError /\ timelineStream = "good" =>
         Len(timeline) + Len(suppTimeline) = Len(recAccepted)

\* Every record the recorder accepted reaches its file, unless the worker
\* reported an error or the timeline stream went bad: no wake-up is lost
\* between the push, the unlocked notify and the worker's wait.
AcceptedIsPersisted ==
  \A n \in 1 .. MaxRecords :
    recIngressOrder >= n ~>
      \/ \E i \in 1 .. Len(timeline) : timeline[i].order = n
      \/ \E i \in 1 .. Len(suppTimeline) : suppTimeline[i].order = n
      \/ recError \/ timelineStream # "good"

\* Every item the live pipeline accepted is processed, or it reported an error.
AcceptedIsProcessed ==
  \A n \in 1 .. MaxRecords :
    Len(liveAccepted) >= n ~> Len(liveProcessed) >= n \/ liveError

\* Once main starts to stop, by request or by exception, both joins return.
ShutdownTerminates == pc[Main] = "stopLive" ~> pc[Main] = "exited"

\* README: "Promator drains queued live/session work before exit": a session
\* that main reports as flushed has every accepted record on disk.
FlushedSessionIsComplete ==
  pc[Main] = "exited" /\ ~failed =>
    Len(timeline) + Len(suppTimeline) = Len(recAccepted)

\* http_server.cpp: "Poll the listening socket with a short timeout so Ctrl+C
\* can request a graceful stop and allow both worker queues to drain".
StopRequestIsHonoured == stopRequested ~> pc[Main] = "exited"

\* Where main is, as a listener.
ListenerPhase ==
  CASE pc[Main] \in {"loop", "select"} -> "polling"
    [] pc[Main] = "receive" -> "receiving"
    [] pc[Main] \in {"submit", "notify", "fanout"} -> "submitting"
    [] OTHER -> "left"

\* Main's loop is the listener that HttpServer implements: the requests it takes
\* here, one at a time, are those of that module.
Listener == INSTANCE GsiListener WITH phase <- ListenerPhase, stop <- stopRequested

MainIsListener == Listener!Spec

=============================================================================
