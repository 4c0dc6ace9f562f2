------------------------ MODULE LiveEventPipeline ------------------------
(***************************************************************************)
(* The live event pipeline (src/src/live_event_pipeline.cpp): a FIFO of    *)
(* items in front of one worker that normalises a payload, runs the event  *)
(* detector and the semantic resolver and calls the batch handler.         *)
(*                                                                         *)
(* What detector and resolver compute is the subject of EventDetector and  *)
(* SemanticResolver; here the processing of an item is one step that       *)
(* either returns or throws.  As in SessionRecorder, the callers are the   *)
(* threads of TelemetryIngress.                                            *)
(***************************************************************************)
EXTENDS Integers, Sequences

CONSTANT HandlerMayThrow   \* whether the batch handler is one that throws

ASSUME LiveAssumption == HandlerMayThrow \in BOOLEAN

VARIABLES
  liveQueue,      \* queue_
  liveStopping,   \* stopping_
  liveStopped,    \* stopped_
  liveError,      \* worker_error_ is set
  livePc,         \* where the worker is
  livePending,    \* the item it popped, in a sequence of at most one
  liveLatest,     \* latest_state_ is set: a valid payload has been processed
  liveAccepted,   \* history: every item enqueue accepted
  liveProcessed   \* history: every item whose processing returned

liveVars == <<liveQueue, liveStopping, liveStopped, liveError, livePc,
              livePending, liveLatest, liveAccepted, liveProcessed>>

LiveInit ==
  /\ liveQueue = <<>> /\ livePending = <<>>
  /\ liveStopping = FALSE /\ liveStopped = FALSE /\ liveError = FALSE
  /\ livePc = "check"
  /\ liveLatest = FALSE
  /\ liveAccepted = <<>> /\ liveProcessed = <<>>

-----------------------------------------------------------------------------

LiveOpen == ~liveStopping /\ ~liveStopped /\ ~liveError

\* Mutant: the worker is not notified.
LiveEnqueueSilently(item) ==
  /\ LiveOpen
  /\ liveQueue' = Append(liveQueue, item)
  /\ liveAccepted' = Append(liveAccepted, item)
  /\ UNCHANGED <<liveStopping, liveStopped, liveError, livePc, livePending, liveLatest,
                 liveProcessed>>

\* The push and notify_one, both under queue_mutex_.
LiveEnqueue(item) ==
  /\ LiveOpen
  /\ liveQueue' = Append(liveQueue, item)
  /\ liveAccepted' = Append(liveAccepted, item)
  /\ livePc' = IF livePc = "waiting" THEN "check" ELSE livePc
  /\ UNCHANGED <<liveStopping, liveStopped, liveError, livePending, liveLatest, liveProcessed>>

\* stop_and_flush, up to its unlock.
LiveRequestStop ==
  /\ liveStopping' = TRUE
  /\ UNCHANGED <<liveQueue, liveStopped, liveError, livePc, livePending,
                 liveLatest, liveAccepted, liveProcessed>>

LiveNotify ==
  /\ livePc' = IF livePc = "waiting" THEN "check" ELSE livePc
  /\ UNCHANGED <<liveQueue, liveStopping, liveStopped, liveError, livePending,
                 liveLatest, liveAccepted, liveProcessed>>

LiveSpuriousWake == livePc = "waiting" /\ LiveNotify

LiveJoin ==
  /\ livePc = "done"
  /\ liveStopped' = TRUE
  /\ UNCHANGED <<liveQueue, liveStopping, liveError, livePc, livePending,
                 liveLatest, liveAccepted, liveProcessed>>

-----------------------------------------------------------------------------
(* The worker.                                                             *)

\* Mutant: the predicate of the wait does not see stopping_.
LiveWaitForItems ==
  /\ livePc = "check" /\ liveQueue = <<>>
  /\ livePc' = "waiting"
  /\ UNCHANGED <<liveQueue, liveStopping, liveStopped, liveError, livePending,
                 liveLatest, liveAccepted, liveProcessed>>

LiveWait ==
  /\ livePc = "check" /\ liveQueue = <<>> /\ ~liveStopping
  /\ livePc' = "waiting"
  /\ UNCHANGED <<liveQueue, liveStopping, liveStopped, liveError, livePending,
                 liveLatest, liveAccepted, liveProcessed>>

\* Mutant: the front is read and not popped.
LivePopFront ==
  /\ livePc = "check" /\ liveQueue # <<>>
  /\ livePending' = <<Head(liveQueue)>>
  /\ livePc' = "process"
  /\ UNCHANGED <<liveQueue, liveStopping, liveStopped, liveError, liveLatest, liveAccepted,
                 liveProcessed>>

LivePop ==
  /\ livePc = "check" /\ liveQueue # <<>>
  /\ livePending' = <<Head(liveQueue)>>
  /\ liveQueue' = Tail(liveQueue)
  /\ livePc' = "process"
  /\ UNCHANGED <<liveStopping, liveStopped, liveError, liveLatest, liveAccepted, liveProcessed>>

\* Mutant: stopping_ ends the worker before its queue is empty.
LiveExitAtOnce ==
  /\ livePc = "check" /\ liveStopping
  /\ livePc' = "done"
  /\ UNCHANGED <<liveQueue, liveStopping, liveStopped, liveError, livePending,
                 liveLatest, liveAccepted, liveProcessed>>

LiveExit ==
  /\ livePc = "check" /\ liveQueue = <<>> /\ liveStopping
  /\ livePc' = "done"
  /\ UNCHANGED <<liveQueue, liveStopping, liveStopped, liveError, livePending,
                 liveLatest, liveAccepted, liveProcessed>>

\* A payload that does not parse is skipped and leaves latest_state_ alone.
LiveProcess ==
  /\ livePc = "process"
  /\ liveLatest' \in IF livePending[1].kind = "gsi" THEN {liveLatest, TRUE} ELSE {liveLatest}
  /\ liveProcessed' = Append(liveProcessed, livePending[1])
  /\ livePending' = <<>>
  /\ livePc' = "check"
  /\ UNCHANGED <<liveQueue, liveStopping, liveStopped, liveError, liveAccepted>>

\* The handler throws.  It is called for a valid payload, and for a
\* supplement only once there is a latest_state_ to report it with.
LiveThrow ==
  /\ livePc = "process" /\ HandlerMayThrow
  /\ livePending[1].kind = "gsi" \/ liveLatest
  /\ liveLatest' = TRUE
  /\ livePc' = "catch"
  /\ UNCHANGED <<liveQueue, liveStopping, liveStopped, liveError, livePending,
                 liveAccepted, liveProcessed>>

\* catch (...) of worker_loop.  Unlike the recorder's, it keeps the queue.
LiveCatch ==
  /\ livePc = "catch"
  /\ liveError' = TRUE
  /\ liveStopping' = TRUE
  /\ livePc' = "done"
  /\ UNCHANGED <<liveQueue, liveStopped, livePending, liveLatest, liveAccepted, liveProcessed>>

LiveWorker ==
  \/ LiveWait
  \/ LivePop
  \/ LiveExit
  \/ LiveProcess
  \/ LiveThrow
  \/ LiveCatch

=============================================================================
