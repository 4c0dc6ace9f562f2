----------------------------- MODULE GsiListener -----------------------------
(***************************************************************************)
(* What the threads around it rely on in GsiHttpServer::run: requests are  *)
(* taken one at a time, one that is acknowledged is submitted before the   *)
(* next connection is looked at, and the loop is left only on request,     *)
(* while no request is in hand, or when a submission throws.               *)
(***************************************************************************)

VARIABLES
  phase,   \* "polling", "receiving", "submitting", "left", "killed"
  stop     \* whether a stop was requested

Init == phase = "polling" /\ stop = FALSE

RequestStop == stop' = TRUE /\ UNCHANGED phase

Becomes(from, to) == phase = from /\ phase' = to /\ UNCHANGED stop

Accept == Becomes("polling", "receiving")
Refuse == Becomes("receiving", "polling")
Acknowledge == Becomes("receiving", "submitting")
Submit == Becomes("submitting", "polling")
SubmitThrows == Becomes("submitting", "left")
Leave == stop /\ Becomes("polling", "left")
Killed == phase' = "killed" /\ UNCHANGED stop

Next ==
  \/ RequestStop
  \/ Accept \/ Refuse \/ Acknowledge \/ Submit \/ SubmitThrows \/ Leave \/ Killed

Spec == Init /\ [][Next]_<<phase, stop>>

=============================================================================
