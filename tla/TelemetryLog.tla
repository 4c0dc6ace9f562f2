---------------------------- MODULE TelemetryLog ----------------------------
(***************************************************************************)
(* What a recording process is for, seen from outside: one log of          *)
(* observations from all sources, which grows until it is closed, and      *)
(* readers that each take its entries one at a time from the first on.     *)
(***************************************************************************)
EXTENDS Sequences, SequencesExt

CONSTANT Readers

VARIABLES
  log,    \* the observations, in the order in which they were accepted
  open,   \* whether more of them are accepted
  read    \* what each reader has taken

Init == log = <<>> /\ open = TRUE /\ read = [r \in Readers |-> <<>>]

Accept ==
  /\ open
  /\ log' # <<>> /\ Front(log') = log
  /\ UNCHANGED <<open, read>>

Take(r) ==
  /\ Len(read[r]) < Len(log)
  /\ read' = [read EXCEPT ![r] = Append(@, log[Len(@) + 1])]
  /\ UNCHANGED <<log, open>>

Close == open' = FALSE /\ UNCHANGED <<log, read>>

Next == Accept \/ (\E r \in Readers : Take(r)) \/ Close

Spec == Init /\ [][Next]_<<log, open, read>>

=============================================================================
