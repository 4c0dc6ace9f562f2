\* Every write may fail, the process may be killed at any moment, and a
\* provider may submit an observation older than a snapshot before it.
SPECIFICATION Spec
CONSTANTS
  Main = main
  Providers = {p1}
  NoThread = none
  BodySizes <- MCBodySizes
  Faults = {"raw", "timeline", "supplementary"}
  HandlerMayThrow = FALSE
  StartTick = 0
  MaxTick = 1
  MaxRecords = 2
INVARIANTS
  TypeOK
  CrashReplayIsPrefix
  ReplayIsInOrder
  EveryRowHasItsBody
