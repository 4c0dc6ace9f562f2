\* The gate between two sources, a handler that may throw and a disk that works;
\* the provider may submit an observation older than a snapshot before it.
SPECIFICATION Spec
CONSTANTS
  Main = main
  Providers = {p1}
  NoThread = none
  BodySizes = {0}
  Faults = {}
  HandlerMayThrow = TRUE
  StartTick = 0
  MaxTick = 1
  MaxRecords = 3
INVARIANTS
  LiveIsPrefixOfRecording
  LiveAccounted
  DrainedAtExit
  ReplayKeepsTime
PROPERTIES
  MainIsListener
