SPECIFICATION FairSpec
CONSTANTS
  Main = main
  Providers = {p1}
  NoThread = none
  BodySizes = {1}
  Faults = {"raw", "timeline", "supplementary"}
  HandlerMayThrow = TRUE
  StartTick = 0
  MaxTick = 0
  MaxRecords = 2
PROPERTIES
  AcceptedIsPersisted
  AcceptedIsProcessed
  ShutdownTerminates
