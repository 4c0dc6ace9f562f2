\* Each reader of the log, live or later, reads the same observations.
SPECIFICATION Spec
CONSTANTS
  Main = main
  Providers = {p1}
  NoThread = none
  BodySizes = {0}
  Faults = {}
  HandlerMayThrow = TRUE
  StartTick = 0
  MaxTick = 1
  MaxRecords = 2
PROPERTIES
  IsOneLog
