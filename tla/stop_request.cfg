\* A client that connects and sends nothing, and nothing that fails.
SPECIFICATION FairSpec
CONSTANTS
  Main = main
  Providers = {}
  NoThread = none
  BodySizes = {1}
  Faults = {}
  HandlerMayThrow = FALSE
  StartTick = 0
  MaxTick = 0
  MaxRecords = 1
PROPERTY StopRequestIsHonoured
