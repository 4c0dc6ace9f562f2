\* A timeline that cannot be flushed, and nothing else that fails.
SPECIFICATION Spec
CONSTANTS
  Main = main
  Providers = {p1}
  NoThread = none
  BodySizes = {1}
  Faults = {"timeline"}
  HandlerMayThrow = FALSE
  StartTick = 0
  MaxTick = 0
  MaxRecords = 2
INVARIANT FlushedSessionIsComplete
