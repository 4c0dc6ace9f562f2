\* In order: every payload gets through the gate when it is complete.
SPECIFICATION Spec
CONSTANTS
  None = None
  IntBits = 8
  Payloads <- MCPayloads
  Supplements <- MCSupplements
  MaxAges = {None}
  RequireRevision = TRUE
  MaxNow = 2
  GateDelay = 0
PROPERTY ClutchStartIsProvenByGsi
