\* A payload may get through the gate some time after it is complete, and a
\* supplement may be too old for it.
SPECIFICATION Spec
CONSTANTS
  None = None
  IntBits = 8
  Payloads <- MCPayloads
  Supplements <- MCSupplements
  MaxAges = {None, 0}
  RequireRevision = TRUE
  MaxNow = 1
  GateDelay = 1
INVARIANTS
  TypeOK
  ClutchIsCurrent
  AceIsProven
  NothingIsInherited
  ClutchEventsAlternate
  CountsAreOfThisRound
