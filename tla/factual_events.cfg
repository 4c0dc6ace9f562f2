\* Players, rounds and matches that go by, with any snapshots missing or
\* repeated, and a restart.
SPECIFICATION Spec
CONSTANTS
  None = None
  IntBits = 8
  Payloads <- MCPayloads
  MaxRestarts = 1
INVARIANTS
  TypeOK
  NoDoubleReport
  RoundsAreReportedOnce
  AssistsAddUp
  RepeatIsSilent
PROPERTY PresenceReports
