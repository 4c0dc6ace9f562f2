\* JSON numbers of up to seven symbols, strings of up to eight, objects and arrays
\* of up to nine, and the texts that differ from one of them in one symbol.
SPECIFICATION Spec
CONSTANTS
  None = None
  Payloads = {}
  IntBits = 5
  LongBits = 8
  MaxExponent = 1
  MaxNumber = 7
  MaxString = 8
  MaxStructure = 9
INVARIANTS
  GrammarIsFollowed
  IntegersAreRead
CHECK_DEADLOCK FALSE
