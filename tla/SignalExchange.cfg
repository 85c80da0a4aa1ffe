SPECIFICATION Spec
CHECK_DEADLOCK FALSE
CONSTANTS
  MAXSIGNALS = 6
INVARIANTS
  CountsRight
PROPERTIES
  ExchangeEnds
