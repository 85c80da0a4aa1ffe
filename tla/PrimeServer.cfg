SPECIFICATION Spec
CONSTANTS
  Clients = {c1, c2, c3}
  QUEUE = 2
  RESTARTS = 1
INVARIANTS
  IdsAgree
  OneInFlight
PROPERTIES
  KeepsWorking
