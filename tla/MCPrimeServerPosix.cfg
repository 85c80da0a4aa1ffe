SPECIFICATION Spec
SYMMETRY Symmetry
CONSTANTS
  Clients = {c1, c2, c3}
  Names = {n1, n2, n3}
  MAXMSG = 2
  RUNS = 2
INVARIANTS
  SomeGoOn
PROPERTIES
  EndsOnlyOnLoss
