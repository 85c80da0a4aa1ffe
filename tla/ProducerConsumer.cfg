CONSTANTS
  Producers = {p1, p2}
  Consumers = {c1}
  Mortals = {p1, p2, c1}
  MAX = 2
  Numbers = {0, 7}
SPECIFICATION FairSpec
INVARIANTS TypeOK PermitsCovered MutexExcludes NoOverrun
PROPERTIES ImplementsTable WorkGoesOn StartupCompletes
CHECK_DEADLOCK FALSE
