SPECIFICATION Spec
CONSTANTS
  Clients = {u1, u2, t1}
  Inet = {t1}
  Mortals = {t1, u1}
  Typists = {u1, u2}
  LINES = 2
  CAP = 1
  Nobody = Nobody
INVARIANTS
  DisconnectOnlyDrops
