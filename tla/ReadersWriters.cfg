CONSTANTS
  Readers = {r1, r2}
  Writers = {w1}
  Mortals = {r1, w1}
  MAX = 3
  TOP = 1
SPECIFICATION FairSpec
INVARIANTS TypeOK OneInside 
PROPERTIES CrossedForEver WorkUnlessCrossed
CHECK_DEADLOCK FALSE
