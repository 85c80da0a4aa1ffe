CONSTANTS
  Planes = {p1, p2, p3, p4, p5}
  Nobody = Nobody
  N = 4
  K = 3
SPECIFICATION FairSpec
INVARIANTS TypeOK DeckHolds CountersAgree PriorityNotAsleep
PROPERTY TrafficGoesOn
