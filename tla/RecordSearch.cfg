SPECIFICATION SearchSpec
CHECK_DEADLOCK FALSE
CONSTANTS
  threads_count = 3
  records_count = 1
  RECORDS = 3
INVARIANTS
  NothingMissed
PROPERTIES
  SearchEnds
