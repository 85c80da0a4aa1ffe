CONSTANTS
  Dirs = {"root", "A", "B", "C"}
  Root = "root"
  Contents <- MCContents
  Unreadable = {"B"}
  Pids = {1, 2, 3}
  Nobody = nobody
  Byte = 4
  MaxFailures = 2
SPECIFICATION CountSpec
INVARIANT StatusRight
PROPERTY CountEnds
CHECK_DEADLOCK FALSE
