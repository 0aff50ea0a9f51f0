SPECIFICATION FairSpec
CONSTANTS
  Calls = {c1, c2, c3}
  TTLs = {0, 1}
  Wait = 1
  MaxTime = 2
  MaxVersion = 1
  Nobody = Nobody
CHECK_DEADLOCK FALSE
INVARIANTS TypeOK OneRefresher FreshEnough
PROPERTIES SnapshotMovesForward RefreshEnds
