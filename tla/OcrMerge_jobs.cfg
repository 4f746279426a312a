SPECIFICATION FairSpec
CONSTANTS
  t1 = t1
  t2 = t2
  c1 = c1
  c2 = c2
  NoJob = NoJob
  Gone = Gone
  NoRecord = NoRecord
  Triggers <- TwoTriggers
  Runs <- TwoRuns
  MaxRange = 2
  MaxMoves = 3
  MergeTries = 2
  Scopes <- SmallScopes
CHECK_DEADLOCK FALSE
INVARIANTS TypeOK MovedOnce WholeBook
PROPERTIES NoBlindReclaim Routed Capped
