SPECIFICATION Spec
CONSTANTS
  l1 = l1
  l2 = l2
  l3 = l3
  r1 = r1
  s1 = s1
  b1 = b1
  b2 = b2
  AllBooks = AllBooks
  Nobody = Nobody
  Launchers <- ThreeLaunchers
  Retrievers <- OneRetriever
  Sweepers <- None
  Book <- OneBook
  MultiDoc = TRUE
  EarlyRelease = FALSE
  SpotStop = TRUE
  LambdaTimeout = 1
  Grace = 1
  LockTTL = 3
  MaxTime = 4
CHECK_DEADLOCK FALSE
SYMMETRY Symmetry
INVARIANT OneTaskPerKey
PROPERTY ReclaimSafe
