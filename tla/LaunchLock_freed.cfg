SPECIFICATION FairSpec
CONSTANTS
  l1 = l1
  l2 = l2
  l3 = l3
  r1 = r1
  s1 = s1
  b1 = b1
  b2 = b2
  AllBooks = AllBooks
  Nobody = Nobody
  Launchers <- TwoLaunchers
  Retrievers <- OneRetriever
  Sweepers <- OneSweeper
  Book <- OneBook
  MultiDoc = FALSE
  EarlyRelease = TRUE
  SpotStop = TRUE
  LambdaTimeout = 1
  Grace = 1
  LockTTL = 9
  MaxTime = 2
CHECK_DEADLOCK FALSE
PROPERTIES LockIsFreed LossHasCause
