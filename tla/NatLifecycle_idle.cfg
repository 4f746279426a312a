SPECIFICATION FairSpec
CONSTANTS
  t1 = t1
  r1 = r1
  w1 = w1
  Gateway = Gateway
  Free = Free
  Workers <- OneWorker
  Retrievers <- None
  Warmers <- None
  Deleters <- OnlyReaper
  FirstPage <- NoRows
  CreateDies = TRUE
  DeleteDies = FALSE
CHECK_DEADLOCK FALSE
PROPERTIES IdleNatTornDown ReapOnlyAfterStall
