SPECIFICATION Spec
CONSTANTS
  w1 = w1
  w2 = w2
  e1 = e1
  e2 = e2
  m1 = m1
  m2 = m2
  u = u
  v = v
  NoUrl = NoUrl
  NoEntity = NoEntity
  Workers <- TwoWorkers
  Entities <- TwoEntities
  Urls <- TwoUrls
  Results <- SharedPage
  Finals <- Moves
  MaxAged = 1
  Msgs <- TwoMsgs
  Of <- OneEach
  MaxReceive = 2
  MaxPool = 2
  PerWorker = 1
  MaxFaults = 1
SYMMETRY Symmetry
CHECK_DEADLOCK FALSE
INVARIANTS TypeOK Landed
PROPERTIES FindsKept FetchesExclude
