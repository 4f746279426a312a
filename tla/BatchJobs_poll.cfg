SPECIFICATION FairSpec
CONSTANTS
  b1 = b1
  p1 = p1
  p2 = p2
  r1 = r1
  r2 = r2
  NoBatch = NoBatch
  Batches <- OneBatch
  Phase2 <- OneBatch
  Pollers <- TwoPollers
  Retrievers <- TwoRetrievers
  PollTimeout = 1
  ClaimTTL = 2
  MaxCrashes = 2
CHECK_DEADLOCK FALSE
INVARIANT TypeOK
PROPERTIES ClosedIsFinal RetrievesExclude ReadyIsClosed
