SPECIFICATION FairSpec
CONSTANTS
  a = a
  b = b
  u1 = u1
  u2 = u2
  NoCount = NoCount
  Docs <- TwoDocs
  MaxDrains = 2
  Uploads <- TwoUploads
  BookSets <- SameOrOther
  Declared <- Declarations
  Ceiling = 1
  PoolMin = 1
  PoolMax = 2
  Quotas <- TwoTasks
  InBatch <- Extraction
  Attempts = 2
  MaxFaults = 1
CHECK_DEADLOCK FALSE
INVARIANTS TypeOK WorkedOnce ProgressIsDriven ScopeHeld
PROPERTIES TerminalIsFinal DrainsEnd
