SPECIFICATION FairSpec
CONSTANTS
  w1 = w1
  w2 = w2
  w3 = w3
  w4 = w4
  n1 = n1
  n2 = n2
  p1 = p1
  p2 = p2
  Writers <- FourWriters
  Names <- TwoNames
  Processes <- TwoProcesses
  Name <- NameOf
  Process <- ProcessOf
  Index = Index
  None = None
  MaxCrashes = 2
CHECK_DEADLOCK FALSE
INVARIANTS TypeOK MentionsKept OneFile
PROPERTIES WritersEnd SavesAtOnce
