SPECIFICATION Spec
CONSTANTS
  a = a
  a1 = a1
  a2 = a2
  s1 = s1
  s2 = s2
  All = All
  Book <- OneBook
  File <- SameBook
  BookOf <- BooksOfSame
  Slot <- TwoTasks
  MaxRequests = 1
  GateBlocks = TRUE
  MaxFailures = 1
SYMMETRY Sym
CHECK_DEADLOCK FALSE
INVARIANTS TypeOK ParsedNotStranded
