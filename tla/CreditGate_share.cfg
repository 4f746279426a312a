SPECIFICATION GateSpec
CONSTANTS
  b1 = b1
  b2 = b2
  b3 = b3
  b4 = b4
  Submissions <- FourSubmissions
  Gated <- ThreeGated
  MaxCost = 3
  Cost <- Costs
  Budget = 5
CHECK_DEADLOCK FALSE
INVARIANTS GateTypeOK JointlyWithinBudget
