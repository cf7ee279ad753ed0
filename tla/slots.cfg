SPECIFICATION Spec
CONSTANTS
  c1 = c1
  c2 = c2
  r1 = r1
  r2 = r2
  r3 = r3
  Config = {c1, c2}
  Request = {r1, r2, r3}
  Sizes = {1, 3}
  Allowance = 3
  AoAllowance = 3
  None = None
SYMMETRY ConfigsAndRequests
INVARIANTS
  CountsOrphans
PROPERTIES
  SlotsWithinBudget
  AlwaysOnWithinBudget
CHECK_DEADLOCK FALSE
