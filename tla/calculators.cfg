SPECIFICATION CalculatorSpec
CONSTANTS
  r1 = r1
  r2 = r2
  w1 = w1
  w2 = w2
  v1 = v1
  v2 = v2
  Request = {r1, r2}
  Worker = {w1, w2}
  Rebuild = Rebuild
  Version = {v1, v2}
  MaxGeneration = 1
  MaxPending = 2
  Absent = Absent
INVARIANTS
  
  LastDeployHolds
SYMMETRY Symmetric
CONSTRAINT Claimed
