SPECIFICATION FairSpec
CONSTANTS
  r1 = r1
  r2 = r2
  k1 = k1
  Calc = {1, 2}
  Caller = {r1, r2}
  Cron = {k1}
  Limits = {0, 1}
  None = None
  MaxChanges = 1
  MaxFailures = 1
PROPERTIES
  NormalWithinBudget
  
