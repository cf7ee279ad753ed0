SPECIFICATION FairSpec
CONSTANTS
  c1 = c1
  c2 = c2
  c3 = c3
  c4 = c4
  cron = cron
  boot = boot
  Call = {c1, c2}
  Roller = {cron, boot}
  StreamMaxLen = 1
  ReadCount = 2
  RollupSize = 1
  MaxIterations = 2
  MayFail = TRUE
  Allowance = 1
  None = None
INVARIANTS
  AggregateExact
  NeverRefusedEarly
 
CHECK_DEADLOCK FALSE
