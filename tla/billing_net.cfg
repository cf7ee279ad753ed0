SPECIFICATION FairSpec
CONSTANTS
  s1 = s1
  s2 = s2
  r1 = r1
  r2 = r2
  h1 = h1
  h2 = h2
  kb = kb
  flows = flows
  Sub = {s1}
  SlotOf <- OneSlot
  Row = {r1}
  Handler = {h1}
  Reconciler = Reconciler
  Refresher = Refresher
  None = None
  Statuses = {"trialing", "active", "canceled"}
  MaxChanges <- MCMaxChanges
PROPERTIES
  QuotaCatchesUp
  
CHECK_DEADLOCK FALSE
