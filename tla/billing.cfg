SPECIFICATION Spec
CONSTANTS
  s1 = s1
  s2 = s2
  r1 = r1
  r2 = r2
  h1 = h1
  h2 = h2
  kb = kb
  flows = flows
  Sub = {s1, s2}
  SlotOf <- OneSlot
  Row = {r1, r2}
  Handler = {h1, h2}
  Reconciler = Reconciler
  Refresher = Refresher
  None = None
  Statuses = {"trialing", "active", "canceled"}
  MaxChanges <- MCMaxChanges
SYMMETRY SessionSymmetry
INVARIANTS
  OneRowEach
  InOrderAgrees
  QuotaFollowsRows
CHECK_DEADLOCK FALSE
