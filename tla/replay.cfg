SPECIFICATION Spec
CONSTANTS
  a1 = a1
  a2 = a2
  r1 = r1
  r2 = r2
  r3 = r3
  q1 = q1
  q2 = q2
  Account = {a1, a2}
  AccountOf <- MCAccountOf
  Request <- ThreeRequests
  Reconciler = {q1, q2}
  None = None
  Faults = {"ackLost", "markFails", "crash", "overlap"}
  MaxCharges = 2
SYMMETRY ReconcilerSymmetry
INVARIANTS
  BooksAgree
  OnePassPerAccount
  ReconciledWasCharged
  SettledOnce
CHECK_DEADLOCK FALSE
