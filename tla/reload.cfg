SPECIFICATION Spec
CONSTANTS
  a1 = a1
  a2 = a2
  p1 = p1
  p2 = p2
  p3 = p3
  p4 = p4
  e1 = e1
  e2 = e2
  e3 = e3
  w1 = w1
  w2 = w2
  Account = {a1, a2}
  PaymentIntent = {p1, p2}
  PiAccount <- MCPiAccount
  PiAmount <- MCPiAmount
  Costs <- OneCost
  Caps = {}
  SignupCredit = 500
  NoCap = NoCap
  MaxMonth = 1
  Row = {e1, e2, e3}
  RowAccount <- MCRowAccount
  Worker = {w1, w2}
  Unset = Unset
  Threshold = 400
  MaxAttempts = 2
  BatchSize = 2
  Faults = {"enqueueLost", "answerLost", "storeFails", "requeueFails", "stop"}
  DebitBound = 2
SYMMETRY WorkerSymmetry
INVARIANTS
  WorkersDisjoint
  OneActiveRow
  PaidOncePerRow
  SucceededWasCredited
 
CHECK_DEADLOCK FALSE
