SPECIFICATION WalletSpec
CONSTANTS
  a1 = a1
  p1 = p1
  p2 = p2
  s1 = s1
  s2 = s2
  s3 = s3
  Account <- OneAccount
  PaymentIntent <- TwoPis
  PiAccount <- MCPiAccount
  PiAmount <- MCPiAmount
  Costs <- MCCosts
  Caps <- MCCaps
  SignupCredit = 300
  NoCap = NoCap
  MaxMonth = 2
  Session <- ThreeSessions
  None = None
  MaxDebits = 3
SYMMETRY SessionSymmetry
INVARIANTS
  GateHolds
  LedgerChain
  CreditedOnce
  DriftBounded
PROPERTIES
  CapIsCeiling
  LedgerSpec
