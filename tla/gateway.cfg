SPECIFICATION FairSpec
CONSTANTS
  k1 = k1
  k2 = k2
  l1 = l1
  a1 = a1
  a2 = a2
  Key = {k1, k2}
  Lookup = {l1}
  Admin = {a1, a2}
  Sought <- MCSought
  MaxVersion = 2
  NoEntry = NoEntry
  Nil = Nil
  None = None

  
PROPERTY RevokedIsRefused
