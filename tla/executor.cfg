SPECIFICATION FairExecutorSpec
CONSTANTS
  N = 4
  Flows <- MCFlows
  MaxIterations = 2
  Multiplier = 2
  NoLimit = NoLimit
INVARIANTS
  CompletedAll
  
  OvershootBounded
PROPERTIES
  InputsReady
  Ends
CHECK_DEADLOCK FALSE
