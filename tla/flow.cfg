SPECIFICATION Spec
CONSTANTS
  e1 = e1
  e2 = e2
  w1 = w1
  w2 = w2
  Exec = {e1, e2}
  Worker = {w1, w2}
  Batch = 2
  MaxStops = 2
  None = None
SYMMETRY WorkersAndExecutions
INVARIANTS
  ReadOnce
  SettledHasRow
 
CHECK_DEADLOCK FALSE
