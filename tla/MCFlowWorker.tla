--------------------------- MODULE MCFlowWorker ---------------------------
(* FlowWorker on small instances. *)
EXTENDS FlowWorker, TLC

CONSTANTS e1, e2, w1, w2

WorkersAndExecutions == Permutations(Exec) \cup Permutations(Worker)
=============================================================================
