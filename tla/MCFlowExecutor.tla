--------------------------- MODULE MCFlowExecutor ---------------------------
(* FlowExecutor on every flow of a few nodes. *)
EXTENDS FlowExecutor

Forward == SUBSET {e \in Node \X Node : e[1] < e[2]}

\* Every graph with at most one back-edge, without a budget.
Looped ==
  [forward : Forward, back : {B \in SUBSET (Node \X Node) : Cardinality(B) <= 1},
   sequential : BOOLEAN, limit : {NoLimit}, price : {0}]

\* Every graph without one, with a budget that one node may use up.
Budgeted ==
  [forward : Forward, back : {{}}, sequential : BOOLEAN, limit : {1}, price : {1}]

MCFlows == {f \in Looped \cup Budgeted : Build(f)}
=============================================================================
