--------------------------- MODULE MCFailedDebits ---------------------------
(* FailedDebits on small instances. *)
EXTENDS FailedDebits, TLC

CONSTANTS a1, a2, r1, r2, r3, q1, q2

OneRequest    == {r1}
TwoRequests   == {r1, r2}
ThreeRequests == {r1, r2, r3}

\* r1 and r2 are charged to one account, r3 to another.
MCAccountOf == [r \in Request |-> IF r = r3 THEN a2 ELSE a1]

ReconcilerSymmetry == Permutations(Reconciler)
=============================================================================
