---------------------------- MODULE MCAutoReload ----------------------------
(* AutoReload on small instances; amounts are multiples of the grain. *)
EXTENDS AutoReload, TLC

CONSTANTS a1, a2, p1, p2, p3, p4, e1, e2, e3, w1, w2

TwoPis   == {p1, p2}
ThreePis == {p1, p2, p3}
FourPis  == {p1, p2, p3, p4}

\* p4 and e3 are a2's, the others a1's.
MCPiAccount == [p \in PaymentIntent |-> IF p = p4 THEN a2 ELSE a1]
MCPiAmount == [p \in PaymentIntent |-> 200]
MCRowAccount == [r \in Row |-> IF r = e3 THEN a2 ELSE a1]

OneCost == {200}

PiSymmetry == Permutations(PaymentIntent)
WorkerSymmetry == Permutations(Worker)
=============================================================================
