--------------------------- MODULE MCCalculators ---------------------------
(* Calculators with two handlers and two workers. *)
EXTENDS Calculators, TLC

CONSTANTS r1, r2, w1, w2, v1, v2

Symmetric ==
  Permutations({r1, r2}) \cup Permutations({w1, w2}) \cup Permutations({v1, v2})

\* Bound: no behaviour is followed past what the properties exclude.
Claimed == ~excused /\ ~reborn
=============================================================================
