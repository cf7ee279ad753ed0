------------------------- MODULE MCCalculatorSlots -------------------------
(* CalculatorSlots on small instances. *)
EXTENDS CalculatorSlots, TLC

CONSTANTS c1, c2, r1, r2, r3

ConfigsAndRequests == Permutations(Config) \cup Permutations(Request)
=============================================================================
