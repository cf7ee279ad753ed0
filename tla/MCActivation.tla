---------------------------- MODULE MCActivation ----------------------------
(* Activation on small instances. *)
EXTENDS Activation, TLC

CONSTANTS r1, r2, k1
=============================================================================
