---------------------------- MODULE MCCalcQuota ----------------------------
(* CalcQuota on small instances. *)
EXTENDS CalcQuota, TLC

CONSTANTS c1, c2, c3, c4, cron, boot

CallSymmetry == Permutations(Call)
=============================================================================
