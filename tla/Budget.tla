------------------------------- MODULE Budget -------------------------------
(***************************************************************************)
(* A sum that a limit bounds, where some of what is added is checked       *)
(* against the limit and some is not: the promise of a quota whose         *)
(* checks and writes are separate statements.  A step that was admitted    *)
(* ends within the limit plus everything that came in unchecked; any       *)
(* other step adds at most what it books as unchecked.                     *)
(***************************************************************************)
EXTENDS Integers

VARIABLES
  limit,    \* the limit now: nobody promises that it stays
  sum,      \* what it bounds
  unchecked \* what was added without a check

budgetVars == <<limit, sum, unchecked>>

BudgetInit == sum <= limit /\ unchecked = 0

Admit ==
  /\ unchecked' = unchecked
  /\ sum' <= limit + unchecked

Bypass == sum' - sum <= unchecked' - unchecked /\ unchecked <= unchecked'

BudgetSpec == BudgetInit /\ [][Admit \/ Bypass]_budgetVars
=============================================================================
