-------------------------- MODULE MCSubscriptions --------------------------
(* Subscriptions on small instances. *)
EXTENDS Subscriptions, TLC

CONSTANTS s1, s2, r1, r2, h1, h2, kb, flows

MCSlotOf == [s \in Sub |-> IF s = s2 THEN flows ELSE kb]
OneSlot == [s \in Sub |-> kb]

MCMaxChanges == [s \in Sub |-> IF s = s1 THEN 1 ELSE 0]
NoChanges == [s \in Sub |-> 0]

SessionSymmetry == Permutations(Handler) \cup Permutations(Row)
=============================================================================
