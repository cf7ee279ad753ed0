------------------------------ MODULE MCWallet ------------------------------
(* Wallet on small instances: amounts around the rounding grain of 100. *)
EXTENDS Wallet, TLC

CONSTANTS a1, p1, p2, s1, s2, s3

OneAccount    == {a1}
TwoPis        == {p1, p2}
ThreeSessions == {s1, s2, s3}

\* Every payment intent belongs to a1, so that they contend for one wallet.
MCPiAccount == [p \in PaymentIntent |-> a1]
MCPiAmount  == [p \in PaymentIntent |-> 200]

\* 130 rounds the balance up, 250 is a tie.
MCCosts == {130, 250}
MCCaps  == {300}

SessionSymmetry == Permutations(Session)
=============================================================================
