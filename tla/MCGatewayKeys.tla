---------------------------- MODULE MCGatewayKeys ----------------------------
(* GatewayKeys on a small instance. *)
EXTENDS GatewayKeys

CONSTANTS k1, k2

\* Entries do not depend on each other.  This one is deleted last.
MCSought == {<<k1, "prefix">>}
=============================================================================
