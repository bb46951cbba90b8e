--------------------------- MODULE MCClientManager ---------------------------
(* Three connections of one user, one more than the two devices allowed.   *)
EXTENDS ClientManager

CONSTANTS c1, c2, c3

MCConnections == {c1, c2, c3}
=============================================================================
