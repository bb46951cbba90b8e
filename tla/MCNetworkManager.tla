-------------------------- MODULE MCNetworkManager --------------------------
(* Two threads send three packets through buffers of three bytes, and a    *)
(* packet has three or four.  A size of 3 is larger than the maximum; 4    *)
(* and 5 do not fit the length field, which makes them 0 and 1.            *)
EXTENDS NetworkManager

CONSTANTS s1, s2

MCSenders == {s1, s2}
MCSizes == {0, 2, 3, 4, 5}
=============================================================================
