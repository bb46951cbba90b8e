------------------------------ MODULE MCDevice ------------------------------
(* Two other devices of the same user each hand this device one push. *)
EXTENDS Device

CONSTANTS c1, c2

MCCallers == {c1, c2}
=============================================================================
