---------------------------- MODULE MCHandshake ----------------------------
(* Two clients of a user who may have one device.                          *)
EXTENDS Handshake
=============================================================================
