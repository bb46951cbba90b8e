------------------------------ MODULE MCServer ------------------------------
(* Two client connections, of one user or of two, and two backups.  The    *)
(* name of one user is a number.                                           *)
EXTENDS Server

CONSTANTS c1, c2, u1, u2, p1, p2

MCClients == {c1, c2}
MCUsers == {u1, u2}
MCNumbers == {u1}
MCPeers == {p1, p2}
=============================================================================
