------------------------------ MODULE MCClient ------------------------------
(* One file, which the user changes three times and the server pushes or   *)
(* deletes twice, before and after it is watched.                          *)
EXTENDS Client

MCTexts == {"f", "a", "b", "c", Filler}
MCNames == {"f"}
MCContents == {<<"a">>, <<"b">>}
MCPushed == {<<"c">>}
=============================================================================
