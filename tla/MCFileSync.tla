----------------------------- MODULE MCFileSync -----------------------------
(* Two devices of one user report changes of two files, of which one has   *)
(* the name of the other's copy.  One of the contents is a file whose last *)
(* chunk is the text that buildFile takes for its end, which the code      *)
(* needs to get past buildFile; the other is not.                          *)
EXTENDS FileSync

CONSTANTS d1, d2

MCDevices == {d1, d2}
MCTexts == {"f", "copy_f", "a", "b", EndText, Filler}
MCcopy_name == [f |-> "copy_f", copy_f |-> "copy_copy_f"]
MCNames == DOMAIN MCcopy_name
MCContents == {<<"a">>, <<"b", EndText>>}

(* A new user's directory, one with f, and one with copy_f too, as a file  *)
(* or as a copy that was left over.                                        *)
MCLeftovers ==
  {[n \in Entries |-> IF n \in there THEN <<"a">> ELSE Absent] :
     there \in {{}, {"f"}, {"f", "copy_f"}}}
=============================================================================
