---------------------------- MODULE FileTransfer ----------------------------
(***************************************************************************)
(* Files and the packets that carry them (FileManager.cpp and              *)
(* NetworkManager::sendFileInChunks).                                      *)
(*                                                                         *)
(* A file is the sequence of the texts written to it.  A client cuts its   *)
(* file into chunks, of which only the last may be short; a file that      *)
(* several texts were appended to is cut elsewhere when it is sent on, and *)
(* those who read it then look at the types of the packets, not at where   *)
(* it was cut.                                                             *)
(***************************************************************************)
EXTENDS Naturals, Sequences

CONSTANT Absent   \* in place of the content of a file that does not exist

Packet(type, text) == [type |-> type, text |-> text]

(* The text that buildFile takes for the end of a file. *)
EndText == "END_OF_FILE"

(* What a packet sent without a payload carries. *)
Filler == "xxx"

Chunks(file) == [i \in DOMAIN file |-> Packet("DATA", file[i])]
                  \o <<Packet("END_OF_FILE", Filler)>>

(* Mutant: the end is announced only after a file with content. *)
EndsNonEmptyFile(file) ==
  IF file \in {Absent, << >>} THEN << >> ELSE Chunks(file)

(* The packets of a file, which is read as a whole before the first is     *)
(* sent.  A file that cannot be read is an error that is only logged.      *)
sendFileInChunks(file) == IF file = Absent THEN << >> ELSE Chunks(file)

(* Opens the file to append, which creates it. *)
writeFile(file, text) == IF file = Absent THEN <<text>> ELSE Append(file, text)
=============================================================================
