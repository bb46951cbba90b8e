------------------------------ MODULE FileSync ------------------------------
(***************************************************************************)
(* The files of one user at the leader and at a backup: the watcher        *)
(* threads of the user's devices (Device::fileWatcherThread, buildFile),   *)
(* which share the user's directory without a lock, the part of            *)
(* ClientManager::handle_new_push that sends to the backup on a connection *)
(* they share too, the backup's receivePushsOn, and a download through     *)
(* the command thread of one device.                                       *)
(*                                                                         *)
(* The copy that an upload of <name> is built in, copy_<name>, is a file of *)
(* that directory like any other, and may be one of the user's.            *)
(*                                                                         *)
(* Each operation on a file is a step.  The step that pushes to the other  *)
(* devices may wait for ever (see Device), and the process aborts when     *)
(* handle_new_push has returned, since a packet passed by value is freed   *)
(* twice.  How a connection breaks inside a packet is in NetworkManager.   *)
(***************************************************************************)
EXTENDS FileTransfer, SequencesExt

CONSTANTS
  Devices,
  Texts,          \* what a packet carries and a file is made of
  Names,          \* the names of the users' files
  copy_name,      \* "copy_" before a name, which may give one of them
  Contents,       \* the files that clients have
  Leftovers,      \* the directories an earlier run may have left
  MaxOperations   \* bound: changes that clients report in a behaviour

Files == Seq(Texts) \cup {Absent}

(* The names that there may be in the directory. *)
Entries == Names \cup {copy_name[n] : n \in Names}

ASSUME FilesAssumption ==
  /\ Names \cup {Filler} \subseteq Texts
  /\ Absent \notin Seq(Texts) \cup Names
  /\ DOMAIN copy_name = Names
  /\ \A n \in Names : copy_name[n] # n
  /\ Contents \subseteq Seq(Texts)
  /\ Leftovers \subseteq [Entries -> Files]
  /\ MaxOperations \in Nat

VARIABLES
  (* the user's directory at the leader *)
  file,            \* the content under each name
  (* the watcher threads *)
  watcher,         \* place, file name, hash of the original
  rest,            \* packets sendFileInChunks has yet to send to the backup
  process,         \* the leader: "running", or "aborted"
  (* the clients *)
  client,          \* TRUE while the client is connected
  stream,          \* packets of the change it reports, yet to be received
  operations,      \* changes reported
  download,        \* a client's request; the file was missing after the test
  (* the backup *)
  building,        \* name of the file being received, or Absent
  backup_file,     \* its files
  (* history *)
  upload,          \* what buildFile wrote since the last WRITE
  disturbed,       \* another device changed the file or its copy since then
  past_end,        \* buildFile has read past the end of the client's file
  deleted,         \* names without a file: from the start, by a client's wish,
                   \* or because an upload had it for its copy
  mixed,           \* a push to the backup was cut short, or by another
  expected         \* the backup's files if each push arrived as a whole

clients == <<client, stream, operations>>
backup == <<rest, building, backup_file, mixed, expected>>
history == <<upload, disturbed, past_end, deleted>>
vars == <<file, watcher, process, clients, download, backup, history>>

Packets == [type : {"DATA", "END_OF_FILE", "WRITE", "DELETE"}, text : Texts]

(* Mutant: the copy is not renamed after the original was deleted. *)
AfterDeleteUnrenamed == [replace |-> "push write", unchanged |-> "loop",
                         delete |-> "push delete"]

(* The places where deleteFile is called, and where each goes on.          *)
AfterDelete == [replace |-> "rename", unchanged |-> "loop",
                delete |-> "push delete"]

WatcherPC == {"loop", "create file", "create copy", "build", "hash file",
              "hash copy", "rename", "push write", "read", "send", "ended"}
             \cup DOMAIN AfterDelete \cup {AfterDelete[p] : p \in DOMAIN AfterDelete}

Watchers == [pc : WatcherPC, name : Names \cup {Absent}, hash : Files,
             found : BOOLEAN]

Downloads == [pc : {"none", "found", "waiting", "ended"},
              name : Names \cup {Absent}, removed : BOOLEAN]

TypeOK ==
  /\ file \in [Entries -> Files]
  /\ watcher \in [Devices -> Watchers]
  /\ rest \in [Devices -> Seq(Packets)]
  /\ process \in {"running", "aborted"}
  /\ client \in [Devices -> BOOLEAN]
  /\ stream \in [Devices -> Seq(Packets)]
  /\ operations \in 0..MaxOperations
  /\ download \in Downloads
  /\ building \in Names \cup {Absent}
  /\ backup_file \in [Names -> Files]
  /\ upload \in [Devices -> Seq(Texts)]
  /\ disturbed \in [Devices -> BOOLEAN] /\ past_end \in [Devices -> BOOLEAN]
  /\ deleted \subseteq Names
  /\ mixed \in BOOLEAN
  /\ expected \in [Names -> Files]

(* The directory is kept from one run of the server to the next, with      *)
(* whatever copies the last one left.  The backup has just been created.   *)
Init ==
  /\ file \in Leftovers
  /\ watcher = [d \in Devices |-> [pc |-> "loop", name |-> Absent,
                                   hash |-> Absent, found |-> FALSE]]
  /\ download = [pc |-> "none", name |-> Absent, removed |-> FALSE]
  /\ rest = [d \in Devices |-> << >>]
  /\ process = "running"
  /\ client = [d \in Devices |-> TRUE]
  /\ stream = [d \in Devices |-> << >>]
  /\ operations = 0
  /\ building = Absent
  /\ backup_file = [n \in Names |-> Absent]
  /\ upload = [d \in Devices |-> << >>]
  /\ disturbed = [d \in Devices |-> FALSE]
  /\ past_end = [d \in Devices |-> FALSE]
  /\ deleted = {n \in Names : file[n] = Absent}
  /\ mixed = FALSE
  /\ expected = [n \in Names |-> Absent]

Running == process = "running"

-----------------------------------------------------------------------------
(* The clients *)

(* The client's watcher reports a change; sendFileInChunks there may find  *)
(* that the file is gone.                                                  *)
Reports(d, packets) ==
  /\ client[d] /\ stream[d] = << >>
  /\ operations < MaxOperations
  /\ operations' = operations + 1
  /\ stream' = [stream EXCEPT ![d] = packets]
  /\ UNCHANGED <<client, file, watcher, process, download, backup, history>>

ReportsWrite(d, n, f) ==
  Reports(d, <<Packet("WRITE", n)>> \o sendFileInChunks(f))

ReportsDelete(d, n) == Reports(d, <<Packet("DELETE", n)>>)

(* The client leaves, with what is still in `stream` unsent. *)
ClientLeaves(d) ==
  /\ client[d]
  /\ client' = [client EXCEPT ![d] = FALSE]
  /\ stream' = [stream EXCEPT ![d] = << >>]
  /\ UNCHANGED <<operations, file, watcher, process, download, backup, history>>

-----------------------------------------------------------------------------
(* Device::fileWatcherThread *)

At(d, pc) == Running /\ watcher[d].pc = pc

Goes(d, pc) == watcher' = [watcher EXCEPT ![d].pc = pc]

(* Where device d builds what it receives. *)
copy(d) == copy_name[watcher[d].name]

(* A step of device d leaves the other parties alone.  The histories see   *)
(* what it does to the directory.                                          *)
Quietly(d) ==
  /\ UNCHANGED <<process, client, operations, backup>>
  /\ download' = [download EXCEPT !.removed =
       @ \/ (download.pc = "found" /\ file'[download.name] = Absent)]
  /\ deleted' = {n \in Names :
       /\ file'[n] = Absent
       /\ \/ n \in deleted
          \/ file[n] # Absent /\ watcher[d].pc = "delete"
          \/ /\ file[n] # Absent /\ watcher[d].pc \in {"unchanged", "rename"}
             /\ n = copy(d)}

Disturbs(d) ==
  disturbed' = [e \in Devices |->
    \/ disturbed[e]
    \/ e # d /\ \E n \in {watcher[e].name} \cap Names :
         \E m \in {n, copy_name[n]} : file'[m] # file[m]]

DirectoryStep(d) ==
  Quietly(d) /\ Disturbs(d) /\ UNCHANGED <<stream, upload, past_end>>

Taken(d) == Head(stream[d])

Receives(d, from) ==
  /\ At(d, from)
  /\ stream[d] # << >>
  /\ stream' = [stream EXCEPT ![d] = Tail(@)]

(* A WRITE or DELETE begins: file n is looked for. *)
Begins(d, n, missing, found) ==
  /\ watcher' = [watcher EXCEPT ![d].name = n,
                   ![d].pc = IF file[n] = Absent THEN missing ELSE found]
  /\ upload' = [upload EXCEPT ![d] = << >>]
  /\ disturbed' = [disturbed EXCEPT ![d] = FALSE]
  /\ past_end' = [past_end EXCEPT ![d] = FALSE]
  /\ UNCHANGED file
  /\ Quietly(d)

ReceiveWrite(d) ==
  /\ Receives(d, "loop")
  /\ Taken(d).type = "WRITE"
  /\ Begins(d, Taken(d).text, "create file", "create copy")

ReceiveDelete(d) ==
  /\ Receives(d, "loop")
  /\ Taken(d).type = "DELETE"
  /\ Begins(d, Taken(d).text, "loop", "delete")

(* Any other packet is passed over: the end of a file, when buildFile took *)
(* the last chunk for it.                                                  *)
ReceiveOther(d) ==
  /\ Receives(d, "loop")
  /\ Taken(d).type \notin {"WRITE", "DELETE"}
  /\ UNCHANGED <<file, watcher, upload, disturbed, past_end>>
  /\ Quietly(d)

(* createFile truncates what is there. *)
CreateFile(d) ==
  /\ At(d, "create file")
  /\ file' = [file EXCEPT ![watcher[d].name] = << >>]
  /\ Goes(d, "create copy")
  /\ DirectoryStep(d)

CopyBecomes(d, content) ==
  /\ At(d, "create copy")
  /\ file' = [file EXCEPT ![copy(d)] = content]
  /\ Goes(d, "build")
  /\ DirectoryStep(d)

(* Mutant: a copy that is there is kept. *)
KeepsCopy(d) == CopyBecomes(d, IF file[copy(d)] = Absent THEN << >>
                               ELSE file[copy(d)])

CreateCopy(d) == CopyBecomes(d, << >>)

(* buildFile: any packet is written to the copy, whatever its type. *)
BuildWrites(d) ==
  /\ Receives(d, "build")
  /\ Taken(d).text # EndText
  /\ file' = [file EXCEPT ![copy(d)] = writeFile(@, Taken(d).text)]
  /\ upload' = [upload EXCEPT ![d] = Append(@, Taken(d).text)]
  /\ past_end' = [past_end EXCEPT ![d] = @ \/ Taken(d).type = "END_OF_FILE"]
  /\ UNCHANGED watcher
  /\ Quietly(d) /\ Disturbs(d)

BuildEnds(d) ==
  /\ Receives(d, "build")
  /\ Taken(d).text = EndText
  /\ Goes(d, "hash file")
  /\ UNCHANGED <<file, upload, disturbed, past_end>>
  /\ Quietly(d)

(* receivePacket throws when the client has left. *)
FailsAt(d, pc) ==
  /\ At(d, pc)
  /\ ~client[d] /\ stream[d] = << >>
  /\ Goes(d, "ended")
  /\ UNCHANGED file
  /\ DirectoryStep(d)

(* Mutant: buildFile does not hear of the end of the connection. *)
FailsInLoop(d) == FailsAt(d, "loop")

ReceiveFails(d) == FailsAt(d, "loop") \/ FailsAt(d, "build")

(* checkFileHashchanged reads one file after the other, and throws when    *)
(* one is missing.                                                         *)
HashFile(d) ==
  LET f == file[watcher[d].name] IN
  /\ At(d, "hash file")
  /\ watcher' = [watcher EXCEPT ![d].hash = f,
                   ![d].pc = IF f = Absent THEN "ended" ELSE "hash copy"]
  /\ UNCHANGED file
  /\ DirectoryStep(d)

HashCopy(d) ==
  LET c == file[copy(d)] IN
  /\ At(d, "hash copy")
  /\ watcher' = [watcher EXCEPT ![d].hash = Absent,
       ![d].pc = CASE c = Absent -> "ended"
                   [] c = watcher[d].hash -> "unchanged"
                   [] OTHER -> "replace"]
  /\ UNCHANGED file
  /\ DirectoryStep(d)

(* Mutant: both branches delete the original. *)
TargetOriginal(d) == watcher[d].name

(* deleteFile: the copy if the hash did not change, else the original. *)
Target(d) ==
  IF watcher[d].pc = "unchanged" THEN copy(d) ELSE watcher[d].name

DeleteLooks(d) ==
  /\ \E pc \in DOMAIN AfterDelete :
       /\ At(d, pc) /\ ~watcher[d].found
       /\ watcher' = IF file[Target(d)] = Absent
                     THEN [watcher EXCEPT ![d].pc = AfterDelete[pc]]
                     ELSE [watcher EXCEPT ![d].found = TRUE]
  /\ UNCHANGED file
  /\ DirectoryStep(d)

(* remove() fails, and deleteFile throws, when the file is gone by now. *)
DeleteRemoves(d) ==
  \E pc \in DOMAIN AfterDelete :
    /\ At(d, pc) /\ watcher[d].found
    /\ watcher' = [watcher EXCEPT ![d].found = FALSE, ![d].pc =
                     IF file[Target(d)] = Absent THEN "ended" ELSE AfterDelete[pc]]
    /\ file' = [file EXCEPT ![Target(d)] = Absent]
    /\ DirectoryStep(d)

RenameCopy(d) ==
  /\ At(d, "rename")
  /\ file[copy(d)] # Absent
  /\ file' = [file EXCEPT ![watcher[d].name] = file[copy(d)], ![copy(d)] = Absent]
  /\ Goes(d, "push write")
  /\ DirectoryStep(d)

RenameFails(d) ==
  /\ At(d, "rename")
  /\ file[copy(d)] = Absent
  /\ Goes(d, "ended")
  /\ UNCHANGED file
  /\ DirectoryStep(d)

-----------------------------------------------------------------------------
(* ClientManager::handle_new_push and, at the backup, receivePushsOn.  The *)
(* backup only takes packets in order: a packet is handled when it is sent.*)

(* A WRITE or its file is not yet sent as a whole. *)
Sending(d) == watcher[d].pc = "read" \/ rest[d] # << >>

(* Packet p at the backup, which takes it for a WRITE or for the end of a  *)
(* file where it expects one.                                              *)
BackupHandles(p, write, end) ==
  \/ /\ building = Absent
     /\ building' = IF write THEN p.text ELSE Absent
     /\ backup_file' = IF write \/ p.type # "DELETE" THEN backup_file
                       ELSE [backup_file EXCEPT ![p.text] = Absent]
  \/ /\ building # Absent
     /\ building' = IF end THEN Absent ELSE building
     /\ backup_file' = IF end THEN backup_file
                       ELSE [backup_file EXCEPT ![building] = writeFile(@, p.text)]

(* Mutant: the backup looks for the end in the text, as buildFile does. *)
BackupEndsOnText(p) == BackupHandles(p, p.type = "WRITE", p.text = EndText)

(* Mutant: everything but a DELETE is taken for a WRITE. *)
BackupTakesForWrite(p) ==
  BackupHandles(p, p.type # "DELETE", p.type = "END_OF_FILE")

BackupTakes(p) == BackupHandles(p, p.type = "WRITE", p.type = "END_OF_FILE")

PushStep(d, from, to) ==
  /\ At(d, from)
  /\ Goes(d, to)
  /\ UNCHANGED <<file, process, clients, download, history>>

SendsBackup(d, p) ==
  /\ BackupTakes(p)
  /\ mixed' = (mixed \/ \E e \in Devices \ {d} : Sending(e))

PushWrite(d) ==
  /\ PushStep(d, "push write", "read")
  /\ SendsBackup(d, Packet("WRITE", watcher[d].name))
  /\ UNCHANGED <<rest, expected>>

PushDelete(d) ==
  /\ PushStep(d, "push delete", "send")
  /\ SendsBackup(d, Packet("DELETE", watcher[d].name))
  /\ expected' = [expected EXCEPT ![watcher[d].name] = Absent]
  /\ UNCHANGED rest

(* Appended text by text, so that an empty file leaves no trace. *)
Appended(f, texts) ==
  IF f = Absent /\ texts # << >> THEN texts
  ELSE IF texts = << >> THEN f ELSE f \o texts

ReadForBackup(d) ==
  LET n == watcher[d].name IN
  /\ PushStep(d, "read", "send")
  /\ rest' = [rest EXCEPT ![d] = sendFileInChunks(file[n])]
  /\ mixed' = (mixed \/ file[n] = Absent)
  /\ expected' = [expected EXCEPT ![n] =
       IF file[n] = Absent THEN @ ELSE Appended(@, file[n])]
  /\ UNCHANGED <<building, backup_file>>

SendToBackup(d) ==
  /\ PushStep(d, "send", "send")
  /\ rest[d] # << >>
  /\ SendsBackup(d, Head(rest[d]))
  /\ rest' = [rest EXCEPT ![d] = Tail(@)]
  /\ UNCHANGED expected

(* handle_new_push returns. *)
FreesTwice(d) ==
  /\ At(d, "send")
  /\ rest[d] = << >>
  /\ process' = "aborted"
  /\ UNCHANGED <<file, watcher, clients, download, backup, history>>

-----------------------------------------------------------------------------
(* A download: the client's IO thread and the device's command thread *)

DownloadStep(from) ==
  /\ Running
  /\ download.pc = from
  /\ UNCHANGED <<file, watcher, process, clients, backup, history>>

(* The file asked for is looked for, and the client told whether it is     *)
(* there.                                                                  *)
AnswerDownload(n) ==
  /\ DownloadStep("none")
  /\ download' = [download EXCEPT !.name = n,
       !.pc = IF file[n] = Absent THEN "ended" ELSE "found"]

(* The client writes what it receives to a file of its own, up to the      *)
(* packet that ends the file.                                              *)
SendDownload ==
  LET packets == ToSet(sendFileInChunks(file[download.name])) IN
  /\ DownloadStep("found")
  /\ download' = [download EXCEPT !.pc =
       IF \E p \in packets : p.type = "END_OF_FILE" THEN "ended" ELSE "waiting"]

-----------------------------------------------------------------------------
Client(d) ==
  \/ \E n \in Names, f \in Contents \cup {Absent} : ReportsWrite(d, n, f)
  \/ \E n \in Names : ReportsDelete(d, n)
  \/ ClientLeaves(d)

Watcher(d) ==
  \/ ReceiveWrite(d) \/ ReceiveDelete(d) \/ ReceiveOther(d) \/ ReceiveFails(d)
  \/ CreateFile(d) \/ CreateCopy(d) \/ BuildWrites(d) \/ BuildEnds(d)
  \/ HashFile(d) \/ HashCopy(d) \/ DeleteLooks(d) \/ DeleteRemoves(d)
  \/ RenameCopy(d) \/ RenameFails(d)
  \/ ReadForBackup(d) \/ SendToBackup(d) \/ FreesTwice(d)

Download == SendDownload \/ \E n \in Names : AnswerDownload(n)

Next ==
  \/ \E d \in Devices :
       Client(d) \/ Watcher(d) \/ PushWrite(d) \/ PushDelete(d)
  \/ Download

Spec == Init /\ [][Next]_vars

(* The threads of the server run, except that the push to the other        *)
(* devices need not end.  Clients do as they like.                         *)
Fairness == \A d \in Devices : WF_vars(Watcher(d))

FairSpec == Spec /\ Fairness
-----------------------------------------------------------------------------
(* Properties *)

(* An upload that has been compared with the file, and replaced it or was  *)
(* found to be the same, leaves the file with what this device sent up to  *)
(* the end text and nothing else: no rest of an earlier copy, no part of   *)
(* the file before.  Only another device that changed the file or the copy *)
(* in the meantime can have made it different.                             *)
UploadBecomesFile ==
  [][\A d \in Devices :
       /\ watcher[d].pc \in {"rename", "unchanged"}
       /\ watcher'[d].pc \in {"push write", "loop"}
       /\ ~disturbed'[d]
       => file'[watcher[d].name] = upload[d]]_vars

(* A file of the user's that existed is missing only because a client      *)
(* deleted it, or because it had the name of another file's copy and an    *)
(* upload of that file took it away; for the time between deleteFile and   *)
(* renameFile, when what this device sent is whole in the copy, so that    *)
(* nothing is lost should the server stop there; or because another device *)
(* has meanwhile changed the file or the copy that was to replace it.      *)
MissingOnlyWhenAsked ==
  \A n \in Names \ deleted : file[n] = Absent =>
    \E d \in Devices :
      /\ watcher[d].name = n
      /\ \/ watcher[d].pc = "rename" /\ file[copy(d)] = upload[d]
         \/ watcher[d].pc \in {"rename", "ended"} /\ disturbed[d]

(* What the backup has of each file is what each push since the last       *)
(* delete read from it, one after the other, as long as the packets of two *)
(* pushes did not mix and no file was gone when it was to be read.         *)
BackupHoldsPushes ==
  ~mixed /\ (\A d \in Devices : ~Sending(d)) => backup_file = expected

(* A client that was told that the file is there does not wait for its end *)
(* for ever, unless the file was missing for a moment after the test.      *)
FoundIsAnswered == download.pc = "waiting" => download.removed

(* The watcher of a client that has left ends, wherever it was, unless it  *)
(* is to push a change to other devices.                                   *)
LeavingEndsWatcher ==
  \A d \in Devices :
    ~client[d] ~> \/ watcher[d].pc \in {"ended", "push write", "push delete"}
                  \/ process = "aborted"

(* What fileWatcherThread says it does, that it receives a copy of the     *)
(* file and verifies whether its hash changed (Device.cpp:146): when the   *)
(* client's file has been received to its end, buildFile ends.             *)
ReceivedIsVerified ==
  \A d \in Devices :
    past_end[d] ~> watcher[d].pc # "build" \/ process = "aborted"
=============================================================================
