------------------------------- MODULE Client -------------------------------
(***************************************************************************)
(* The client process (src/Client/client.cpp) and its directory sync_dir:  *)
(* the IO thread that uploads and deletes files in it, the file thread     *)
(* that reports to the server what inotify tells of it, and the push       *)
(* thread that applies the server's changes to it.  The last two share     *)
(* watcher_push_lock.                                                      *)
(*                                                                         *)
(* The three threads have connected (see Handshake); the IO thread starts  *)
(* first, before the directory is watched.  An exception that leaves a     *)
(* thread terminates the process.                                          *)
(***************************************************************************)
EXTENDS FileTransfer, SequencesExt

CONSTANTS
  Texts,       \* what a packet carries and a file is made of
  Names,       \* file names
  Contents,    \* the files that the user uploads
  Pushed,      \* the files that the server pushes
  MaxCommands, \* bound: uploads and deletes of the user
  MaxPushes    \* bound: pushes of the server

ASSUME ClientAssumption ==
  /\ Names \cup {Filler} \subseteq Texts
  /\ Contents \cup Pushed \subseteq Seq(Texts)
  /\ Absent \notin Seq(Texts)
  /\ {MaxCommands, MaxPushes} \subseteq Nat

VARIABLES
  file,               \* the files of sync_dir
  watcher_push_lock,  \* "free", "file thread" or "push thread"
  watching,           \* the directory is watched
  events,             \* what inotify has to tell
  batch,              \* the events that the file thread has read
  file_thread,        \* where the file thread is
  push_thread,        \* where the push thread is, and the file it is about
  io,                 \* where the IO thread is, file name and content
  stream,             \* packets on the push connection
  server,             \* TRUE while the server is there
  process,            \* "running", or "terminated"
  commands, pushes,   \* bounds
  (* history *)
  reported,           \* what the file thread last sent of each file
  unseen              \* names last changed before the directory was watched

threads == <<file_thread, push_thread, io>>
vars == <<file, watcher_push_lock, watching, events, batch, threads, stream,
          server, process, commands, pushes, reported, unseen>>

Files == Seq(Texts) \cup {Absent}

Event(mask, name) == [mask |-> mask, name |-> name]

Events == [mask : {"CLOSE_WRITE", "DELETE"}, name : Names]

PushThreads ==
  [pc : {"wait", "clear", "lock", "receive", "look", "remove"},
   name : Names \cup {Absent}]

IoThreads ==
  [pc : {"wait", "copy", "look", "remove"},
   name : Names \cup {Absent}, content : Files]

Packets ==
  [type : {"DATA", "END_OF_FILE", "WRITE", "DELETE"}, text : Texts]

(* The lock is held where the code is between lock() and unlock(). *)
LockHeld ==
  watcher_push_lock = CASE file_thread = "locked" -> "file thread"
                        [] push_thread.pc = "receive" -> "push thread"
                        [] OTHER -> "free"

TypeOK ==
  /\ file \in [Names -> Files]
  /\ watcher_push_lock \in {"free", "file thread", "push thread"}
  /\ watching \in BOOLEAN
  /\ events \in Seq(Events) /\ batch \in Seq(Events)
  /\ file_thread \in {"start", "read", "locked"}
  /\ push_thread \in PushThreads
  /\ io \in IoThreads
  /\ stream \in Seq(Packets)
  /\ server \in BOOLEAN
  /\ process \in {"running", "terminated"}
  /\ commands \in 0..MaxCommands /\ pushes \in 0..MaxPushes
  /\ reported \in [Names -> Files]
  /\ unseen \subseteq Names
  /\ LockHeld

(* What is in the directory when the client starts is never reported.      *)
Init ==
  /\ file \in [Names -> Contents \cup {Absent}]
  /\ watcher_push_lock = "free"
  /\ watching = FALSE
  /\ events = << >> /\ batch = << >>
  /\ file_thread = "start"
  /\ push_thread = [pc |-> "wait", name |-> Absent]
  /\ io = [pc |-> "wait", name |-> Absent, content |-> Absent]
  /\ stream = << >>
  /\ server = TRUE
  /\ process = "running"
  /\ commands = 0 /\ pushes = 0
  /\ reported = file
  /\ unseen = {}

Running == process = "running"

(* Linux tells of an event on a file in a watched directory, and joins it  *)
(* with the event before when the two are the same.                        *)
Tells(mask, n) ==
  LET e == Event(mask, n) IN
  IF ~watching
  THEN UNCHANGED events /\ unseen' = unseen \cup {n}
  ELSE /\ events' = IF events # << >> /\ Last(events) = e THEN events
                    ELSE Append(events, e)
       /\ unseen' = IF mask = "CLOSE_WRITE" /\ file'[n] = Absent THEN unseen
                    ELSE unseen \ {n}

Untold == UNCHANGED <<events, unseen>>

-----------------------------------------------------------------------------
(* handleIoThread: upload and delete *)

IoStep(from) ==
  /\ Running
  /\ io.pc = from
  /\ UNCHANGED <<watcher_push_lock, watching, batch, file_thread, push_thread,
                 stream, server, pushes, reported>>

UserCommand ==
  commands < MaxCommands /\ commands' = commands + 1

(* fs::copy overwrites: it opens the file, empty, then fills and closes it.*)
Upload(n, f) ==
  /\ IoStep("wait") /\ UserCommand
  /\ file' = [file EXCEPT ![n] = << >>]
  /\ io' = [pc |-> "copy", name |-> n, content |-> f]
  /\ Untold /\ UNCHANGED process

(* The push thread may have removed the file that is open.                 *)
CloseUpload ==
  /\ IoStep("copy")
  /\ file' = [file EXCEPT ![io.name] = IF @ = Absent THEN @ ELSE io.content]
  /\ io' = [io EXCEPT !.pc = "wait", !.content = Absent]
  /\ Tells("CLOSE_WRITE", io.name)
  /\ UNCHANGED <<process, commands>>

(* The command looks for the file, and deleteFile does again. *)
Delete(n) ==
  /\ IoStep("wait") /\ UserCommand
  /\ file[n] # Absent
  /\ io' = [io EXCEPT !.pc = "look", !.name = n]
  /\ Untold /\ UNCHANGED <<file, process>>

IoLooks ==
  /\ IoStep("look")
  /\ io' = [io EXCEPT !.pc = IF file[io.name] = Absent THEN "wait" ELSE "remove"]
  /\ Untold /\ UNCHANGED <<file, process, commands>>

(* deleteFile throws when the file that it has seen is gone.               *)
Removes(n) ==
  \/ /\ file[n] # Absent
     /\ file' = [file EXCEPT ![n] = Absent]
     /\ Tells("DELETE", n)
     /\ UNCHANGED process
  \/ /\ file[n] = Absent
     /\ process' = "terminated"
     /\ Untold /\ UNCHANGED file

IoRemoves ==
  /\ IoStep("remove")
  /\ Removes(io.name)
  /\ io' = [io EXCEPT !.pc = "wait"]
  /\ UNCHANGED commands

Exit ==
  /\ IoStep("wait")
  /\ process' = "terminated"
  /\ Untold /\ UNCHANGED <<file, io, commands>>

-----------------------------------------------------------------------------
(* handleFileThread *)

FileStep(from) ==
  /\ Running
  /\ file_thread = from
  /\ UNCHANGED <<file, push_thread, io, stream, server, process, commands,
                 pushes, unseen>>

AddWatch ==
  /\ FileStep("start")
  /\ watching' = TRUE
  /\ file_thread' = "read"
  /\ UNCHANGED <<watcher_push_lock, events, batch, reported>>

ReadEvents ==
  /\ FileStep("read")
  /\ batch = << >> /\ events # << >>
  /\ batch' = events
  /\ events' = << >>
  /\ UNCHANGED <<watcher_push_lock, watching, file_thread, reported>>

(* lock() for the next event, once the lock can be taken. *)
TakesForWrite ==
  /\ FileStep("read")
  /\ batch # << >> /\ Head(batch).mask = "CLOSE_WRITE"
  /\ watcher_push_lock' = "file thread"
  /\ file_thread' = "locked"
  /\ UNCHANGED <<watching, events, batch, reported>>

LockForWrite == watcher_push_lock = "free" /\ TakesForWrite

(* The file as it is now, or nothing after the WRITE when it is gone;      *)
(* `left` are the events left to handle.                                   *)
Writes(left) ==
  LET n == Head(batch).name IN
  /\ FileStep("locked")
  /\ reported' = [reported EXCEPT ![n] = IF file[n] = Absent THEN @ ELSE file[n]]
  /\ batch' = left
  /\ watcher_push_lock' = "free"
  /\ file_thread' = "read"
  /\ UNCHANGED <<watching, events>>

(* Mutant: of what one read() has returned only the first event is used. *)
SendsFirstOnly == Writes(<< >>)

SendWrite == Writes(Tail(batch))

Deletes(left) ==
  /\ FileStep("read")
  /\ batch # << >> /\ Head(batch).mask = "DELETE"
  /\ reported' = [reported EXCEPT ![Head(batch).name] = Absent]
  /\ batch' = left
  /\ UNCHANGED <<watcher_push_lock, watching, events, file_thread>>

(* Mutant: the index is not moved past the event. *)
DeleteStays == Deletes(batch)

SendDelete == Deletes(Tail(batch))

-----------------------------------------------------------------------------
(* handlePushThread *)

PushStep(from) ==
  /\ Running
  /\ push_thread.pc = from
  /\ UNCHANGED <<watching, batch, file_thread, io, server, commands, pushes,
                 reported>>

PushGoes(pc) == push_thread' = [push_thread EXCEPT !.pc = pc]

PushReceives(type, to) ==
  /\ PushStep("wait")
  /\ stream # << >> /\ Head(stream).type = type
  /\ stream' = Tail(stream)
  /\ push_thread' = [pc |-> to, name |-> Head(stream).text]
  /\ Untold /\ UNCHANGED <<file, watcher_push_lock, process>>

ReceiveWrite == PushReceives("WRITE", "clear")

ReceiveDelete == PushReceives("DELETE", "look")

ClearFile ==
  /\ PushStep("clear")
  /\ file' = [file EXCEPT ![push_thread.name] = << >>]
  /\ PushGoes("lock")
  /\ Tells("CLOSE_WRITE", push_thread.name)
  /\ UNCHANGED <<watcher_push_lock, stream, process>>

TakesForPush ==
  /\ PushStep("lock")
  /\ watcher_push_lock' = "push thread"
  /\ PushGoes("receive")
  /\ Untold /\ UNCHANGED <<file, stream, process>>

LockForPush == watcher_push_lock = "free" /\ TakesForPush

(* The loop tests the type of the packet before the loop, a WRITE: it has  *)
(* no end, and the lock stays locked.                                      *)
ReceiveFile ==
  LET n == push_thread.name IN
  /\ PushStep("receive")
  /\ stream # << >>
  /\ file' = [file EXCEPT ![n] = writeFile(@, Head(stream).text)]
  /\ stream' = Tail(stream)
  /\ Tells("CLOSE_WRITE", n)
  /\ UNCHANGED <<watcher_push_lock, push_thread, process>>

PushLooks ==
  /\ PushStep("look")
  /\ PushGoes(IF file[push_thread.name] = Absent THEN "wait" ELSE "remove")
  /\ Untold /\ UNCHANGED <<file, watcher_push_lock, stream, process>>

PushRemoves ==
  /\ PushStep("remove")
  /\ Removes(push_thread.name)
  /\ PushGoes("wait")
  /\ UNCHANGED <<watcher_push_lock, stream>>

(* receivePacket throws. *)
ReceiveFails ==
  /\ PushStep("wait") \/ PushStep("receive")
  /\ ~server /\ stream = << >>
  /\ process' = "terminated"
  /\ Untold /\ UNCHANGED <<file, watcher_push_lock, push_thread, stream>>

-----------------------------------------------------------------------------
(* The server (Device::pushThread) *)

ServerStep ==
  /\ server /\ Running
  /\ UNCHANGED <<file, watcher_push_lock, watching, events, batch, threads,
                 process, commands, reported, unseen>>

ServerPushes(packets) ==
  /\ ServerStep
  /\ pushes < MaxPushes
  /\ pushes' = pushes + 1
  /\ stream' = stream \o packets
  /\ UNCHANGED server

ServerLeaves ==
  /\ ServerStep
  /\ server' = FALSE
  /\ UNCHANGED <<stream, pushes>>

-----------------------------------------------------------------------------
User ==
  \/ \E n \in Names : Delete(n) \/ \E f \in Contents : Upload(n, f)
  \/ Exit

IoThread == CloseUpload \/ IoLooks \/ IoRemoves

FileThread ==
  AddWatch \/ ReadEvents \/ LockForWrite \/ SendWrite \/ SendDelete

PushThread ==
  \/ ReceiveWrite \/ ReceiveDelete \/ ClearFile \/ LockForPush \/ ReceiveFile
  \/ PushLooks \/ PushRemoves \/ ReceiveFails

Server ==
  \/ \E n \in Names, f \in Pushed \cup {Absent} :
       ServerPushes(<<Packet("WRITE", n)>> \o sendFileInChunks(f))
  \/ \E n \in Names : ServerPushes(<<Packet("DELETE", n)>>)
  \/ ServerLeaves

Next == User \/ IoThread \/ FileThread \/ PushThread \/ Server

Spec == Init /\ [][Next]_vars

(* The threads run; the user and the server do as they like. *)
FairSpec == Spec /\ WF_vars(IoThread) /\ WF_vars(FileThread) /\ WF_vars(PushThread)
-----------------------------------------------------------------------------
(* Properties *)

(* Whenever the file thread has no event left, what it has sent the server *)
(* last of a file is what the file is, whatever uploads, deletes and       *)
(* pushed deletes came in between and however inotify joined their events. *)
(* Excepted are a file that is being copied, one last changed before the   *)
(* directory was watched, and everything once the push thread has the lock.*)
IdleIsReported ==
  \/ ~watching \/ events # << >> \/ batch # << >>
  \/ watcher_push_lock = "push thread"
  \/ \A n \in Names \ unseen :
       reported[n] = file[n] \/ (io.pc = "copy" /\ io.name = n)

(* What the server is told of a file is a file of the user, or an empty    *)
(* one, which clearFile or fs::copy has left for a moment: no part of a    *)
(* file that is being pushed goes back.                                    *)
NoPushGoesBack ==
  [][\A n \in Names : reported'[n] # reported[n] =>
       reported'[n] \in Contents \cup {Absent, << >>}]_vars

(* A change of the directory is reported in the end, unless the server     *)
(* pushed a file, which keeps the lock for ever, or the client terminated. *)
ChangeIsReported ==
  \A n \in Names :
    (reported[n] # file[n] /\ n \notin unseen) ~>
      \/ reported[n] = file[n] \/ n \in unseen
      \/ watcher_push_lock = "push thread" \/ process = "terminated"
=============================================================================
