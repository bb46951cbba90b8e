---------------------------- MODULE ClientManager ----------------------------
(***************************************************************************)
(* The devices of one user (src/Server/ClientManager.cpp): the vector      *)
(* `devices`, the mutex device_mutex, the detached threads that run        *)
(* handle_new_connection, one per connection, and the file-watcher threads *)
(* of the devices, which run handle_new_push.                              *)
(*                                                                         *)
(* A device is named by the connection it was created for.  What happens   *)
(* inside it is the subject of module Device; here it is a one-place       *)
(* mailbox (module PushMailbox) and the moment its threads have ended.     *)
(*                                                                         *)
(* The vector is modelled as libstdc++ lays it out, because handle_new_push*)
(* walks it without the mutex: a buffer of cells, replaced when it is full *)
(* and freed then, and a number of cells in use; an erased cell keeps its  *)
(* old content.  A change reads the size, then writes.  Freed memory is    *)
(* not reused and an access to it aborts the process (the Makefile builds  *)
(* with the address sanitizer).                                            *)
(***************************************************************************)
EXTENDS Naturals, Sequences, FiniteSets

CONSTANTS
  Connections,  \* the connections the user's clients open, one handler each
  max_devices   \* MAX_DEVICES

ASSUME MaxDevicesAssumption == max_devices \in Nat

VARIABLES
  (* the vector *)
  cells,        \* content of the buffer in use, its length is the capacity
  size,         \* number of cells in use
  buffer,       \* which buffer is in use: 0, 1, ...
  (* device_mutex *)
  device_mutex, \* its lock word
  (* threads *)
  handler,      \* where the handler of each connection is
  seen,         \* what it read of the vector before changing it
  walk,         \* where handle_new_push of each device's watcher is; for the
                \* history, which other devices were listed when it began and
                \* whether the vector changed since
  (* devices *)
  freed,        \* devices deleted
  mailbox,      \* TRUE while the device holds a command not sent yet
  process,      \* "running", or "aborted"
  (* history *)
  stolen,       \* device_mutex was unlocked by a thread while held by another
  pushed        \* pushed[c][d]: pushes of c that d accepted

vector == <<cells, size, buffer>>
devices == <<freed, mailbox>>
vars == <<vector, device_mutex, handler, seen, walk, devices, process, stolen,
          pushed>>

None == "none"

HandlerPC == {"none", "check", "construct", "lock", "size", "push_back",
              "unlock", "running", "remove", "find", "erase", "delete",
              "leave", "guard", "done"}

VectorOK ==
  /\ cells \in Seq(Connections \cup {None})
  /\ size \in Nat
  /\ buffer \in Nat

HandlersOK ==
  /\ device_mutex \in BOOLEAN
  /\ handler \in [Connections -> HandlerPC]
  /\ seen \in [Connections -> [buffer : Nat, size : Nat, at : Nat]]

WalkRecords ==
  [pc : {"idle", "next", "send", "returned"}, buffer : Nat, pos : Nat,
   end : Nat, target : Connections \cup {None}, others : SUBSET Connections,
   overlapped : BOOLEAN]

WalksOK == walk \in [Connections -> WalkRecords]

DevicesOK ==
  /\ freed \subseteq Connections
  /\ mailbox \in [Connections -> BOOLEAN]
  /\ process \in {"running", "aborted"}
  /\ stolen \in BOOLEAN
  /\ pushed \in [Connections -> [Connections -> Nat]]

TypeOK == VectorOK /\ HandlersOK /\ WalksOK /\ DevicesOK

NothingSeen == [buffer |-> 0, size |-> 0, at |-> 0]
NotWalking == [pc |-> "idle", buffer |-> 0, pos |-> 0, end |-> 0,
               target |-> None, others |-> {}, overlapped |-> FALSE]

Init ==
  /\ cells = << >>
  /\ size = 0
  /\ buffer = 0
  /\ device_mutex = FALSE
  /\ handler = [c \in Connections |-> "none"]
  /\ seen = [c \in Connections |-> NothingSeen]
  /\ walk = [c \in Connections |-> NotWalking]
  /\ freed = {}
  /\ mailbox = [c \in Connections |-> FALSE]
  /\ process = "running"
  /\ stolen = FALSE
  /\ pushed = [c \in Connections |-> [d \in Connections |-> 0]]

(* The devices in the cells in use. *)
Listed == {cells[i] : i \in 1..size}

(* The device's threads exist and have not been joined. *)
Live(c) == handler[c] = "running"

Running == process = "running"

-----------------------------------------------------------------------------
(* ClientManager::handle_new_connection *)

HandlerStep(c, from, to) ==
  /\ Running
  /\ handler[c] = from
  /\ handler' = [handler EXCEPT ![c] = to]
  /\ UNCHANGED <<mailbox, pushed>>

(* Server::deliverToManager creates the thread. *)
Arrive(c) ==
  /\ HandlerStep(c, "none", "check")
  /\ UNCHANGED <<vector, device_mutex, seen, walk, devices, process, stolen>>

(* The size is read without the mutex; a connection too many is refused. *)
CheckSize(c) ==
  /\ HandlerStep(c, "check", IF size = max_devices THEN "done" ELSE "construct")
  /\ UNCHANGED <<vector, device_mutex, seen, walk, devices, process, stolen>>

(* Device::Device returns once the client has opened the two other         *)
(* connections, and blocks in accept until then; it throws if the client   *)
(* had gone before it was sent the ports.                                  *)
Construct(c) ==
  /\ HandlerStep(c, "construct", "lock")
  /\ UNCHANGED <<vector, device_mutex, seen, walk, devices, process, stolen>>

ConstructFails(c) ==
  /\ HandlerStep(c, "construct", "done")
  /\ UNCHANGED <<vector, device_mutex, seen, walk, devices, process, stolen>>

Lock(c, from, to) ==
  /\ ~device_mutex
  /\ HandlerStep(c, from, to)
  /\ device_mutex' = TRUE
  /\ UNCHANGED <<vector, seen, walk, devices, process, stolen>>

(* Mutant: push_back without the lock_guard. *)
EnterForPushBack(c) ==
  /\ HandlerStep(c, "lock", "size")
  /\ UNCHANGED <<vector, device_mutex, seen, walk, devices, process, stolen>>

LockForPushBack(c) == Lock(c, "lock", "size")

ReadSize(c) ==
  /\ HandlerStep(c, "size", "push_back")
  /\ seen' = [seen EXCEPT ![c] = [buffer |-> buffer, size |-> size, at |-> 0]]
  /\ UNCHANGED <<vector, device_mutex, walk, devices, process, stolen>>

(* Walks that are under way see the vector change. *)
Overlap ==
  walk' = [w \in Connections |->
             [walk[w] EXCEPT !.overlapped = @ \/ walk[w].pc # "idle"]]

(* The buffer the change is about to write to has been freed. *)
BufferGone(c) == seen[c].buffer # buffer

(* A full buffer is replaced by one twice as long, and freed. *)
PushBack(c) ==
  LET n == seen[c].size IN
  /\ ~BufferGone(c)
  /\ HandlerStep(c, "push_back", "unlock")
  /\ IF n < Len(cells)
     THEN /\ cells' = [cells EXCEPT ![n + 1] = c]
          /\ UNCHANGED buffer
     ELSE /\ cells' = [i \in 1..(IF n = 0 THEN 1 ELSE 2 * n) |->
                         CASE i <= n -> cells[i]
                           [] i = n + 1 -> c
                           [] OTHER -> None]
          /\ buffer' = buffer + 1
  /\ size' = n + 1
  /\ Overlap
  /\ UNCHANGED <<device_mutex, seen, devices, process, stolen>>

(* Releasing the mutex: glibc clears the lock word whoever holds it.  The  *)
(* history records when that takes it from another thread.                 *)
Holding == {"size", "push_back", "unlock", "find", "erase", "delete", "leave"}

Holds(c) == handler[c] \in Holding

Unlock(c, from, to) ==
  /\ HandlerStep(c, from, to)
  /\ device_mutex' = FALSE
  /\ stolen' = (stolen \/ \E d \in Connections \ {c} : Holds(d))
  /\ UNCHANGED <<vector, seen, walk, devices, process>>

(* Mutant: only the lock_guard unlocks. *)
KeepLocked(c) ==
  /\ HandlerStep(c, "unlock", "running")
  /\ UNCHANGED <<vector, device_mutex, seen, walk, devices, process, stolen>>

(* device_mutex.unlock() before start(): the lock_guard is still alive. *)
ExplicitUnlock(c) == Unlock(c, "unlock", "running")

(* Device::start has joined the three threads.  A thread may end for many  *)
(* reasons, but not while it walks the vector.                             *)
ThreadsEnd(c) ==
  /\ walk[c].pc = "idle"
  /\ HandlerStep(c, "running", "remove")
  /\ UNCHANGED <<vector, device_mutex, seen, walk, devices, process, stolen>>

-----------------------------------------------------------------------------
(* ClientManager::removeDevice, called at the end of Device::start *)

(* Mutant: removeDevice without the lock_guard. *)
EnterForRemove(c) ==
  /\ HandlerStep(c, "remove", "find")
  /\ UNCHANGED <<vector, device_mutex, seen, walk, devices, process, stolen>>

LockForRemove(c) == Lock(c, "remove", "find")

(* Mutant: the device is deleted and stays in the vector. *)
FindWithoutErase(c) ==
  /\ HandlerStep(c, "find", "delete")
  /\ UNCHANGED <<vector, device_mutex, seen, walk, devices, process, stolen>>

FoundAt(c, i) == cells[i] = c /\ \A j \in 1..(i - 1) : cells[j] # c

(* Mutant: the result of std::find is not compared with end(). *)
FindUnchecked(c) ==
  /\ \E i \in 1..(size + 1) :
       /\ i <= size => FoundAt(c, i)
       /\ i = size + 1 => c \notin Listed
       /\ seen' = [seen EXCEPT ![c] =
                     [buffer |-> buffer, size |-> size, at |-> i]]
  /\ HandlerStep(c, "find", "erase")
  /\ UNCHANGED <<vector, device_mutex, walk, devices, process, stolen>>

(* stop() finds nothing left to join; then std::find. *)
Find(c) ==
  /\ \/ /\ \E i \in 1..size :
               /\ FoundAt(c, i)
               /\ seen' = [seen EXCEPT ![c] =
                             [buffer |-> buffer, size |-> size, at |-> i]]
          /\ HandlerStep(c, "find", "erase")
     \/ /\ c \notin Listed
        /\ HandlerStep(c, "find", "leave")
        /\ UNCHANGED seen
  /\ UNCHANGED <<vector, device_mutex, walk, devices, process, stolen>>

(* The cells behind the erased one move forward; the last keeps its value. *)
Erase(c) ==
  /\ ~BufferGone(c)
  /\ HandlerStep(c, "erase", "delete")
  /\ cells' = [i \in 1..Len(cells) |->
                 IF i \in seen[c].at..(seen[c].size - 1) THEN cells[i + 1]
                 ELSE cells[i]]
  /\ size' = seen[c].size - 1
  /\ Overlap
  /\ UNCHANGED <<buffer, device_mutex, seen, devices, process, stolen>>

Delete(c) ==
  /\ HandlerStep(c, "delete", "leave")
  /\ freed' = freed \cup {c}
  /\ UNCHANGED <<vector, device_mutex, seen, walk, process, stolen>>

(* The lock_guard of removeDevice. *)
LeaveRemove(c) == Unlock(c, "leave", "guard")

(* The lock_guard of handle_new_connection unlocks a second time. *)
GuardUnlock(c) == Unlock(c, "guard", "done")

(* A change writes to a buffer that another change has freed: two threads  *)
(* were changing the vector.                                               *)
ChangeUsesFreed(c) ==
  /\ Running
  /\ handler[c] \in {"push_back", "erase"}
  /\ BufferGone(c)
  /\ process' = "aborted"
  /\ UNCHANGED <<vector, device_mutex, handler, seen, walk, devices, stolen,
                 pushed>>

-----------------------------------------------------------------------------
(* ClientManager::handle_new_push, run by the watcher of device c without  *)
(* the mutex                                                               *)

WalkStep(c) ==
  /\ Running
  /\ Live(c)
  /\ UNCHANGED <<vector, device_mutex, handler, seen, devices, process, stolen,
                 pushed>>

(* begin() and end() are taken once. *)
WalkBegins(c) ==
  /\ walk[c].pc = "idle"
  /\ WalkStep(c)
  /\ walk' = [walk EXCEPT ![c] = [NotWalking EXCEPT !.pc = "next",
                                    !.buffer = buffer, !.pos = 1, !.end = size,
                                    !.others = Listed \ {c}]]

(* Mutant: the caller is not left out. *)
WalkNextWithCaller(c) ==
  LET w == walk[c] IN
  /\ w.pc = "next"
  /\ w.pos <= w.end
  /\ w.buffer = buffer
  /\ WalkStep(c)
  /\ walk' = [walk EXCEPT ![c] = [w EXCEPT !.pc = "send",
                                           !.target = cells[w.pos]]]

(* The next cell is read, and the caller itself is left out. *)
WalkNext(c) ==
  LET w == walk[c] IN
  /\ w.pc = "next"
  /\ w.pos <= w.end
  /\ w.buffer = buffer
  /\ WalkStep(c)
  /\ walk' = [walk EXCEPT ![c] =
                IF cells[w.pos] # c
                THEN [w EXCEPT !.pc = "send", !.target = cells[w.pos]]
                ELSE [w EXCEPT !.pos = @ + 1]]

(* Device::sendPushTo: waits while the target holds a command. *)
WalkSends(c) ==
  LET w == walk[c] IN
  /\ Running
  /\ w.pc = "send"
  /\ w.target \notin freed
  /\ ~mailbox[w.target]
  /\ mailbox' = [mailbox EXCEPT ![w.target] = TRUE]
  /\ pushed' = [pushed EXCEPT ![c][w.target] = @ + 1]
  /\ walk' = [walk EXCEPT ![c] = [w EXCEPT !.pc = "next", !.pos = @ + 1,
                                    !.target = None]]
  /\ UNCHANGED <<vector, device_mutex, handler, seen, freed,
                 process, stolen>>

(* The pushes to the backups, which change nothing here, and the return. *)
WalkEnds(c) ==
  /\ walk[c].pc = "next"
  /\ walk[c].pos > walk[c].end
  /\ WalkStep(c)
  /\ walk' = [walk EXCEPT ![c].pc = "returned"]

(* The walk reads a freed buffer or stores a command in a freed device, or *)
(* it has returned and the payload of its packet is freed twice.           *)
WalkAborts(c) ==
  LET w == walk[c] IN
  /\ Running
  /\ \/ w.pc = "next" /\ w.pos <= w.end /\ w.buffer # buffer
     \/ w.pc = "send" /\ w.target \in freed /\ ~mailbox[w.target]
     \/ w.pc = "returned"
  /\ process' = "aborted"
  /\ UNCHANGED <<vector, device_mutex, handler, seen, walk, devices, stolen,
                 pushed>>

-----------------------------------------------------------------------------
(* The device *)

(* The push thread writes the command (PushMailbox!Deliver). *)
PushSent(c) ==
  /\ Running
  /\ Live(c)
  /\ mailbox[c]
  /\ mailbox' = [mailbox EXCEPT ![c] = FALSE]
  /\ UNCHANGED <<vector, device_mutex, handler, seen, walk, freed,
                 process, stolen, pushed>>

-----------------------------------------------------------------------------
Connect(c) ==
  \/ Arrive(c) \/ CheckSize(c) \/ Construct(c) \/ ConstructFails(c)
  \/ LockForPushBack(c) \/ ReadSize(c) \/ PushBack(c) \/ ExplicitUnlock(c)
  \/ ThreadsEnd(c)

Remove(c) ==
  \/ LockForRemove(c) \/ Find(c) \/ Erase(c) \/ Delete(c) \/ LeaveRemove(c)
  \/ GuardUnlock(c) \/ ChangeUsesFreed(c)

Walk(c) ==
  \/ WalkBegins(c) \/ WalkNext(c) \/ WalkSends(c) \/ WalkEnds(c)
  \/ WalkAborts(c)

Next ==
  \E c \in Connections :
    Connect(c) \/ Remove(c) \/ Walk(c) \/ PushSent(c)

Spec == Init /\ [][Next]_vars

(* Every thread that can run is scheduled, and one that waits for          *)
(* device_mutex gets it when it is free and nobody else takes it.  Nothing *)
(* makes a client finish connecting, a device end, or a push be sent.      *)
Fairness ==
  \A c \in Connections :
    WF_vars(\/ LockForPushBack(c) \/ ReadSize(c) \/ PushBack(c)
            \/ ExplicitUnlock(c) \/ Remove(c))

FairSpec == Spec /\ Fairness
-----------------------------------------------------------------------------
(* Properties *)

(* Until a thread unlocks device_mutex under another one, at most one      *)
(* thread is in a section it protects, and the lock word says whether one  *)
(* is.  Each handler unlocks twice, before start() and with its guard at   *)
(* the end, and removeDevice locks in between: that the first unlock does  *)
(* no harm, and that exclusion is lost in no other way, is the point.      *)
OneHolder ==
  ~stolen =>
    /\ device_mutex <=> \E c \in Connections : Holds(c)
    /\ \A c, d \in Connections : Holds(c) /\ Holds(d) => c = d

(* As long as exclusion lasts the vector lists exactly the devices that    *)
(* were added and not removed, each once, and none of them is freed.       *)
Registered == {c \in Connections :
                 handler[c] \in {"unlock", "running", "remove", "find", "erase"}}

RegistryConsistent ==
  ~stolen =>
    /\ Listed = Registered
    /\ size = Cardinality(Registered)
    /\ Listed \cap freed = {}

(* Clients that only connect and leave never make the process abort: it    *)
(* aborts only once a device has propagated a change, or after exclusion   *)
(* was lost.                                                               *)
ConnectingIsSafe ==
  process = "aborted" =>
    stolen \/ \E c \in Connections : walk[c].pc # "idle"

(* A push that the vector does not change under is handed to every other   *)
(* listed device exactly once, and to no other.                            *)
UndisturbedPushReachesEach ==
  \A c \in Connections :
    walk[c].pc = "returned" /\ ~walk[c].overlapped /\ ~stolen =>
      \A d \in Connections :
        pushed[c][d] = IF d \in walk[c].others THEN 1 ELSE 0

(* A thread that waits for device_mutex gets through its section: a new    *)
(* device starts, a device that has ended gives its place back.            *)
HandlerProceeds ==
  \A c \in Connections :
    handler[c] \in {"lock", "remove"} ~>
      handler[c] \in {"running", "done"} \/ process = "aborted"

(* What the message of handle_new_connection says, that the limit of       *)
(* devices has been reached (ClientManager.cpp:18): there are never more   *)
(* than max_devices.                                                       *)
DeviceLimit == size <= max_devices

(* What the comment on device_mutex says, that it protects the access to   *)
(* the list (ClientManager.hpp:39): two threads never change the list at   *)
(* the same time.                                                          *)
ExclusiveChange ==
  \A c, d \in Connections : Holds(c) /\ Holds(d) => c = d
=============================================================================
