------------------------------- MODULE Device -------------------------------
(***************************************************************************)
(* One connected device of the server (src/Server/Device.cpp): its command *)
(* thread, push thread and file-watcher thread, the thread in              *)
(* Device::start that joins them, and the threads of other devices that    *)
(* hand it a push through Device::sendPushTo.                              *)
(*                                                                         *)
(* A caller is the file-watcher thread of another device of the same user, *)
(* inside ClientManager::handle_new_push.  It reaches this device at most  *)
(* once: when handle_new_push returns, its by-value copy of the packet and *)
(* the caller's packet both free the same payload and the process aborts.  *)
(* A push command is named by the caller that hands it over: WRITE and     *)
(* DELETE commands take the same path through the fields modelled here.    *)
(*                                                                         *)
(* Memory of a deleted Device is not reused: the Makefile builds with the  *)
(* address sanitizer, so an access to it aborts the process.               *)
(***************************************************************************)
EXTENDS Naturals, Sequences

CONSTANT Callers

VARIABLES
  (* fields of Device *)
  stop_requested,       \* atomic flag, set once
  send_push,            \* atomic flag: a command waits for the push thread
  push_lock,            \* lock word of the mutex, locked by sendPushTo and
                        \* unlocked by the push thread
  push_command,         \* push_type and push_command
  (* where each thread is *)
  command_thread, push_thread, file_watcher_thread, start, caller,
  (* the environment *)
  client,               \* TRUE while the client process has its sockets open
  process,              \* "running", or "aborted"
  (* history *)
  missed,               \* the last notify_one came while the push thread was
                        \* between its test of the flags and blocking
  accepted,             \* commands stored in push_command, in order
  sent                  \* commands written to the push socket, in order

fields == <<stop_requested, send_push, push_lock, push_command>>
threads == <<command_thread, push_thread, file_watcher_thread, start, caller>>
history == <<accepted, sent>>
vars == <<fields, threads, client, process, missed, history>>

NoCommand == "no command"

CommandPC == {"check", "recv", "spin", "notify", "done"}
PushPC == {"check", "predicate", "sleep", "blocked", "act", "send",
           "clear", "unlock", "done"}
WatcherPC == {"check", "recv", "spin", "propagate", "done"}
StartPC == {"join command", "join push", "join watcher", "remove", "deleted"}
CallerPC == {"idle", "lock", "store", "flag", "notify", "returned"}

TypeOK ==
  /\ stop_requested \in BOOLEAN
  /\ send_push \in BOOLEAN
  /\ push_lock \in BOOLEAN
  /\ push_command \in Callers \cup {NoCommand}
  /\ command_thread \in CommandPC
  /\ push_thread \in PushPC
  /\ file_watcher_thread \in WatcherPC
  /\ start \in StartPC
  /\ caller \in [Callers -> CallerPC]
  /\ client \in BOOLEAN
  /\ process \in {"running", "aborted"}
  /\ missed \in BOOLEAN
  /\ accepted \in Seq(Callers)
  /\ sent \in Seq(Callers)

-----------------------------------------------------------------------------
(* The constructor has accepted both extra connections and start() has     *)
(* created the three threads.                                              *)

Init ==
  /\ stop_requested = FALSE
  /\ send_push = FALSE
  /\ push_lock = FALSE
  /\ push_command = NoCommand
  /\ command_thread = "check"
  /\ push_thread = "check"
  /\ file_watcher_thread = "check"
  /\ start = "join command"
  /\ caller = [c \in Callers |-> "idle"]
  /\ client = TRUE
  /\ process = "running"
  /\ missed = FALSE
  /\ accepted = << >>
  /\ sent = << >>

(* condition_variable::notify_one: only a thread already blocked is woken. *)
NotifyOne ==
  /\ push_thread' = IF push_thread = "blocked" THEN "predicate" ELSE push_thread
  /\ missed' = (push_thread = "sleep")

-----------------------------------------------------------------------------
(* Device::commandThread *)

Running == process = "running"

CommandStep(from, to) ==
  /\ Running
  /\ command_thread = from
  /\ command_thread' = to
  /\ UNCHANGED <<send_push, push_lock, push_command, file_watcher_thread,
                 start, caller, client, history>>

CommandCheck ==
  /\ CommandStep("check", IF stop_requested THEN "notify" ELSE "recv")
  /\ UNCHANGED <<stop_requested, push_thread, missed, process>>

(* A command is received and answered; none of them changes the device. *)
CommandServe ==
  /\ CommandStep("recv", "check")
  /\ UNCHANGED <<stop_requested, push_thread, missed, process>>

(* receivePacket or sendPacket throws: the client has closed its sockets,  *)
(* or the file listing is longer than one packet may be.                   *)
CommandFail ==
  /\ CommandStep("recv", "notify")
  /\ stop_requested' = TRUE
  /\ UNCHANGED <<push_thread, missed, process>>

(* The connection ends inside a payload.  After an orderly close recv      *)
(* returns 0 and receivePayload adds nothing to its total for ever; after  *)
(* a reset it frees the payload that the packet frees again.               *)
EndsInPayload == ~client /\ UNCHANGED stop_requested

CommandSpins ==
  /\ EndsInPayload
  /\ CommandStep("recv", "spin")
  /\ UNCHANGED <<push_thread, missed, process>>

CommandFreesTwice ==
  /\ EndsInPayload
  /\ CommandStep("recv", "done")
  /\ process' = "aborted"
  /\ UNCHANGED <<push_thread, missed>>

(* Mutant: the push thread is not notified. *)
CommandEndsSilently ==
  /\ CommandStep("notify", "done")
  /\ UNCHANGED <<stop_requested, push_thread, missed, process>>

CommandNotify ==
  /\ CommandStep("notify", "done")
  /\ NotifyOne
  /\ UNCHANGED <<stop_requested, process>>

-----------------------------------------------------------------------------
(* Device::pushThread.  push_mutex is locked by this thread only, so it    *)
(* does not order the predicate with the writers of the two flags.         *)

PushStep(from, to) ==
  /\ Running
  /\ push_thread = from
  /\ push_thread' = to
  /\ UNCHANGED <<command_thread, file_watcher_thread, start, caller, client,
                 process>>

PushCheck ==
  /\ PushStep("check", IF stop_requested THEN "done" ELSE "predicate")
  /\ UNCHANGED <<fields, missed, history>>

(* Mutant: wait() without its predicate. *)
PushWakesUnchecked ==
  /\ PushStep("predicate", "act")
  /\ missed' = FALSE
  /\ UNCHANGED <<fields, history>>

PushPredicate ==
  /\ PushStep("predicate",
              IF send_push \/ stop_requested THEN "act" ELSE "sleep")
  /\ missed' = FALSE
  /\ UNCHANGED <<fields, history>>

(* wait() blocks after the predicate was found false. *)
PushSleep ==
  /\ PushStep("sleep", "blocked")
  /\ UNCHANGED <<fields, missed, history>>

SpuriousWakeup ==
  /\ PushStep("blocked", "predicate")
  /\ UNCHANGED <<fields, missed, history>>

(* Mutant: a thread woken by stop_requested sends. *)
PushActsOnStop ==
  /\ PushStep("act", "send")
  /\ UNCHANGED <<fields, missed, history>>

PushAct ==
  /\ PushStep("act", IF stop_requested THEN "done" ELSE "send")
  /\ UNCHANGED <<fields, missed, history>>

PushSend ==
  /\ PushStep("send", "clear")
  /\ sent' = Append(sent, push_command)
  /\ UNCHANGED <<fields, missed, accepted>>

(* Mutant: a failed push unlocks the mailbox and leaves its command set. *)
PushFailUnlocks ==
  /\ ~client
  /\ PushStep("send", "done")
  /\ stop_requested' = TRUE
  /\ push_lock' = FALSE
  /\ UNCHANGED <<send_push, push_command, missed, history>>

(* sendPacket throws; push_lock stays locked and send_push stays set. *)
PushFail ==
  /\ ~client
  /\ PushStep("send", "done")
  /\ stop_requested' = TRUE
  /\ UNCHANGED <<send_push, push_lock, push_command, missed, history>>

PushClear ==
  /\ PushStep("clear", "unlock")
  /\ send_push' = FALSE
  /\ UNCHANGED <<stop_requested, push_lock, push_command, missed, history>>

(* Mutant: the mailbox stays locked after a push. *)
PushKeepsLock ==
  /\ PushStep("unlock", "check")
  /\ UNCHANGED <<fields, missed, history>>

PushUnlock ==
  /\ PushStep("unlock", "check")
  /\ push_lock' = FALSE
  /\ UNCHANGED <<stop_requested, send_push, push_command, missed, history>>

-----------------------------------------------------------------------------
(* Device::fileWatcherThread, its file handling abstracted to whether the  *)
(* packet ends in a propagation.                                           *)

WatcherStep(from, to) ==
  /\ Running
  /\ file_watcher_thread = from
  /\ file_watcher_thread' = to
  /\ UNCHANGED <<send_push, push_lock, push_command, command_thread,
                 push_thread, start, caller, client, missed, history>>

WatcherCheck ==
  /\ WatcherStep("check", IF stop_requested THEN "done" ELSE "recv")
  /\ UNCHANGED <<stop_requested, process>>

(* Unchanged content, a DELETE of a file that is not there, or a packet    *)
(* that is neither WRITE nor DELETE.                                       *)
WatcherServe ==
  /\ WatcherStep("recv", "check")
  /\ UNCHANGED <<stop_requested, process>>

(* The socket or a file operation throws.  No notify_one on this path. *)
WatcherFail ==
  /\ WatcherStep("recv", "done")
  /\ stop_requested' = TRUE
  /\ UNCHANGED process

WatcherPropagate ==
  /\ WatcherStep("recv", "propagate")
  /\ UNCHANGED <<stop_requested, process>>

WatcherSpins ==
  /\ EndsInPayload
  /\ WatcherStep("recv", "spin")
  /\ UNCHANGED process

(* A payload is freed twice: the connection was reset inside it, or        *)
(* handle_new_push(packet pkt, ...) took the packet by value and freed it. *)
WatcherFreesTwice ==
  /\ \/ WatcherStep("recv", "done") /\ EndsInPayload
     \/ WatcherStep("propagate", "done") /\ UNCHANGED stop_requested
  /\ process' = "aborted"

-----------------------------------------------------------------------------
(* Device::sendPushTo, run by the thread of caller c *)

CallStep(c, from, to) ==
  /\ Running
  /\ start # "deleted"
  /\ caller[c] = from
  /\ caller' = [caller EXCEPT ![c] = to]
  /\ UNCHANGED <<stop_requested, command_thread, file_watcher_thread, start,
                 client, process, sent>>

(* The caller has found this device in the list. *)
CallBegin(c) ==
  /\ CallStep(c, "idle", "lock")
  /\ UNCHANGED <<send_push, push_lock, push_command, push_thread, missed,
                 accepted>>

(* Mutant: the mailbox is taken without waiting for its lock. *)
CallBargesIn(c) ==
  /\ CallStep(c, "lock", "store")
  /\ push_lock' = TRUE
  /\ UNCHANGED <<send_push, push_command, push_thread, missed, accepted>>

CallLock(c) ==
  /\ ~push_lock
  /\ CallStep(c, "lock", "store")
  /\ push_lock' = TRUE
  /\ UNCHANGED <<send_push, push_command, push_thread, missed, accepted>>

CallStore(c) ==
  /\ CallStep(c, "store", "flag")
  /\ push_command' = c
  /\ accepted' = Append(accepted, c)
  /\ UNCHANGED <<send_push, push_lock, push_thread, missed>>

CallFlag(c) ==
  /\ CallStep(c, "flag", "notify")
  /\ send_push' = TRUE
  /\ UNCHANGED <<push_lock, push_command, push_thread, missed, accepted>>

(* Mutant: the push thread is not notified. *)
CallEndsSilently(c) ==
  /\ CallStep(c, "notify", "returned")
  /\ UNCHANGED <<send_push, push_lock, push_command, push_thread, missed,
                 accepted>>

CallNotify(c) ==
  /\ CallStep(c, "notify", "returned")
  /\ NotifyOne
  /\ UNCHANGED <<send_push, push_lock, push_command, accepted>>

(* The call touches the memory of a device that has been deleted.  A call  *)
(* still waiting for a lock nobody will unlock stays blocked instead.      *)
CallUsesFreed(c) ==
  /\ Running
  /\ start = "deleted"
  /\ \/ caller[c] \in {"store", "flag", "notify"}
     \/ caller[c] = "lock" /\ ~push_lock
  /\ process' = "aborted"
  /\ UNCHANGED <<fields, threads, client, missed, history>>

(* The caller's own handle_new_push returns and its thread frees twice. *)
CallerFreesTwice(c) ==
  /\ Running
  /\ caller[c] = "returned"
  /\ process' = "aborted"
  /\ UNCHANGED <<fields, threads, client, missed, history>>

-----------------------------------------------------------------------------
(* Device::start, ClientManager::removeDevice and Device::stop *)

StartStep(from, to) ==
  /\ Running
  /\ start = from
  /\ start' = to
  /\ UNCHANGED <<send_push, push_lock, push_command, command_thread,
                 push_thread, file_watcher_thread, caller, client, process,
                 missed, history>>

JoinCommand ==
  /\ command_thread = "done"
  /\ StartStep("join command", "join push")
  /\ UNCHANGED stop_requested

JoinPush ==
  /\ push_thread = "done"
  /\ StartStep("join push", "join watcher")
  /\ UNCHANGED stop_requested

(* Mutant: the watcher is not joined. *)
SkipWatcher ==
  /\ StartStep("join watcher", "remove")
  /\ UNCHANGED stop_requested

JoinWatcher ==
  /\ file_watcher_thread = "done"
  /\ StartStep("join watcher", "remove")
  /\ UNCHANGED stop_requested

(* stop() finds no thread left to join, and the object is freed. *)
RemoveDevice ==
  /\ StartStep("remove", "deleted")
  /\ stop_requested' = TRUE

ClientLeaves ==
  /\ Running
  /\ client
  /\ client' = FALSE
  /\ UNCHANGED <<fields, threads, process, missed, history>>

-----------------------------------------------------------------------------
Command == \/ CommandCheck \/ CommandServe \/ CommandFail \/ CommandSpins
           \/ CommandFreesTwice \/ CommandNotify

Push == \/ PushCheck \/ PushPredicate \/ PushSleep \/ SpuriousWakeup \/ PushAct
        \/ PushSend \/ PushFail \/ PushClear \/ PushUnlock

Watcher == \/ WatcherCheck \/ WatcherServe \/ WatcherFail \/ WatcherPropagate
           \/ WatcherSpins \/ WatcherFreesTwice

Start == JoinCommand \/ JoinPush \/ JoinWatcher \/ RemoveDevice

Call(c) == \/ CallBegin(c) \/ CallLock(c) \/ CallStore(c) \/ CallFlag(c)
           \/ CallNotify(c) \/ CallUsesFreed(c) \/ CallerFreesTwice(c)

Next == \/ Command \/ Push \/ Watcher \/ Start \/ ClientLeaves
        \/ \E c \in Callers : Call(c)

Spec == Init /\ [][Next]_vars

(* Every thread that can run is scheduled.  The client need not do         *)
(* anything, but once it has closed its sockets the packets still buffered *)
(* run out and the receiving thread fails, unless the last one is cut      *)
(* short.  Nothing makes a propagation of this device end: it may wait for *)
(* another device for ever.                                                *)
Fairness ==
  /\ WF_vars(CommandCheck) /\ WF_vars(CommandNotify)
  /\ SF_vars(~client /\ CommandFail)
  /\ WF_vars(PushCheck) /\ WF_vars(PushPredicate) /\ WF_vars(PushSleep)
  /\ WF_vars(PushAct) /\ WF_vars(PushSend \/ PushFail) /\ WF_vars(PushClear)
  /\ WF_vars(PushUnlock)
  /\ WF_vars(WatcherCheck) /\ SF_vars(~client /\ WatcherFail)
  /\ WF_vars(Start)
  /\ \A c \in Callers : /\ WF_vars(CallLock(c)) /\ WF_vars(CallStore(c))
                        /\ WF_vars(CallFlag(c)) /\ WF_vars(CallNotify(c))

FairSpec == Spec /\ Fairness
-----------------------------------------------------------------------------
(* Properties *)

(* Who holds the mailbox: push_lock is locked by sendPushTo in one thread  *)
(* and unlocked by the push thread, so its holder is spread over three     *)
(* places.  It is locked exactly while a caller stores a command, a stored *)
(* command waits or is being sent, or the push thread is about to unlock;  *)
(* and at any time only one of these is the case.                          *)
Storing(c) == caller[c] \in {"store", "flag"}

MailboxHeldOnce ==
  /\ push_lock <=> \/ \E c \in Callers : Storing(c)
                   \/ send_push
                   \/ push_thread = "unlock"
  /\ \A c \in Callers : Storing(c) => ~send_push /\ push_thread # "unlock"
  /\ \A c, d \in Callers : Storing(c) /\ Storing(d) => c = d
  /\ push_thread = "unlock" => ~send_push

(* The push thread sends only a command that was handed to it: it is never *)
(* woken by stop_requested alone into sending an old or missing command,   *)
(* and no caller writes push_command while it is being read.               *)
SendsHandedCommand ==
  push_thread \in {"send", "clear"} =>
    /\ send_push
    /\ push_command \in Callers
    /\ \A c \in Callers : ~Storing(c)

(* start() reaches removeDevice, and so delete, only when stop was         *)
(* requested and none of the device's own threads can run again.           *)
RemovedWhenThreadsEnded ==
  /\ start # "join command" => stop_requested
  /\ start \in {"remove", "deleted"} =>
       /\ command_thread = "done"
       /\ push_thread = "done"
       /\ file_watcher_thread = "done"

(* The device implements the one-place mailbox: every command accepted is  *)
(* written once and in order, none is overwritten, none after the end of   *)
(* the push thread.                                                        *)
Mailbox == INSTANCE PushMailbox
             WITH Commands <- Callers, delivered <- sent,
                  closed <- push_thread = "done"

ImplementsMailbox == Mailbox!MailboxSpec

(* The push thread is blocked and the last notification came just too      *)
(* early: between its test of the flags and wait().                        *)
LostWakeup == push_thread = "blocked" /\ missed

Aborted == process = "aborted"

(* A command that was handed over is written to the socket, unless the     *)
(* push thread ends or its wakeup is lost.                                 *)
PushIsSent ==
  send_push ~> (~send_push \/ push_thread = "done" \/ LostWakeup \/ Aborted)

(* A caller waits for push_lock for ever only if the push thread ended or  *)
(* missed a wakeup while holding it.                                       *)
CallerProceeds ==
  \A c \in Callers :
    caller[c] = "lock" ~> \/ caller[c] # "lock" \/ push_thread = "done"
                          \/ LostWakeup \/ Aborted

(* When the client leaves, the device is deleted for good and its place in *)
(* the list freed, unless it stays for ever with a push thread that missed *)
(* the last wakeup, a connection that ended inside a packet, or a watcher  *)
(* that waits in its propagation.                                          *)
LeavingEndsDevice ==
  ~client ~> [](\/ start = "deleted" \/ Aborted
                \/ command_thread = "done" /\ LostWakeup
                \/ command_thread = "spin"
                \/ file_watcher_thread \in {"spin", "propagate"})

(* What the comment on commandThread's last statement says: ending the     *)
(* command thread releases the push thread so that it ends too             *)
(* (Device.cpp:86).                                                        *)
CommandEndReleasesPush ==
  command_thread = "done" ~> (push_thread = "done" \/ Aborted)
=============================================================================
