---------------------------- MODULE DeviceProofs ----------------------------
(***************************************************************************)
(* Proofs about one device, for any number of threads that hand it pushes: *)
(* type correctness, who holds the mailbox, what is sent, when the device  *)
(* is removed, and that it implements PushMailbox.                         *)
(***************************************************************************)
EXTENDS Device, SequenceTheorems, TLAPS

(* The history agrees with the mailbox: with the lock free, or a caller    *)
(* that has not stored its command yet, everything accepted was sent; a    *)
(* stored command is the only one accepted and not sent.                   *)
HistoryAgrees ==
  /\ ~push_lock => accepted = sent
  /\ \A c \in Callers :
       /\ caller[c] = "store" => accepted = sent
       /\ caller[c] = "flag" => accepted = Append(sent, c) /\ push_command = c
  /\ send_push /\ push_thread # "clear" =>
       /\ push_command \in Callers
       /\ accepted = Append(sent, push_command)
  /\ push_thread \in {"clear", "unlock"} => accepted = sent

(* The push thread passes its test of the flags only with a command or a   *)
(* request to stop.                                                        *)
WokenForCommand ==
  /\ push_thread = "act" /\ ~stop_requested => send_push
  /\ push_thread \in {"send", "clear"} => send_push /\ push_command \in Callers

(* How far start() has got, and what the threads it joined have done.      *)
JoinedInOrder ==
  /\ Running /\ command_thread \in {"notify", "done"} => stop_requested
  /\ start # "join command" => stop_requested /\ command_thread = "done"
  /\ start \notin {"join command", "join push"} => push_thread = "done"
  /\ start \in {"remove", "deleted"} => file_watcher_thread = "done"

MailboxInv == MailboxHeldOnce /\ HistoryAgrees /\ WokenForCommand

IInv == TypeOK /\ MailboxInv /\ JoinedInOrder

(* Every step keeps the type of every variable. *)
LEMMA TypeNext ==
  ASSUME TypeOK, WokenForCommand, [Next]_vars
  PROVE  TypeOK'
<1> USE DEF TypeOK, vars, fields, threads, history, Running
<1>1. CASE Command
  <2>1. CASE CommandCheck
    BY <2>1 DEF CommandCheck, CommandStep, CommandPC
  <2>2. CASE CommandServe
    BY <2>2 DEF CommandServe, CommandStep, CommandPC
  <2>3. CASE CommandFail
    BY <2>3 DEF CommandFail, CommandStep, CommandPC
  <2>4. CASE CommandSpins
    BY <2>4 DEF CommandSpins, CommandStep, EndsInPayload, CommandPC
  <2>5. CASE CommandFreesTwice
    BY <2>5 DEF CommandFreesTwice, CommandStep, EndsInPayload, CommandPC
  <2>6. CASE CommandNotify
    BY <2>6 DEF CommandNotify, CommandStep, NotifyOne, CommandPC, PushPC
  <2>7. QED
    BY <1>1, <2>1, <2>2, <2>3, <2>4, <2>5, <2>6 DEF Command
<1>2. CASE Push
  <2>1. CASE PushCheck
    BY <2>1 DEF PushCheck, PushStep, PushPC
  <2>2. CASE PushPredicate
    BY <2>2 DEF PushPredicate, PushStep, PushPC
  <2>3. CASE PushSleep
    BY <2>3 DEF PushSleep, PushStep, PushPC
  <2>4. CASE SpuriousWakeup
    BY <2>4 DEF SpuriousWakeup, PushStep, PushPC
  <2>5. CASE PushAct
    BY <2>5 DEF PushAct, PushStep, PushPC
  <2>6. CASE PushSend
    BY <2>6 DEF PushSend, PushStep, WokenForCommand, PushPC
  <2>7. CASE PushFail
    BY <2>7 DEF PushFail, PushStep, PushPC
  <2>8. CASE PushClear
    BY <2>8 DEF PushClear, PushStep, PushPC
  <2>9. CASE PushUnlock
    BY <2>9 DEF PushUnlock, PushStep, PushPC
  <2>10. QED
    BY <1>2, <2>1, <2>2, <2>3, <2>4, <2>5, <2>6, <2>7, <2>8, <2>9 DEF Push
<1>3. CASE Watcher
  <2>1. CASE WatcherCheck
    BY <2>1 DEF WatcherCheck, WatcherStep, WatcherPC
  <2>2. CASE WatcherServe
    BY <2>2 DEF WatcherServe, WatcherStep, WatcherPC
  <2>3. CASE WatcherFail
    BY <2>3 DEF WatcherFail, WatcherStep, WatcherPC
  <2>4. CASE WatcherPropagate
    BY <2>4 DEF WatcherPropagate, WatcherStep, WatcherPC
  <2>5. CASE WatcherSpins
    BY <2>5 DEF WatcherSpins, WatcherStep, EndsInPayload, WatcherPC
  <2>6. CASE WatcherFreesTwice
    <3>1. CASE EndsInPayload /\ WatcherStep("recv", "done")
      BY <2>6, <3>1 DEF WatcherFreesTwice, WatcherStep, EndsInPayload, WatcherPC
    <3>2. CASE WatcherStep("propagate", "done") /\ UNCHANGED stop_requested
      BY <2>6, <3>2 DEF WatcherFreesTwice, WatcherStep, EndsInPayload, WatcherPC
    <3>3. QED
      BY <2>6, <3>1, <3>2 DEF WatcherFreesTwice
  <2>7. QED
    BY <1>3, <2>1, <2>2, <2>3, <2>4, <2>5, <2>6 DEF Watcher
<1>4. CASE Start
  <2>1. CASE JoinCommand
    BY <2>1 DEF JoinCommand, StartStep, StartPC
  <2>2. CASE JoinPush
    BY <2>2 DEF JoinPush, StartStep, StartPC
  <2>3. CASE JoinWatcher
    BY <2>3 DEF JoinWatcher, StartStep, StartPC
  <2>4. CASE RemoveDevice
    BY <2>4 DEF RemoveDevice, StartStep, StartPC
  <2>5. QED
    BY <1>4, <2>1, <2>2, <2>3, <2>4 DEF Start
<1>5. ASSUME NEW c \in Callers, Call(c)
     PROVE  TypeOK'
  <2>1. CASE CallBegin(c)
    BY <2>1 DEF CallBegin, CallStep, CallerPC
  <2>2. CASE CallLock(c)
    BY <2>2 DEF CallLock, CallStep, CallerPC
  <2>3. CASE CallStore(c)
    BY <2>3 DEF CallStore, CallStep, CallerPC
  <2>4. CASE CallFlag(c)
    BY <2>4 DEF CallFlag, CallStep, CallerPC
  <2>5. CASE CallNotify(c)
    BY <2>5 DEF CallNotify, CallStep, NotifyOne, CallerPC, PushPC
  <2>6. CASE CallUsesFreed(c)
    BY <2>6 DEF CallUsesFreed, CallerPC
  <2>7. CASE CallerFreesTwice(c)
    BY <2>7 DEF CallerFreesTwice, CallerPC
  <2>8. QED
    BY <1>5, <2>1, <2>2, <2>3, <2>4, <2>5, <2>6, <2>7 DEF Call
<1>6. CASE ClientLeaves
  BY <1>6 DEF ClientLeaves
<1>7. CASE UNCHANGED vars
  BY <1>7
<1>8. QED
  BY <1>1, <1>2, <1>3, <1>4, <1>5, <1>6, <1>7 DEF Next

(* Every step keeps the mailbox and its history in agreement. *)
LEMMA MailboxStep ==
  ASSUME TypeOK, MailboxInv, [Next]_vars
  PROVE  MailboxInv'
<1> USE DEF TypeOK, vars, fields, threads, history, Running, MailboxInv, MailboxHeldOnce,
        HistoryAgrees, WokenForCommand, Storing, CommandPC, PushPC, WatcherPC,
        StartPC, CallerPC
<1>1. CASE Command
  <2>1. CASE CommandCheck
    BY <2>1 DEF CommandCheck, CommandStep
  <2>2. CASE CommandServe
    BY <2>2 DEF CommandServe, CommandStep
  <2>3. CASE CommandFail
    BY <2>3 DEF CommandFail, CommandStep
  <2>4. CASE CommandSpins
    BY <2>4 DEF CommandSpins, CommandStep, EndsInPayload
  <2>5. CASE CommandFreesTwice
    BY <2>5 DEF CommandFreesTwice, CommandStep, EndsInPayload
  <2>6. CASE CommandNotify
    BY <2>6 DEF CommandNotify, CommandStep, NotifyOne
  <2>7. QED
    BY <1>1, <2>1, <2>2, <2>3, <2>4, <2>5, <2>6 DEF Command
<1>2. CASE Push
  <2>1. CASE PushCheck
    BY <2>1 DEF PushCheck, PushStep
  <2>2. CASE PushPredicate
    BY <2>2 DEF PushPredicate, PushStep
  <2>3. CASE PushSleep
    BY <2>3 DEF PushSleep, PushStep
  <2>4. CASE SpuriousWakeup
    BY <2>4 DEF SpuriousWakeup, PushStep
  <2>5. CASE PushAct
    BY <2>5 DEF PushAct, PushStep
  <2>6. CASE PushSend
    BY <2>6 DEF PushSend, PushStep
  <2>7. CASE PushFail
    BY <2>7 DEF PushFail, PushStep
  <2>8. CASE PushClear
    BY <2>8 DEF PushClear, PushStep
  <2>9. CASE PushUnlock
    BY <2>9 DEF PushUnlock, PushStep
  <2>10. QED
    BY <1>2, <2>1, <2>2, <2>3, <2>4, <2>5, <2>6, <2>7, <2>8, <2>9 DEF Push
<1>3. CASE Watcher
  <2>1. CASE WatcherCheck
    BY <2>1 DEF WatcherCheck, WatcherStep
  <2>2. CASE WatcherServe
    BY <2>2 DEF WatcherServe, WatcherStep
  <2>3. CASE WatcherFail
    BY <2>3 DEF WatcherFail, WatcherStep
  <2>4. CASE WatcherPropagate
    BY <2>4 DEF WatcherPropagate, WatcherStep
  <2>5. CASE WatcherSpins
    BY <2>5 DEF WatcherSpins, WatcherStep, EndsInPayload
  <2>6. CASE WatcherFreesTwice
    <3>1. CASE EndsInPayload /\ WatcherStep("recv", "done")
      BY <2>6, <3>1 DEF WatcherFreesTwice, WatcherStep, EndsInPayload
    <3>2. CASE WatcherStep("propagate", "done") /\ UNCHANGED stop_requested
      BY <2>6, <3>2 DEF WatcherFreesTwice, WatcherStep, EndsInPayload
    <3>3. QED
      BY <2>6, <3>1, <3>2 DEF WatcherFreesTwice
  <2>7. QED
    BY <1>3, <2>1, <2>2, <2>3, <2>4, <2>5, <2>6 DEF Watcher
<1>4. CASE Start
  <2>1. CASE JoinCommand
    BY <2>1 DEF JoinCommand, StartStep
  <2>2. CASE JoinPush
    BY <2>2 DEF JoinPush, StartStep
  <2>3. CASE JoinWatcher
    BY <2>3 DEF JoinWatcher, StartStep
  <2>4. CASE RemoveDevice
    BY <2>4 DEF RemoveDevice, StartStep
  <2>5. QED
    BY <1>4, <2>1, <2>2, <2>3, <2>4 DEF Start
<1>5. ASSUME NEW c \in Callers, Call(c)
     PROVE  MailboxInv'
  <2>1. CASE CallBegin(c)
    BY <2>1 DEF CallBegin, CallStep
  <2>2. CASE CallLock(c)
    BY <2>2 DEF CallLock, CallStep
  <2>3. CASE CallStore(c)
    BY <2>3 DEF CallStore, CallStep
  <2>4. CASE CallFlag(c)
    BY <2>4 DEF CallFlag, CallStep
  <2>5. CASE CallNotify(c)
    BY <2>5 DEF CallNotify, CallStep, NotifyOne
  <2>6. CASE CallUsesFreed(c)
    BY <2>6 DEF CallUsesFreed
  <2>7. CASE CallerFreesTwice(c)
    BY <2>7 DEF CallerFreesTwice
  <2>8. QED
    BY <1>5, <2>1, <2>2, <2>3, <2>4, <2>5, <2>6, <2>7 DEF Call
<1>6. CASE ClientLeaves
  BY <1>6 DEF ClientLeaves
<1>7. CASE UNCHANGED vars
  BY <1>7
<1>8. QED
  BY <1>1, <1>2, <1>3, <1>4, <1>5, <1>6, <1>7 DEF Next

(* start() never gets ahead of the threads it joins. *)
LEMMA JoinedNext ==
  ASSUME TypeOK, JoinedInOrder, [Next]_vars
  PROVE  JoinedInOrder'
<1> USE DEF TypeOK, vars, fields, threads, history, Running, JoinedInOrder
<1>1. CASE Command
  <2>1. CASE CommandCheck
    BY <2>1 DEF CommandCheck, CommandStep
  <2>2. CASE CommandServe
    BY <2>2 DEF CommandServe, CommandStep
  <2>3. CASE CommandFail
    BY <2>3 DEF CommandFail, CommandStep
  <2>4. CASE CommandSpins
    BY <2>4 DEF CommandSpins, CommandStep, EndsInPayload
  <2>5. CASE CommandFreesTwice
    BY <2>5 DEF CommandFreesTwice, CommandStep, EndsInPayload
  <2>6. CASE CommandNotify
    BY <2>6 DEF CommandNotify, CommandStep, NotifyOne
  <2>7. QED
    BY <1>1, <2>1, <2>2, <2>3, <2>4, <2>5, <2>6 DEF Command
<1>2. CASE Push
  <2>1. CASE PushCheck
    BY <2>1 DEF PushCheck, PushStep
  <2>2. CASE PushPredicate
    BY <2>2 DEF PushPredicate, PushStep
  <2>3. CASE PushSleep
    BY <2>3 DEF PushSleep, PushStep
  <2>4. CASE SpuriousWakeup
    BY <2>4 DEF SpuriousWakeup, PushStep
  <2>5. CASE PushAct
    BY <2>5 DEF PushAct, PushStep
  <2>6. CASE PushSend
    BY <2>6 DEF PushSend, PushStep
  <2>7. CASE PushFail
    BY <2>7 DEF PushFail, PushStep
  <2>8. CASE PushClear
    BY <2>8 DEF PushClear, PushStep
  <2>9. CASE PushUnlock
    BY <2>9 DEF PushUnlock, PushStep
  <2>10. QED
    BY <1>2, <2>1, <2>2, <2>3, <2>4, <2>5, <2>6, <2>7, <2>8, <2>9 DEF Push
<1>3. CASE Watcher
  <2>1. CASE WatcherCheck
    BY <2>1 DEF WatcherCheck, WatcherStep
  <2>2. CASE WatcherServe
    BY <2>2 DEF WatcherServe, WatcherStep
  <2>3. CASE WatcherFail
    BY <2>3 DEF WatcherFail, WatcherStep
  <2>4. CASE WatcherPropagate
    BY <2>4 DEF WatcherPropagate, WatcherStep
  <2>5. CASE WatcherSpins
    BY <2>5 DEF WatcherSpins, WatcherStep, EndsInPayload
  <2>6. CASE WatcherFreesTwice
    <3>1. CASE EndsInPayload /\ WatcherStep("recv", "done")
      BY <2>6, <3>1 DEF WatcherFreesTwice, WatcherStep, EndsInPayload
    <3>2. CASE WatcherStep("propagate", "done") /\ UNCHANGED stop_requested
      BY <2>6, <3>2 DEF WatcherFreesTwice, WatcherStep, EndsInPayload
    <3>3. QED
      BY <2>6, <3>1, <3>2 DEF WatcherFreesTwice
  <2>7. QED
    BY <1>3, <2>1, <2>2, <2>3, <2>4, <2>5, <2>6 DEF Watcher
<1>4. CASE Start
  <2>1. CASE JoinCommand
    BY <2>1 DEF JoinCommand, StartStep
  <2>2. CASE JoinPush
    BY <2>2 DEF JoinPush, StartStep
  <2>3. CASE JoinWatcher
    BY <2>3 DEF JoinWatcher, StartStep
  <2>4. CASE RemoveDevice
    BY <2>4 DEF RemoveDevice, StartStep
  <2>5. QED
    BY <1>4, <2>1, <2>2, <2>3, <2>4 DEF Start
<1>5. ASSUME NEW c \in Callers, Call(c)
     PROVE  JoinedInOrder'
  <2>1. CASE CallBegin(c)
    BY <2>1 DEF CallBegin, CallStep
  <2>2. CASE CallLock(c)
    BY <2>2 DEF CallLock, CallStep
  <2>3. CASE CallStore(c)
    BY <2>3 DEF CallStore, CallStep
  <2>4. CASE CallFlag(c)
    BY <2>4 DEF CallFlag, CallStep
  <2>5. CASE CallNotify(c)
    BY <2>5 DEF CallNotify, CallStep, NotifyOne
  <2>6. CASE CallUsesFreed(c)
    BY <2>6 DEF CallUsesFreed
  <2>7. CASE CallerFreesTwice(c)
    BY <2>7 DEF CallerFreesTwice
  <2>8. QED
    BY <1>5, <2>1, <2>2, <2>3, <2>4, <2>5, <2>6, <2>7 DEF Call
<1>6. CASE ClientLeaves
  BY <1>6 DEF ClientLeaves
<1>7. CASE UNCHANGED vars
  BY <1>7
<1>8. QED
  BY <1>1, <1>2, <1>3, <1>4, <1>5, <1>6, <1>7 DEF Next

(* A new device satisfies the invariant. *)
LEMMA InvInit ==
  Init => IInv
<1> SUFFICES ASSUME Init PROVE IInv
  OBVIOUS
<1>1. TypeOK
  <2>1. caller \in [Callers -> CallerPC]
    BY DEF Init, CallerPC
  <2>2. command_thread \in CommandPC /\ push_thread \in PushPC
    BY DEF Init, CommandPC, PushPC
  <2>3. file_watcher_thread \in WatcherPC /\ start \in StartPC
    BY DEF Init, WatcherPC, StartPC
  <2>4. accepted \in Seq(Callers) /\ sent \in Seq(Callers)
    BY EmptySeq DEF Init
  <2>5. push_command \in Callers \cup {NoCommand} /\ process = "running"
    BY DEF Init
  <2>6. stop_requested = FALSE /\ send_push = FALSE /\ push_lock = FALSE
        /\ client = TRUE /\ missed = FALSE
    BY DEF Init
  <2>7. QED
    BY <2>1, <2>2, <2>3, <2>4, <2>5, <2>6 DEF TypeOK
<1>2. MailboxInv
  BY DEF Init, MailboxInv, MailboxHeldOnce, HistoryAgrees, WokenForCommand,
         Storing
<1>3. JoinedInOrder
  BY DEF Init, JoinedInOrder, Running
<1>4. QED
  BY <1>1, <1>2, <1>3 DEF IInv

(* The invariant is inductive. *)
LEMMA Inv ==
  Spec => []IInv
<1>1. IInv /\ [Next]_vars => IInv'
  BY TypeNext, MailboxStep, JoinedNext DEF IInv, MailboxInv
<1>2. QED
  BY InvInit, <1>1, PTL DEF Spec

(* Every variable of a device keeps its type: in particular only commands  *)
(* that a caller handed over are ever written to the push socket           *)
(* (Device::pushThread).                                                   *)
THEOREM TypeCorrect ==
  Spec => []TypeOK
<1>1. IInv => TypeOK
  BY DEF IInv
<1>2. QED
  BY Inv, <1>1, PTL

(* However many threads call sendPushTo, the mailbox has one holder at a   *)
(* time, although one thread locks it and another unlocks it.              *)
THEOREM MailboxSafe ==
  Spec => []MailboxHeldOnce
<1>1. IInv => MailboxHeldOnce
  BY DEF IInv, MailboxInv
<1>2. QED
  BY Inv, <1>1, PTL

(* The push thread sends only a command that was handed over, and nobody   *)
(* writes it meanwhile.                                                    *)
THEOREM SendSafe ==
  Spec => []SendsHandedCommand
<1>1. IInv => SendsHandedCommand
  BY DEF IInv, MailboxInv, MailboxHeldOnce, WokenForCommand, SendsHandedCommand
<1>2. QED
  BY Inv, <1>1, PTL

(* Device::start removes and frees the device only after its threads.      *)
THEOREM RemovalSafe ==
  Spec => []RemovedWhenThreadsEnded
<1>1. IInv => RemovedWhenThreadsEnded
  BY DEF IInv, JoinedInOrder, RemovedWhenThreadsEnded, StartPC, TypeOK
<1>2. QED
  BY Inv, <1>1, PTL

(* A caller that stores its command finds every earlier one sent.          *)
LEMMA StoreAccepts ==
  ASSUME IInv, NEW c \in Callers, CallStore(c)
  PROVE  Mailbox!Accept(c)
BY DEF IInv, MailboxInv, HistoryAgrees, CallStore, CallStep, Mailbox!Accept

(* A command that is sent is the one accepted and not sent yet.            *)
LEMMA SendDelivers ==
  ASSUME IInv, PushSend
  PROVE  Mailbox!Deliver
<1>1. /\ push_command \in Callers
      /\ sent \in Seq(Callers)
      /\ accepted = Append(sent, push_command)
  BY DEF IInv, TypeOK, MailboxInv, HistoryAgrees, WokenForCommand, PushSend, PushStep
<1>2. accepted # sent
  <2>1. Len(accepted) = Len(sent) + 1
    BY <1>1
  <2>2. QED
    BY <1>1, <2>1
<1>3. QED
  BY <1>1, <1>2 DEF PushSend, PushStep, Mailbox!Deliver

(* Every other step leaves the mailbox as it is, or ends the push thread.  *)
LEMMA OthersStutter ==
  ASSUME IInv, [Next]_vars
  PROVE  \/ PushSend
         \/ \E c \in Callers : CallStore(c)
         \/ Mailbox!Close
         \/ UNCHANGED Mailbox!mailboxVars
<1> USE DEF Mailbox!Close, Mailbox!mailboxVars, vars, threads, history
<1>1. CASE Command
  BY <1>1 DEF Command, CommandStep, NotifyOne, EndsInPayload, CommandCheck,
              CommandServe, CommandFail, CommandSpins, CommandFreesTwice,
              CommandNotify
<1>2. CASE Push
  BY <1>2 DEF Push, PushStep, PushCheck, PushPredicate, PushSleep,
              SpuriousWakeup, PushAct, PushFail, PushClear, PushUnlock
<1>3. CASE Watcher
  BY <1>3 DEF Watcher, WatcherStep, EndsInPayload, WatcherCheck, WatcherServe,
              WatcherFail, WatcherPropagate, WatcherSpins, WatcherFreesTwice
<1>4. CASE Start
  BY <1>4 DEF Start, StartStep, JoinCommand, JoinPush, JoinWatcher,
              RemoveDevice
<1>5. ASSUME NEW c \in Callers, Call(c), ~CallStore(c)
      PROVE  UNCHANGED Mailbox!mailboxVars
  BY <1>5 DEF Call, CallStep, NotifyOne, CallBegin, CallLock, CallFlag,
              CallNotify, CallUsesFreed, CallerFreesTwice
<1>6. CASE ClientLeaves
  BY <1>6 DEF ClientLeaves
<1>7. CASE UNCHANGED vars
  BY <1>7
<1>8. QED
  BY <1>1, <1>2, <1>3, <1>4, <1>5, <1>6, <1>7 DEF Next

(* A device is a one-place mailbox: whatever the number of callers and the *)
(* order of their steps, a command accepted by sendPushTo is written once, *)
(* in order, before the next one is accepted, and none is written after    *)
(* the push thread ended.                                                  *)
THEOREM DeviceImplementsMailbox ==
  Spec => ImplementsMailbox
<1>1. Init => Mailbox!MailboxInit
  BY DEF Init, Mailbox!MailboxInit
<1>2. IInv /\ [Next]_vars => [Mailbox!MailboxNext]_(Mailbox!mailboxVars)
  BY StoreAccepts, SendDelivers, OthersStutter DEF Mailbox!MailboxNext
<1>3. QED
  BY Inv, <1>1, <1>2, PTL DEF Spec, ImplementsMailbox, Mailbox!MailboxSpec
=============================================================================
