-------------------------- MODULE HandshakeProofs --------------------------
(***************************************************************************)
(* Proofs about the handshake of a client with its device, for any number  *)
(* of clients and ports and any number of retries: type correctness, that  *)
(* each socket of a device is connected to the thread it is meant for, and *)
(* that the threads of a client find their sockets open, past everything   *)
(* that can fail at the server except an accept.                           *)
(***************************************************************************)
EXTENDS Handshake, SequenceLemmas, TLAPS

Awaiting == {"accept push", "accept watcher", "list", "served", "abandoned"}

PushSent == {"listen watcher", "send watcher"} \cup Awaiting

(* The place of the handler says which sockets it has opened, and which    *)
(* are connected.                                                          *)
SocketsAgree(place, push, watcher) ==
  /\ place \in {"none", "check", "refuse", "listen push", "refused"} =>
       push = "none"
  /\ place \in {"none", "check", "refuse", "listen push", "refused",
               "send push", "listen watcher"} =>
       watcher = "none"
  /\ place \in {"send push", "listen watcher", "send watcher", "accept push"} =>
       push = "listening"
  /\ place \in {"send watcher", "accept push", "accept watcher"} =>
       watcher = "listening"
  /\ place \in Awaiting => push # "none" /\ watcher # "none"

SocketsFollowHandler ==
  \A c \in Clients :
    SocketsAgree(handler[c], socket[c]["push"].state, socket[c]["watcher"].state)

(* No two sockets have one port, not even when one of them is closed. *)
PortsDistinct ==
  \A c, d \in Clients : \A r, s \in Roles :
    socket[c][r].port # None /\ socket[c][r].port = socket[d][s].port =>
      c = d /\ r = s

(* Whoever waits at a port is the thread that the port was opened for. *)
BacklogMatched ==
  \A p \in Ports : \A i \in 1..Len(backlog[p]) :
    \A c \in Clients, r \in Roles :
      backlog[p][i] = <<c, r>> => socket[c][r].port = p

PortOf(c, r) == PortPacket(socket[c][r].port)

(* What the handler has sent to a client that is still there. *)
Sent(c) ==
  IF handler[c] \in Awaiting THEN <<PortOf(c, "push"), PortOf(c, "watcher")>>
  ELSE IF \/ handler[c] \in PushSent
          \/ handler[c] = "failed" /\ socket[c]["push"].state = "listening"
       THEN <<PortOf(c, "push")>>
  ELSE IF handler[c] = "refused" THEN <<ErrorPacket>>
  ELSE << >>

(* What a client has taken of it, and what it knows by that. *)
Follows(c) ==
  /\ handler[c] = "none" => client[c] \in {"start", "ended"}
  /\ client[c] = "start" => handler[c] = "none" /\ replies[c] = << >>
  /\ client[c] = "first" => replies[c] = Sent(c)
  /\ client[c] = "second" =>
       /\ \/ handler[c] \in PushSent
          \/ handler[c] = "failed" /\ socket[c]["push"].state = "listening"
       /\ replies[c] = IF handler[c] \in Awaiting THEN <<PortOf(c, "watcher")>>
                       ELSE << >>
       /\ port[c]["push"] = socket[c]["push"].port
  /\ client[c] = "threads" =>
       /\ handler[c] \in Awaiting
       /\ \A r \in Roles : port[c][r] = socket[c][r].port

RepliesFollow == \A c \in Clients : Follows(c)

ThreadsFollow ==
  \A c \in Clients :
    (\E r \in Roles : thread[c][r].pc # "none") => client[c] = "threads"

IInv ==
  /\ TypeOK /\ SocketsFollowHandler /\ PortsDistinct /\ BacklogMatched
  /\ RepliesFollow /\ ThreadsFollow /\ SocketsMatched

(* One socket changes. *)
SocketIs(c, r, new) ==
  /\ socket'[c][r] = new
  /\ \A d \in Clients, s \in Roles :
       d # c \/ s # r => socket'[d][s] = socket[d][s]

LEMMA SocketChanged ==
  ASSUME TypeOK, NEW c \in Clients, NEW r \in Roles, NEW new \in Sockets,
         socket' = [socket EXCEPT ![c][r] = new]
  PROVE  socket' \in [Clients -> [Roles -> Sockets]] /\ SocketIs(c, r, new)
<1>1. socket \in [Clients -> [Roles -> Sockets]]
  BY DEF TypeOK
<1>2. QED
  BY <1>1 DEF SocketIs

(* The same of a thread. *)
LEMMA ThreadChanged ==
  ASSUME TypeOK, NEW c \in Clients, NEW r \in Roles, NEW new \in Threads,
         thread' = [thread EXCEPT ![c][r] = new]
  PROVE  /\ thread' \in [Clients -> [Roles -> Threads]]
         /\ thread'[c][r] = new
         /\ \A d \in Clients, s \in Roles :
              d # c \/ s # r => thread'[d][s] = thread[d][s]
<1>1. thread \in [Clients -> [Roles -> Threads]]
  BY DEF TypeOK
<1>2. QED
  BY <1>1

(* Every step keeps the type of every variable. *)
LEMMA TypeNext ==
  ASSUME TypeOK, SocketsFollowHandler, RepliesFollow, ThreadsFollow, [Next]_vars
  PROVE  TypeOK'
<1> USE DEF TypeOK, vars, server
<1>0. max_retries \in Nat /\ 0 \in 0..max_retries
  <2>1. max_retries \in Nat
    BY HandshakeAssumption
  <2>2. QED
    BY <2>1
<1>1. ASSUME NEW c \in Clients, NEW from \in HandlerPC, NEW to \in HandlerPC,
             HandlerStep(c, from, to)
      PROVE  /\ handler' \in [Clients -> HandlerPC]
             /\ UNCHANGED <<client, port, thread, io>>
  BY <1>1 DEF HandlerStep
<1>2. ASSUME NEW c \in Clients, NEW packet \in Packets, Sends(c, packet)
      PROVE  /\ replies' \in [Clients -> Seq(Packets)]
             /\ UNCHANGED <<socket, backlog, devices>>
  BY <1>2 DEF Sends
<1>3. ASSUME NEW c \in Clients, Ends(c)
      PROVE  TypeOK'
  <2>1. NoThreads \in [Roles -> Threads]
    BY <1>0 DEF NoThreads, Threads, ThreadAt
  <2>2. QED
    BY <1>3, <2>1 DEF Ends
<1>4. ASSUME NEW c \in Clients, CheckSize(c)
      PROVE  TypeOK'
  BY <1>4, <1>1 DEF CheckSize, HandlerPC
<1>5. ASSUME NEW c \in Clients, NEW from \in HandlerPC, SendFails(c, from)
      PROVE  TypeOK'
  BY <1>5, <1>1 DEF SendFails, HandlerPC
<1>6. ASSUME NEW c \in Clients, Refuse(c)
      PROVE  TypeOK'
  <2>1. CASE HandlerStep(c, "refuse", "refused") /\ Sends(c, ErrorPacket)
    BY <2>1, <1>1, <1>2 DEF HandlerPC, Packets
  <2>2. QED
    BY <1>5, <1>6, <2>1 DEF Refuse, HandlerPC
<1>7. ASSUME NEW c \in Clients, NEW r \in Roles,
             NEW from \in HandlerPC, NEW to \in HandlerPC, Listen(c, r, from, to)
      PROVE  TypeOK'
  <2>1. CASE ListenFails(c, from)
    BY <2>1, <1>1 DEF ListenFails, HandlerPC
  <2>2. CASE HandlerStep(c, from, to) /\ createAndSetupSocket(c, r)
    <3>1. PICK p \in Ports : Opens(c, r, p)
      BY <2>2 DEF createAndSetupSocket
    <3>2. [state |-> "listening", port |-> p, peer |-> None] \in Sockets
      BY DEF Sockets
    <3>3. socket' \in [Clients -> [Roles -> Sockets]]
      BY <3>1, <3>2, SocketChanged DEF Opens
    <3>4. QED
      BY <2>2, <1>1, <3>1, <3>3 DEF Opens
  <2>3. QED
    BY <1>7, <2>1, <2>2 DEF Listen
<1>8. ASSUME NEW c \in Clients, NEW r \in Roles,
             NEW from \in HandlerPC, NEW to \in HandlerPC, SendPort(c, r, from, to),
             socket[c][r].state = "listening"
      PROVE  TypeOK'
  <2>1. CASE HandlerStep(c, from, to) /\ Sends(c, PortPacket(socket[c][r].port))
    <3>1. socket[c][r].port \in Ports
      BY <1>8 DEF Sockets
    <3>2. QED
      BY <2>1, <3>1, <1>1, <1>2 DEF Packets
  <2>2. QED
    BY <1>5, <1>8, <2>1 DEF SendPort
<1>9. ASSUME NEW c \in Clients, NEW r \in Roles,
             NEW from \in HandlerPC, NEW to \in HandlerPC,
             acceptConnection(c, r, from, to), socket[c][r].state = "listening"
      PROVE  TypeOK'
  <2> DEFINE p == socket[c][r].port
  <2> DEFINE new == [state |-> "connected", port |-> p, peer |-> Head(backlog[p])]
  <2>1. p \in Ports
    BY <1>9 DEF Sockets
  <2>2. Head(backlog[p]) \in Clients \X Roles
    BY <1>9, <2>1, HeadTailProperties DEF acceptConnection
  <2>3. new \in Sockets
    BY <2>1, <2>2 DEF Sockets
  <2>4. socket' \in [Clients -> [Roles -> Sockets]]
    BY <1>9, <2>3, SocketChanged DEF acceptConnection
  <2>5. backlog' \in [Ports -> Seq(Clients \X Roles)]
    BY <1>9, <2>1 DEF acceptConnection
  <2>6. QED
    BY <1>9, <1>1, <2>4, <2>5 DEF acceptConnection
<1>10. ASSUME NEW c \in Clients, Handler(c)
       PROVE  TypeOK'
  <2>1. "push" \in Roles /\ "watcher" \in Roles
    BY DEF Roles
  <2>2. CASE OpenPush(c)
    <3>1. SendPort(c, "push", "send push", "listen watcher") =>
            socket[c]["push"].state = "listening"
      BY DEF SendPort, SendFails, HandlerStep, SocketsFollowHandler, SocketsAgree
    <3>2. QED
      BY <2>1, <2>2, <3>1, <1>7, <1>8 DEF OpenPush, HandlerPC
  <2>3. CASE OpenWatcher(c)
    <3>1. SendPort(c, "watcher", "send watcher", "accept push") =>
            socket[c]["watcher"].state = "listening"
      BY DEF SendPort, SendFails, HandlerStep, SocketsFollowHandler, SocketsAgree
    <3>2. QED
      BY <2>1, <2>3, <3>1, <1>7, <1>8 DEF OpenWatcher, HandlerPC
  <2>4. CASE AcceptPush(c)
    <3>1. socket[c]["push"].state = "listening"
      BY <2>4 DEF AcceptPush, acceptConnection, HandlerStep, SocketsFollowHandler, SocketsAgree
    <3>2. QED
      BY <2>1, <2>4, <3>1, <1>9 DEF AcceptPush, HandlerPC
  <2>5. CASE AcceptWatcher(c)
    <3>1. socket[c]["watcher"].state = "listening"
      BY <2>5 DEF AcceptWatcher, acceptConnection, HandlerStep, SocketsFollowHandler, SocketsAgree
    <3>2. QED
      BY <2>1, <2>5, <3>1, <1>9 DEF AcceptWatcher, HandlerPC
  <2>6. CASE ListDevice(c)
    BY <2>6, <1>1 DEF ListDevice, HandlerPC
  <2>7. CASE Answers(c)
    BY <2>7 DEF Answers, IoStep
  <2>8. QED
    BY <1>4, <1>6, <1>10, <2>2, <2>3, <2>4, <2>5, <2>6, <2>7 DEF Handler
<1>11. ASSUME NEW c \in Clients, NEW r \in Roles, ReceivesPort(c, r)
       PROVE  /\ replies' \in [Clients -> Seq(Packets)]
              /\ port' \in [Clients -> [Roles -> Ports \cup {None}]]
  <2>1. /\ Head(replies[c]) \in Packets
        /\ Tail(replies[c]) \in Seq(Packets)
    BY <1>11, HeadTailProperties DEF ReceivesPort, TakesPort
  <2>2. Head(replies[c]).port \in Ports
    BY <1>11, <2>1 DEF ReceivesPort, TakesPort, Packets, PortPacket, ErrorPacket
  <2>3. QED
    BY <1>11, <2>1, <2>2 DEF ReceivesPort, TakesPort
<1>12. ASSUME NEW c \in Clients, Constructor(c)
       PROVE  TypeOK'
  <2>1. CASE FirstPort(c)
    BY <2>1, <1>11 DEF FirstPort, ClientStep, Roles
  <2>2. CASE SecondPort(c)
    <3>1. [r \in Roles |-> ThreadAt("connect", 0)] \in [Roles -> Threads]
      BY <1>0 DEF Threads, ThreadAt
    <3>2. thread' \in [Clients -> [Roles -> Threads]]
      BY <2>2, <3>1 DEF SecondPort
    <3>3. QED
      BY <2>2, <1>11, <3>2 DEF SecondPort, ClientStep, Roles
  <2>3. QED
    BY <1>3, <1>12, <2>1, <2>2 DEF Constructor, ReceivesError, ReceivesNothing
<1>13. ASSUME NEW c \in Clients, NEW r \in Roles, Thread(c, r)
       PROVE  TypeOK'
  <2>1. /\ thread[c][r] \in Threads
        /\ thread[c][r].retries \in 0..max_retries
    BY DEF Threads
  <2>2. CASE Connect(c, r)
    <3>1. port[c][r] \in Ports
      BY <2>2, HandshakeAssumption DEF Connect, Sockets
    <3>2. backlog' \in [Ports -> Seq(Clients \X Roles)]
      BY <2>2, <3>1 DEF Connect
    <3>3. thread' \in [Clients -> [Roles -> Threads]]
      <4>1. ThreadAt("connected", 0) \in Threads
        BY <1>0 DEF Threads, ThreadAt
      <4>2. QED
        BY <2>2, <4>1, ThreadChanged DEF Connect
    <3>4. QED
      BY <2>2, <3>2, <3>3 DEF Connect, ThreadStep
  <2>3. CASE ConnectFails(c, r)
    <3>1. ThreadAt("connect", thread[c][r].retries + 1) \in Threads
      <4>1. thread[c][r].retries < max_retries
        BY <2>3 DEF ConnectFails
      <4>2. thread[c][r].retries + 1 \in 0..max_retries
        BY <1>0, <2>1, <4>1
      <4>3. QED
        BY <4>2 DEF Threads, ThreadAt
    <3>2. thread' \in [Clients -> [Roles -> Threads]]
      BY <2>3, <3>1, ThreadChanged DEF ConnectFails
    <3>3. QED
      BY <2>3, <3>2 DEF ConnectFails, ThreadStep
  <2>4. CASE r = "push" /\ PushGivesUp(c)
    <3>1. ThreadAt("gave up", 0) \in Threads
      BY <1>0 DEF Threads, ThreadAt
    <3>2. thread' \in [Clients -> [Roles -> Threads]]
      BY <2>4, <3>1, ThreadChanged DEF PushGivesUp, GivesUp
    <3>3. QED
      BY <2>4, <3>2 DEF PushGivesUp, GivesUp, ThreadStep
  <2>5. CASE r = "watcher" /\ FileThreadThrows(c)
    BY <2>5, <1>3 DEF FileThreadThrows
  <2>6. QED
    BY <1>13, <2>2, <2>3, <2>4, <2>5 DEF Thread
<1>14. ASSUME NEW c \in Clients, Arrive(c) \/ Asks(c) \/ ClientLeaves(c)
       PROVE  TypeOK'
  <2>1. CASE Arrive(c)
    BY <2>1 DEF Arrive, ClientStep, HandlerPC
  <2>2. CASE Asks(c)
    BY <2>2 DEF Asks, IoStep
  <2>3. QED
    BY <1>3, <1>14, <2>1, <2>2 DEF ClientLeaves
<1>15. ASSUME NEW c \in Clients, AcceptFails(c)
       PROVE  TypeOK'
  <2>1. PICK from \in {"accept push", "accept watcher"} :
          HandlerStep(c, from, "abandoned")
    BY <1>15 DEF AcceptFails
  <2>2. from \in HandlerPC /\ "abandoned" \in HandlerPC
    BY DEF HandlerPC
  <2>3. QED
    BY <1>15, <2>1, <2>2, <1>1 DEF AcceptFails
<1>16. CASE UNCHANGED vars
  BY <1>16
<1>17. QED
  BY <1>3, <1>10, <1>12, <1>13, <1>14, <1>15, <1>16 DEF Next, Process, Unanswered

SocketInv ==
  SocketsFollowHandler /\ PortsDistinct /\ BacklogMatched /\ SocketsMatched

(* With the sockets and what waits at them left alone, it is enough that   *)
(* the handler's places agree.                                             *)
LEMMA SocketsAlone ==
  ASSUME TypeOK, SocketInv, SocketsFollowHandler', UNCHANGED <<socket, backlog>>
  PROVE  SocketInv'
BY DEF SocketInv, PortsDistinct, BacklogMatched, SocketsMatched

(* Where the handler opens a socket, and where it accepts a connection. *)
OpenedAt(r, from, to) ==
  \/ r = "push" /\ from = "listen push" /\ to = "send push"
  \/ r = "watcher" /\ from = "listen watcher" /\ to = "send watcher"

AcceptedAt(r, from, to) ==
  \/ r = "push" /\ from = "accept push" /\ to = "accept watcher"
  \/ r = "watcher" /\ from = "accept watcher" /\ to = "list"

(* The handler opens a socket. *)
LEMMA SocketInvOpen ==
  ASSUME TypeOK, SocketInv, NEW c \in Clients, NEW r \in Roles,
         NEW from, NEW to, HandlerStep(c, from, to),
         createAndSetupSocket(c, r), TypeOK',
         OpenedAt(r, from, to)
  PROVE  SocketInv'
<1>1. PICK p \in Ports \ Used : Opens(c, r, p)
  BY DEF createAndSetupSocket
<1> DEFINE new == [state |-> "listening", port |-> p, peer |-> None]
<1>2. /\ new \in Sockets
      /\ new.state = "listening" /\ new.port = p
  BY <1>1 DEF Sockets
<1>3. /\ socket'[c][r] = new
      /\ \A d \in Clients, s \in Roles :
           d # c \/ s # r => socket'[d][s] = socket[d][s]
  <2>1. socket' = [socket EXCEPT ![c][r] = new]
    BY <1>1 DEF Opens
  <2> HIDE DEF new
  <2>2. SocketIs(c, r, new)
    BY <1>2, <2>1, SocketChanged
  <2>3. QED
    BY <2>2 DEF SocketIs
<1>4. socket[c][r].state = "none" /\ socket[c][r].port = None
  <2>1. socket[c][r].state = "none"
    BY DEF SocketInv, SocketsFollowHandler, SocketsAgree, HandlerStep, OpenedAt,
           Awaiting
  <2>2. socket[c][r] \in Sockets
    BY DEF TypeOK
  <2>3. QED
    BY <2>1, <2>2 DEF Sockets
<1>5. backlog' = backlog /\ handler[c] = from /\ handler'[c] = to
      /\ \A d \in Clients : d # c => handler'[d] = handler[d]
  BY <1>1 DEF Opens, HandlerStep, TypeOK
<1> HIDE DEF new
<1>6. SocketsFollowHandler'
  <2>1. "push" \in Roles /\ "watcher" \in Roles
    BY DEF Roles
  <2>2. ASSUME NEW d \in Clients, d # c
        PROVE  /\ handler'[d] = handler[d]
               /\ socket'[d]["push"] = socket[d]["push"]
               /\ socket'[d]["watcher"] = socket[d]["watcher"]
    BY <1>3, <1>5, <2>1, <2>2
  <2>3. SocketsAgree(from, socket[c]["push"].state, socket[c]["watcher"].state)
    BY <1>5 DEF SocketInv, SocketsFollowHandler
  <2>4. SocketsAgree(to, socket'[c]["push"].state, socket'[c]["watcher"].state)
    <3>1. CASE r = "push" /\ from = "listen push" /\ to = "send push"
      <4>1. /\ socket'[c]["push"].state = "listening"
            /\ socket'[c]["watcher"] = socket[c]["watcher"]
        BY <1>2, <1>3, <2>1, <3>1
      <4>2. QED
        BY <2>3, <3>1, <4>1 DEF SocketsAgree, Awaiting
    <3>2. CASE r = "watcher" /\ from = "listen watcher" /\ to = "send watcher"
      <4>1. /\ socket'[c]["watcher"].state = "listening"
            /\ socket'[c]["push"] = socket[c]["push"]
        BY <1>2, <1>3, <2>1, <3>2
      <4>2. QED
        BY <2>3, <3>2, <4>1 DEF SocketsAgree, Awaiting
    <3>3. QED
      BY <3>1, <3>2 DEF OpenedAt
  <2>5. QED
    BY <1>5, <2>2, <2>4 DEF SocketInv, SocketsFollowHandler
<1>7. \A d \in Clients, s \in Roles : socket[d][s].port # p
  BY <1>1 DEF Used
<1>8. PortsDistinct'
  BY <1>2, <1>3, <1>7 DEF SocketInv, PortsDistinct
<1>9. BacklogMatched'
  <2> SUFFICES ASSUME NEW q \in Ports, NEW i \in 1..Len(backlog[q]),
                      NEW d \in Clients, NEW s \in Roles,
                      backlog[q][i] = <<d, s>>
               PROVE  socket'[d][s].port = q
    BY <1>5 DEF BacklogMatched
  <2>1. socket[d][s].port = q
    BY DEF SocketInv, BacklogMatched
  <2>2. q # None
    BY HandshakeAssumption
  <2>3. QED
    BY <2>1, <2>2, <1>3, <1>4
<1>10. SocketsMatched'
  BY <1>2, <1>3 DEF SocketInv, SocketsMatched
<1>11. QED
  BY <1>6, <1>8, <1>9, <1>10 DEF SocketInv

(* The handler accepts the first connection that waits: it is the one of   *)
(* the thread that the socket was opened for, as only that one may wait.   *)
LEMMA SocketInvAccept ==
  ASSUME TypeOK, SocketInv, NEW c \in Clients, NEW r \in Roles,
         NEW from, NEW to, acceptConnection(c, r, from, to), TypeOK',
         AcceptedAt(r, from, to)
  PROVE  SocketInv'
<1> DEFINE p == socket[c][r].port
<1> DEFINE new == [state |-> "connected", port |-> p, peer |-> Head(backlog[p])]
<1>1. socket[c][r].state = "listening" /\ handler[c] = from
  BY DEF SocketInv, SocketsFollowHandler, SocketsAgree, acceptConnection, HandlerStep, AcceptedAt
<1>2. p \in Ports /\ p # None
  <2>1. socket[c][r] \in Sockets
    BY DEF TypeOK
  <2>2. p \in Ports
    BY <1>1, <2>1 DEF Sockets
  <2>3. QED
    BY <2>2, HandshakeAssumption
<1>3. Head(backlog[p]) = <<c, r>>
  <2>1. backlog[p] # << >> /\ backlog[p] \in Seq(Clients \X Roles)
    BY <1>2 DEF acceptConnection, TypeOK
  <2>2. 1 \in 1..Len(backlog[p]) /\ Head(backlog[p]) = backlog[p][1]
    BY <2>1, EmptySeq
  <2>3. PICK d \in Clients, s \in Roles : backlog[p][1] = <<d, s>>
    BY <2>1, <2>2, ElementOfSeq
  <2>4. socket[d][s].port = p
    BY <1>2, <2>2, <2>3 DEF SocketInv, BacklogMatched
  <2>5. d = c /\ s = r
    BY <1>2, <2>4 DEF SocketInv, PortsDistinct
  <2>6. QED
    BY <2>2, <2>3, <2>5
<1>4. /\ new \in Sockets
      /\ new.state = "connected" /\ new.port = p /\ new.peer = <<c, r>>
  <2> HIDE DEF p
  <2>1. <<c, r>> \in Clients \X Roles
    OBVIOUS
  <2>2. new = [state |-> "connected", port |-> p, peer |-> <<c, r>>]
    BY <1>3
  <2>3. QED
    BY <1>2, <2>1, <2>2 DEF Sockets
<1>5. /\ socket'[c][r] = new
      /\ \A d \in Clients, s \in Roles :
           d # c \/ s # r => socket'[d][s] = socket[d][s]
  <2>1. socket' = [socket EXCEPT ![c][r] = new]
    BY DEF acceptConnection
  <2> HIDE DEF new
  <2>2. SocketIs(c, r, new)
    BY <1>4, <2>1, SocketChanged
  <2>3. QED
    BY <2>2 DEF SocketIs
<1>6. /\ backlog' = [backlog EXCEPT ![p] = << >>]
      /\ handler'[c] = to
      /\ \A d \in Clients : d # c => handler'[d] = handler[d]
  BY DEF acceptConnection, HandlerStep, TypeOK
<1>7. \A d \in Clients, s \in Roles : socket'[d][s].port = socket[d][s].port
  BY <1>4, <1>5
<1> HIDE DEF new
<1>8. SocketsFollowHandler'
  <2>1. \A d \in Clients : d # c =>
          /\ handler'[d] = handler[d]
          /\ \A s \in Roles : socket'[d][s] = socket[d][s]
    BY <1>5, <1>6
  <2>2. "push" \in Roles /\ "watcher" \in Roles
    BY DEF Roles
  <2>3. CASE r = "push" /\ from = "accept push" /\ to = "accept watcher"
    <3>1. socket[c]["watcher"].state = "listening"
      BY <1>1, <2>3 DEF SocketInv, SocketsFollowHandler, SocketsAgree
    <3>2. socket'[c]["watcher"].state = "listening"
      BY <1>5, <2>2, <2>3, <3>1
    <3>3. handler'[c] = "accept watcher" /\ socket'[c]["push"].state = "connected"
      BY <1>4, <1>5, <1>6, <2>3
    <3>4. SocketsAgree(handler'[c], socket'[c]["push"].state,
                       socket'[c]["watcher"].state)
      BY <3>2, <3>3 DEF SocketsAgree, Awaiting
    <3>5. QED
      BY <2>1, <2>2, <3>4 DEF SocketInv, SocketsFollowHandler
  <2>4. CASE r = "watcher" /\ from = "accept watcher" /\ to = "list"
    <3>1. handler'[c] = "list" /\ socket'[c]["watcher"].state = "connected"
      BY <1>4, <1>5, <1>6, <2>4
    <3>2. socket[c]["push"].state # "none"
      BY <1>1, <2>4 DEF SocketInv, SocketsFollowHandler, SocketsAgree, Awaiting
    <3>3. socket'[c]["push"].state # "none"
      BY <1>5, <2>2, <2>4, <3>2
    <3>4. SocketsAgree(handler'[c], socket'[c]["push"].state,
                       socket'[c]["watcher"].state)
      BY <3>1, <3>3 DEF SocketsAgree
    <3>5. QED
      BY <2>1, <2>2, <3>4 DEF SocketInv, SocketsFollowHandler
  <2>5. QED
    BY <2>3, <2>4 DEF AcceptedAt
<1>9. PortsDistinct'
  BY <1>7 DEF SocketInv, PortsDistinct
<1>10. BacklogMatched'
  <2> SUFFICES ASSUME NEW q \in Ports, NEW i \in 1..Len(backlog'[q]),
                      NEW d \in Clients, NEW s \in Roles,
                      backlog'[q][i] = <<d, s>>
               PROVE  socket'[d][s].port = q
    BY DEF BacklogMatched
  <2>1. q # p
    BY <1>2, <1>6 DEF TypeOK
  <2>2. backlog'[q] = backlog[q]
    BY <1>6, <2>1 DEF TypeOK
  <2>3. QED
    BY <1>7, <2>2 DEF SocketInv, BacklogMatched
<1>11. SocketsMatched'
  BY <1>4, <1>5 DEF SocketInv, SocketsMatched
<1>12. QED
  BY <1>8, <1>9, <1>10, <1>11 DEF SocketInv

(* A thread connects, to the port that was opened for it. *)
LEMMA SocketInvConnect ==
  ASSUME TypeOK, SocketInv, RepliesFollow, NEW c \in Clients, NEW r \in Roles,
         Connect(c, r)
  PROVE  SocketInv'
<1> DEFINE p == port[c][r]
<1>1. p = socket[c][r].port
  BY DEF Connect, ThreadStep, Connecting, RepliesFollow, Follows
<1>2. p \in Ports
  BY HandshakeAssumption DEF Connect, TypeOK, Sockets
<1>3. /\ backlog' = [backlog EXCEPT ![p] = Append(@, <<c, r>>)]
      /\ UNCHANGED <<socket, handler>>
  BY DEF Connect, ThreadStep, server
<1>4. BacklogMatched'
  <2> SUFFICES ASSUME NEW q \in Ports, NEW i \in 1..Len(backlog'[q]),
                      NEW d \in Clients, NEW s \in Roles,
                      backlog'[q][i] = <<d, s>>
               PROVE  socket[d][s].port = q
    BY <1>3 DEF BacklogMatched
  <2>1. CASE q = p /\ i = Len(backlog[p]) + 1
    <3>1. backlog'[q][i] = <<c, r>>
      BY <1>2, <1>3, <2>1 DEF TypeOK
    <3>2. d = c /\ s = r
      BY <3>1
    <3>3. QED
      BY <1>1, <2>1, <3>2
  <2>2. CASE ~(q = p /\ i = Len(backlog[p]) + 1)
    <3>1. i \in 1..Len(backlog[q]) /\ backlog'[q][i] = backlog[q][i]
      BY <1>2, <1>3, <2>2, AppendProperties DEF TypeOK
    <3>2. QED
      BY <3>1 DEF SocketInv, BacklogMatched
  <2>3. QED
    BY <2>1, <2>2
<1>5. SocketsFollowHandler' /\ SocketsMatched'
  BY <1>3 DEF SocketInv, SocketsFollowHandler, SocketsAgree, SocketsMatched
<1>6. PortsDistinct'
  BY <1>3 DEF SocketInv, PortsDistinct
<1>7. QED
  BY <1>4, <1>5, <1>6 DEF SocketInv

(* Nothing changes for a client that a step is not about. *)
LEMMA FollowsAlone ==
  ASSUME NEW c \in Clients, Follows(c),
         handler'[c] = handler[c], client'[c] = client[c],
         replies'[c] = replies[c], port'[c] = port[c],
         \A r \in Roles : socket'[c][r] = socket[c][r]
  PROVE  Follows(c)'
BY DEF Follows, Sent, PortOf, PortPacket, Roles

(* What one step of the handler does to what its own client knows. *)
LEMMA FollowsHandler ==
  ASSUME IInv, NEW c \in Clients, Handler(c) \/ AcceptFails(c)
  PROVE  Follows(c)'
<1> USE DEF IInv, HandlerStep
<1>1. Follows(c)
  BY DEF RepliesFollow
<1>2. handler \in [Clients -> HandlerPC] /\ replies \in [Clients -> Seq(Packets)]
  BY DEF TypeOK
<1>3. CASE CheckSize(c)
  BY <1>1, <1>2, <1>3 DEF CheckSize, Follows, Sent, Awaiting, PushSent
<1>4. ASSUME NEW from, SendFails(c, from)
      PROVE  Follows(c)'
  BY <1>1, <1>2, <1>4 DEF SendFails, Follows
<1>5. CASE Refuse(c)
  <2>1. CASE HandlerStep(c, "refuse", "refused") /\ Sends(c, ErrorPacket)
    <3>1. client[c] \in {"first", "ended"} \/ Follows(c)'
      BY <1>1, <1>2, <2>1 DEF Sends, Follows, Awaiting, PushSent, TypeOK
    <3>2. CASE client[c] = "first"
      <4>1. replies[c] = << >>
        BY <1>1, <2>1, <3>2 DEF Follows, Sent, Awaiting, PushSent
      <4>2. replies'[c] = <<ErrorPacket>> /\ handler'[c] = "refused"
        BY <1>2, <2>1, <3>2, <4>1, ShortSequences DEF Sends
      <4>3. QED
        BY <2>1, <3>2, <4>2 DEF Follows, Sent, Awaiting, PushSent
    <3>3. CASE client[c] = "ended"
      BY <1>2, <2>1, <3>3 DEF Follows
    <3>4. QED
      BY <3>1, <3>2, <3>3
  <2>2. QED
    BY <1>4, <1>5, <2>1 DEF Refuse
<1>6. CASE Listen(c, "push", "listen push", "send push")
  <2>1. socket[c]["push"].state = "none"
    BY <1>6 DEF Listen, ListenFails, SocketsFollowHandler, SocketsAgree
  <2>2. QED
    BY <1>1, <1>2, <1>6, <2>1
       DEF Listen, ListenFails, createAndSetupSocket, Opens, Follows, Sent,
           Awaiting, PushSent
<1>7. CASE SendPort(c, "push", "send push", "listen watcher")
  <2>1. CASE HandlerStep(c, "send push", "listen watcher")
             /\ Sends(c, PortPacket(socket[c]["push"].port))
    <3>1. client[c] \in {"first", "ended"}
      BY <1>1, <2>1 DEF Follows, Awaiting, PushSent, TypeOK
    <3>2. CASE client[c] = "first"
      <4>1. replies[c] = << >>
        BY <1>1, <2>1, <3>2 DEF Follows, Sent, Awaiting, PushSent
      <4>2. /\ replies'[c] = <<PortOf(c, "push")>>
            /\ handler'[c] = "listen watcher" /\ UNCHANGED socket
        BY <1>2, <2>1, <3>2, <4>1, ShortSequences DEF Sends, PortOf
      <4>3. QED
        BY <2>1, <3>2, <4>2 DEF Follows, Sent, Awaiting, PushSent, PortOf
    <3>3. CASE client[c] = "ended"
      BY <1>2, <2>1, <3>3 DEF Follows
    <3>4. QED
      BY <3>1, <3>2, <3>3
  <2>2. QED
    BY <1>4, <1>7, <2>1 DEF SendPort
<1>8. CASE Listen(c, "watcher", "listen watcher", "send watcher")
  <2>1. socket[c]["push"].state = "listening" /\ handler[c] = "listen watcher"
    BY <1>8 DEF Listen, ListenFails, SocketsFollowHandler, SocketsAgree
  <2>2. socket'[c]["push"] = socket[c]["push"]
    <3>1. CASE ListenFails(c, "listen watcher")
      BY <3>1 DEF ListenFails
    <3>2. CASE createAndSetupSocket(c, "watcher")
      <4>1. PICK p \in Ports \ Used : Opens(c, "watcher", p)
        BY <3>2 DEF createAndSetupSocket
      <4>2. "push" \in Roles /\ "watcher" \in Roles /\ "push" # "watcher"
        BY DEF Roles
      <4>3. QED
        BY <4>1, <4>2 DEF Opens, TypeOK
    <3>3. QED
      BY <1>8, <3>1, <3>2 DEF Listen
  <2>3. handler'[c] \in {"send watcher", "failed"}
    BY <1>2, <1>8 DEF Listen, ListenFails
  <2>4. client' = client /\ replies' = replies /\ port' = port
    BY <1>8 DEF Listen, ListenFails, createAndSetupSocket, Opens
  <2>5. Sent(c)' = Sent(c)
    BY <2>1, <2>2, <2>3 DEF Sent, Awaiting, PushSent, PortOf
  <2>6. QED
    BY <1>1, <2>1, <2>2, <2>3, <2>4, <2>5 DEF Follows, Awaiting, PushSent
<1>9. CASE SendPort(c, "watcher", "send watcher", "accept push")
  <2>1. CASE HandlerStep(c, "send watcher", "accept push")
             /\ Sends(c, PortPacket(socket[c]["watcher"].port))
    <3>1. client[c] \in {"first", "second", "ended"}
      BY <1>1, <2>1 DEF Follows, Awaiting, PushSent, TypeOK
    <3>2. handler'[c] = "accept push" /\ UNCHANGED <<socket, client, port>>
      BY <1>2, <2>1 DEF Sends
    <3>3. CASE client[c] = "first"
      <4>1. replies[c] = <<PortOf(c, "push")>>
        BY <1>1, <2>1, <3>3 DEF Follows, Sent, Awaiting, PushSent
      <4>2. replies'[c] = <<PortOf(c, "push"), PortOf(c, "watcher")>>
        BY <1>2, <2>1, <3>3, <4>1, ShortSequences DEF Sends, PortOf
      <4>3. QED
        BY <3>2, <3>3, <4>2 DEF Follows, Sent, Awaiting, PushSent, PortOf
    <3>4. CASE client[c] = "second"
      <4>1. replies[c] = << >> /\ port[c]["push"] = socket[c]["push"].port
        BY <1>1, <2>1, <3>4 DEF Follows, Awaiting
      <4>2. replies'[c] = <<PortOf(c, "watcher")>>
        BY <1>2, <2>1, <3>4, <4>1, ShortSequences DEF Sends, PortOf
      <4>3. QED
        BY <3>2, <3>4, <4>1, <4>2 DEF Follows, Awaiting, PushSent, PortOf
    <3>5. CASE client[c] = "ended"
      BY <3>2, <3>5 DEF Follows
    <3>6. QED
      BY <3>1, <3>3, <3>4, <3>5
  <2>2. QED
    BY <1>4, <1>9, <2>1 DEF SendPort
<1>10. ASSUME NEW r \in Roles, NEW from \in Awaiting, NEW to \in Awaiting,
              acceptConnection(c, r, from, to)
       PROVE  Follows(c)'
  <2>1. \A s \in Roles : socket'[c][s].port = socket[c][s].port
    BY <1>10 DEF acceptConnection, TypeOK
  <2>2. handler[c] \in Awaiting /\ handler'[c] \in Awaiting
    BY <1>2, <1>10 DEF acceptConnection
  <2>3. UNCHANGED <<client, replies, port>>
    BY <1>10 DEF acceptConnection
  <2>4. Sent(c)' = Sent(c)
    BY <2>1, <2>2 DEF Sent, PortOf, Roles
  <2>5. QED
    BY <1>1, <2>1, <2>2, <2>3, <2>4 DEF Follows, PushSent, Awaiting, PortOf, Roles
<1>11. CASE ListDevice(c)
  BY <1>1, <1>2, <1>11 DEF ListDevice, Follows, Sent, PortOf, Awaiting, PushSent
<1>12. CASE Answers(c)
  BY <1>1, <1>12 DEF Answers, IoStep, server, Follows, Sent, PortOf
<1>13. CASE AcceptFails(c)
  <2>1. UNCHANGED <<socket, client, replies, port>>
    BY <1>13 DEF AcceptFails
  <2>2. handler[c] \in Awaiting /\ handler'[c] \in Awaiting
    BY <1>2, <1>13 DEF AcceptFails, Awaiting
  <2>3. Sent(c)' = Sent(c)
    BY <2>1, <2>2 DEF Sent, PortOf
  <2>4. QED
    BY <1>1, <2>1, <2>2, <2>3 DEF Follows, PushSent, Awaiting, PortOf, Roles
<1>14. QED
  BY <1>3, <1>5, <1>6, <1>7, <1>8, <1>9, <1>10, <1>11, <1>12, <1>13
     DEF Handler, OpenPush, OpenWatcher, AcceptPush, AcceptWatcher, Awaiting, Roles

(* What a step of the client does to what it knows, and to its threads.    *)
LEMMA FollowsClient ==
  ASSUME IInv, NEW c \in Clients,
         Arrive(c) \/ Process(c) \/ Asks(c) \/ ClientLeaves(c)
  PROVE  Follows(c)' /\ ThreadsFollow'
<1> USE DEF IInv
<1>1. /\ Follows(c)
      /\ handler \in [Clients -> HandlerPC] /\ replies \in [Clients -> Seq(Packets)]
      /\ client \in [Clients -> {"start", "first", "second", "threads", "ended"}]
      /\ port \in [Clients -> [Roles -> Ports \cup {None}]]
      /\ thread \in [Clients -> [Roles -> Threads]]
  BY DEF RepliesFollow, TypeOK
<1>2. CASE Ends(c)
  <2>1. client'[c] = "ended"
    BY <1>1, <1>2 DEF Ends
  <2>2. \A d \in Clients, r \in Roles :
          thread'[d][r].pc # "none" => d # c /\ thread'[d][r].pc = thread[d][r].pc
    BY <1>1, <1>2 DEF Ends, NoThreads, ThreadAt
  <2>3. ThreadsFollow'
    BY <1>1, <1>2, <2>2 DEF ThreadsFollow, Ends
  <2>4. QED
    BY <2>1, <2>3 DEF Follows
<1>3. CASE Arrive(c)
  <2>1. handler[c] = "none" /\ replies[c] = << >>
    BY <1>1, <1>3 DEF Arrive, ClientStep, Follows
  <2>2. /\ handler'[c] = "check" /\ client'[c] = "first" /\ replies' = replies
        /\ \A d \in Clients : d # c => client'[d] = client[d]
    BY <1>1, <1>3 DEF Arrive, ClientStep
  <2>3. ThreadsFollow'
    BY <1>1, <1>3, <2>2 DEF ThreadsFollow, Arrive, ClientStep
  <2>4. QED
    BY <2>1, <2>2, <2>3 DEF Follows, Sent, Awaiting, PushSent
<1>4. CASE FirstPort(c)
  <2>1. client[c] = "first" /\ replies[c] = Sent(c)
    BY <1>1, <1>4 DEF FirstPort, ClientStep, Follows
  <2>2. /\ client'[c] = "second"
        /\ \A d \in Clients : d # c => client'[d] = client[d]
        /\ UNCHANGED <<handler, socket, thread>>
    BY <1>1, <1>4 DEF FirstPort, ClientStep
  <2>3. /\ replies[c] # << >> /\ Head(replies[c]).type = "PORT"
        /\ replies'[c] = Tail(replies[c])
        /\ port'[c]["push"] = Head(replies[c]).port
    BY <1>1, <1>4 DEF FirstPort, ReceivesPort, TakesPort, Roles
  <2>4. ErrorPacket.type # "PORT"
    BY DEF ErrorPacket
  <2>5. \/ handler[c] \in PushSent
        \/ handler[c] = "failed" /\ socket[c]["push"].state = "listening"
    BY <2>1, <2>3, <2>4, ShortSequences DEF Sent, PushSent
  <2>6. /\ Head(replies[c]) = PortOf(c, "push")
        /\ Tail(replies[c]) = IF handler[c] \in Awaiting
                              THEN <<PortOf(c, "watcher")>> ELSE << >>
    BY <2>1, <2>5, ShortSequences DEF Sent
  <2>7. port'[c]["push"] = socket[c]["push"].port
    BY <2>3, <2>6 DEF PortOf, PortPacket
  <2>8. Follows(c)'
    BY <1>1, <2>2, <2>3, <2>5, <2>6, <2>7 DEF Follows, PortOf, PushSent, Awaiting
  <2>9. ThreadsFollow'
    BY <2>1, <2>2 DEF ThreadsFollow
  <2>10. QED
    BY <2>8, <2>9
<1>5. CASE SecondPort(c)
  <2>1. /\ client[c] = "second" /\ client'[c] = "threads"
        /\ \A d \in Clients : d # c => client'[d] = client[d]
        /\ \A d \in Clients : d # c => thread'[d] = thread[d]
        /\ UNCHANGED <<handler, socket>>
    BY <1>1, <1>5 DEF SecondPort, ClientStep
  <2>2. /\ replies[c] = IF handler[c] \in Awaiting THEN <<PortOf(c, "watcher")>>
                        ELSE << >>
        /\ port[c]["push"] = socket[c]["push"].port
        /\ handler[c] # "none"
    BY <1>1, <2>1 DEF Follows
  <2>3. /\ replies[c] # << >>
        /\ port'[c]["push"] = port[c]["push"]
        /\ port'[c]["watcher"] = Head(replies[c]).port
    BY <1>1, <1>5 DEF SecondPort, ReceivesPort, TakesPort, Roles
  <2>4. handler[c] \in Awaiting /\ port'[c]["watcher"] = socket[c]["watcher"].port
    BY <2>2, <2>3, ShortSequences DEF PortOf, PortPacket
  <2>5. Follows(c)'
    BY <2>1, <2>2, <2>3, <2>4 DEF Follows, Roles
  <2>6. ThreadsFollow'
    BY <2>1 DEF ThreadsFollow
  <2>7. QED
    BY <2>5, <2>6
<1>6. ASSUME NEW r \in Roles, ThreadStep(c, r),
             NEW new, thread' = [thread EXCEPT ![c][r] = new]
      PROVE  Follows(c)' /\ ThreadsFollow'
  <2>1. client[c] = "threads" /\ UNCHANGED <<handler, socket, client, replies, port>>
    BY <1>6 DEF ThreadStep, Connecting, server
  <2>2. \A d \in Clients : d # c => thread'[d] = thread[d]
    BY <1>1, <1>6
  <2>3. ThreadsFollow'
    BY <2>1, <2>2 DEF ThreadsFollow
  <2>4. QED
    BY <1>1, <2>1, <2>3, FollowsAlone
<1>7. ASSUME NEW r \in Roles, Thread(c, r), ~Ends(c)
      PROVE  Follows(c)' /\ ThreadsFollow'
  BY <1>6, <1>7
     DEF Thread, Connect, ConnectFails, PushGivesUp, GivesUp, FileThreadThrows
<1>8. CASE Asks(c)
  <2>1. UNCHANGED <<handler, socket, client, replies, port, thread>>
    BY <1>8 DEF Asks, IoStep, server
  <2>2. QED
    BY <1>1, <2>1, FollowsAlone DEF ThreadsFollow
<1>9. QED
  BY <1>2, <1>3, <1>4, <1>5, <1>7, <1>8
     DEF Process, Constructor, ReceivesError, ReceivesNothing, Unanswered,
         ClientLeaves

Step(c) ==
  Handler(c) \/ AcceptFails(c) \/ Arrive(c) \/ Process(c) \/ Asks(c) \/ ClientLeaves(c)

(* A step that is about one client changes nothing of another, except what *)
(* waits at the ports.                                                     *)
LEMMA Elsewhere ==
  ASSUME TypeOK, NEW c \in Clients, Step(c), NEW d \in Clients, d # c
  PROVE  /\ handler'[d] = handler[d] /\ client'[d] = client[d]
         /\ replies'[d] = replies[d] /\ port'[d] = port[d]
         /\ \A r \in Roles : socket'[d][r] = socket[d][r]
<1> USE DEF TypeOK
<1>1. CASE Handler(c) \/ AcceptFails(c)
  <2>1. handler'[d] = handler[d] /\ client'[d] = client[d] /\ port'[d] = port[d]
    BY <1>1 DEF Handler, CheckSize, Refuse, SendFails, OpenPush, OpenWatcher,
                Listen, ListenFails, SendPort, AcceptPush, AcceptWatcher,
                acceptConnection, AcceptFails, ListDevice, Answers, IoStep,
                HandlerStep, server
  <2>2. replies'[d] = replies[d]
    BY <1>1 DEF Handler, CheckSize, Refuse, SendFails, Sends, OpenPush, OpenWatcher,
                Listen, ListenFails, SendPort, AcceptPush, AcceptWatcher,
                createAndSetupSocket, Opens,
                acceptConnection, AcceptFails, ListDevice, Answers, IoStep, server
  <2>3. socket'[d] = socket[d]
    BY <1>1 DEF Handler, CheckSize, Refuse, SendFails, Sends, OpenPush, OpenWatcher,
                Listen, ListenFails, SendPort, AcceptPush, AcceptWatcher,
                createAndSetupSocket, Opens,
                acceptConnection, AcceptFails, ListDevice, Answers, IoStep, server
  <2>4. QED
    BY <2>1, <2>2, <2>3
<1>2. CASE Ends(c)
  BY <1>2 DEF Ends, server
<1>3. CASE Arrive(c) \/ FirstPort(c) \/ SecondPort(c)
  BY <1>3 DEF Arrive, FirstPort, SecondPort, ClientStep, ReceivesPort, TakesPort
<1>4. CASE \E r \in Roles : Connect(c, r) \/ ConnectFails(c, r) \/ GivesUp(c, r)
  BY <1>4 DEF Connect, ConnectFails, GivesUp, ThreadStep, server
<1>5. CASE Asks(c)
  BY <1>5 DEF Asks, IoStep, server
<1>6. QED
  BY <1>1, <1>2, <1>3, <1>4, <1>5
     DEF Step, Process, Constructor, ReceivesError, ReceivesNothing, Unanswered,
         Thread, PushGivesUp, FileThreadThrows, ClientLeaves, Roles

(* Every step keeps what ties clients to their handlers. *)
LEMMA FollowsNext ==
  ASSUME IInv, [Next]_vars
  PROVE  RepliesFollow' /\ ThreadsFollow'
<1>1. ASSUME NEW c \in Clients, Step(c)
      PROVE  RepliesFollow' /\ ThreadsFollow'
  <2>1. \A d \in Clients : d # c => Follows(d)'
    BY <1>1, Elsewhere, FollowsAlone DEF IInv, RepliesFollow
  <2>2. CASE Handler(c) \/ AcceptFails(c)
    <3>1. UNCHANGED <<client, thread>>
      BY <2>2 DEF Handler, CheckSize, Refuse, SendFails, OpenPush, OpenWatcher,
                  Listen, ListenFails, SendPort, AcceptPush, AcceptWatcher,
                  acceptConnection, AcceptFails, ListDevice, Answers, IoStep,
                  HandlerStep
    <3>2. ThreadsFollow'
      BY <3>1 DEF IInv, ThreadsFollow
    <3>3. QED
      BY <2>1, <2>2, <3>2, FollowsHandler DEF RepliesFollow
  <2>3. CASE Arrive(c) \/ Process(c) \/ Asks(c) \/ ClientLeaves(c)
    BY <2>1, <2>3, FollowsClient DEF RepliesFollow
  <2>4. QED
    BY <1>1, <2>2, <2>3 DEF Step
<1>2. CASE UNCHANGED vars
  <2>1. \A c \in Clients : Follows(c)'
    BY <1>2, FollowsAlone DEF IInv, RepliesFollow, vars, server
  <2>2. QED
    BY <1>2, <2>1 DEF IInv, RepliesFollow, ThreadsFollow, vars
<1>3. QED
  BY <1>1, <1>2 DEF Next, Step

(* Every step keeps what ties sockets, ports and waiting connections.      *)
LEMMA SocketInvNext ==
  ASSUME IInv, [Next]_vars, TypeOK'
  PROVE  SocketInv'
<1> USE DEF IInv
<1>0. SocketInv
  BY DEF SocketInv
<1>1. ASSUME NEW c \in Clients, Handler(c) \/ AcceptFails(c)
      PROVE  SocketInv'
  <2>1. "push" \in Roles /\ "watcher" \in Roles
    BY DEF Roles
  <2>2. ASSUME NEW r \in Roles, NEW from, NEW to, OpenedAt(r, from, to),
               Listen(c, r, from, to)
        PROVE  SocketInv'
    <3>1. CASE ListenFails(c, from)
      <4>1. SocketsFollowHandler'
        BY <3>1 DEF ListenFails, HandlerStep, SocketsFollowHandler, SocketsAgree,
                    Awaiting, TypeOK
      <4>2. QED
        BY <1>0, <3>1, <4>1, SocketsAlone DEF ListenFails
    <3>2. QED
      BY <1>0, <2>2, <3>1, SocketInvOpen DEF Listen
  <2>3. ASSUME NEW from, NEW to, HandlerStep(c, from, to),
               UNCHANGED <<socket, backlog>>,
               \/ to \in {"failed", "refused", "refuse"}
               \/ from \in Awaiting /\ to \in {"served", "abandoned"}
               \/ from = "check" /\ to = "listen push"
               \/ from = "send push" /\ to = "listen watcher"
               \/ from = "send watcher" /\ to = "accept push",
               to = "refused" => from = "refuse",
               to = "refuse" => from = "check"
        PROVE  SocketInv'
    <3>1. SocketsFollowHandler'
      BY <2>3 DEF HandlerStep, SocketsFollowHandler, SocketsAgree, Awaiting, TypeOK
    <3>2. QED
      BY <1>0, <2>3, <3>1, SocketsAlone
  <2>4. CASE CheckSize(c)
    BY <2>3, <2>4 DEF CheckSize
  <2>5. CASE Refuse(c)
    BY <2>3, <2>5 DEF Refuse, Sends, SendFails
  <2>6. CASE OpenPush(c)
    <3>1. CASE Listen(c, "push", "listen push", "send push")
      BY <2>1, <2>2, <3>1 DEF OpenedAt
    <3>2. CASE SendPort(c, "push", "send push", "listen watcher")
      BY <2>3, <3>2 DEF SendPort, Sends, SendFails
    <3>3. QED
      BY <2>6, <3>1, <3>2 DEF OpenPush
  <2>7. CASE OpenWatcher(c)
    <3>1. CASE Listen(c, "watcher", "listen watcher", "send watcher")
      BY <2>1, <2>2, <3>1 DEF OpenedAt
    <3>2. CASE SendPort(c, "watcher", "send watcher", "accept push")
      BY <2>3, <3>2 DEF SendPort, Sends, SendFails
    <3>3. QED
      BY <2>7, <3>1, <3>2 DEF OpenWatcher
  <2>8. CASE AcceptPush(c) \/ AcceptWatcher(c)
    BY <1>0, <2>1, <2>8, SocketInvAccept DEF AcceptPush, AcceptWatcher, AcceptedAt
  <2>9. CASE ListDevice(c)
    BY <2>3, <2>9 DEF ListDevice, Awaiting
  <2>10. CASE Answers(c)
    <3>1. UNCHANGED <<handler, socket, backlog>>
      BY <2>10 DEF Answers, IoStep, server
    <3>2. SocketsFollowHandler'
      BY <3>1 DEF SocketsFollowHandler, SocketsAgree
    <3>3. QED
      BY <1>0, <3>1, <3>2, SocketsAlone
  <2>11. CASE AcceptFails(c)
    BY <2>3, <2>11 DEF AcceptFails, Awaiting
  <2>12. QED
    BY <1>1, <2>4, <2>5, <2>6, <2>7, <2>8, <2>9, <2>10, <2>11 DEF Handler
<1>2. ASSUME NEW c \in Clients, Arrive(c)
      PROVE  SocketInv'
  <2>1. handler[c] = "none"
    BY <1>2 DEF Arrive, ClientStep, RepliesFollow, Follows
  <2>2. SocketsFollowHandler' /\ UNCHANGED <<socket, backlog>>
    BY <1>2, <2>1 DEF Arrive, ClientStep, SocketsFollowHandler, SocketsAgree,
                      Awaiting, TypeOK
  <2>3. QED
    BY <1>0, <2>2, SocketsAlone
<1>3. ASSUME UNCHANGED <<handler, socket, backlog>>
      PROVE  SocketInv'
  BY <1>0, <1>3, SocketsAlone DEF SocketsFollowHandler, SocketsAgree
<1>4. ASSUME NEW c \in Clients, Process(c) \/ Asks(c) \/ ClientLeaves(c)
      PROVE  SocketInv'
  <2>1. CASE \E r \in Roles : Connect(c, r)
    BY <1>0, <2>1, SocketInvConnect
  <2>2. CASE ~\E r \in Roles : Connect(c, r)
    <3>1. UNCHANGED <<handler, socket, backlog>>
      BY <1>4, <2>2
         DEF Process, Constructor, FirstPort, SecondPort, ClientStep, Ends,
             ReceivesError, ReceivesNothing, Unanswered, Thread, ConnectFails,
             PushGivesUp,
             GivesUp, FileThreadThrows, ThreadStep, Asks, IoStep, ClientLeaves,
             server
    <3>2. QED
      BY <1>3, <3>1
  <2>3. QED
    BY <2>1, <2>2
<1>5. CASE UNCHANGED vars
  BY <1>3, <1>5 DEF vars, server
<1>6. QED
  BY <1>1, <1>2, <1>4, <1>5 DEF Next

LEMMA Inductive == Spec => []IInv
<1>1. Init => IInv
  <2> SUFFICES ASSUME Init
               PROVE  IInv
    OBVIOUS
  <2>1. TypeOK
    <3>1. NoSocket \in Sockets
      BY DEF NoSocket, Sockets
    <3>2. ThreadAt("none", 0) \in Threads
      <4>1. max_retries \in Nat
        BY HandshakeAssumption
      <4>2. QED
        BY <4>1 DEF ThreadAt, Threads
    <3>3. QED
      BY <3>1, <3>2 DEF Init, TypeOK, HandlerPC, NoThreads
  <2>2. SocketsFollowHandler /\ PortsDistinct /\ SocketsMatched
    BY DEF Init, NoSocket, SocketsFollowHandler, SocketsAgree, Awaiting,
           PortsDistinct, SocketsMatched, Roles
  <2>3. BacklogMatched /\ RepliesFollow /\ ThreadsFollow
    BY DEF Init, BacklogMatched, RepliesFollow, Follows, ThreadsFollow,
           NoThreads, ThreadAt
  <2>4. QED
    BY <2>1, <2>2, <2>3 DEF IInv
<1>2. IInv /\ [Next]_vars => IInv'
  <2> SUFFICES ASSUME IInv, [Next]_vars
               PROVE  IInv'
    OBVIOUS
  <2>1. TypeOK'
    BY TypeNext DEF IInv
  <2>2. QED
    BY <2>1, SocketInvNext, FollowsNext DEF IInv, SocketInv
<1>3. QED
  BY <1>1, <1>2, PTL DEF Spec

(* Every reachable state of the handshake has the types that TypeOK says.  *)
THEOREM TypeCorrect == Spec => []TypeOK
<1>1. IInv => TypeOK
  BY DEF IInv
<1>2. QED
  BY <1>1, Inductive, PTL

(* A device takes for its pushes, and for its watcher, the connection that *)
(* this thread of its own client has made: whatever the order in which     *)
(* clients come and leave and threads try again, and whoever else waits.   *)
THEOREM MatchedCorrect == Spec => []SocketsMatched
<1>1. IInv => SocketsMatched
  BY DEF IInv
<1>2. QED
  BY <1>1, Inductive, PTL

(* No client starts its threads unless both of its sockets at the server   *)
(* are open and it knows their ports: all that can fail at the server      *)
(* before that has not, and what can fail after it is an accept.           *)
THEOREM AwaitedCorrect == Spec => []ThreadsAreAwaited
<1>1. ASSUME IInv
      PROVE  ThreadsAreAwaited
  <2> SUFFICES ASSUME NEW c \in Clients, \E r \in Roles : thread[c][r].pc # "none"
               PROVE  /\ handler[c] \in Awaiting
                      /\ \A r \in Roles : /\ socket[c][r].state # "none"
                                           /\ port[c][r] = socket[c][r].port
    BY DEF ThreadsAreAwaited, Awaiting
  <2>1. /\ handler[c] \in Awaiting
        /\ \A r \in Roles : port[c][r] = socket[c][r].port
    BY <1>1 DEF IInv, ThreadsFollow, RepliesFollow, Follows
  <2>2. \A r \in Roles : socket[c][r].state # "none"
    BY <1>1, <2>1 DEF IInv, SocketsFollowHandler, SocketsAgree, Roles
  <2>3. QED
    BY <2>1, <2>2
<1>2. QED
  BY <1>1, Inductive, PTL
=============================================================================
