----------------------------- MODULE Handshake -----------------------------
(***************************************************************************)
(* How a client and its device become connected: the constructor of Client *)
(* (src/Client/client.cpp) with the threads it starts, and on the server   *)
(* handle_new_connection (src/Server/ClientManager.cpp) with the           *)
(* constructor of Device (src/Server/Device.cpp), which opens two sockets, *)
(* sends their ports and waits, without a time limit, for the client to    *)
(* connect to both.  An accept may fail too: then the client is connected  *)
(* to sockets that nobody will accept from.                                *)
(*                                                                         *)
(* What Device and ClientManager do once the device is listed is in the    *)
(* modules of these names.                                                 *)
(***************************************************************************)
EXTENDS Naturals, Sequences, FiniteSets

CONSTANTS
  Clients,      \* the clients of one user, one connection each
  Ports,        \* the ports that the system can give to a socket
  None,         \* no port, no peer
  max_devices,
  max_retries   \* 150 in connect_to_socket

ASSUME HandshakeAssumption ==
  /\ None \notin Ports \cup (Clients \X {"push", "watcher"})
  /\ max_devices \in Nat /\ max_retries \in Nat

VARIABLES
  handler,   \* where the server's thread for a connection is
  socket,    \* of push_manager and of file_watcher_receiver
  backlog,   \* connections to a port that nobody has accepted yet
  devices,   \* the clients whose device is listed
  client,    \* where the client's constructor is
  replies,   \* packets on the command connection, to the client
  port,      \* push_port and file_watcher_port of the client
  thread,    \* its push and file threads: place, and retries
  io         \* its IO thread

server == <<handler, socket, devices>>
vars == <<server, backlog, client, replies, port, thread, io>>

Roles == {"push", "watcher"}

PortPacket(p) == [type |-> "PORT", port |-> p]

ErrorPacket == [type |-> "ERROR", port |-> None]

HandlerPC == {"none", "check", "refuse", "listen push", "send push",
              "listen watcher", "send watcher", "accept push",
              "accept watcher", "list", "served", "refused", "failed", "abandoned"}

Sockets ==
  [state : {"none"}, port : {None}, peer : {None}]
  \cup [state : {"listening"}, port : Ports, peer : {None}]
  \cup [state : {"connected"}, port : Ports, peer : Clients \X Roles]

Packets == {PortPacket(p) : p \in Ports} \cup {ErrorPacket}

Threads == [pc : {"none", "connect", "connected", "gave up"},
            retries : 0..max_retries]

TypeOK ==
  /\ handler \in [Clients -> HandlerPC]
  /\ socket \in [Clients -> [Roles -> Sockets]]
  /\ backlog \in [Ports -> Seq(Clients \X Roles)]
  /\ devices \subseteq Clients
  /\ client \in [Clients -> {"start", "first", "second", "threads", "ended"}]
  /\ replies \in [Clients -> Seq(Packets)]
  /\ port \in [Clients -> [Roles -> Ports \cup {None}]]
  /\ thread \in [Clients -> [Roles -> Threads]]
  /\ io \in [Clients -> {"none", "idle", "waiting"}]

NoSocket == [state |-> "none", port |-> None, peer |-> None]

ThreadAt(pc, retries) == [pc |-> pc, retries |-> retries]

NoThreads == [r \in Roles |-> ThreadAt("none", 0)]

Init ==
  /\ handler = [c \in Clients |-> "none"]
  /\ socket = [c \in Clients |-> [r \in Roles |-> NoSocket]]
  /\ backlog = [p \in Ports |-> << >>]
  /\ devices = {}
  /\ client = [c \in Clients |-> "start"]
  /\ replies = [c \in Clients |-> << >>]
  /\ port = [c \in Clients |-> [r \in Roles |-> None]]
  /\ thread = [c \in Clients |-> NoThreads]
  /\ io = [c \in Clients |-> "none"]

-----------------------------------------------------------------------------
(* The server: handle_new_connection and Device::Device *)

HandlerStep(c, from, to) ==
  /\ handler[c] = from
  /\ handler' = [handler EXCEPT ![c] = to]
  /\ UNCHANGED <<client, port, thread, io>>

CheckSize(c) ==
  /\ HandlerStep(c, "check", IF Cardinality(devices) = max_devices
                             THEN "refuse" ELSE "listen push")
  /\ UNCHANGED <<socket, backlog, devices, replies>>

(* A packet to a client that has ended is lost, or sendPacket throws.      *)
Sends(c, packet) ==
  /\ replies' = IF client[c] = "ended" THEN replies
                ELSE [replies EXCEPT ![c] = Append(@, packet)]
  /\ UNCHANGED <<socket, backlog, devices>>

SendFails(c, from) ==
  /\ client[c] = "ended"
  /\ HandlerStep(c, from, "failed")
  /\ UNCHANGED <<socket, backlog, devices, replies>>

Refuse(c) ==
  \/ HandlerStep(c, "refuse", "refused") /\ Sends(c, ErrorPacket)
  \/ SendFails(c, "refuse")

Used == {p \in Ports : \E c \in Clients, r \in Roles : socket[c][r].port = p}

Opens(c, r, p) ==
  /\ socket' = [socket EXCEPT ![c][r] =
                  [state |-> "listening", port |-> p, peer |-> None]]
  /\ UNCHANGED <<backlog, devices, replies>>

(* Mutant: the port that the system chose is not asked for. *)
SocketWithoutPort(c, r) == Opens(c, r, None)

(* bind() to a port that the system chooses, and listen().                 *)
createAndSetupSocket(c, r) == \E p \in Ports \ Used : Opens(c, r, p)

ListenFails(c, from) ==
  /\ HandlerStep(c, from, "failed")
  /\ UNCHANGED <<socket, backlog, devices, replies>>

Listen(c, r, from, to) ==
  \/ HandlerStep(c, from, to) /\ createAndSetupSocket(c, r)
  \/ ListenFails(c, from)

SendPort(c, r, from, to) ==
  \/ HandlerStep(c, from, to) /\ Sends(c, PortPacket(socket[c][r].port))
  \/ SendFails(c, from)

(* acceptConnection closes the socket that listens. *)
acceptConnection(c, r, from, to) ==
  LET p == socket[c][r].port IN
  /\ HandlerStep(c, from, to)
  /\ backlog[p] # << >>
  /\ socket' = [socket EXCEPT ![c][r] =
                  [state |-> "connected", port |-> p, peer |-> Head(backlog[p])]]
  /\ backlog' = [backlog EXCEPT ![p] = << >>]
  /\ UNCHANGED <<devices, replies>>

OpenPush(c) ==
  \/ Listen(c, "push", "listen push", "send push")
  \/ SendPort(c, "push", "send push", "listen watcher")

OpenWatcher(c) ==
  \/ Listen(c, "watcher", "listen watcher", "send watcher")
  \/ SendPort(c, "watcher", "send watcher", "accept push")

(* getsockname() or accept() fails, with both ports sent: accept() takes   *)
(* its descriptor before it looks for a connection, so it may fail         *)
(* whatever waits.  Device is half built and its destructor does not run:  *)
(* what listens or is connected stays so.                                  *)
AcceptFails(c) ==
  /\ \E from \in {"accept push", "accept watcher"} :
       HandlerStep(c, from, "abandoned")
  /\ UNCHANGED <<socket, backlog, devices, replies>>

AcceptPush(c) == acceptConnection(c, "push", "accept push", "accept watcher")

AcceptWatcher(c) == acceptConnection(c, "watcher", "accept watcher", "list")

ListDevice(c) ==
  /\ HandlerStep(c, "list", "served")
  /\ devices' = devices \cup {c}
  /\ UNCHANGED <<socket, backlog, replies>>


(* The handler has closed the command connection: after the refusal, or    *)
(* where it catches what went wrong.                                       *)
Closed(c) == handler[c] \in {"refused", "failed", "abandoned"}

-----------------------------------------------------------------------------
(* The client: Client::Client *)

ClientStep(c, from, to) ==
  /\ client[c] = from
  /\ client' = [client EXCEPT ![c] = to]
  /\ UNCHANGED <<socket, backlog, devices>>

(* It connects and sends its name, and the main loop of the server starts  *)
(* the handler.                                                            *)
Arrive(c) ==
  /\ ClientStep(c, "start", "first")
  /\ handler' = [handler EXCEPT ![c] = "check"]
  /\ UNCHANGED <<replies, port, thread, io>>

TakesPort(c, r) ==
  /\ replies[c] # << >> /\ Head(replies[c]).type = "PORT"
  /\ replies' = [replies EXCEPT ![c] = Tail(@)]
  /\ port' = [port EXCEPT ![c][r] = Head(replies[c]).port]

(* Mutant: the packets are taken in the other order. *)
ReceivesOther(c, r) == \E s \in Roles \ {r} : TakesPort(c, s)

ReceivesPort(c, r) == TakesPort(c, r)

(* Mutant: the push thread starts as soon as its port is known. *)
StartsAtOnce(c) ==
  /\ ClientStep(c, "first", "second")
  /\ ReceivesPort(c, "push")
  /\ thread' = [thread EXCEPT ![c]["push"] = ThreadAt("connect", 0)]
  /\ UNCHANGED <<handler, io>>

FirstPort(c) ==
  /\ ClientStep(c, "first", "second")
  /\ ReceivesPort(c, "push")
  /\ UNCHANGED <<handler, thread, io>>

(* Both ports are known: the threads start. *)
SecondPort(c) ==
  /\ ClientStep(c, "second", "threads")
  /\ ReceivesPort(c, "watcher")
  /\ thread' = [thread EXCEPT ![c] = [r \in Roles |-> ThreadAt("connect", 0)]]
  /\ io' = [io EXCEPT ![c] = "idle"]
  /\ UNCHANGED handler

(* The process ends, and all it knows and its threads with it. *)
Ends(c) ==
  /\ client' = [client EXCEPT ![c] = "ended"]
  /\ replies' = [replies EXCEPT ![c] = << >>]
  /\ port' = [port EXCEPT ![c] = [r \in Roles |-> None]]
  /\ thread' = [thread EXCEPT ![c] = NoThreads]
  /\ io' = [io EXCEPT ![c] = "none"]
  /\ UNCHANGED <<server, backlog>>

(* Client::Client throws what the server says. *)
ReceivesError(c) ==
  /\ client[c] = "first"
  /\ replies[c] # << >> /\ Head(replies[c]).type = "ERROR"
  /\ Ends(c)

(* The server has closed the connection: receivePacket throws.             *)
ReceivesNothing(c) ==
  /\ client[c] \in {"first", "second"}
  /\ replies[c] = << >> /\ Closed(c)
  /\ Ends(c)

ClientLeaves(c) == client[c] # "ended" /\ Ends(c)

-----------------------------------------------------------------------------
(* The client's threads: connect_to_socket *)

Connecting(c, r) == client[c] = "threads" /\ thread[c][r].pc = "connect"

ThreadStep(c, r) ==
  /\ Connecting(c, r)
  /\ UNCHANGED <<server, client, replies, port, io>>

(* The system completes a connection before it is accepted. *)
Connect(c, r) ==
  LET p == port[c][r] IN
  /\ ThreadStep(c, r)
  /\ \E d \in Clients, s \in Roles :
       socket[d][s].state = "listening" /\ socket[d][s].port = p
  /\ backlog' = [backlog EXCEPT ![p] = Append(@, <<c, r>>)]
  /\ thread' = [thread EXCEPT ![c][r] = ThreadAt("connected", 0)]

ConnectFails(c, r) ==
  /\ ThreadStep(c, r)
  /\ thread[c][r].retries < max_retries
  /\ thread' = [thread EXCEPT ![c][r] = ThreadAt("connect", @.retries + 1)]
  /\ UNCHANGED backlog

(* The last try.  The push thread logs it and ends, and the client goes on;*)
(* the file thread throws, and the client terminates.                      *)
GivesUp(c, r) ==
  /\ ThreadStep(c, r)
  /\ thread[c][r].retries = max_retries
  /\ thread' = [thread EXCEPT ![c][r] = ThreadAt("gave up", 0)]
  /\ UNCHANGED backlog

PushGivesUp(c) == GivesUp(c, "push")

(* Mutant: the file thread ends quietly too. *)
FileThreadReturns(c) == GivesUp(c, "watcher")

FileThreadThrows(c) ==
  /\ Connecting(c, "watcher")
  /\ thread[c]["watcher"].retries = max_retries
  /\ Ends(c)

(* A command of the user, which the device answers once it is there. *)
IoStep(c, from, to) ==
  /\ client[c] = "threads"
  /\ io[c] = from
  /\ io' = [io EXCEPT ![c] = to]
  /\ UNCHANGED <<server, backlog, client, replies, port, thread>>

Asks(c) == IoStep(c, "idle", "waiting")

Answers(c) == handler[c] = "served" /\ IoStep(c, "waiting", "idle")

(* receivePacket throws in the IO thread, and nothing there catches it.    *)
Unanswered(c) ==
  /\ client[c] = "threads" /\ io[c] = "waiting" /\ Closed(c)
  /\ Ends(c)

-----------------------------------------------------------------------------
Handler(c) ==
  \/ CheckSize(c) \/ Refuse(c) \/ OpenPush(c) \/ OpenWatcher(c)
  \/ AcceptPush(c) \/ AcceptWatcher(c) \/ ListDevice(c) \/ Answers(c)

Constructor(c) ==
  FirstPort(c) \/ SecondPort(c) \/ ReceivesError(c) \/ ReceivesNothing(c)

Thread(c, r) ==
  \/ Connect(c, r) \/ ConnectFails(c, r)
  \/ r = "push" /\ PushGivesUp(c)
  \/ r = "watcher" /\ FileThreadThrows(c)

Process(c) == Constructor(c) \/ Unanswered(c) \/ \E r \in Roles : Thread(c, r)

Next ==
  \E c \in Clients :
    \/ Handler(c) \/ AcceptFails(c) \/ Arrive(c) \/ Process(c)
    \/ Asks(c) \/ ClientLeaves(c)

Spec == Init /\ [][Next]_vars

(* The server runs, and the client, each of whose threads makes a bounded  *)
(* number of steps.  Clients come, ask and leave as they like, and an      *)
(* accept need not fail.                                                   *)
Fairness ==
  \A c \in Clients : WF_vars(Handler(c)) /\ WF_vars(Process(c))

FairSpec == Spec /\ Fairness
-----------------------------------------------------------------------------
(* Properties *)

(* The connection that a device takes for the pushes, or for the file      *)
(* thread, is the one that this thread of its own client has made, though  *)
(* all that ties them is the order of two packets and a number.            *)
SocketsMatched ==
  \A c \in Clients, r \in Roles :
    socket[c][r].state = "connected" => socket[c][r].peer = <<c, r>>

(* A client starts its threads only when both sockets that they need are   *)
(* open, and each thread knows the port of its own: whatever fails before  *)
(* the second port is sent, in whatever order it is noticed, starts none.  *)
(* An accept may still fail, and then the sockets stay open without anyone *)
(* who accepts.                                                            *)
ThreadsAreAwaited ==
  \A c \in Clients :
    (\E r \in Roles : thread[c][r].pc # "none") =>
      /\ handler[c] \in {"accept push", "accept watcher", "list", "served",
                         "abandoned"}
      /\ \A r \in Roles : /\ socket[c][r].state # "none"
                           /\ port[c][r] = socket[c][r].port

=============================================================================
