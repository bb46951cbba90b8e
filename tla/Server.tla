------------------------------- MODULE Server -------------------------------
(***************************************************************************)
(* The leader server and the backup servers that join it                   *)
(* (src/Server/Server.cpp): the leader's main loop (Server::run), its      *)
(* thread for each backup (Server::handlePeerThread), the constructor that *)
(* a backup runs to join, and the backup's thread that hears of new        *)
(* clients.                                                                *)
(*                                                                         *)
(* A connection delivered to its ClientManager is out of this module (see  *)
(* ClientManager).  Channels are TCP connections: packets arrive in order, *)
(* and a receiver sees the connection close after the packets sent before. *)
(* A backup also accepts connections of its own, which no client opens:    *)
(* its port is a member that the constructor never sets.                   *)
(***************************************************************************)
EXTENDS Naturals, Sequences, SequencesExt

CONSTANTS
  Clients,   \* connections that clients open to the leader
  Users,     \* the names clients give
  Numbers,   \* the names that begin with a digit
  Peers,     \* backup servers
  Unnamed    \* not a user name

ASSUME NumbersAssumption == Numbers \subseteq Users
ASSUME UnnamedAssumption == Unnamed \notin Users \cup Peers

VARIABLES
  (* the leader *)
  queue,             \* connections waiting for accept()
  main,              \* where run() is: pc, connection, user and peer index
  clients,           \* the usernames of its ClientManagers, in order
  backup_peers,      \* backup_peers of each user's ClientManager
  peer_connections,  \* the backups that announced themselves, in order
  peer_thread,       \* handlePeerThread of each backup
  connection,        \* what became of each client connection
  process,           \* the leader: "running", or "terminated"
  (* the network *)
  to_leader, to_peer, \* packets under way on each backup's connection
  push_port,         \* socket the leader opened for a backup's push receiver
  (* the backups *)
  backup,            \* how far the backup's constructor has come
  backup_thread,     \* its handlePeerThread
  backup_clients,    \* the usernames of its ClientManagers
  (* history *)
  replies,           \* types of the packets the constructor took for replies
  known              \* backups connected when a user's manager was created

leader == <<queue, main, clients, backup_peers, peer_connections, peer_thread,
            connection, process>>
network == <<to_leader, to_peer, push_port>>
backups == <<backup, backup_thread, backup_clients>>
history == <<replies, known>>
vars == <<leader, network, backups, history>>

Types == {"PEER", "WHO_IS_LEADER", "LEADER", "GET_CLIENTS", "CLIENTS",
          "CLIENT_CONNECTION"}

(* Only a CLIENT_CONNECTION names a user.  The ports behind the name are   *)
(* never read.                                                             *)
Packet(type, user) == [type |-> type, user |-> user]

Plain(type) == Packet(type, Unnamed)

(* The name a backup reads from a CLIENT_CONNECTION message, whose first   *)
(* word is not the user's name.                                            *)
Keyword == "CLIENT_CONNECTION"

Packets == [type : Types, user : Users \cup {Unnamed}]

Places == [pc : {"accept", "first packet", "notify", "accept push", "deliver"},
           from : Clients \cup Peers \cup {Unnamed},
           user : Users \cup {Unnamed}, i : Nat]

TypeOK ==
  /\ queue \in Seq(Clients \cup Peers)
  /\ main \in Places
  /\ clients \in Seq(Users)
  /\ backup_peers \in [Users -> SUBSET Peers]
  /\ peer_connections \in Seq(Peers)
  /\ peer_thread \in [Peers -> {"none", "receive", "listed", "listing", "stale",
                                "ended"}]
  /\ connection \in [Clients -> {"none", "queued", "delivered"}]
  /\ process \in {"running", "terminated"}
  /\ to_leader \in [Peers -> Seq(Packets)]
  /\ to_peer \in [Peers -> Seq(Packets)]
  /\ push_port \in [Peers -> {"closed", "listening", "connected"}]
  /\ backup \in [Peers -> {"off", "connected", "leader", "clients", "running",
                           "stopped"}]
  /\ backup_thread \in [Peers -> {"none", "receive", "ended"}]
  /\ backup_clients \in [Peers -> SUBSET (Users \cup {Keyword})]
  /\ replies \in [Peers -> Seq(Types)]
  /\ known \in [Users -> SUBSET Peers]

Place(pc, from, user, i) == [pc |-> pc, from |-> from, user |-> user, i |-> i]

Idle == Place("accept", Unnamed, Unnamed, 0)

Init ==
  /\ queue = << >>
  /\ main = Idle
  /\ clients = << >>
  /\ backup_peers = [u \in Users |-> {}]
  /\ peer_connections = << >>
  /\ peer_thread = [p \in Peers |-> "none"]
  /\ connection = [c \in Clients |-> "none"]
  /\ process = "running"
  /\ to_leader = [p \in Peers |-> << >>]
  /\ to_peer = [p \in Peers |-> << >>]
  /\ push_port = [p \in Peers |-> "closed"]
  /\ backup = [p \in Peers |-> "off"]
  /\ backup_thread = [p \in Peers |-> "none"]
  /\ backup_clients = [p \in Peers |-> {}]
  /\ replies = [p \in Peers |-> << >>]
  /\ known = [u \in Users |-> {}]

Running == process = "running"

(* The leader receives the end of a backup's connection: after the last    *)
(* packet, or before it when the backup left packets unread, which resets  *)
(* the connection.                                                         *)
Cut(p) == backup[p] = "stopped" /\ (to_leader[p] = << >> \/ to_peer[p] # << >>)

ClientConnects(c) ==
  /\ Running
  /\ connection[c] = "none"
  /\ connection' = [connection EXCEPT ![c] = "queued"]
  /\ queue' = Append(queue, c)
  /\ UNCHANGED <<main, clients, backup_peers, peer_connections, peer_thread,
                 process, network, backups, history>>

-----------------------------------------------------------------------------
(* Server::run *)

MainStep(from) ==
  /\ Running
  /\ main.pc = from
  /\ UNCHANGED <<backups, replies>>

Accept ==
  /\ MainStep("accept")
  /\ queue # << >>
  /\ main' = Place("first packet", Head(queue), Unnamed, 0)
  /\ queue' = Tail(queue)
  /\ UNCHANGED <<clients, backup_peers, peer_connections, peer_thread,
                 connection, process, network, known>>

clientExists(user) == user \in ToSet(clients)

(* push_back replaces a vector that is full, and a full one has room for a *)
(* power of two.  A thread about to read the old one is left behind.       *)
Reallocates(n) == \E k \in 0..n : n = 2 ^ k

(* A t_CLIENT packet: the first connection of a user creates its manager   *)
(* and every backup known so far is told.                                  *)
FirstIsClient(user) ==
  LET new == ~clientExists(user) IN
  /\ MainStep("first packet")
  /\ main.from \in Clients
  /\ clients' = IF new THEN Append(clients, user) ELSE clients
  /\ known' = IF new THEN [known EXCEPT ![user] = ToSet(peer_connections)]
              ELSE known
  /\ peer_thread' = [p \in Peers |->
                       IF /\ peer_thread[p] = "listing" /\ new
                          /\ Reallocates(Len(clients))
                       THEN "stale" ELSE peer_thread[p]]
  /\ main' = Place(IF new /\ peer_connections # << >> THEN "notify" ELSE "deliver",
                   main.from, user, 1)
  /\ UNCHANGED <<queue, backup_peers, peer_connections, connection, process,
                 network>>

(* Mutant: the type of the packet is not tested. *)
FirstIsAnyPeer ==
  /\ MainStep("first packet")
  /\ peer_connections' = Append(peer_connections, main.from)
  /\ main' = Idle
  /\ UNCHANGED <<queue, clients, backup_peers, peer_thread, connection, process,
                 network, known>>

(* A t_PEER packet; the thread for the backup starts at once. *)
TakesPeer ==
  LET p == main.from IN
  /\ MainStep("first packet")
  /\ p \in Peers
  /\ to_leader[p] # << >> /\ Head(to_leader[p]).type = "PEER"
  /\ to_leader' = [to_leader EXCEPT ![p] = Tail(@)]
  /\ peer_connections' = Append(peer_connections, p)
  /\ peer_thread' = [peer_thread EXCEPT ![p] = "receive"]
  /\ UNCHANGED <<queue, clients, backup_peers, connection, process, to_peer,
                 push_port, known>>

(* Mutant: the backup's thread is joined instead of detached. *)
FirstIsPeerJoined == TakesPeer /\ UNCHANGED main

FirstIsPeer == TakesPeer /\ main' = Idle

(* The connection ends before the first packet: run() does not catch what  *)
(* receivePacket throws.                                                   *)
FirstThrows ==
  /\ MainStep("first packet")
  /\ \/ main.from \in Clients
     \/ main.from \in Peers /\ Cut(main.from)
  /\ process' = "terminated"
  /\ UNCHANGED <<queue, main, clients, backup_peers, peer_connections,
                 peer_thread, connection, network, known>>

Told == peer_connections[main.i]

(* A socket for the backup's push receiver, and the message with its port. *)
Notify ==
  /\ MainStep("notify")
  /\ push_port' = [push_port EXCEPT ![Told] = "listening"]
  /\ to_peer' = [to_peer EXCEPT ![Told] =
                   Append(@, Packet("CLIENT_CONNECTION", main.user))]
  /\ main' = Place("accept push", main.from, main.user, main.i)
  /\ UNCHANGED <<queue, clients, backup_peers, peer_connections, peer_thread,
                 connection, process, to_leader, known>>

(* Sending to a backup that has stopped throws, and nothing catches it.    *)
NotifyThrows ==
  /\ MainStep("notify")
  /\ backup[Told] = "stopped"
  /\ process' = "terminated"
  /\ UNCHANGED <<queue, main, clients, backup_peers, peer_connections,
                 peer_thread, connection, network, known>>

(* acceptConnection, without a time limit, then add_new_backup; the loop   *)
(* goes on to the next backup or ends.                                     *)
PushAccepted(more) ==
  /\ MainStep("accept push")
  /\ push_port[Told] = "connected"
  /\ push_port' = [push_port EXCEPT ![Told] = "closed"]
  /\ backup_peers' = [backup_peers EXCEPT ![main.user] = @ \cup {Told}]
  /\ main' = IF more THEN Place("notify", main.from, main.user, main.i + 1)
             ELSE Place("deliver", main.from, main.user, main.i)
  /\ UNCHANGED <<queue, clients, peer_connections, peer_thread, connection,
                 process, to_leader, to_peer, known>>

(* Mutant: the loop ends before the last backup. *)
AcceptPushButLast == PushAccepted(main.i + 1 < Len(peer_connections))

AcceptPush == PushAccepted(main.i < Len(peer_connections))

(* deliverToManager *)
Deliver ==
  /\ MainStep("deliver")
  /\ connection' = [connection EXCEPT ![main.from] = "delivered"]
  /\ main' = Idle
  /\ UNCHANGED <<queue, clients, backup_peers, peer_connections, peer_thread,
                 process, network, known>>

-----------------------------------------------------------------------------
(* Server::handlePeerThread at the leader *)

PeerStep(p, from, to) ==
  /\ Running
  /\ peer_thread[p] = from
  /\ peer_thread' = [peer_thread EXCEPT ![p] = to]
  /\ UNCHANGED <<queue, main, clients, backup_peers, peer_connections,
                 connection, push_port, backups, history>>

Receives(p, type) ==
  /\ to_leader[p] # << >>
  /\ Head(to_leader[p]).type = type
  /\ to_leader' = [to_leader EXCEPT ![p] = Tail(@)]

Sends(p, type) == to_peer' = [to_peer EXCEPT ![p] = Append(@, Plain(type))]

(* Mutant: only a backup answers. *)
PeerAsksInVain(p) ==
  /\ PeerStep(p, "receive", "receive")
  /\ Receives(p, "WHO_IS_LEADER")
  /\ UNCHANGED <<to_peer, process>>

PeerAsksLeader(p) ==
  /\ PeerStep(p, "receive", "receive")
  /\ Receives(p, "WHO_IS_LEADER")
  /\ Sends(p, "LEADER")
  /\ UNCHANGED process

(* getClients walks the vector without the mutex: begin() and end() first. *)
PeerAsksClients(p) ==
  /\ PeerStep(p, "receive", IF clients = << >> THEN "listed" ELSE "listing")
  /\ Receives(p, "GET_CLIENTS")
  /\ UNCHANGED <<to_peer, process>>

(* An empty list is sent. *)
ListIsSent(p) ==
  /\ PeerStep(p, "listed", "receive")
  /\ Sends(p, "CLIENTS")
  /\ UNCHANGED <<to_leader, process>>

(* The first manager is asked for its address and throws, as no manager    *)
(* has a NetworkManager.  The thread ends and its socket stays open.       *)
ListingThrows(p) ==
  /\ PeerStep(p, "listing", "ended")
  /\ UNCHANGED <<to_leader, to_peer, process>>

(* The first manager is read from a vector that has been freed. *)
ListingUsesFreed(p) ==
  /\ PeerStep(p, "stale", "stale")
  /\ process' = "terminated"
  /\ UNCHANGED <<to_leader, to_peer>>

(* The connection has ended, or a reply cannot be sent. *)
PeerLost(p) ==
  /\ \/ Cut(p) /\ PeerStep(p, "receive", "ended")
     \/ backup[p] = "stopped" /\ PeerStep(p, "listed", "ended")
  /\ UNCHANGED <<to_leader, to_peer, process>>

-----------------------------------------------------------------------------
(* A backup: Server::Server(state, port, ip, port) and its peer thread *)

BackupStep(p, from, to) ==
  /\ backup[p] = from
  /\ backup' = [backup EXCEPT ![p] = to]
  /\ UNCHANGED <<main, clients, backup_peers, peer_connections, peer_thread,
                 connection, process, push_port, backup_clients, known>>

BackupConnects(p) ==
  /\ Running
  /\ BackupStep(p, "off", "connected")
  /\ queue' = Append(queue, p)
  /\ UNCHANGED <<to_leader, to_peer, backup_thread, replies>>

BackupAnnounces(p) ==
  /\ BackupStep(p, "connected", "leader")
  /\ to_leader' = [to_leader EXCEPT ![p] =
                     <<Plain("PEER"), Plain("WHO_IS_LEADER")>>]
  /\ UNCHANGED <<queue, to_peer, backup_thread, replies>>

(* Any packet is taken for the reply. *)
TakesReply(p) ==
  /\ to_peer[p] # << >>
  /\ to_peer' = [to_peer EXCEPT ![p] = Tail(@)]
  /\ replies' = [replies EXCEPT ![p] = Append(@, Head(to_peer[p]).type)]

(* Mutant: the list is requested before the first reply is received. *)
BackupAsksAtOnce(p) ==
  /\ BackupStep(p, "leader", "clients")
  /\ to_leader' = [to_leader EXCEPT ![p] = Append(@, Plain("GET_CLIENTS"))]
  /\ UNCHANGED <<queue, to_peer, backup_thread, replies>>

BackupHearsLeader(p) ==
  /\ BackupStep(p, "leader", "clients")
  /\ TakesReply(p)
  /\ to_leader' = [to_leader EXCEPT ![p] =
                     Append(@, Plain("GET_CLIENTS"))]
  /\ UNCHANGED <<queue, backup_thread>>

BackupHearsClients(p) ==
  /\ BackupStep(p, "clients", "running")
  /\ TakesReply(p)
  /\ backup_thread' = [backup_thread EXCEPT ![p] = "receive"]
  /\ UNCHANGED <<queue, to_leader>>

(* The backup crashes, or the leader is gone while the constructor sends   *)
(* or waits and nothing catches what is thrown.                            *)
BackupStops(p) ==
  /\ backup[p] \in {"connected", "leader", "clients", "running"}
  /\ backup' = [backup EXCEPT ![p] = "stopped"]
  /\ backup_thread' = [backup_thread EXCEPT ![p] = "ended"]
  /\ UNCHANGED <<leader, network, backup_clients, history>>

ThreadTakes(p) ==
  /\ backup_thread[p] = "receive"
  /\ to_peer[p] # << >>
  /\ to_peer' = [to_peer EXCEPT ![p] = Tail(@)]
  /\ UNCHANGED <<leader, to_leader, backup, history>>

(* A packet the thread has no branch for, or a client it knows.            *)
BackupIgnores(p) ==
  /\ ThreadTakes(p)
  /\ \/ Head(to_peer[p]).type # "CLIENT_CONNECTION"
     \/ Keyword \in backup_clients[p]
  /\ UNCHANGED <<push_port, backup_thread, backup_clients>>

(* A new client.  The name read is the keyword of the message and the port *)
(* is read from the user's name, so connectTo throws, unless the name is a *)
(* number that happens to be an open port: the one meant, or another.      *)
BackupLearns(p) ==
  LET packet == Head(to_peer[p]) IN
  /\ ThreadTakes(p)
  /\ packet.type = "CLIENT_CONNECTION"
  /\ Keyword \notin backup_clients[p]
  /\ backup_clients' = [backup_clients EXCEPT ![p] = @ \cup {Keyword}]
  /\ \/ /\ backup_thread' = [backup_thread EXCEPT ![p] = "ended"]
        /\ UNCHANGED push_port
     \/ /\ packet.user \in Numbers
        /\ Running
        /\ push_port[p] = "listening"
        /\ push_port' = [push_port EXCEPT ![p] = "connected"]
        /\ UNCHANGED backup_thread
     \/ /\ packet.user \in Numbers
        /\ UNCHANGED <<push_port, backup_thread>>

(* The leader is gone; what it left unread resets the connection. *)
BackupThreadEnds(p) ==
  /\ ~Running
  /\ backup_thread[p] = "receive"
  /\ to_peer[p] = << >> \/ to_leader[p] # << >>
  /\ backup_thread' = [backup_thread EXCEPT ![p] = "ended"]
  /\ UNCHANGED <<leader, network, backup, backup_clients, history>>

-----------------------------------------------------------------------------
Main ==
  \/ Accept \/ (\E u \in Users : FirstIsClient(u)) \/ FirstIsPeer
  \/ FirstThrows \/ Notify \/ NotifyThrows \/ AcceptPush \/ Deliver

PeerThread(p) ==
  \/ PeerAsksLeader(p) \/ PeerAsksClients(p) \/ ListIsSent(p)
  \/ ListingThrows(p) \/ ListingUsesFreed(p) \/ PeerLost(p)

Backup(p) ==
  \/ BackupConnects(p) \/ BackupAnnounces(p) \/ BackupHearsLeader(p)
  \/ BackupHearsClients(p) \/ BackupStops(p) \/ BackupIgnores(p)
  \/ BackupLearns(p) \/ BackupThreadEnds(p)

Next ==
  \/ Main
  \/ \E c \in Clients : ClientConnects(c)
  \/ \E p \in Peers : PeerThread(p) \/ Backup(p)

Spec == Init /\ [][Next]_vars

(* Every thread that can run is scheduled and packets arrive.  A client    *)
(* need not send its first packet, and nothing has to stop.                *)
Fairness ==
  /\ WF_vars(Accept) /\ WF_vars(FirstIsPeer)
  /\ WF_vars(main.from \in Peers /\ FirstThrows)
  /\ WF_vars(Notify \/ NotifyThrows) /\ WF_vars(AcceptPush) /\ WF_vars(Deliver)
  /\ \A p \in Peers :
       /\ WF_vars(PeerThread(p))
       /\ WF_vars(BackupAnnounces(p)) /\ WF_vars(BackupHearsLeader(p))
       /\ WF_vars(BackupHearsClients(p))
       /\ WF_vars(BackupIgnores(p) \/ BackupLearns(p) \/ BackupThreadEnds(p))

FairSpec == Spec /\ Fairness
-----------------------------------------------------------------------------
(* Properties *)

(* No connection of a user gets past the main loop before every backup     *)
(* known when the user's manager was created is one of its backup peers:   *)
(* no push made through the manager can miss one.  While the manager is    *)
(* being announced its backup peers are those already passed in the loop.  *)
Announcing(u) == main.user = u /\ main.pc \in {"notify", "accept push"}

ReplicatedBeforeDelivered ==
  \A u \in ToSet(clients) :
    backup_peers[u] = IF Announcing(u)
                      THEN {peer_connections[i] : i \in 1..(main.i - 1)}
                      ELSE known[u]

(* The two replies that a backup's constructor waits for are told apart by *)
(* their order only.  They are the leader's address and the list, in this  *)
(* order, unless a notification about a new client came in between.        *)
RepliesInOrder ==
  \A p \in Peers :
    backup[p] = "running" /\ "CLIENT_CONNECTION" \notin ToSet(replies[p]) =>
      replies[p] = <<"LEADER", "CLIENTS">>

(* The main loop serves clients and backups in one thread.  It goes on     *)
(* serving unless it waits for ever for a client that sends nothing or for *)
(* a backup to connect back, or the leader has terminated.                 *)
Stuck == \/ ~Running
         \/ main.pc = "accept push"
         \/ main.pc = "first packet" /\ main.from \in Clients

MainLoopServes ==
  \/ <>[]Stuck
  \/ \A c \in Clients : connection[c] = "queued" ~> connection[c] = "delivered"

(* A backup that asks who leads is answered, unless the leader is stuck.   *)
LeaderIsTold ==
  \/ <>[]Stuck
  \/ \A p \in Peers : backup[p] = "leader" ~> backup[p] # "leader"

(* What the comment on createNewBackupClientManager says, that a backup    *)
(* connects to the port the leader tells it (Server.cpp:266-269): a backup *)
(* that runs and is sent a port connects.                                  *)
NotifiedBackupConnects ==
  \A p \in Peers :
    push_port[p] = "listening" ~>
      push_port[p] = "connected" \/ backup[p] = "stopped" \/ ~Running
=============================================================================
