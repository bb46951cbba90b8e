---------------------------- MODULE ServerProofs ----------------------------
(***************************************************************************)
(* Proofs about the leader and the backups that join it, for any number of *)
(* clients, users and backups: type correctness, that no connection of a   *)
(* user is delivered before every backup known is a backup of the user,    *)
(* and that a backup takes the leader's replies in order.                  *)
(***************************************************************************)
EXTENDS Server, SequenceLemmas, TLAPS

(* While the main loop tells the backups of a user, the backups it has to  *)
(* tell are those known when the manager was created: only the loop itself *)
(* adds one.                                                               *)
MainFollows ==
  main.pc \in {"notify", "accept push"} =>
    /\ main.user \in ToSet(clients)
    /\ main.i \in 1..Len(peer_connections)
    /\ known[main.user] = ToSet(peer_connections)

(* A user without a manager has no backups. *)
NoManagerNoBackups == \A u \in Users : u \notin ToSet(clients) => backup_peers[u] = {}

ReplicationInv == MainFollows /\ NoManagerNoBackups /\ ReplicatedBeforeDelivered

NoneOf(types, packets) == \A i \in 1..Len(packets) : packets[i].type \notin types

AtMostOne(type, packets) ==
  \A i, j \in 1..Len(packets) :
    packets[i].type = type /\ packets[j].type = type => i = j

(* The requests and replies of a backup that no notification has disturbed *)
(* yet.  It has one request under way at a time, and no second reply.      *)
Exchange(p) ==
  /\ backup[p] \in {"off", "connected"} =>
       /\ to_leader[p] = << >> /\ replies[p] = << >>
       /\ NoneOf({"LEADER", "CLIENTS"}, to_peer[p])
       /\ peer_thread[p] \in {"none", "receive", "ended"}
  /\ backup[p] = "leader" =>
       /\ replies[p] = << >>
       /\ peer_thread[p] \in {"none", "receive", "ended"}
       /\ NoneOf({"CLIENTS"}, to_peer[p])
       /\ \/ /\ to_leader[p] \in {<<Plain("PEER"), Plain("WHO_IS_LEADER")>>,
                                  <<Plain("WHO_IS_LEADER")>>}
             /\ NoneOf({"LEADER"}, to_peer[p])
          \/ /\ to_leader[p] = << >>
             /\ AtMostOne("LEADER", to_peer[p])
  /\ backup[p] = "clients" =>
       /\ replies[p] = <<"LEADER">>
       /\ to_leader[p] \in {<<Plain("GET_CLIENTS")>>, << >>}
       /\ NoneOf({"LEADER"}, to_peer[p])
  /\ backup[p] = "running" => replies[p] = <<"LEADER", "CLIENTS">>

Undisturbed(p) == "CLIENT_CONNECTION" \notin ToSet(replies[p])

(* What is under way is of the types that each side sends. *)
Sendable ==
  \A p \in Peers :
    NoneOf({"PEER", "WHO_IS_LEADER", "GET_CLIENTS"}, to_peer[p])

ExchangeInv == Sendable /\ \A p \in Peers : Undisturbed(p) => Exchange(p)

IInv == TypeOK /\ ReplicationInv /\ ExchangeInv

LEMMA PacketTypes ==
  /\ \A type \in Types : Plain(type) \in Packets
  /\ \A user \in Users : Packet("CLIENT_CONNECTION", user) \in Packets
BY DEF Plain, Packet, Packets, Types

LEMMA PlaceTypes ==
  ASSUME TypeOK,
         NEW pc \in {"accept", "first packet", "notify", "accept push", "deliver"},
         NEW from \in Clients \cup Peers \cup {Unnamed},
         NEW user \in Users \cup {Unnamed}, NEW i \in Nat
  PROVE  Place(pc, from, user, i) \in Places
BY DEF Place, Places

LEMMA MainTypes ==
  ASSUME TypeOK
  PROVE  /\ main.pc \in {"accept", "first packet", "notify", "accept push", "deliver"}
         /\ main.from \in Clients \cup Peers \cup {Unnamed}
         /\ main.user \in Users \cup {Unnamed} /\ main.i \in Nat
BY DEF TypeOK, Places

(* The backup the loop is at, and the user it tells it about. *)
LEMMA ToldIsPeer ==
  ASSUME TypeOK, MainFollows, main.pc \in {"notify", "accept push"}
  PROVE  main.user \in Users /\ Told \in Peers
<1>1. main.user \in ToSet(clients) /\ main.i \in 1..Len(peer_connections)
  BY DEF MainFollows
<1>2. clients \in Seq(Users) /\ peer_connections \in Seq(Peers)
  BY DEF TypeOK
<1>3. main.user \in Users
  BY <1>1, <1>2, ToSetElements
<1>4. Told \in Peers
  BY <1>1, <1>2, ElementOfSeq DEF Told
<1>5. QED
  BY <1>3, <1>4

(* Every step keeps the type of every variable. *)
LEMMA TypeNext ==
  ASSUME TypeOK, MainFollows, [Next]_vars
  PROVE  TypeOK'
<1> USE DEF TypeOK, vars, leader, network, backups, history
<1>1. CASE Main
  <2> USE DEF MainStep
  <2>0. Idle \in Places
    BY DEF Idle, Place, Places
  <2>1. CASE Accept
    <3>1. Head(queue) \in Clients \cup Peers /\ Tail(queue) \in Seq(Clients \cup Peers)
      BY <2>1, HeadTailProperties DEF Accept
    <3>2. main' \in Places
      BY <2>1, <3>1, PlaceTypes DEF Accept
    <3>3. QED
      BY <2>1, <3>1, <3>2 DEF Accept
  <2>2. ASSUME NEW user \in Users, FirstIsClient(user)
        PROVE  TypeOK'
    <3>1. main' \in Places
      BY <2>2, MainTypes, PlaceTypes DEF FirstIsClient
    <3>2. clients' \in Seq(Users)
      BY <2>2, AppendProperties DEF FirstIsClient
    <3>3. ToSet(peer_connections) \subseteq Peers
      BY DEF ToSet
    <3>4. known' \in [Users -> SUBSET Peers]
      BY <2>2, <3>3 DEF FirstIsClient
    <3>5. peer_thread' \in [Peers -> {"none", "receive", "listed", "listing",
                                      "stale", "ended"}]
      BY <2>2 DEF FirstIsClient
    <3>6. QED
      BY <2>2, <3>1, <3>2, <3>4, <3>5 DEF FirstIsClient
  <2>3. CASE FirstIsPeer
    <3> DEFINE p == main.from
    <3>1. p \in Peers /\ to_leader[p] # << >>
      BY <2>3 DEF FirstIsPeer, TakesPeer
    <3>2. to_leader' = [to_leader EXCEPT ![p] = Tail(@)]
      BY <2>3 DEF FirstIsPeer, TakesPeer
    <3>3. /\ peer_connections' = Append(peer_connections, p)
          /\ peer_thread' = [peer_thread EXCEPT ![p] = "receive"]
      BY <2>3 DEF FirstIsPeer, TakesPeer
    <3>4. main' = Idle /\ UNCHANGED <<queue, clients, backup_peers, connection,
                            process, to_peer, push_port, known, backups, replies>>
      BY <2>3 DEF FirstIsPeer, TakesPeer
    <3> HIDE DEF p
    <3>5. QED
      BY <2>0, <3>1, <3>2, <3>3, <3>4
  <2>4. CASE FirstThrows \/ NotifyThrows
    BY <2>4 DEF FirstThrows, NotifyThrows
  <2>5. CASE Notify
    <3>1. main.user \in Users /\ Told \in Peers
      BY <2>5, ToldIsPeer DEF Notify
    <3>2. main' \in Places
      BY <2>5, MainTypes, PlaceTypes DEF Notify
    <3>3. to_peer' \in [Peers -> Seq(Packets)]
      BY <2>5, <3>1, PacketTypes, AppendProperties DEF Notify
    <3>4. QED
      BY <2>5, <3>2, <3>3 DEF Notify
  <2>6. CASE AcceptPush
    <3>1. Told \in Peers
      BY <2>6, ToldIsPeer DEF AcceptPush, PushAccepted
    <3>2. main' \in Places
      <4>1. main.i + 1 \in Nat
        <5>1. main.i \in Nat
          BY MainTypes
        <5>2. QED
          BY <5>1
      <4>2. QED
        BY <2>6, <4>1, MainTypes, PlaceTypes DEF AcceptPush, PushAccepted
    <3>3. QED
      BY <2>6, <3>1, <3>2 DEF AcceptPush, PushAccepted
  <2>7. CASE Deliver
    BY <2>0, <2>7 DEF Deliver
  <2>8. QED
    BY <1>1, <2>1, <2>2, <2>3, <2>4, <2>5, <2>6, <2>7 DEF Main
<1>2. ASSUME NEW c \in Clients, ClientConnects(c)
      PROVE  TypeOK'
  BY <1>2, AppendProperties DEF ClientConnects
<1>3. ASSUME NEW p \in Peers, PeerThread(p)
      PROVE  TypeOK'
  <2> USE PacketTypes DEF PeerStep, Types
  <2>1. CASE PeerAsksLeader(p)
    BY <2>1 DEF PeerAsksLeader, Receives, Sends
  <2>2. CASE PeerAsksClients(p)
    BY <2>2 DEF PeerAsksClients, Receives
  <2>3. CASE ListIsSent(p)
    BY <2>3 DEF ListIsSent, Sends
  <2>4. CASE ListingThrows(p) \/ ListingUsesFreed(p) \/ PeerLost(p)
    BY <2>4 DEF ListingThrows, ListingUsesFreed, PeerLost
  <2>5. QED
    BY <1>3, <2>1, <2>2, <2>3, <2>4 DEF PeerThread
<1>4. ASSUME NEW p \in Peers, Backup(p)
      PROVE  TypeOK'
  <2>1. CASE BackupConnects(p)
    BY <2>1, AppendProperties DEF BackupConnects, BackupStep
  <2>2. CASE BackupAnnounces(p)
    BY <2>2, PacketTypes DEF BackupAnnounces, BackupStep, Types
  <2>3. ASSUME TakesReply(p)
        PROVE  /\ to_peer' \in [Peers -> Seq(Packets)]
               /\ replies' \in [Peers -> Seq(Types)]
    <3>1. Head(to_peer[p]).type \in Types
      <4>1. Head(to_peer[p]) \in Packets
        BY <2>3, HeadTailProperties DEF TakesReply
      <4>2. QED
        BY <4>1 DEF Packets
    <3>2. QED
      BY <2>3, <3>1, AppendProperties DEF TakesReply
  <2>4. CASE BackupHearsLeader(p)
    BY <2>3, <2>4, PacketTypes DEF BackupHearsLeader, BackupStep, Types
  <2>5. CASE BackupHearsClients(p)
    BY <2>3, <2>5 DEF BackupHearsClients, BackupStep
  <2>6. CASE BackupStops(p)
    BY <2>6 DEF BackupStops
  <2>7. CASE BackupIgnores(p)
    BY <2>7 DEF BackupIgnores, ThreadTakes
  <2>8. CASE BackupLearns(p)
    <3>1. to_peer' \in [Peers -> Seq(Packets)]
      BY <2>8 DEF BackupLearns, ThreadTakes
    <3>2. backup_clients' \in [Peers -> SUBSET (Users \cup {Keyword})]
      BY <2>8 DEF BackupLearns
    <3>3. push_port' \in [Peers -> {"closed", "listening", "connected"}]
      BY <2>8 DEF BackupLearns
    <3>4. backup_thread' \in [Peers -> {"none", "receive", "ended"}]
      BY <2>8 DEF BackupLearns
    <3>5. QED
      BY <2>8, <3>1, <3>2, <3>3, <3>4 DEF BackupLearns, ThreadTakes
  <2>9. CASE BackupThreadEnds(p)
    BY <2>9 DEF BackupThreadEnds
  <2>10. QED
    BY <1>4, <2>1, <2>2, <2>4, <2>5, <2>6, <2>7, <2>8, <2>9 DEF Backup
<1>5. CASE UNCHANGED vars
  BY <1>5
<1>6. QED
  BY <1>1, <1>2, <1>3, <1>4, <1>5 DEF Next

(* Every step keeps what ties the backups of a user to those known. *)
LEMMA ReplicationNext ==
  ASSUME TypeOK, ReplicationInv, [Next]_vars
  PROVE  ReplicationInv'
<1> USE DEF ReplicationInv
<1>1. ASSUME UNCHANGED <<main, clients, backup_peers, peer_connections, known>>
      PROVE  ReplicationInv'
  <2>1. MainFollows'
    BY <1>1 DEF MainFollows
  <2>2. NoManagerNoBackups'
    BY <1>1 DEF NoManagerNoBackups
  <2>3. ReplicatedBeforeDelivered'
    BY <1>1 DEF ReplicatedBeforeDelivered, Announcing
  <2>4. QED
    BY <2>1, <2>2, <2>3
<1>2. ASSUME main'.pc \notin {"notify", "accept push"},
             ~(main.pc \in {"notify", "accept push"}),
             UNCHANGED <<clients, backup_peers, known>>
      PROVE  ReplicationInv'
  BY <1>2 DEF MainFollows, NoManagerNoBackups, ReplicatedBeforeDelivered, Announcing
<1>3. CASE Accept \/ FirstIsPeer \/ Deliver
  <2>1. main'.pc \in {"accept", "first packet"}
    <3>1. CASE Accept
      BY <3>1 DEF Accept, Place
    <3>2. CASE FirstIsPeer \/ Deliver
      <4>1. main' = Idle
        BY <3>2 DEF FirstIsPeer, Deliver
      <4>2. QED
        BY <4>1 DEF Idle, Place
    <3>3. QED
      BY <1>3, <3>1, <3>2
  <2>2. QED
    BY <1>2, <1>3, <2>1
       DEF Accept, FirstIsPeer, TakesPeer, Deliver, MainStep
<1>4. CASE FirstThrows \/ NotifyThrows
  BY <1>1, <1>4 DEF FirstThrows, NotifyThrows
<1>5. ASSUME NEW user \in Users, FirstIsClient(user)
      PROVE  ReplicationInv'
  <2>1. main.pc = "first packet" /\ main'.user = user /\ main'.i = 1
    BY <1>5 DEF FirstIsClient, MainStep, Place
  <2>2. UNCHANGED <<backup_peers, peer_connections>>
    BY <1>5 DEF FirstIsClient
  <2>3. CASE clientExists(user)
    <3>1. main'.pc = "deliver" /\ UNCHANGED <<clients, known>>
      BY <1>5, <2>3 DEF FirstIsClient, Place
    <3>2. QED
      BY <1>2, <2>1, <2>2, <3>1
  <2>4. CASE ~clientExists(user)
    <3>1. /\ clients' = Append(clients, user)
          /\ known' = [known EXCEPT ![user] = ToSet(peer_connections)]
          /\ main'.pc = IF peer_connections # << >> THEN "notify" ELSE "deliver"
      BY <1>5, <2>4 DEF FirstIsClient, Place
    <3>2. ToSet(clients') = ToSet(clients) \cup {user}
      BY <3>1, ToSetElements DEF TypeOK
    <3>3. user \notin ToSet(clients) /\ backup_peers[user] = {}
      BY <2>4 DEF clientExists, NoManagerNoBackups
    <3>4. /\ known'[user] = ToSet(peer_connections)
          /\ \A u \in Users : u # user => known'[u] = known[u]
      BY <3>1 DEF TypeOK
    <3>5. peer_connections # << >> => 1 \in 1..Len(peer_connections)
      BY EmptySeq DEF TypeOK
    <3>6. MainFollows'
      BY <2>1, <2>2, <3>1, <3>2, <3>4, <3>5 DEF MainFollows
    <3>7. NoManagerNoBackups'
      BY <2>2, <3>2 DEF NoManagerNoBackups
    <3>8. ASSUME NEW u \in ToSet(clients')
          PROVE  backup_peers[u] = IF Announcing(u)'
                                   THEN {peer_connections[i] : i \in 1..(main'.i - 1)}
                                   ELSE known'[u]
      <4>1. u \in Users
        BY <3>2, ToSetElements DEF TypeOK
      <4>2. CASE u = user
        <5>1. peer_connections = << >> => ToSet(peer_connections) = {}
          BY DEF ToSet
        <5>2. {peer_connections[i] : i \in 1..(1 - 1)} = {}
          OBVIOUS
        <5>3. QED
          BY <2>1, <3>1, <3>3, <3>4, <4>2, <5>1, <5>2 DEF Announcing
      <4>3. CASE u # user
        BY <2>1, <3>2, <3>4, <4>1, <4>3 DEF Announcing, ReplicatedBeforeDelivered
      <4>4. QED
        BY <4>2, <4>3
    <3>9. QED
      BY <2>2, <3>6, <3>7, <3>8 DEF ReplicatedBeforeDelivered
  <2>5. QED
    BY <2>3, <2>4
<1>6. CASE Notify
  <2>1. /\ main'.pc = "accept push" /\ main'.user = main.user /\ main'.i = main.i
        /\ main.pc = "notify"
        /\ UNCHANGED <<clients, backup_peers, peer_connections, known>>
    BY <1>6 DEF Notify, MainStep, Place
  <2>2. QED
    BY <2>1 DEF MainFollows, NoManagerNoBackups, ReplicatedBeforeDelivered, Announcing
<1>7. CASE AcceptPush
  <2> DEFINE u == main.user
  <2> DEFINE n == Len(peer_connections)
  <2> DEFINE k == main.i
  <2>1. main.pc = "accept push" /\ Announcing(u)
    BY <1>7 DEF AcceptPush, PushAccepted, MainStep, Announcing
  <2>2. u \in ToSet(clients) /\ k \in 1..n /\ known[u] = ToSet(peer_connections)
    BY <2>1 DEF MainFollows
  <2>3. u \in Users /\ n \in Nat /\ peer_connections \in Seq(Peers)
    BY <2>1, ToldIsPeer, LenProperties DEF TypeOK
  <2>4. /\ backup_peers' = [backup_peers EXCEPT ![u] = @ \cup {peer_connections[k]}]
        /\ UNCHANGED <<clients, peer_connections, known>>
    BY <1>7 DEF AcceptPush, PushAccepted, Told
  <2>5. backup_peers[u] = {peer_connections[i] : i \in 1..(k - 1)}
    BY <2>1, <2>2 DEF ReplicatedBeforeDelivered
  <2>6. /\ k < n => main' = Place("notify", main.from, u, k + 1)
        /\ ~(k < n) => main' = Place("deliver", main.from, u, k)
    BY <1>7 DEF AcceptPush, PushAccepted
  <2>7. \A v \in Users : Announcing(v) => v = u
    BY DEF Announcing
  <2>8. \A v \in ToSet(clients) : v \in Users
    BY ToSetElements DEF TypeOK
  <2> HIDE DEF u, n, k
  <2>9. /\ 1..k = 1..(k - 1) \cup {k}
        /\ k < n => k + 1 \in 1..n /\ (k + 1) - 1 = k
        /\ ~(k < n) => k = n
    BY <2>2, <2>3
  <2>10. backup_peers'[u] = {peer_connections[i] : i \in 1..k}
    <3>1. backup_peers'[u] = backup_peers[u] \cup {peer_connections[k]}
      BY <2>3, <2>4 DEF TypeOK
    <3>2. QED
      BY <2>5, <2>9, <3>1
  <2>11. \A v \in Users : v # u => backup_peers'[v] = backup_peers[v]
    BY <2>4 DEF TypeOK
  <2>12. NoManagerNoBackups'
    BY <2>2, <2>4, <2>11 DEF NoManagerNoBackups
  <2>13. CASE k < n
    <3>1. main'.pc = "notify" /\ main'.user = u /\ main'.i = k + 1
      BY <2>6, <2>13 DEF Place
    <3>2. MainFollows'
      <4>1. main'.user \in ToSet(clients') /\ main'.i \in 1..Len(peer_connections')
        BY <2>2, <2>4, <2>9, <2>13, <3>1 DEF n
      <4>2. known'[main'.user] = ToSet(peer_connections')
        BY <2>2, <2>4, <3>1
      <4>3. QED
        BY <4>1, <4>2 DEF MainFollows
    <3>3. \A v \in Users : Announcing(v)' <=> v = u
      BY <3>1 DEF Announcing
    <3>4. main'.i - 1 = k
      BY <2>9, <2>13, <3>1
    <3>5. ReplicatedBeforeDelivered'
      BY <2>4, <2>7, <2>8, <2>10, <2>11, <3>3, <3>4 DEF ReplicatedBeforeDelivered
    <3>6. QED
      BY <2>12, <3>2, <3>5
  <2>14. CASE ~(k < n)
    <3>1. main'.pc = "deliver"
      BY <2>6, <2>14 DEF Place
    <3>2. \A v \in Users : ~Announcing(v)'
      BY <3>1 DEF Announcing
    <3>3. backup_peers'[u] = known[u]
      <4>1. ToSet(peer_connections) = {peer_connections[i] : i \in 1..n}
        BY <2>3, ToSetElements DEF n
      <4>2. QED
        BY <2>2, <2>9, <2>10, <2>14, <4>1
    <3>4. ReplicatedBeforeDelivered'
      BY <2>4, <2>7, <2>8, <2>11, <3>2, <3>3 DEF ReplicatedBeforeDelivered
    <3>5. QED
      BY <2>12, <3>1, <3>4 DEF MainFollows
  <2>15. QED
    BY <2>13, <2>14
<1>8. ASSUME NEW c \in Clients, ClientConnects(c)
      PROVE  ReplicationInv'
  BY <1>1, <1>8 DEF ClientConnects, history
<1>9. ASSUME NEW p \in Peers, PeerThread(p)
      PROVE  ReplicationInv'
  BY <1>1, <1>9
     DEF PeerThread, PeerAsksLeader, PeerAsksClients, ListIsSent, ListingThrows,
         ListingUsesFreed, PeerLost, PeerStep, history
<1>10. ASSUME NEW p \in Peers, Backup(p)
       PROVE  ReplicationInv'
  BY <1>1, <1>10
     DEF Backup, BackupConnects, BackupAnnounces, BackupHearsLeader,
         BackupHearsClients, BackupStops, BackupIgnores, BackupLearns,
         BackupThreadEnds, BackupStep, ThreadTakes, leader, history
<1>11. CASE UNCHANGED vars
  BY <1>1, <1>11 DEF vars, leader, history
<1>12. QED
  BY <1>3, <1>4, <1>5, <1>6, <1>7, <1>8, <1>9, <1>10, <1>11 DEF Next, Main

(* What a packet taken from the front, or put at the end, does to the      *)
(* types of the packets under way.                                         *)
LEMMA TailTypes ==
  ASSUME NEW packets \in Seq(Packets), packets # << >>
  PROVE  /\ \A types : NoneOf(types, packets) => NoneOf(types, Tail(packets))
         /\ \A types : NoneOf(types, packets) => Head(packets).type \notin types
         /\ \A type : AtMostOne(type, packets) => AtMostOne(type, Tail(packets))
         /\ \A type : AtMostOne(type, packets) /\ Head(packets).type = type =>
                       NoneOf({type}, Tail(packets))
<1> DEFINE n == Len(packets)
<1>1. n \in Nat /\ n # 0 /\ Head(packets) = packets[1]
  BY EmptySeq, LenProperties
<1>2. /\ Len(Tail(packets)) = n - 1
      /\ \A i \in 1..(n - 1) : Tail(packets)[i] = packets[i + 1]
  BY HeadTailProperties
<1> HIDE DEF n
<1>3. \A i \in 1..(n - 1) : i + 1 \in 1..n /\ i + 1 # 1
  BY <1>1
<1>4. 1 \in 1..n
  BY <1>1
<1>5. \A i, j \in 1..(n - 1) : i + 1 = j + 1 => i = j
  BY <1>1
<1>6. \A types : NoneOf(types, packets) => NoneOf(types, Tail(packets))
  BY <1>2, <1>3 DEF NoneOf, n
<1>7. \A types : NoneOf(types, packets) => Head(packets).type \notin types
  BY <1>1, <1>4 DEF NoneOf, n
<1>8. \A type : AtMostOne(type, packets) => AtMostOne(type, Tail(packets))
  BY <1>2, <1>3, <1>5 DEF AtMostOne, n
<1>9. \A type : AtMostOne(type, packets) /\ Head(packets).type = type =>
                NoneOf({type}, Tail(packets))
  BY <1>1, <1>2, <1>3, <1>4 DEF AtMostOne, NoneOf, n
<1>10. QED
  BY <1>6, <1>7, <1>8, <1>9

LEMMA AppendTypes ==
  ASSUME NEW packets \in Seq(Packets), NEW packet \in Packets
  PROVE  /\ \A types : NoneOf(types, packets) /\ packet.type \notin types =>
                        NoneOf(types, Append(packets, packet))
         /\ \A type : AtMostOne(type, packets) /\ packet.type # type =>
                       AtMostOne(type, Append(packets, packet))
         /\ \A type : NoneOf({type}, packets) =>
                       AtMostOne(type, Append(packets, packet))
<1> DEFINE n == Len(packets)
<1> DEFINE longer == Append(packets, packet)
<1>1. n \in Nat
  OBVIOUS
<1>2. /\ Len(longer) = n + 1
      /\ \A i \in 1..n : longer[i] = packets[i]
      /\ longer[n + 1] = packet
  BY AppendProperties
<1> HIDE DEF n, longer
<1>3. \A i \in 1..(n + 1) : i \in 1..n \/ i = n + 1
  BY <1>1
<1>4. \A types : NoneOf(types, packets) /\ packet.type \notin types =>
                 NoneOf(types, longer)
  BY <1>2, <1>3 DEF NoneOf, n
<1>5. \A type : AtMostOne(type, packets) /\ packet.type # type => AtMostOne(type, longer)
  BY <1>2, <1>3 DEF AtMostOne, n
<1>6. \A type : NoneOf({type}, packets) => AtMostOne(type, longer)
  BY <1>2, <1>3 DEF AtMostOne, NoneOf, n
<1>7. QED
  BY <1>4, <1>5, <1>6 DEF longer

Calm == {"none", "receive", "ended"}

(* What a step does to the packets under way to a backup. *)
Goes(p, types) ==
  \/ to_peer'[p] = to_peer[p]
  \/ to_peer[p] # << >> /\ to_peer'[p] = Tail(to_peer[p])
  \/ \E packet \in Packets :
       packet.type \in types /\ to_peer'[p] = Append(to_peer[p], packet)

(* The backup, its requests and the replies stay, a notification may come. *)
Quiet(p) ==
  /\ backup'[p] = backup[p]
  /\ to_leader'[p] = to_leader[p]
  /\ replies'[p] = replies[p]
  /\ peer_thread[p] \in Calm => peer_thread'[p] \in Calm
  /\ Goes(p, {"CLIENT_CONNECTION"})

(* Packets of other types are neither added nor removed. *)
LEMMA GoesTypes ==
  ASSUME TypeOK, NEW p \in Peers, NEW sent, Goes(p, sent)
  PROVE  /\ \A types : (types \cap sent = {}) /\ NoneOf(types, to_peer[p]) =>
                        NoneOf(types, to_peer'[p])
         /\ \A type : type \notin sent /\ AtMostOne(type, to_peer[p]) =>
                       AtMostOne(type, to_peer'[p])
<1>1. to_peer[p] \in Seq(Packets)
  BY DEF TypeOK
<1>2. CASE to_peer'[p] = to_peer[p]
  BY <1>2
<1>3. CASE to_peer[p] # << >> /\ to_peer'[p] = Tail(to_peer[p])
  BY <1>1, <1>3, TailTypes
<1>4. ASSUME NEW packet \in Packets, packet.type \in sent,
             to_peer'[p] = Append(to_peer[p], packet)
      PROVE  /\ \A types : (types \cap sent = {}) /\ NoneOf(types, to_peer[p]) =>
                            NoneOf(types, to_peer'[p])
             /\ \A type : type \notin sent /\ AtMostOne(type, to_peer[p]) =>
                           AtMostOne(type, to_peer'[p])
  <2>1. /\ \A types : NoneOf(types, to_peer[p]) /\ packet.type \notin types =>
                       NoneOf(types, Append(to_peer[p], packet))
        /\ \A type : AtMostOne(type, to_peer[p]) /\ packet.type # type =>
                      AtMostOne(type, Append(to_peer[p], packet))
    BY <1>1, AppendTypes
  <2>2. QED
    BY <1>4, <2>1
<1>5. QED
  BY <1>2, <1>3, <1>4 DEF Goes

LEMMA ExchangeAlone ==
  ASSUME TypeOK, NEW p \in Peers, Exchange(p), Quiet(p)
  PROVE  Exchange(p)'
<1>1. Goes(p, {"CLIENT_CONNECTION"})
  BY DEF Quiet
<1>2. /\ \A types : (types \cap {"CLIENT_CONNECTION"} = {}) /\ NoneOf(types, to_peer[p]) =>
                     NoneOf(types, to_peer'[p])
      /\ \A type : type \notin {"CLIENT_CONNECTION"} /\ AtMostOne(type, to_peer[p]) =>
                    AtMostOne(type, to_peer'[p])
  BY <1>1, GoesTypes
<1>3. AtMostOne("LEADER", to_peer[p]) => AtMostOne("LEADER", to_peer'[p])
  BY <1>2
<1>4. /\ {"LEADER", "CLIENTS"} \cap {"CLIENT_CONNECTION"} = {}
      /\ {"LEADER"} \cap {"CLIENT_CONNECTION"} = {}
      /\ {"CLIENTS"} \cap {"CLIENT_CONNECTION"} = {}
  OBVIOUS
<1>5. /\ NoneOf({"LEADER", "CLIENTS"}, to_peer[p]) =>
           NoneOf({"LEADER", "CLIENTS"}, to_peer'[p])
      /\ NoneOf({"LEADER"}, to_peer[p]) => NoneOf({"LEADER"}, to_peer'[p])
      /\ NoneOf({"CLIENTS"}, to_peer[p]) => NoneOf({"CLIENTS"}, to_peer'[p])
  BY <1>2, <1>4
<1>6. /\ backup'[p] = backup[p] /\ to_leader'[p] = to_leader[p]
      /\ replies'[p] = replies[p]
      /\ peer_thread[p] \in Calm => peer_thread'[p] \in Calm
  BY DEF Quiet
<1>7. QED
  BY <1>3, <1>5, <1>6 DEF Exchange, Calm

(* Three requests that differ, as the packets a leader sends do. *)
LEMMA RequestsDiffer ==
  /\ Plain("PEER").type = "PEER"
  /\ Plain("WHO_IS_LEADER").type = "WHO_IS_LEADER"
  /\ Plain("GET_CLIENTS").type = "GET_CLIENTS"
  /\ Plain("LEADER").type = "LEADER"
  /\ Plain("CLIENTS").type = "CLIENTS"
  /\ \A user : Packet("CLIENT_CONNECTION", user).type = "CLIENT_CONNECTION"
BY DEF Plain, Packet

(* A reply once disturbed stays so. *)
LEMMA DisturbedStays ==
  ASSUME TypeOK, NEW p \in Peers, Undisturbed(p)',
         \/ replies'[p] = replies[p]
         \/ \E type \in Types : replies'[p] = Append(replies[p], type)
  PROVE  Undisturbed(p)
<1>1. replies[p] \in Seq(Types)
  BY DEF TypeOK
<1>2. CASE replies'[p] = replies[p]
  BY <1>2 DEF Undisturbed
<1>3. ASSUME NEW type \in Types, replies'[p] = Append(replies[p], type)
      PROVE  Undisturbed(p)
  <2>1. ToSet(replies'[p]) = ToSet(replies[p]) \cup {type}
    BY <1>1, <1>3, ToSetElements
  <2>2. QED
    BY <2>1 DEF Undisturbed
<1>4. QED
  BY <1>2, <1>3

(* The leader's main loop. *)
LEMMA MainExchange ==
  ASSUME TypeOK, MainFollows, NEW p \in Peers, Undisturbed(p) => Exchange(p),
         Main, Undisturbed(p)'
  PROVE  Exchange(p)'
<1> USE DEF MainStep, backups
<1>1. Exchange(p)
  BY DisturbedStays DEF Main, Accept, FirstIsClient, FirstIsPeer, TakesPeer,
     FirstThrows, Notify, NotifyThrows, AcceptPush, PushAccepted, Deliver
<1>2. CASE Accept \/ FirstThrows \/ NotifyThrows \/ AcceptPush \/ Deliver
  <2>1. Quiet(p)
    BY <1>2 DEF Quiet, Goes, Accept, FirstThrows, NotifyThrows, AcceptPush,
       PushAccepted, Deliver, network
  <2>2. QED
    BY <1>1, <2>1, ExchangeAlone
<1>3. ASSUME NEW user \in Users, FirstIsClient(user)
      PROVE  Exchange(p)'
  <2>1. peer_thread[p] \in Calm => peer_thread'[p] \in Calm
    BY <1>3 DEF FirstIsClient, Calm, TypeOK
  <2>2. Quiet(p)
    BY <1>3, <2>1 DEF Quiet, Goes, FirstIsClient, network
  <2>3. QED
    BY <1>1, <2>2, ExchangeAlone
<1>4. CASE Notify
  <2>1. Told \in Peers /\ main.user \in Users
    BY <1>4, ToldIsPeer DEF Notify
  <2>2. /\ to_peer' = [to_peer EXCEPT ![Told] =
                         Append(@, Packet("CLIENT_CONNECTION", main.user))]
        /\ UNCHANGED <<to_leader, peer_thread, backup, replies>>
    BY <1>4 DEF Notify
  <2>3. Goes(p, {"CLIENT_CONNECTION"})
    BY <2>1, <2>2, PacketTypes, RequestsDiffer DEF Goes, TypeOK
  <2>4. QED
    BY <1>1, <2>2, <2>3, ExchangeAlone DEF Quiet
<1>5. CASE FirstIsPeer
  <2> DEFINE q == main.from
  <2>1. /\ q \in Peers /\ to_leader[q] # << >> /\ Head(to_leader[q]).type = "PEER"
        /\ to_leader' = [to_leader EXCEPT ![q] = Tail(@)]
        /\ peer_thread' = [peer_thread EXCEPT ![q] = "receive"]
        /\ UNCHANGED <<backup, to_peer, replies>>
    BY <1>5 DEF FirstIsPeer, TakesPeer
  <2> HIDE DEF q
  <2>2. CASE p # q
    <3>1. Quiet(p)
      BY <2>1, <2>2 DEF Quiet, Goes, TypeOK
    <3>2. QED
      BY <1>1, <3>1, ExchangeAlone
  <2>3. CASE p = q
    <3>1. /\ to_leader[p] # << >> /\ Head(to_leader[p]).type = "PEER"
          /\ to_leader'[p] = Tail(to_leader[p]) /\ peer_thread'[p] = "receive"
          /\ backup'[p] = backup[p] /\ to_peer'[p] = to_peer[p]
          /\ replies'[p] = replies[p]
      BY <2>1, <2>3 DEF TypeOK
    <3>2. backup[p] \notin {"off", "connected"}
      BY <1>1, <3>1 DEF Exchange
    <3>3. CASE backup[p] = "leader"
      <4>1. to_leader[p] = <<Plain("PEER"), Plain("WHO_IS_LEADER")>>
        <5>1. Head(<<Plain("WHO_IS_LEADER")>>).type # "PEER"
          BY ShortSequences, RequestsDiffer
        <5>2. QED
          BY <1>1, <3>1, <3>3, <5>1 DEF Exchange
      <4>2. to_leader'[p] = <<Plain("WHO_IS_LEADER")>>
        BY <3>1, <4>1, ShortSequences
      <4>3. NoneOf({"LEADER"}, to_peer[p])
        BY <1>1, <3>3, <4>1, ShortSequences DEF Exchange
      <4>4. QED
        BY <1>1, <3>1, <3>3, <4>2, <4>3 DEF Exchange
    <3>4. CASE backup[p] = "clients"
      <4>1. Head(<<Plain("GET_CLIENTS")>>).type # "PEER"
        BY ShortSequences, RequestsDiffer
      <4>2. QED
        BY <1>1, <3>1, <3>4, <4>1 DEF Exchange
    <3>5. CASE backup[p] \in {"running", "stopped"}
      BY <1>1, <3>1, <3>5 DEF Exchange
    <3>6. QED
      BY <3>2, <3>3, <3>4, <3>5 DEF TypeOK
  <2>4. QED
    BY <2>2, <2>3
<1>6. QED
  BY <1>2, <1>3, <1>4, <1>5 DEF Main

(* The leader's threads for its backups. *)
LEMMA PeerExchange ==
  ASSUME TypeOK, NEW p \in Peers, Undisturbed(p) => Exchange(p),
         NEW q \in Peers, PeerThread(q), Undisturbed(p)'
  PROVE  Exchange(p)'
<1> USE DEF PeerStep, backups, history
<1>1. Exchange(p)
  BY DisturbedStays DEF PeerThread, PeerAsksLeader, PeerAsksClients, ListIsSent,
     ListingThrows, ListingUsesFreed, PeerLost
<1>2. /\ backup'[p] = backup[p] /\ replies'[p] = replies[p]
  BY DEF PeerThread, PeerAsksLeader, PeerAsksClients, ListIsSent, ListingThrows,
     ListingUsesFreed, PeerLost
<1>3. CASE p # q
  <2>1. /\ to_leader'[p] = to_leader[p] /\ to_peer'[p] = to_peer[p]
        /\ peer_thread'[p] = peer_thread[p]
    BY <1>3 DEF TypeOK, PeerThread, PeerAsksLeader, PeerAsksClients, ListIsSent,
       ListingThrows, ListingUsesFreed, PeerLost, Receives, Sends
  <2>2. QED
    BY <1>1, <1>2, <2>1, ExchangeAlone DEF Quiet, Goes
<1>4. CASE p = q
  <2>1. CASE PeerAsksLeader(p)
    <3>1. /\ to_leader[p] # << >> /\ Head(to_leader[p]).type = "WHO_IS_LEADER"
          /\ to_leader'[p] = Tail(to_leader[p]) /\ peer_thread'[p] = "receive"
          /\ to_peer'[p] = Append(to_peer[p], Plain("LEADER"))
      BY <2>1 DEF PeerAsksLeader, Receives, Sends, TypeOK
    <3>2. backup[p] \notin {"off", "connected"}
      BY <1>1, <3>1 DEF Exchange
    <3>3. CASE backup[p] = "leader"
      <4>1. to_leader[p] = <<Plain("WHO_IS_LEADER")>>
        <5>1. Head(<<Plain("PEER"), Plain("WHO_IS_LEADER")>>).type # "WHO_IS_LEADER"
          BY ShortSequences, RequestsDiffer
        <5>2. QED
          BY <1>1, <3>1, <3>3, <5>1 DEF Exchange
      <4>2. to_leader'[p] = << >>
        BY <3>1, <4>1, ShortSequences
      <4>3. NoneOf({"LEADER"}, to_peer[p]) /\ NoneOf({"CLIENTS"}, to_peer[p])
        BY <1>1, <3>3, <4>1, ShortSequences DEF Exchange
      <4>4. Plain("LEADER") \in Packets /\ to_peer[p] \in Seq(Packets)
        BY PacketTypes DEF Types, TypeOK
      <4>5. Plain("LEADER").type \notin {"CLIENTS"}
        BY RequestsDiffer
      <4>6. AtMostOne("LEADER", to_peer'[p]) /\ NoneOf({"CLIENTS"}, to_peer'[p])
        BY <3>1, <4>3, <4>4, <4>5, AppendTypes
      <4>7. QED
        BY <1>1, <1>2, <3>1, <3>3, <4>2, <4>6 DEF Exchange
    <3>4. CASE backup[p] = "clients"
      <4>1. Head(<<Plain("GET_CLIENTS")>>).type # "WHO_IS_LEADER"
        BY ShortSequences, RequestsDiffer
      <4>2. QED
        BY <1>1, <3>1, <3>4, <4>1 DEF Exchange
    <3>5. CASE backup[p] \in {"running", "stopped"}
      BY <1>1, <1>2, <3>5 DEF Exchange
    <3>6. QED
      BY <3>2, <3>3, <3>4, <3>5 DEF TypeOK
  <2>2. CASE PeerAsksClients(p)
    <3>1. /\ to_leader[p] # << >> /\ Head(to_leader[p]).type = "GET_CLIENTS"
          /\ to_leader'[p] = Tail(to_leader[p]) /\ to_peer'[p] = to_peer[p]
      BY <2>2 DEF PeerAsksClients, Receives, TypeOK
    <3>2. backup[p] \notin {"off", "connected"}
      BY <1>1, <3>1 DEF Exchange
    <3>3. CASE backup[p] = "leader"
      <4>1. /\ Head(<<Plain("PEER"), Plain("WHO_IS_LEADER")>>).type # "GET_CLIENTS"
            /\ Head(<<Plain("WHO_IS_LEADER")>>).type # "GET_CLIENTS"
        BY ShortSequences, RequestsDiffer
      <4>2. QED
        BY <1>1, <3>1, <3>3, <4>1 DEF Exchange
    <3>4. CASE backup[p] = "clients"
      <4>1. to_leader[p] = <<Plain("GET_CLIENTS")>>
        BY <1>1, <3>1, <3>4 DEF Exchange
      <4>2. to_leader'[p] = << >>
        BY <3>1, <4>1, ShortSequences
      <4>3. QED
        BY <1>1, <1>2, <3>1, <3>4, <4>2 DEF Exchange
    <3>5. CASE backup[p] \in {"running", "stopped"}
      BY <1>1, <1>2, <3>5 DEF Exchange
    <3>6. QED
      BY <3>2, <3>3, <3>4, <3>5 DEF TypeOK
  <2>3. CASE ListIsSent(p)
    <3>1. /\ peer_thread[p] = "listed" /\ to_leader'[p] = to_leader[p]
          /\ to_peer'[p] = Append(to_peer[p], Plain("CLIENTS"))
      BY <2>3 DEF ListIsSent, Sends, TypeOK
    <3>2. backup[p] \notin {"off", "connected", "leader"}
      BY <1>1, <3>1 DEF Exchange
    <3>3. CASE backup[p] = "clients"
      <4>1. Plain("CLIENTS") \in Packets /\ to_peer[p] \in Seq(Packets)
        BY PacketTypes DEF Types, TypeOK
      <4>2. Plain("CLIENTS").type \notin {"LEADER"}
        BY RequestsDiffer
      <4>3. NoneOf({"LEADER"}, to_peer[p])
        BY <1>1, <3>3 DEF Exchange
      <4>4. NoneOf({"LEADER"}, to_peer'[p])
        BY <3>1, <4>1, <4>2, <4>3, AppendTypes
      <4>5. QED
        BY <1>1, <1>2, <3>1, <3>3, <4>4 DEF Exchange
    <3>4. CASE backup[p] \in {"running", "stopped"}
      BY <1>1, <1>2, <3>4 DEF Exchange
    <3>5. QED
      BY <3>2, <3>3, <3>4 DEF TypeOK
  <2>4. CASE ListingThrows(p) \/ ListingUsesFreed(p) \/ PeerLost(p)
    <3>1. /\ to_leader'[p] = to_leader[p] /\ to_peer'[p] = to_peer[p]
          /\ peer_thread[p] \in Calm => peer_thread'[p] \in Calm
      BY <2>4 DEF ListingThrows, ListingUsesFreed, PeerLost, Calm, TypeOK
    <3>2. QED
      BY <1>1, <1>2, <3>1, ExchangeAlone DEF Quiet, Goes
  <2>5. QED
    BY <1>4, <2>1, <2>2, <2>3, <2>4 DEF PeerThread
<1>5. QED
  BY <1>3, <1>4

(* The backups. *)
LEMMA BackupExchange ==
  ASSUME TypeOK, Sendable, NEW p \in Peers, Undisturbed(p) => Exchange(p),
         NEW q \in Peers, Backup(q), Undisturbed(p)'
  PROVE  Exchange(p)'
<1> USE DEF BackupStep
<1>1. CASE BackupConnects(q) \/ BackupAnnounces(q)
  <2>1. Exchange(p) /\ replies'[p] = replies[p]
    BY <1>1, DisturbedStays DEF BackupConnects, BackupAnnounces
  <2>2. CASE p # q
    <3>1. Quiet(p)
      BY <1>1, <2>2 DEF BackupConnects, BackupAnnounces, Quiet, Goes, TypeOK
    <3>2. QED
      BY <2>1, <3>1, ExchangeAlone
  <2>3. CASE p = q /\ BackupConnects(p)
    <3>1. /\ backup[p] = "off" /\ backup'[p] = "connected"
          /\ UNCHANGED <<to_leader, to_peer, peer_thread, replies>>
      BY <2>3 DEF BackupConnects, TypeOK
    <3>2. QED
      BY <2>1, <3>1 DEF Exchange
  <2>4. CASE p = q /\ BackupAnnounces(p)
    <3>1. /\ backup[p] = "connected" /\ backup'[p] = "leader"
          /\ to_leader'[p] = <<Plain("PEER"), Plain("WHO_IS_LEADER")>>
          /\ UNCHANGED <<to_peer, peer_thread, replies>>
      BY <2>4 DEF BackupAnnounces, TypeOK
    <3>2. NoneOf({"LEADER"}, to_peer[p]) /\ NoneOf({"CLIENTS"}, to_peer[p])
      BY <2>1, <3>1 DEF Exchange, NoneOf
    <3>3. QED
      BY <2>1, <3>1, <3>2 DEF Exchange
  <2>5. QED
    BY <1>1, <2>2, <2>3, <2>4
<1>2. CASE BackupHearsLeader(q) \/ BackupHearsClients(q)
  <2> DEFINE type == Head(to_peer[q]).type
  <2>1. /\ to_peer[q] # << >> /\ to_peer' = [to_peer EXCEPT ![q] = Tail(@)]
        /\ replies' = [replies EXCEPT ![q] = Append(@, type)]
        /\ UNCHANGED peer_thread
    BY <1>2 DEF BackupHearsLeader, BackupHearsClients, TakesReply
  <2>2. type \in Types
    <3>1. Head(to_peer[q]) \in Packets
      BY <2>1, HeadTailProperties DEF TypeOK
    <3>2. QED
      BY <3>1 DEF Packets
  <2>3. type \notin {"PEER", "WHO_IS_LEADER", "GET_CLIENTS"}
    <3>1. NoneOf({"PEER", "WHO_IS_LEADER", "GET_CLIENTS"}, to_peer[q])
      BY DEF Sendable
    <3>2. QED
      BY <2>1, <3>1, TailTypes DEF TypeOK
  <2> HIDE DEF type
  <2>4. Exchange(p)
    BY <2>1, <2>2, DisturbedStays DEF TypeOK
  <2>5. CASE p # q
    <3>1. Quiet(p)
      BY <1>2, <2>1, <2>5
         DEF BackupHearsLeader, BackupHearsClients, Quiet, Goes, TypeOK
    <3>2. QED
      BY <2>4, <3>1, ExchangeAlone
  <2>6. CASE p = q
    <3>1. /\ to_peer[p] \in Seq(Packets) /\ to_peer[p] # << >>
          /\ to_peer'[p] = Tail(to_peer[p])
          /\ replies[p] \in Seq(Types) /\ replies'[p] = Append(replies[p], type)
          /\ type = Head(to_peer[p]).type
      BY <2>1, <2>6 DEF TypeOK, type
    <3>2. type \in {"LEADER", "CLIENTS"}
      <4>1. ToSet(replies'[p]) = ToSet(replies[p]) \cup {type}
        BY <2>2, <3>1, ToSetElements
      <4>2. type # "CLIENT_CONNECTION"
        BY <4>1 DEF Undisturbed
      <4>3. QED
        BY <2>2, <2>3, <4>2 DEF Types
    <3>3. CASE BackupHearsLeader(p)
      <4>1. /\ backup[p] = "leader" /\ backup'[p] = "clients"
            /\ to_leader'[p] = Append(to_leader[p], Plain("GET_CLIENTS"))
        BY <3>3 DEF BackupHearsLeader, TypeOK
      <4>2. type = "LEADER"
        <5>1. NoneOf({"CLIENTS"}, to_peer[p])
          BY <2>4, <4>1 DEF Exchange
        <5>2. QED
          BY <3>1, <3>2, <5>1, TailTypes
      <4>3. to_leader[p] = << >> /\ AtMostOne("LEADER", to_peer[p])
        <5>1. ~NoneOf({"LEADER"}, to_peer[p])
          BY <3>1, <4>2, TailTypes
        <5>2. QED
          BY <2>4, <4>1, <5>1 DEF Exchange
      <4>4. NoneOf({"LEADER"}, to_peer'[p])
        BY <3>1, <4>2, <4>3, TailTypes
      <4>5. to_leader'[p] = <<Plain("GET_CLIENTS")>>
        BY <4>1, <4>3, ShortSequences
      <4>6. replies'[p] = <<"LEADER">>
        BY <2>4, <3>1, <4>1, <4>2, ShortSequences DEF Exchange
      <4>7. QED
        BY <4>1, <4>4, <4>5, <4>6 DEF Exchange
    <3>4. CASE BackupHearsClients(p)
      <4>1. backup[p] = "clients" /\ backup'[p] = "running"
        BY <3>4 DEF BackupHearsClients, TypeOK
      <4>2. NoneOf({"LEADER"}, to_peer[p]) /\ replies[p] = <<"LEADER">>
        BY <2>4, <4>1 DEF Exchange
      <4>3. type = "CLIENTS"
        BY <3>1, <3>2, <4>2, TailTypes
      <4>4. replies'[p] = <<"LEADER", "CLIENTS">>
        BY <3>1, <4>2, <4>3, ShortSequences
      <4>5. QED
        BY <4>1, <4>4 DEF Exchange
    <3>5. QED
      BY <1>2, <2>6, <3>3, <3>4
  <2>7. QED
    BY <2>5, <2>6
<1>3. CASE BackupStops(q)
  <2>1. Exchange(p) /\ replies'[p] = replies[p]
    BY <1>3, DisturbedStays DEF BackupStops, history
  <2>2. CASE p # q
    <3>1. Quiet(p)
      BY <1>3, <2>2 DEF BackupStops, Quiet, Goes, TypeOK, leader, network, history
    <3>2. QED
      BY <2>1, <3>1, ExchangeAlone
  <2>3. CASE p = q
    BY <1>3, <2>3 DEF BackupStops, Exchange, TypeOK
  <2>4. QED
    BY <2>2, <2>3
<1>4. CASE BackupIgnores(q) \/ BackupLearns(q) \/ BackupThreadEnds(q)
  <2>1. UNCHANGED <<backup, to_leader, peer_thread, replies>>
    BY <1>4 DEF BackupIgnores, BackupLearns, BackupThreadEnds, ThreadTakes,
       leader, network, history
  <2>2. Goes(p, {"CLIENT_CONNECTION"})
    <3>1. CASE BackupIgnores(q) \/ BackupLearns(q)
      <4>1. to_peer[q] # << >> /\ to_peer' = [to_peer EXCEPT ![q] = Tail(@)]
        BY <3>1 DEF BackupIgnores, BackupLearns, ThreadTakes
      <4>2. QED
        BY <4>1 DEF Goes, TypeOK
    <3>2. CASE BackupThreadEnds(q)
      BY <3>2 DEF Goes, BackupThreadEnds, network
    <3>3. QED
      BY <1>4, <3>1, <3>2
  <2>3. Exchange(p)
    BY <2>1, DisturbedStays
  <2>4. QED
    BY <2>1, <2>2, <2>3, ExchangeAlone DEF Quiet
<1>5. QED
  BY <1>1, <1>2, <1>3, <1>4 DEF Backup

(* The leader sends nothing but replies and notifications. *)
LEMMA SendableNext ==
  ASSUME TypeOK, MainFollows, Sendable, [Next]_vars
  PROVE  Sendable'
<1> DEFINE sent == {"LEADER", "CLIENTS", "CLIENT_CONNECTION"}
<1>1. ASSUME \A p \in Peers : Goes(p, sent)
      PROVE  Sendable'
  <2> DEFINE requests == {"PEER", "WHO_IS_LEADER", "GET_CLIENTS"}
  <2>1. requests \cap sent = {}
    OBVIOUS
  <2>2. \A p \in Peers : NoneOf(requests, to_peer[p])
    BY DEF Sendable
  <2> HIDE DEF requests, sent
  <2>3. \A p \in Peers : NoneOf(requests, to_peer'[p])
    BY <1>1, <2>1, <2>2, GoesTypes
  <2>4. QED
    BY <2>3 DEF Sendable, requests
<1>2. ASSUME UNCHANGED to_peer
      PROVE  Sendable'
  BY <1>2 DEF Sendable
<1>3. ASSUME NEW q \in Peers, to_peer[q] # << >>,
             to_peer' = [to_peer EXCEPT ![q] = Tail(@)]
      PROVE  Sendable'
  <2>1. \A p \in Peers : Goes(p, sent)
    BY <1>3 DEF Goes, TypeOK
  <2>2. QED
    BY <1>1, <2>1
<1>4. ASSUME NEW q \in Peers, NEW packet \in Packets, packet.type \in sent,
             to_peer' = [to_peer EXCEPT ![q] = Append(@, packet)]
      PROVE  Sendable'
  <2>1. \A p \in Peers : Goes(p, sent)
    BY <1>4 DEF Goes, TypeOK
  <2>2. QED
    BY <1>1, <2>1
<1>5. CASE Main
  <2>1. CASE Notify
    <3>1. /\ Told \in Peers /\ main.user \in Users
          /\ to_peer' = [to_peer EXCEPT ![Told] =
                           Append(@, Packet("CLIENT_CONNECTION", main.user))]
      BY <2>1, ToldIsPeer DEF Notify, MainStep
    <3>2. QED
      BY <1>4, <3>1, PacketTypes, RequestsDiffer
  <2>2. QED
    BY <1>2, <1>5, <2>1 DEF Main, Accept, FirstIsClient, FirstIsPeer, TakesPeer,
       FirstThrows, NotifyThrows, AcceptPush, PushAccepted, Deliver, network
<1>6. ASSUME NEW c \in Clients, ClientConnects(c)
      PROVE  Sendable'
  BY <1>2, <1>6 DEF ClientConnects, network
<1>7. ASSUME NEW p \in Peers, PeerThread(p)
      PROVE  Sendable'
  <2>1. CASE PeerAsksLeader(p) \/ ListIsSent(p)
    <3>1. /\ Plain("LEADER") \in Packets /\ Plain("LEADER").type \in sent
          /\ Plain("CLIENTS") \in Packets /\ Plain("CLIENTS").type \in sent
      BY PacketTypes, RequestsDiffer DEF Types
    <3> HIDE DEF sent
    <3>2. QED
      BY <1>4, <2>1, <3>1 DEF PeerAsksLeader, ListIsSent, Sends
  <2>2. QED
    BY <1>2, <1>7, <2>1 DEF PeerThread, PeerAsksClients, ListingThrows,
       ListingUsesFreed, PeerLost
<1>8. ASSUME NEW p \in Peers, Backup(p)
      PROVE  Sendable'
  BY <1>2, <1>3, <1>8 DEF Backup, BackupConnects, BackupAnnounces,
     BackupHearsLeader, BackupHearsClients, TakesReply, BackupStops,
     BackupIgnores, BackupLearns, ThreadTakes, BackupThreadEnds, network
<1>9. QED
  BY <1>2, <1>5, <1>6, <1>7, <1>8 DEF Next, vars, network

(* Every step keeps the order of requests and replies. *)
LEMMA ExchangeNext ==
  ASSUME TypeOK, MainFollows, ExchangeInv, [Next]_vars
  PROVE  ExchangeInv'
<1>1. Sendable'
  BY SendableNext DEF ExchangeInv
<1>2. ASSUME NEW p \in Peers, Undisturbed(p)'
      PROVE  Exchange(p)'
  <2>1. Undisturbed(p) => Exchange(p)
    BY DEF ExchangeInv
  <2>2. CASE Main
    BY <1>2, <2>1, <2>2, MainExchange
  <2>3. CASE \E q \in Peers : PeerThread(q) \/ Backup(q)
    BY <1>2, <2>1, <2>3, PeerExchange, BackupExchange DEF ExchangeInv
  <2>4. CASE (\E c \in Clients : ClientConnects(c)) \/ UNCHANGED vars
    <3>1. UNCHANGED <<backup, to_leader, to_peer, peer_thread, replies>>
      BY <2>4 DEF ClientConnects, vars, leader, network, backups, history
    <3>2. Exchange(p)
      BY <1>2, <2>1, <3>1 DEF Undisturbed
    <3>3. QED
      BY <3>1, <3>2, ExchangeAlone DEF Quiet, Goes
  <2>5. QED
    BY <2>2, <2>3, <2>4 DEF Next
<1>3. QED
  BY <1>1, <1>2 DEF ExchangeInv
-----------------------------------------------------------------------------
LEMMA Inductive == Spec => []IInv
<1>1. Init => IInv
  <2> SUFFICES ASSUME Init
               PROVE  IInv
    OBVIOUS
  <2> USE DEF Init
  <2>1. TypeOK
    BY DEF TypeOK, Idle, Place, Places
  <2>2. ToSet(clients) = {}
    BY DEF ToSet
  <2>3. ReplicationInv
    BY <2>2 DEF ReplicationInv, MainFollows, Idle, Place, NoManagerNoBackups,
       ReplicatedBeforeDelivered
  <2>4. ExchangeInv
    BY DEF ExchangeInv, Sendable, NoneOf, Exchange
  <2>5. QED
    BY <2>1, <2>3, <2>4 DEF IInv
<1>2. IInv /\ [Next]_vars => IInv'
  <2> SUFFICES ASSUME IInv, [Next]_vars
               PROVE  IInv'
    OBVIOUS
  <2>1. MainFollows
    BY DEF IInv, ReplicationInv
  <2>2. QED
    BY <2>1, TypeNext, ReplicationNext, ExchangeNext DEF IInv
<1>3. QED
  BY <1>1, <1>2, PTL DEF Spec

(* Every reachable state of the leader and its backups has the types that  *)
(* TypeOK says.                                                            *)
THEOREM TypeCorrect == Spec => []TypeOK
<1>1. IInv => TypeOK
  BY DEF IInv
<1>2. QED
  BY <1>1, Inductive, PTL

(* Whenever a user's connection gets past the main loop, each backup that  *)
(* the leader knew when it created the user's manager is a backup of that  *)
(* manager, however many backups there are and whatever they do meanwhile. *)
THEOREM ReplicationCorrect == Spec => []ReplicatedBeforeDelivered
<1>1. IInv => ReplicatedBeforeDelivered
  BY DEF IInv, ReplicationInv
<1>2. QED
  BY <1>1, Inductive, PTL

(* A backup takes the leader's address and the list of clients for what    *)
(* they are, unless a notification was taken for one of them: no third     *)
(* packet that the leader sends, of any backup's thread, can mix them up.  *)
THEOREM RepliesCorrect == Spec => []RepliesInOrder
<1>1. IInv => RepliesInOrder
  BY DEF IInv, ExchangeInv, Exchange, Undisturbed, RepliesInOrder
<1>2. QED
  BY <1>1, Inductive, PTL
=============================================================================
