--------------------------- MODULE NetworkManager ---------------------------
(***************************************************************************)
(* Packets over one TCP connection (src/Utils/NetworkManager.cpp): the     *)
(* threads of a process that call sendPacket on it, the bytes under way,   *)
(* and the thread at the other end that calls receivePacket in a loop.     *)
(*                                                                         *)
(* A NetworkManager has no lock.  The leader's main loop and its thread    *)
(* for a backup send on the same connection (Server.cpp), and so do the    *)
(* watchers of one user's devices when they push to a backup               *)
(* (ClientManager::handle_new_push).                                       *)
(*                                                                         *)
(* A byte is named by its packet and its place in it.  send() copies what  *)
(* fits into the socket buffer and waits for room for the rest, and the    *)
(* bytes of another thread may go in while it waits.                       *)
(***************************************************************************)
EXTENDS Naturals, Sequences

CONSTANTS
  Senders,          \* threads that send on the connection
  Sizes,            \* payload sizes they ask for
  HEADER_SIZE,
  MAX_PACKET_SIZE,
  LengthRange,      \* number of values of the header's length field, 2^16
  Capacity,         \* bytes the socket buffers hold
  MaxPackets        \* bound: packets sent in a behaviour

ASSUME SizesAssumption ==
  /\ Sizes \subseteq Nat
  /\ {HEADER_SIZE, MAX_PACKET_SIZE, LengthRange, Capacity} \subseteq Nat \ {0}
  /\ MaxPackets \in Nat
  /\ MAX_PACKET_SIZE < LengthRange

VARIABLES
  packets,     \* the packets begun: size of the payload given, length sent
  sender,      \* packet each thread is sending, with the bytes sent of it
  wire,        \* bytes in the socket buffers
  connection,  \* "open", "closed" by the sending process, or "reset"
  receiver,    \* where receivePacket is
  buffer,      \* bytes of the packet being received
  length,      \* length of its payload
  received,    \* the packets received, each the sequence of its bytes
  interleaved  \* history: bytes went in between the bytes of a packet

vars == <<packets, sender, wire, connection, receiver, buffer, length, received,
          interleaved>>

Idle == [packet |-> 0, sent |-> 0]

Byte == (1..MaxPackets) \X (1..(HEADER_SIZE + MAX_PACKET_SIZE))

TypeOK ==
  /\ packets \in Seq([size : Sizes, length : 1..MAX_PACKET_SIZE])
  /\ sender \in [Senders -> [packet : 0..MaxPackets,
                             sent : 0..(HEADER_SIZE + MAX_PACKET_SIZE)]]
  /\ wire \in Seq(Byte)
  /\ Len(wire) <= Capacity
  /\ connection \in {"open", "closed", "reset"}
  /\ receiver \in {"header", "payload", "threw", "spin", "aborted"}
  /\ buffer \in Seq(Byte)
  /\ length \in 0..(LengthRange - 1)
  /\ received \in Seq(Seq(Byte))
  /\ interleaved \in BOOLEAN

Init ==
  /\ packets = << >>
  /\ sender = [s \in Senders |-> Idle]
  /\ wire = << >>
  /\ connection = "open"
  /\ receiver = "header"
  /\ buffer = << >>
  /\ length = 0
  /\ received = << >>
  /\ interleaved = FALSE

-----------------------------------------------------------------------------
(* The sending process *)

Least(m, n) == IF m < n THEN m ELSE n

(* Mutant: the maximum is not tested. *)
isAnyLengthValid(size) == size % LengthRange # 0

(* The payload is not null: only a length of 0 or one above the maximum is *)
(* refused, and the length is the size cut to 16 bits.                     *)
isPacketValid(size) == (size % LengthRange) \in 1..MAX_PACKET_SIZE

(* serializePacket *)
Bytes(k, n) == [i \in 1..(HEADER_SIZE + n) |-> <<k, i>>]

Room == Capacity - Len(wire)

(* send() copies bytes of packet k, of length n, from the one after `sent`.*)
Copy(s, k, n, sent) ==
  LET count == Least(Room, HEADER_SIZE + n - sent) IN
  /\ connection = "open"
  /\ Room > 0
  /\ wire' = wire \o SubSeq(Bytes(k, n), sent + 1, sent + count)
  /\ sender' = [sender EXCEPT ![s] =
                  IF sent + count = HEADER_SIZE + n THEN Idle
                  ELSE [packet |-> k, sent |-> sent + count]]
  /\ interleaved' = (interleaved \/ \E d \in Senders \ {s} : sender[d] # Idle)
  /\ UNCHANGED <<connection, receiver, buffer, length, received>>

(* sendPacket up to the first bytes sent.  An invalid packet throws and    *)
(* sends nothing.                                                          *)
sendPacket(s, size) ==
  LET n == size % LengthRange IN
  /\ Len(packets) < MaxPackets
  /\ sender[s] = Idle
  /\ isPacketValid(size)
  /\ packets' = Append(packets, [size |-> size, length |-> n])
  /\ Copy(s, Len(packets) + 1, n, 0)

(* Mutant: what one send() took is not added up. *)
SendsFromStart(s) ==
  /\ sender[s] # Idle
  /\ Copy(s, sender[s].packet, packets[sender[s].packet].length, 0)
  /\ UNCHANGED packets

(* Mutant: one send() is taken to send everything. *)
SendsOnce(s) ==
  /\ sender[s] # Idle
  /\ sender' = [sender EXCEPT ![s] = Idle]
  /\ UNCHANGED <<packets, wire, connection, receiver, buffer, length, received,
                 interleaved>>

(* The loop in sendPacket. *)
SendRest(s) ==
  /\ sender[s] # Idle
  /\ Copy(s, sender[s].packet, packets[sender[s].packet].length,
          sender[s].sent)
  /\ UNCHANGED packets

(* closeConnection, or the end of the sending process; a crash may cut the *)
(* last packet.  The bytes sent before are still delivered.                *)
closeConnection ==
  /\ connection = "open"
  /\ connection' = "closed"
  /\ UNCHANGED <<packets, sender, wire, receiver, buffer, length, received,
                 interleaved>>

(* The connection is reset and the bytes under way are lost. *)
Reset ==
  /\ connection # "reset"
  /\ connection' = "reset"
  /\ wire' = << >>
  /\ UNCHANGED <<packets, sender, receiver, buffer, length, received,
                 interleaved>>

-----------------------------------------------------------------------------
(* The receiving process *)

ReceiveStep(from) ==
  /\ receiver = from
  /\ UNCHANGED <<packets, sender, connection, interleaved>>

(* recv() returns n bytes. *)
Takes(n) ==
  /\ n <= Len(wire)
  /\ wire' = SubSeq(wire, n + 1, Len(wire))

Taken(n) == buffer \o SubSeq(wire, 1, n)

(* receivePacket returns; the caller calls it again. *)
Returns(bytes) ==
  /\ received' = Append(received, bytes)
  /\ buffer' = << >>
  /\ receiver' = "header"

(* Mutant: only a part of the length's bytes is read. *)
deserializeLowByte(bytes, n) ==
  LET last == bytes[HEADER_SIZE] IN
  last[2] = HEADER_SIZE => n = packets[last[1]].length % (LengthRange \div 2)

(* The length read from a header.  Its bytes are the last of the header;   *)
(* other bytes in their place make any length.                             *)
deserializeHeader(bytes, n) ==
  LET last == bytes[HEADER_SIZE] IN
  last[2] = HEADER_SIZE => n = packets[last[1]].length

receiveHeader(n) ==
  /\ ReceiveStep("header")
  /\ Takes(n)
  /\ \/ /\ Len(Taken(n)) < HEADER_SIZE
        /\ buffer' = Taken(n)
        /\ UNCHANGED <<receiver, length, received>>
     \/ /\ Len(Taken(n)) = HEADER_SIZE
        /\ \E len \in 0..(LengthRange - 1) :
             /\ deserializeHeader(Taken(n), len)
             /\ length' = len
             /\ \/ /\ len > 0
                   /\ buffer' = Taken(n)
                   /\ receiver' = "payload"
                   /\ UNCHANGED received
                \/ /\ len = 0
                   /\ Returns(Taken(n))

receivePayload(n) ==
  /\ ReceiveStep("payload")
  /\ Takes(n)
  /\ \/ /\ Len(Taken(n)) < HEADER_SIZE + length
        /\ buffer' = Taken(n)
        /\ UNCHANGED <<receiver, received>>
     \/ /\ Len(Taken(n)) = HEADER_SIZE + length
        /\ Returns(Taken(n))
  /\ UNCHANGED length

(* recv() returns 0 once a closed connection has no more bytes, and -1     *)
(* after a reset.                                                          *)
Ended == connection = "closed" /\ wire = << >>

ReceiverEnds(from, to) ==
  /\ ReceiveStep(from)
  /\ receiver' = to
  /\ UNCHANGED <<wire, buffer, length, received>>

(* Mutant: a return value of 0 is not tested in the header either. *)
HeaderSpins ==
  \/ Ended /\ ReceiverEnds("header", "spin")
  \/ connection = "reset" /\ ReceiverEnds("header", "threw")

HeaderThrows == (Ended \/ connection = "reset") /\ ReceiverEnds("header", "threw")

(* 0 is added to the bytes received, for ever. *)
PayloadSpins == Ended /\ ReceiverEnds("payload", "spin")

(* The payload is freed, and again by the packet's destructor.             *)
PayloadFreesTwice == connection = "reset" /\ ReceiverEnds("payload", "aborted")

Receive ==
  \/ \E n \in 1..HEADER_SIZE : receiveHeader(n)
  \/ \E n \in 1..LengthRange : receivePayload(n)

Send(s) == SendRest(s) \/ \E size \in Sizes : sendPacket(s, size)

Next ==
  \/ \E s \in Senders : Send(s)
  \/ closeConnection \/ Reset
  \/ Receive \/ HeaderThrows \/ PayloadSpins \/ PayloadFreesTwice

Spec == Init /\ [][Next]_vars

(* A thread that has begun a packet sends the rest, and the receiving      *)
(* thread keeps receiving.                                                 *)
Fairness ==
  /\ \A s \in Senders : WF_vars(SendRest(s))
  /\ WF_vars(Receive) /\ WF_vars(HeaderThrows)

FairSpec == Spec /\ Fairness
-----------------------------------------------------------------------------
(* Properties *)

(* However send() and recv() cut the stream, the packets received are the  *)
(* payloads that were given to sendPacket, whole and in order, as long as  *)
(* no other thread's bytes came in between the bytes of one.  A payload    *)
(* whose size does not fit the length field is cut, but stays one packet.  *)
FramingKept ==
  ~interleaved =>
    /\ Len(received) <= Len(packets)
    /\ \A k \in 1..Len(received) :
         received[k] = Bytes(k, IF packets[k].size < LengthRange
                                THEN packets[k].size ELSE packets[k].length)

(* The end of the connection between two packets is noticed: receivePacket *)
(* waits for ever, or frees twice, only when the connection ended inside   *)
(* a payload (or behind a header made of the bytes of two packets).        *)
EndBetweenPacketsThrows ==
  receiver \in {"spin", "aborted"} =>
    /\ connection # "open"
    /\ Len(buffer) \in HEADER_SIZE..(HEADER_SIZE + length - 1)

(* The connection is a channel for whole packets, in spite of partial      *)
(* sends and receives: receivePacket returns the next packet that was      *)
(* begun, until it notices that the connection has ended, unless packets   *)
(* of several threads are mixed.                                           *)
Channel == INSTANCE PacketChannel
           WITH Payloads <- {Bytes(k, n) : k \in 1..MaxPackets,
                                           n \in 1..MAX_PACKET_SIZE},
                Shared <- \E s, d \in Senders : s # d,
                sent <- [k \in 1..Len(packets) |-> Bytes(k, packets[k].length)],
                mixed <- interleaved,
                state <- IF receiver \notin {"header", "payload"} THEN "ended"
                         ELSE IF connection = "open" THEN "open" ELSE "closed"

ImplementsChannel == Channel!ChannelSpec

(* A packet that has been begun is received, unless the connection ends or *)
(* two threads' packets are mixed.                                         *)
BegunIsReceived ==
  \A k \in 1..MaxPackets :
    Len(packets) >= k ~> \/ Len(received) >= k
                         \/ connection # "open" \/ interleaved
=============================================================================
