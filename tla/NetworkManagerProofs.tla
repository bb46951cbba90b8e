------------------------ MODULE NetworkManagerProofs ------------------------
(***************************************************************************)
(* Proofs about packets over one connection, for any number of sending     *)
(* threads, any sizes and any buffers: type correctness, that the packets  *)
(* received are those sent, and when the end of the connection is noticed. *)
(***************************************************************************)
EXTENDS NetworkManager, SequenceTheorems, TLAPS

(* The bytes of a packet. *)
Size(packet) == HEADER_SIZE + packet.length

Total(k) == Size(packets[k])

(* A thread that is sending has sent a part of a packet that was begun.    *)
SendersFollow ==
  /\ Len(packets) <= MaxPackets
  /\ \A k \in 1..Len(packets) : packets[k].length = packets[k].size % LengthRange
  /\ \A s \in Senders : sender[s] # Idle =>
       /\ sender[s].packet \in 1..Len(packets)
       /\ sender[s].sent >= 1 /\ sender[s].sent < Total(sender[s].packet)

(* How much of a packet receivePacket has says where it is. *)
ReceiverFollows ==
  /\ receiver = "header" => Len(buffer) < HEADER_SIZE
  /\ receiver \in {"payload", "spin", "aborted"} =>
       Len(buffer) \in HEADER_SIZE..(HEADER_SIZE + length - 1)
  /\ receiver \notin {"header", "payload"} => connection # "open"

(* The packets received, and the part of the next one that has arrived.    *)
ReceivedWhole ==
  /\ Len(received) <= Len(packets)
  /\ \A k \in 1..Len(received) : received[k] = Bytes(k, packets[k].length)

BufferFollows ==
  /\ buffer # << >> => Len(received) < Len(packets)
  /\ Len(received) < Len(packets) => Len(buffer) < Total(Len(received) + 1)
  /\ \A i \in 1..Len(buffer) : buffer[i] = <<Len(received) + 1, i>>
  /\ receiver = "payload" => length = packets[Len(received) + 1].length

(* Of the last packet x bytes have been sent, and nobody sends another.    *)
SentIs(x) ==
  /\ \A s \in Senders : sender[s] # Idle =>
       sender[s].packet = Len(packets) /\ sender[s].sent = x
  /\ \A s, d \in Senders : sender[s] # Idle /\ sender[d] # Idle => s = d
  /\ (\A s \in Senders : sender[s] = Idle) =>
       Len(packets) = 0 \/ x = Total(Len(packets))

(* Byte i is byte x of packet p.  The byte d places behind it is in the    *)
(* same packet or, after its last one, begins the next.                    *)
Follows(top, p, x, q, d) ==
  /\ x + d <= top => q = <<p, x + d>>
  /\ x + d = top + 1 => q = <<p + 1, 1>>

Place(totals, bytes, i, p, x, top) ==
  /\ p \in DOMAIN totals /\ top = totals[p]
  /\ bytes[i] = <<p, x>> /\ x >= 1 /\ x <= top
  /\ \A j \in 1..Len(bytes) : i <= j => Follows(top, p, x, bytes[j], j - i)

(* The bytes of packets of these totals, in order. *)
Chain(totals, bytes) ==
  \A i \in 1..Len(bytes) :
    \E p, x, top \in Nat : Place(totals, bytes, i, p, x, top)

Totals == [k \in 1..Len(packets) |-> Total(k)]

(* The bytes under way are in order, from the first byte not received to   *)
(* the last one sent.                                                      *)
Stream(x) ==
  /\ Chain(Totals, wire)
  /\ wire # << >> => /\ wire[1] = <<Len(received) + 1, Len(buffer) + 1>>
                     /\ wire[Len(wire)] = <<Len(packets), x>>
  /\ wire = << >> =>
       \/ /\ Len(received) = Len(packets)
          /\ Len(packets) = 0 \/ x = Total(Len(packets))
       \/ Len(received) + 1 = Len(packets) /\ Len(buffer) = x

Framing ==
  /\ ReceivedWhole /\ BufferFollows
  /\ connection # "reset" => \E x \in Nat : SentIs(x) /\ Stream(x)
  /\ connection = "reset" => wire = << >>

IInv == TypeOK /\ SendersFollow /\ ReceiverFollows /\ (~interleaved => Framing)

LEMMA Constants ==
  /\ HEADER_SIZE \in Nat /\ HEADER_SIZE >= 1
  /\ MAX_PACKET_SIZE \in Nat /\ MAX_PACKET_SIZE >= 1
  /\ LengthRange \in Nat /\ LengthRange > MAX_PACKET_SIZE
  /\ Capacity \in Nat /\ MaxPackets \in Nat
BY SizesAssumption

(* A size that fits the length field is the length. *)
LEMMA SizeFits ==
  ASSUME NEW n \in Nat, n < LengthRange
  PROVE  n % LengthRange = n
BY Constants

(* The bytes that one send() takes. *)
LEMMA Chunk ==
  ASSUME NEW k \in 1..MaxPackets, NEW n \in 1..MAX_PACKET_SIZE,
         NEW sent \in Nat, NEW count \in Nat, sent + count <= HEADER_SIZE + n
  PROVE  /\ SubSeq(Bytes(k, n), sent + 1, sent + count) \in Seq(Byte)
         /\ Len(SubSeq(Bytes(k, n), sent + 1, sent + count)) = count
         /\ \A i \in 1..count :
              SubSeq(Bytes(k, n), sent + 1, sent + count)[i] = <<k, sent + i>>
<1> DEFINE bytes == Bytes(k, n)
<1>1. \A i \in 1..(HEADER_SIZE + n) : bytes[i] = <<k, i>>
  BY DEF Bytes
<1>2. \A i \in (sent + 1)..(sent + count) : bytes[i] = <<k, i>> /\ bytes[i] \in Byte
  BY <1>1, Constants DEF Byte
<1> HIDE DEF bytes
<1>3. sent + 1 \in Int /\ sent + count \in Int
  OBVIOUS
<1>4. /\ SubSeq(bytes, sent + 1, sent + count) \in Seq(Byte)
      /\ Len(SubSeq(bytes, sent + 1, sent + count)) =
           IF sent + 1 <= sent + count THEN (sent + count) - (sent + 1) + 1 ELSE 0
      /\ \A i \in 1..((sent + count) - (sent + 1) + 1) :
           SubSeq(bytes, sent + 1, sent + count)[i] = bytes[(sent + 1) + i - 1]
  BY <1>2, <1>3, SubSeqProperties
<1>5. /\ (sent + count) - (sent + 1) + 1 = count
      /\ \A i \in 1..count : (sent + 1) + i - 1 = sent + i
                             /\ sent + i \in (sent + 1)..(sent + count)
  OBVIOUS
<1>6. Len(SubSeq(bytes, sent + 1, sent + count)) = count
  BY <1>4
<1>7. \A i \in 1..count : SubSeq(bytes, sent + 1, sent + count)[i] = <<k, sent + i>>
  BY <1>2, <1>4, <1>5
<1>8. QED
  BY <1>4, <1>6, <1>7 DEF bytes

(* What one send() does to the bytes under way: it adds at least one. *)
Added(s, k, n, sent, count) ==
  /\ sent + count <= HEADER_SIZE + n
  /\ wire' \in Seq(Byte) /\ Len(wire') = Len(wire) + count
  /\ Len(wire') <= Capacity
  /\ \A i \in 1..Len(wire) : wire'[i] = wire[i]
  /\ \A i \in 1..count : wire'[Len(wire) + i] = <<k, sent + i>>
  /\ sender' = [sender EXCEPT ![s] =
                  IF sent + count = HEADER_SIZE + n THEN Idle
                  ELSE [packet |-> k, sent |-> sent + count]]

LEMMA CopyAdds ==
  ASSUME TypeOK, NEW s \in Senders, NEW k \in 1..MaxPackets,
         NEW n \in 1..MAX_PACKET_SIZE, NEW sent \in 0..(HEADER_SIZE + n - 1),
         Copy(s, k, n, sent)
  PROVE  \E count \in Nat \ {0} : Added(s, k, n, sent, count)
<1> DEFINE count == Least(Room, HEADER_SIZE + n - sent)
           chunk == SubSeq(Bytes(k, n), sent + 1, sent + count)
<1>1. wire \in Seq(Byte) /\ Len(wire) \in Nat /\ Len(wire) <= Capacity
  BY DEF TypeOK
<1>2. Room \in Nat /\ Room > 0 /\ Len(wire) + Room = Capacity
  BY <1>1, Constants DEF Copy, Room
<1>3. HEADER_SIZE + n - sent \in Nat /\ HEADER_SIZE + n - sent > 0
  BY Constants
<1>4. /\ count \in Nat \ {0} /\ count <= Room /\ sent + count <= HEADER_SIZE + n
      /\ sent \in Nat
  BY <1>2, <1>3, Constants DEF Least
<1>5. /\ wire' = wire \o chunk
      /\ sender' = [sender EXCEPT ![s] =
                      IF sent + count = HEADER_SIZE + n THEN Idle
                      ELSE [packet |-> k, sent |-> sent + count]]
  BY DEF Copy
<1> HIDE DEF count
<1>6. /\ chunk \in Seq(Byte) /\ Len(chunk) = count
      /\ \A i \in 1..count : chunk[i] = <<k, sent + i>>
  BY <1>4, Chunk
<1> HIDE DEF chunk
<1>7. /\ wire' \in Seq(Byte) /\ Len(wire') = Len(wire) + count
      /\ \A i \in 1..(Len(wire) + count) :
           wire'[i] = IF i <= Len(wire) THEN wire[i] ELSE chunk[i - Len(wire)]
  BY <1>1, <1>5, <1>6, ConcatProperties
<1>8. /\ \A i \in 1..Len(wire) : i \in 1..(Len(wire) + count) /\ i <= Len(wire)
      /\ \A i \in 1..count : /\ Len(wire) + i \in 1..(Len(wire) + count)
                             /\ ~(Len(wire) + i <= Len(wire))
                             /\ (Len(wire) + i) - Len(wire) = i
  BY <1>1, <1>4
<1>9. /\ \A i \in 1..Len(wire) : wire'[i] = wire[i]
      /\ \A i \in 1..count : wire'[Len(wire) + i] = <<k, sent + i>>
  BY <1>6, <1>7, <1>8
<1>10. Len(wire') <= Capacity
  BY <1>1, <1>2, <1>4, <1>7
<1>11. Added(s, k, n, sent, count)
  BY <1>4, <1>5, <1>7, <1>9, <1>10 DEF Added
<1>12. QED
  BY <1>4, <1>11

(* What one recv() does to the bytes under way and those received. *)
LEMMA TakesBytes ==
  ASSUME TypeOK, NEW n \in Nat \ {0}, Takes(n)
  PROVE  /\ n <= Len(wire) /\ Len(wire) \in Nat
         /\ wire' \in Seq(Byte) /\ Len(wire') = Len(wire) - n
         /\ \A i \in 1..(Len(wire) - n) : wire'[i] = wire[n + i]
         /\ Taken(n) \in Seq(Byte) /\ Len(Taken(n)) = Len(buffer) + n
         /\ \A i \in 1..Len(buffer) : Taken(n)[i] = buffer[i]
         /\ \A i \in 1..n : Taken(n)[Len(buffer) + i] = wire[i]
<1> DEFINE l == Len(wire)
           b == Len(buffer)
           first == SubSeq(wire, 1, n)
<1>1. /\ wire \in Seq(Byte) /\ l \in Nat /\ n <= l
      /\ buffer \in Seq(Byte) /\ b \in Nat
      /\ wire' = SubSeq(wire, n + 1, l)
      /\ \A i \in 1..l : wire[i] \in Byte
  BY DEF TypeOK, Takes
<1> HIDE DEF l, b
<1>2. \A i \in (n + 1)..l : wire[i] \in Byte
  BY <1>1
<1>3. /\ SubSeq(wire, n + 1, l) \in Seq(Byte)
      /\ Len(SubSeq(wire, n + 1, l)) = IF n + 1 <= l THEN l - (n + 1) + 1 ELSE 0
      /\ \A i \in 1..(l - (n + 1) + 1) : SubSeq(wire, n + 1, l)[i] = wire[(n + 1) + i - 1]
  <2>1. n + 1 \in Int /\ l \in Int
    BY <1>1
  <2>2. QED
    BY <1>2, <2>1, SubSeqProperties
<1>4. /\ l - (n + 1) + 1 = l - n
      /\ \A i \in 1..(l - n) : (n + 1) + i - 1 = n + i
      /\ (IF n + 1 <= l THEN l - (n + 1) + 1 ELSE 0) = l - n
  BY <1>1
<1>5. /\ wire' \in Seq(Byte) /\ Len(wire') = l - n
      /\ \A i \in 1..(l - n) : wire'[i] = wire[n + i]
  BY <1>1, <1>3, <1>4
<1>6. /\ first \in Seq(Byte) /\ Len(first) = n
      /\ \A i \in 1..n : first[i] = wire[i]
  <2>1. \A i \in 1..n : wire[i] \in Byte
    BY <1>1
  <2>2. 1 \in Int /\ n \in Int /\ 1 <= n /\ n - 1 + 1 = n
    OBVIOUS
  <2>3. /\ first \in Seq(Byte)
        /\ Len(first) = IF 1 <= n THEN n - 1 + 1 ELSE 0
        /\ \A i \in 1..(n - 1 + 1) : first[i] = wire[1 + i - 1]
    BY <2>1, <2>2, SubSeqProperties
  <2>4. \A i \in 1..n : 1 + i - 1 = i
    OBVIOUS
  <2> HIDE DEF first
  <2>5. QED
    BY <2>2, <2>3, <2>4
<1> HIDE DEF first
<1>7. /\ buffer \o first \in Seq(Byte) /\ Len(buffer \o first) = b + n
      /\ \A i \in 1..(b + n) :
           (buffer \o first)[i] = IF i <= b THEN buffer[i] ELSE first[i - b]
  BY <1>1, <1>6, ConcatProperties DEF b
<1>8. /\ \A i \in 1..b : i \in 1..(b + n) /\ i <= b
      /\ \A i \in 1..n : b + i \in 1..(b + n) /\ ~(b + i <= b) /\ (b + i) - b = i
  BY <1>1
<1>9. /\ \A i \in 1..b : (buffer \o first)[i] = buffer[i]
      /\ \A i \in 1..n : (buffer \o first)[b + i] = wire[i]
  BY <1>6, <1>7, <1>8
<1>10. QED
  BY <1>1, <1>5, <1>7, <1>9 DEF Taken, first, l, b

(* A thread that begins a packet, or goes on sending one. *)
Begun == [size : Sizes, length : 1..MAX_PACKET_SIZE]

LEMMA SendBegins ==
  ASSUME TypeOK, NEW s \in Senders, NEW size \in Sizes, sendPacket(s, size)
  PROVE  /\ size % LengthRange \in 1..MAX_PACKET_SIZE
         /\ Len(packets) \in Nat /\ Len(packets) + 1 <= MaxPackets
         /\ sender[s] = Idle
         /\ packets' \in Seq(Begun) /\ Len(packets') = Len(packets) + 1
         /\ \A k \in 1..Len(packets) : packets'[k] = packets[k]
         /\ packets'[Len(packets) + 1] =
              [size |-> size, length |-> size % LengthRange]
         /\ \E count \in Nat \ {0} :
              Added(s, Len(packets) + 1, size % LengthRange, 0, count)
<1> DEFINE n == size % LengthRange
           new == [size |-> size, length |-> n]
           k == Len(packets) + 1
<1>1. /\ n \in 1..MAX_PACKET_SIZE /\ sender[s] = Idle
      /\ packets' = Append(packets, new) /\ Copy(s, k, n, 0)
      /\ Len(packets) < MaxPackets
  BY DEF sendPacket, isPacketValid
<1>2. packets \in Seq(Begun) /\ Len(packets) \in Nat
  BY DEF TypeOK, Begun
<1>3. k \in 1..MaxPackets /\ 0 \in 0..(HEADER_SIZE + n - 1)
  BY <1>1, <1>2, Constants
<1>4. new \in Begun
  BY <1>1 DEF Begun
<1>5. \E count \in Nat \ {0} : Added(s, k, n, 0, count)
  <2> HIDE DEF n, k
  <2>1. QED
    BY <1>1, <1>3, CopyAdds
<1> HIDE DEF new
<1>6. /\ packets' \in Seq(Begun) /\ Len(packets') = Len(packets) + 1
      /\ \A i \in 1..Len(packets) : packets'[i] = packets[i]
      /\ packets'[Len(packets) + 1] = new
  BY <1>1, <1>2, <1>4, AppendProperties
<1>7. Len(packets) + 1 <= MaxPackets
  BY <1>1, <1>2, Constants
<1>8. QED
  BY <1>1, <1>2, <1>5, <1>6, <1>7 DEF new

LEMMA SendGoesOn ==
  ASSUME TypeOK, SendersFollow, NEW s \in Senders, SendRest(s)
  PROVE  /\ sender[s] # Idle /\ UNCHANGED packets
         /\ sender[s].packet \in 1..Len(packets)
         /\ sender[s].packet \in 1..MaxPackets
         /\ packets[sender[s].packet].length \in 1..MAX_PACKET_SIZE
         /\ sender[s].sent \in Nat /\ sender[s].sent >= 1
         /\ Total(sender[s].packet) \in Nat
         /\ Total(sender[s].packet) =
              HEADER_SIZE + packets[sender[s].packet].length
         /\ \E count \in Nat \ {0} :
              Added(s, sender[s].packet, packets[sender[s].packet].length,
                    sender[s].sent, count)
<1> DEFINE k == sender[s].packet
           n == packets[k].length
           x == sender[s].sent
<1>1. /\ sender[s] # Idle /\ UNCHANGED packets
      /\ Copy(s, k, n, x)
  BY DEF SendRest
<1>2. /\ k \in 1..Len(packets) /\ x >= 1 /\ x < Total(k)
      /\ Len(packets) <= MaxPackets
  BY <1>1 DEF SendersFollow
<1>3. n \in 1..MAX_PACKET_SIZE /\ Len(packets) \in Nat /\ x \in Nat
  <2>1. packets \in Seq(Begun)
    BY DEF TypeOK, Begun
  <2>2. packets[k] \in Begun
    BY <1>2, <2>1, ElementOfSeq
  <2>3. QED
    BY <2>1, <2>2 DEF Begun, TypeOK
<1>4. Total(k) = HEADER_SIZE + n
  BY DEF Total, Size
<1>5. /\ k \in 1..MaxPackets /\ x \in 0..(HEADER_SIZE + n - 1)
      /\ HEADER_SIZE + n \in Nat
  <2> HIDE DEF k, n, x
  <2>1. QED
    BY <1>2, <1>3, <1>4, Constants
<1>6. \E count \in Nat \ {0} : Added(s, k, n, x, count)
  <2> HIDE DEF n, k, x
  <2>1. QED
    BY <1>1, <1>3, <1>5, CopyAdds DEF x
<1>7. QED
  BY <1>1, <1>2, <1>3, <1>4, <1>5, <1>6

(* The type of a sending thread that has sent some more. *)
LEMMA AddedTypes ==
  ASSUME TypeOK, NEW s \in Senders, NEW k \in 1..MaxPackets,
         NEW n \in 1..MAX_PACKET_SIZE, NEW sent \in Nat, NEW count \in Nat \ {0},
         Added(s, k, n, sent, count)
  PROVE  sender' \in [Senders -> [packet : 0..MaxPackets,
                                  sent : 0..(HEADER_SIZE + MAX_PACKET_SIZE)]]
<1>1. Idle \in [packet : 0..MaxPackets, sent : 0..(HEADER_SIZE + MAX_PACKET_SIZE)]
  BY Constants DEF Idle
<1>2. [packet |-> k, sent |-> sent + count]
        \in [packet : 0..MaxPackets, sent : 0..(HEADER_SIZE + MAX_PACKET_SIZE)]
  BY Constants DEF Added
<1>3. QED
  BY <1>1, <1>2 DEF Added, TypeOK

LEMMA AddedWire ==
  ASSUME NEW s, NEW k, NEW n, NEW sent, NEW count, Added(s, k, n, sent, count)
  PROVE  wire' \in Seq(Byte) /\ Len(wire') <= Capacity
BY DEF Added

(* Every step keeps the type of every variable. *)
LEMMA TypeNext ==
  ASSUME TypeOK, SendersFollow, [Next]_vars
  PROVE  TypeOK'
<1>1. ASSUME NEW s \in Senders, SendRest(s)
      PROVE  TypeOK'
  <2>1. sender' \in [Senders -> [packet : 0..MaxPackets,
                                 sent : 0..(HEADER_SIZE + MAX_PACKET_SIZE)]]
        /\ wire' \in Seq(Byte) /\ Len(wire') <= Capacity
    <3>1. PICK count \in Nat \ {0} :
            Added(s, sender[s].packet, packets[sender[s].packet].length,
                  sender[s].sent, count)
      BY <1>1, SendGoesOn
    <3>2. sender[s].sent \in Nat
      BY DEF TypeOK
    <3>3. /\ sender[s].packet \in 1..MaxPackets
          /\ packets[sender[s].packet].length \in 1..MAX_PACKET_SIZE
      BY <1>1, SendGoesOn
    <3>4. QED
      BY <1>1, <3>1, <3>2, <3>3, AddedTypes, AddedWire
  <2>2. interleaved' \in BOOLEAN
    BY <1>1 DEF SendRest, Copy
  <2>3. UNCHANGED <<packets, connection, receiver, buffer, length, received>>
    BY <1>1 DEF SendRest, Copy
  <2>4. QED
    BY <2>1, <2>2, <2>3 DEF TypeOK
<1>2. ASSUME NEW s \in Senders, NEW size \in Sizes, sendPacket(s, size)
      PROVE  TypeOK'
  <2> DEFINE n == size % LengthRange
  <2>1. PICK count \in Nat \ {0} : Added(s, Len(packets) + 1, n, 0, count)
    BY <1>2, SendBegins
  <2>2. /\ Len(packets) + 1 \in 1..MaxPackets /\ n \in 1..MAX_PACKET_SIZE
        /\ packets' \in Seq(Begun)
    <3>1. Len(packets) \in Nat /\ Len(packets) + 1 <= MaxPackets
          /\ n \in 1..MAX_PACKET_SIZE /\ packets' \in Seq(Begun)
      BY <1>2, SendBegins
    <3> HIDE DEF n
    <3>2. QED
      BY <3>1, Constants
  <2> HIDE DEF n
  <2>3. sender' \in [Senders -> [packet : 0..MaxPackets,
                                 sent : 0..(HEADER_SIZE + MAX_PACKET_SIZE)]]
    BY <2>1, <2>2, AddedTypes
  <2>4. wire' \in Seq(Byte) /\ Len(wire') <= Capacity
    BY <2>1, AddedWire
  <2>5. interleaved' \in BOOLEAN
    BY <1>2 DEF sendPacket, Copy
  <2>6. UNCHANGED <<connection, receiver, buffer, length, received>>
    BY <1>2 DEF sendPacket, Copy
  <2>7. QED
    BY <2>2, <2>3, <2>4, <2>5, <2>6 DEF TypeOK, Begun
<1>3. CASE closeConnection \/ Reset
  <2>1. << >> \in Seq(Byte) /\ Len(<< >>) = 0
    OBVIOUS
  <2>2. wire' \in Seq(Byte) /\ Len(wire') <= Capacity
    <3>1. Len(wire) <= Capacity /\ 0 <= Capacity
      BY Constants DEF TypeOK
    <3>2. CASE closeConnection
      BY <3>1, <3>2 DEF closeConnection, TypeOK
    <3>3. CASE Reset
      BY <2>1, <3>1, <3>3 DEF Reset
    <3>4. QED
      BY <1>3, <3>2, <3>3
  <2>3. QED
    BY <1>3, <2>2 DEF closeConnection, Reset, TypeOK
<1>4. ASSUME NEW n \in Nat \ {0}, receiveHeader(n) \/ receivePayload(n)
      PROVE  TypeOK'
  <2>1. Takes(n)
    BY <1>4 DEF receiveHeader, receivePayload
  <2>2. wire' \in Seq(Byte) /\ Len(wire') <= Capacity /\ Taken(n) \in Seq(Byte)
    <3>1. /\ wire' \in Seq(Byte) /\ Len(wire') = Len(wire) - n /\ Taken(n) \in Seq(Byte)
          /\ Len(wire) \in Nat
      BY <2>1, TakesBytes
    <3>2. Len(wire) <= Capacity
      BY DEF TypeOK
    <3>3. QED
      BY <3>1, <3>2, Constants
  <2>3. UNCHANGED <<packets, sender, connection, interleaved>>
    BY <1>4 DEF receiveHeader, receivePayload, ReceiveStep
  <2>4. /\ buffer' \in {<< >>, Taken(n)}
        /\ received' \in {received, Append(received, Taken(n))}
        /\ receiver' \in {"header", "payload"}
        /\ length' \in 0..(LengthRange - 1)
    BY <1>4 DEF receiveHeader, receivePayload, ReceiveStep, Returns, TypeOK
  <2>5. buffer' \in Seq(Byte)
    <3>1. << >> \in Seq(Byte)
      BY EmptySeq
    <3>2. QED
      BY <2>2, <2>4, <3>1
  <2>6. received' \in Seq(Seq(Byte))
    <3>1. received \in Seq(Seq(Byte))
      BY DEF TypeOK
    <3>2. Append(received, Taken(n)) \in Seq(Seq(Byte))
      BY <2>2, <3>1, AppendProperties
    <3>3. QED
      BY <2>4, <3>1, <3>2
  <2>7. QED
    BY <2>2, <2>3, <2>4, <2>5, <2>6 DEF TypeOK
<1>5. CASE HeaderThrows \/ PayloadSpins \/ PayloadFreesTwice
  BY <1>5 DEF HeaderThrows, PayloadSpins, PayloadFreesTwice, ReceiverEnds,
     ReceiveStep, TypeOK
<1>6. CASE UNCHANGED vars
  BY <1>6 DEF vars, TypeOK
<1>7. QED
  <2>1. (\A n \in 1..HEADER_SIZE : n \in Nat \ {0}) /\ \A n \in 1..LengthRange : n \in Nat \ {0}
    BY Constants
  <2>2. QED
    BY <1>1, <1>2, <1>3, <1>4, <1>5, <1>6, <2>1 DEF Next, Send, Receive

(* Every step keeps what the sending threads are at. *)
LEMMA SendersNext ==
  ASSUME TypeOK, SendersFollow, [Next]_vars
  PROVE  SendersFollow'
<1>1. ASSUME UNCHANGED <<packets, sender>>
      PROVE  SendersFollow'
  BY <1>1 DEF SendersFollow, Total
<1>2. ASSUME NEW s \in Senders, NEW k \in 1..Len(packets'), NEW sent \in Nat,
             NEW n, NEW count \in Nat \ {0}, Added(s, k, n, sent, count),
             HEADER_SIZE + n = Size(packets'[k]), Size(packets'[k]) \in Nat
      PROVE  /\ sender'[s] # Idle =>
                  /\ sender'[s].packet = k /\ sender'[s].sent >= 1
                  /\ sender'[s].sent < Size(packets'[k])
             /\ \A d \in Senders : d # s => sender'[d] = sender[d]
  <2> DEFINE x == sent + count
             t == Size(packets'[k])
  <2>1. /\ sender' = [sender EXCEPT ![s] =
                        IF x = t THEN Idle ELSE [packet |-> k, sent |-> x]]
        /\ x <= t
    BY <1>2 DEF Added
  <2>2. x \in Nat /\ x >= 1 /\ t \in Nat
    BY <1>2
  <2> HIDE DEF x, t
  <2>3. CASE x = t
    BY <2>1, <2>3 DEF TypeOK
  <2>4. CASE x # t
    <3>1. sender'[s] = [packet |-> k, sent |-> x]
      BY <2>1, <2>4 DEF TypeOK
    <3>2. x < t
      BY <2>1, <2>2, <2>4
    <3>3. QED
      BY <2>1, <2>2, <3>1, <3>2 DEF t, TypeOK
  <2>5. QED
    BY <2>3, <2>4
<1>3. ASSUME NEW s \in Senders, SendRest(s)
      PROVE  SendersFollow'
  <2>1. PICK k \in 1..Len(packets) : k = sender[s].packet
    BY <1>3, SendGoesOn
  <2>2. PICK count \in Nat \ {0} :
          Added(s, k, packets[k].length, sender[s].sent, count)
    BY <1>3, <2>1, SendGoesOn
  <2>3. /\ HEADER_SIZE + packets[k].length = Size(packets[k])
        /\ Size(packets[k]) \in Nat /\ sender[s].sent \in Nat
        /\ UNCHANGED packets
    BY <1>3, <2>1, SendGoesOn DEF Total
  <2>4. /\ sender'[s] # Idle => /\ sender'[s].packet = k /\ sender'[s].sent >= 1
                                /\ sender'[s].sent < Size(packets'[k])
        /\ \A d \in Senders : d # s => sender'[d] = sender[d]
    BY <1>2, <2>2, <2>3
  <2>5. QED
    BY <2>3, <2>4 DEF SendersFollow, Total
<1>4. ASSUME NEW s \in Senders, NEW size \in Sizes, sendPacket(s, size)
      PROVE  SendersFollow'
  <2> DEFINE n == size % LengthRange
  <2>1. PICK k \in Nat : k = Len(packets) + 1
    BY <1>4, SendBegins
  <2>2. PICK count \in Nat \ {0} : Added(s, k, n, 0, count)
    BY <1>4, <2>1, SendBegins
  <2>3. /\ n \in 1..MAX_PACKET_SIZE /\ Len(packets) \in Nat /\ k <= MaxPackets
        /\ Len(packets') = k /\ packets'[k] = [size |-> size, length |-> n]
        /\ \A i \in 1..Len(packets) : packets'[i] = packets[i]
    BY <1>4, <2>1, SendBegins
  <2>4. \A i \in 1..k : packets'[i].length = packets'[i].size % LengthRange
    <3>1. packets'[k].length = packets'[k].size % LengthRange
      BY <2>3
    <3>2. \A i \in 1..Len(packets) :
            packets'[i].length = packets'[i].size % LengthRange
      BY <2>3 DEF SendersFollow
    <3>3. \A i \in 1..k : i \in 1..Len(packets) \/ i = k
      BY <2>1, <2>3
    <3>4. QED
      BY <3>1, <3>2, <3>3
  <2>5. HEADER_SIZE + n = Size(packets'[k])
    BY <2>3 DEF Size
  <2>6. HEADER_SIZE + n \in Nat
    <3> HIDE DEF n
    <3>1. QED
      BY <2>3, Constants
  <2>7. k \in 1..Len(packets') /\ \A i \in 1..Len(packets) : i \in 1..Len(packets')
    BY <2>1, <2>3
  <2> HIDE DEF n
  <2>8. /\ sender'[s] # Idle => /\ sender'[s].packet = k /\ sender'[s].sent >= 1
                                /\ sender'[s].sent < Size(packets'[k])
        /\ \A d \in Senders : d # s => sender'[d] = sender[d]
    BY <1>2, <2>2, <2>5, <2>6, <2>7
  <2>9. ASSUME NEW d \in Senders, sender'[d] # Idle
        PROVE  /\ sender'[d].packet \in 1..Len(packets')
               /\ sender'[d].sent >= 1
               /\ sender'[d].sent < Size(packets'[sender'[d].packet])
    <3>1. CASE d = s
      BY <2>7, <2>8, <2>9, <3>1
    <3>2. CASE d # s
      BY <2>3, <2>7, <2>8, <2>9, <3>2 DEF SendersFollow, Total
    <3>3. QED
      BY <3>1, <3>2
  <2>10. Len(packets') <= MaxPackets
    BY <2>3
  <2>11. QED
    BY <2>3, <2>4, <2>9, <2>10 DEF SendersFollow, Total
<1>5. CASE Receive \/ HeaderThrows \/ PayloadSpins \/ PayloadFreesTwice
           \/ closeConnection \/ Reset
  BY <1>1, <1>5 DEF Receive, receiveHeader, receivePayload, HeaderThrows,
     PayloadSpins, PayloadFreesTwice, ReceiverEnds, ReceiveStep, closeConnection, Reset
<1>6. CASE UNCHANGED vars
  BY <1>1, <1>6 DEF vars
<1>7. QED
  BY <1>3, <1>4, <1>5, <1>6 DEF Next, Send

(* Every step keeps how far the receiver is. *)
LEMMA ReceiverNext ==
  ASSUME TypeOK, ReceiverFollows, [Next]_vars
  PROVE  ReceiverFollows'
<1>1. ASSUME UNCHANGED <<receiver, buffer, length>>,
             connection # "open" => connection' # "open"
      PROVE  ReceiverFollows'
  BY <1>1 DEF ReceiverFollows
<1>2. ASSUME NEW s \in Senders, Send(s)
      PROVE  ReceiverFollows'
  BY <1>1, <1>2 DEF Send, SendRest, sendPacket, Copy
<1>3. CASE closeConnection \/ Reset
  BY <1>1, <1>3 DEF closeConnection, Reset
<1>4. ASSUME NEW n \in Nat \ {0}, receiveHeader(n)
      PROVE  ReceiverFollows'
  <2>1. Len(Taken(n)) \in Nat
    <3>1. Taken(n) \in Seq(Byte)
      BY <1>4, TakesBytes DEF receiveHeader
    <3>2. QED
      BY <3>1
  <2>2. CASE Len(Taken(n)) < HEADER_SIZE /\ buffer' = Taken(n) /\ receiver' = receiver
    BY <1>4, <2>2 DEF receiveHeader, ReceiveStep, ReceiverFollows
  <2>3. CASE buffer' = Taken(n) /\ receiver' = "payload" /\ length' > 0
             /\ Len(Taken(n)) = HEADER_SIZE /\ length' \in Nat
    <3> DEFINE l == length'
    <3>0. l \in Nat /\ l > 0
      BY <2>3
    <3> HIDE DEF l
    <3>1. HEADER_SIZE \in HEADER_SIZE..(HEADER_SIZE + l - 1)
      BY <3>0, Constants
    <3> USE DEF l
    <3>2. QED
      BY <2>3, <3>1 DEF ReceiverFollows
  <2>4. CASE buffer' = << >> /\ receiver' = "header"
    <3>1. Len(<< >>) = 0
      OBVIOUS
    <3>2. QED
      BY <2>4, <3>1, Constants DEF ReceiverFollows
  <2>5. QED
    BY <1>4, <2>2, <2>3, <2>4, Constants DEF receiveHeader, Returns
<1>5. ASSUME NEW n \in Nat \ {0}, receivePayload(n)
      PROVE  ReceiverFollows'
  <2>1. receiver = "payload" /\ length' = length /\ length \in Nat
    BY <1>5, Constants DEF receivePayload, ReceiveStep, TypeOK
  <2>2. CASE Len(Taken(n)) < HEADER_SIZE + length /\ buffer' = Taken(n)
             /\ receiver' = receiver
    <3>1. Len(Taken(n)) = Len(buffer) + n /\ Len(buffer) \in Nat
      <4>1. Len(buffer) \in Nat
        BY DEF TypeOK
      <4>2. QED
        BY <1>5, <4>1, TakesBytes DEF receivePayload
    <3>2. Len(buffer) >= HEADER_SIZE
      BY <2>1, <3>1, Constants DEF ReceiverFollows
    <3>3. QED
      BY <2>1, <2>2, <3>1, <3>2, Constants DEF ReceiverFollows
  <2>3. CASE buffer' = << >> /\ receiver' = "header"
    <3>1. Len(<< >>) = 0
      OBVIOUS
    <3>2. QED
      BY <2>3, <3>1, Constants DEF ReceiverFollows
  <2>4. QED
    BY <1>5, <2>2, <2>3 DEF receivePayload, Returns
<1>6. CASE HeaderThrows \/ PayloadSpins \/ PayloadFreesTwice
  BY <1>6 DEF HeaderThrows, PayloadSpins, PayloadFreesTwice, ReceiverEnds,
     ReceiveStep, Ended, ReceiverFollows
<1>7. CASE UNCHANGED vars
  BY <1>1, <1>7 DEF vars
<1>8. QED
  <2>1. (\A n \in 1..HEADER_SIZE : n \in Nat \ {0}) /\ \A n \in 1..LengthRange : n \in Nat \ {0}
    BY Constants
  <2>2. QED
    BY <1>2, <1>3, <1>4, <1>5, <1>6, <1>7, <2>1 DEF Next, Receive

(* Where the last byte of a chain is, seen from any byte of it. *)
EndsAt(t, w, n, last) ==
  DOMAIN t = 1..n /\ Chain(t, w) /\ w[Len(w)] = <<n, last>>

LEMMA ChainEnds ==
  ASSUME NEW n \in Nat, NEW t, NEW w \in Seq(Byte), NEW last \in Nat,
         EndsAt(t, w, n, last),
         NEW i \in 1..Len(w), NEW p \in Nat, NEW x \in Nat, NEW top \in Nat,
         Place(t, w, i, p, x, top)
  PROVE  /\ p = n => x + (Len(w) - i) = last
         /\ p # n => x + (Len(w) - i) > top
<1> DEFINE l == Len(w)
<1>1. l \in Nat /\ l \in 1..l /\ i <= l
  OBVIOUS
<1>2. /\ p \in 1..n /\ x >= 1 /\ x <= top
      /\ \A j \in 1..l : i <= j => Follows(top, p, x, w[j], j - i)
  BY DEF Place, EndsAt
<1>3. w[l] = <<n, last>>
  BY DEF EndsAt
<1>4. \A j \in 1..l : \E q \in 1..n, y \in Nat : w[j] = <<q, y>>
  BY DEF Chain, Place, EndsAt
<1> HIDE DEF l
<1>5. CASE x + (l - i) <= top
  <2>1. w[l] = <<p, x + (l - i)>>
    BY <1>1, <1>2, <1>5 DEF Follows
  <2>2. p = n /\ x + (l - i) = last
    BY <1>3, <2>1
  <2>3. QED
    BY <2>2 DEF l
<1>6. CASE x + (l - i) > top /\ p = n
  <2>1. PICK j \in 1..l : i <= j /\ x + (j - i) = top + 1
    <3>1. i + (top - x) + 1 \in 1..l
      BY <1>1, <1>2, <1>6
    <3>2. x + ((i + (top - x) + 1) - i) = top + 1 /\ i <= i + (top - x) + 1
      BY <1>1, <1>2
    <3>3. QED
      BY <3>1, <3>2
  <2>2. w[j] = <<n + 1, 1>>
    BY <1>2, <1>6, <2>1 DEF Follows
  <2>3. PICK q \in 1..n, y \in Nat : w[j] = <<q, y>>
    BY <1>4
  <2>4. q = n + 1
    BY <2>2, <2>3
  <2>5. QED
    BY <2>4
<1>7. CASE x + (l - i) > top /\ p # n
  BY <1>7 DEF l
<1>8. QED
  BY <1>1, <1>5, <1>6, <1>7

(* Bytes that continue a chain: more of its last packet, or the next one.  *)
Continue(t, u, w, v, n, k, last, sent, count, top) ==
  /\ DOMAIN t = 1..n /\ DOMAIN u = 1..k /\ k >= 1
  /\ \A p \in 1..n : u[p] = t[p]
  /\ top = u[k] /\ sent + count <= top
  /\ Len(v) = Len(w) + count
  /\ \A i \in 1..Len(w) : v[i] = w[i]
  /\ \A i \in 1..count : v[Len(w) + i] = <<k, sent + i>>
  /\ w # << >> => w[Len(w)] = <<n, last>>
  /\ \/ k = n /\ sent = last
     \/ k = n + 1 /\ sent = 0 /\ (n > 0 => last = t[n])

LEMMA ChainGrows ==
  ASSUME NEW t, NEW u, NEW w \in Seq(Byte), NEW v \in Seq(Byte), Chain(t, w),
         NEW n \in Nat, NEW k \in Nat, NEW last \in Nat, NEW sent \in Nat,
         NEW count \in Nat \ {0}, NEW top \in Nat,
         Continue(t, u, w, v, n, k, last, sent, count, top)
  PROVE  Chain(u, v)
<1> USE DEF Continue
<1> DEFINE l == Len(w)
<1>1. l \in Nat /\ Len(v) = l + count
  OBVIOUS
<1>2. \A i \in 1..l : \E p \in 1..n, x, z \in Nat : Place(t, w, i, p, x, z)
  BY DEF Chain, Place
<1>3. \A i \in 1..l : v[i] = w[i]
  OBVIOUS
<1>4. l > 0 => w[l] = <<n, last>>
  <2>1. Len(<< >>) = 0
    OBVIOUS
  <2>2. QED
    BY <2>1
<1>5. \A i \in (l + 1)..(l + count) : v[i] = <<k, sent + (i - l)>>
  <2>1. TAKE i \in (l + 1)..(l + count)
  <2>2. i - l \in 1..count /\ l + (i - l) = i
    BY <1>1
  <2>3. v[l + (i - l)] = <<k, sent + (i - l)>>
    BY <2>2
  <2> HIDE DEF l
  <2>4. QED
    BY <2>2, <2>3
<1>6. ASSUME NEW i \in 1..l, NEW p \in 1..n, NEW x \in Nat, NEW z \in Nat,
             Place(t, w, i, p, x, z)
      PROVE  Place(u, v, i, p, x, z)
  <2>1. /\ z = t[p] /\ w[i] = <<p, x>> /\ x >= 1 /\ x <= z
        /\ \A j \in 1..l : i <= j => Follows(z, p, x, w[j], j - i)
    BY <1>6 DEF Place
  <2>2. p \in DOMAIN u /\ z = u[p]
    BY <2>1
  <2>3. v[i] = <<p, x>>
    BY <1>3, <2>1
  <2>4. /\ p = n => x + (l - i) = last
        /\ p # n => x + (l - i) > z
    <3>1. EndsAt(t, w, n, last) /\ p \in Nat /\ i \in 1..Len(w)
      BY <1>1, <1>4 DEF EndsAt
    <3> HIDE DEF Continue
    <3>2. /\ p = n => x + (Len(w) - i) = last
          /\ p # n => x + (Len(w) - i) > z
      BY <1>6, <3>1, ChainEnds
    <3>3. QED
      BY <3>2
  <2> HIDE DEF l
  <2>5. ASSUME NEW j \in 1..(l + count), i <= j
        PROVE  Follows(z, p, x, v[j], j - i)
    <3>1. CASE j \in 1..l
      BY <1>3, <2>1, <2>5, <3>1
    <3>2. CASE j \in (l + 1)..(l + count) /\ k = n /\ sent = last
      <4>1. v[j] = <<k, sent + (j - l)>>
        BY <1>5, <3>2
      <4>2. p # n => x + (j - i) > z + 1
        BY <1>1, <2>4, <3>2
      <4>3. p = n => x + (j - i) = sent + (j - l)
        BY <1>1, <2>4, <3>2
      <4>4. p = n => z = top
        BY <2>2, <3>2
      <4>5. sent + (j - l) <= top
        BY <1>1, <3>2
      <4>6. x + (j - i) \in Nat
        BY <1>1, <2>5
      <4>7. CASE p = n
        <5>1. x + (j - i) <= z /\ v[j] = <<p, x + (j - i)>>
          BY <3>2, <4>1, <4>3, <4>4, <4>5, <4>7
        <5>2. x + (j - i) # z + 1
          BY <4>6, <5>1
        <5>3. QED
          BY <5>1, <5>2 DEF Follows
      <4>8. CASE p # n
        <5>1. ~(x + (j - i) <= z) /\ x + (j - i) # z + 1
          BY <4>2, <4>6, <4>8
        <5>2. QED
          BY <5>1 DEF Follows
      <4>9. QED
        BY <4>7, <4>8
    <3>3. CASE j \in (l + 1)..(l + count) /\ k = n + 1 /\ sent = 0
               /\ (n > 0 => last = t[n])
      <4>1. v[j] = <<n + 1, j - l>>
        <5>1. v[j] = <<k, sent + (j - l)>>
          BY <1>5, <3>3
        <5>2. sent + (j - l) = j - l
          BY <1>1, <3>3
        <5>3. QED
          BY <3>3, <5>1, <5>2
      <4>2. p # n => x + (j - i) > z + 1
        BY <1>1, <2>4, <3>3
      <4>3. p = n => last = z
        BY <2>1, <3>3
      <4>4. p = n => x + (j - i) = z + (j - l)
        BY <1>1, <2>4, <3>3, <4>3
      <4>5. x + (j - i) \in Nat
        BY <1>1, <2>5
      <4>6. ~(x + (j - i) <= z)
        BY <1>1, <3>3, <4>2, <4>4, <4>5
      <4>7. x + (j - i) = z + 1 => p = n /\ j - l = 1
        BY <1>1, <3>3, <4>2, <4>4, <4>5
      <4>8. x + (j - i) = z + 1 => v[j] = <<p + 1, 1>>
        BY <4>1, <4>7
      <4>9. QED
        BY <4>6, <4>8 DEF Follows
    <3>4. j \in 1..l \/ j \in (l + 1)..(l + count)
      BY <1>1
    <3>5. QED
      BY <3>1, <3>2, <3>3, <3>4
  <2>6. QED
    BY <1>1, <2>1, <2>2, <2>3, <2>5 DEF Place
<1>7. ASSUME NEW i \in (l + 1)..(l + count)
      PROVE  Place(u, v, i, k, sent + (i - l), top)
  <2> HIDE DEF l
  <2>1. v[i] = <<k, sent + (i - l)>>
    BY <1>5
  <2>2. sent + (i - l) >= 1 /\ sent + (i - l) <= top
    BY <1>1
  <2>3. ASSUME NEW j \in 1..(l + count), i <= j
        PROVE  Follows(top, k, sent + (i - l), v[j], j - i)
    <3>1. j \in (l + 1)..(l + count)
      BY <1>1, <2>3
    <3>2. v[j] = <<k, sent + (j - l)>>
      BY <1>5, <3>1
    <3>3. /\ (sent + (i - l)) + (j - i) = sent + (j - l)
          /\ (sent + (i - l)) + (j - i) # top + 1
      BY <1>1, <3>1
    <3>4. QED
      BY <3>2, <3>3 DEF Follows
  <2>4. QED
    BY <1>1, <2>1, <2>2, <2>3 DEF Place
<1>8. ASSUME NEW i \in 1..(l + count)
      PROVE  \E p, x, z \in Nat : Place(u, v, i, p, x, z)
  <2>1. CASE i \in 1..l
    BY <1>2, <1>6, <2>1
  <2>2. CASE i \in (l + 1)..(l + count)
    <3>1. sent + (i - l) \in Nat /\ k \in Nat
      BY <1>1, <2>2
    <3>2. QED
      BY <1>7, <2>2, <3>1
  <2>3. QED
    BY <1>1, <2>1, <2>2
<1>9. QED
  BY <1>1, <1>8 DEF Chain

(* The first bytes of a chain, up to the end of a packet and behind it. *)
BeginsAt(t, w, p, b, top) ==
  Chain(t, w) /\ w[1] = <<p, b + 1>> /\ top = t[p]

Reaches(w, p, b, top, i) ==
  /\ b + i <= top => w[i] = <<p, b + i>>
  /\ b + i = top + 1 => w[i] = <<p + 1, 1>>

LEMMA ChainBegins ==
  ASSUME NEW t, NEW w \in Seq(Byte), NEW p \in Nat, NEW b \in Nat,
         NEW top \in Nat, BeginsAt(t, w, p, b, top), NEW i \in 1..Len(w)
  PROVE  Reaches(w, p, b, top, i)
<1>1. 1 \in 1..Len(w) /\ 1 <= i
  OBVIOUS
<1>2. PICK q, x, z \in Nat : Place(t, w, 1, q, x, z)
  BY <1>1 DEF Chain, BeginsAt
<1>3. w[1] = <<q, x>>
  BY <1>2 DEF Place
<1>4. q = p /\ x = b + 1
  BY <1>3 DEF BeginsAt
<1>5. z = top
  BY <1>2, <1>4 DEF Place, BeginsAt
<1>6. Follows(top, p, x, w[i], i - 1)
  BY <1>1, <1>2, <1>4, <1>5 DEF Place
<1>7. x + (i - 1) = b + i
  BY <1>4
<1>8. QED
  BY <1>6, <1>7 DEF Follows, Reaches

(* A chain whose first n bytes are taken away. *)
LEMMA ChainShrinks ==
  ASSUME NEW t, NEW w \in Seq(Byte), Chain(t, w),
         NEW n \in Nat, n <= Len(w), NEW v \in Seq(Byte), Len(v) = Len(w) - n,
         \A i \in 1..(Len(w) - n) : v[i] = w[n + i]
  PROVE  /\ Chain(t, v)
         /\ v # << >> => v[Len(v)] = w[Len(w)]
<1> DEFINE l == Len(w)
<1>1. l \in Nat /\ Len(v) = l - n /\ l - n \in Nat
  OBVIOUS
<1>2. \A i \in 1..(l - n) : v[i] = w[n + i] /\ n + i \in 1..l
  BY <1>1
<1>3. ASSUME NEW i \in 1..(l - n)
      PROVE  \E p, x, z \in Nat : Place(t, v, i, p, x, z)
  <2>1. PICK p, x, z \in Nat : Place(t, w, n + i, p, x, z)
    BY <1>2 DEF Chain
  <2>2. ASSUME NEW j \in 1..(l - n), i <= j
        PROVE  Follows(z, p, x, v[j], j - i)
    <3>1. n + j \in 1..l /\ n + i <= n + j /\ (n + j) - (n + i) = j - i
      BY <1>1, <2>2
    <3>2. Follows(z, p, x, w[n + j], (n + j) - (n + i))
      BY <2>1, <3>1 DEF Place
    <3>3. QED
      BY <1>2, <3>1, <3>2
  <2>3. Place(t, v, i, p, x, z)
    BY <1>1, <1>2, <2>1, <2>2 DEF Place
  <2>4. QED
    BY <2>3
<1>4. v # << >> => v[l - n] = w[l]
  <2>1. v # << >> => l - n > 0
    BY <1>1, EmptySeq
  <2>2. v # << >> => l - n \in 1..(l - n) /\ n + (l - n) = l
    BY <1>1, <2>1
  <2>3. QED
    BY <1>2, <2>2
<1> HIDE DEF l
<1>5. Chain(t, v)
  BY <1>1, <1>3 DEF Chain
<1>6. QED
  BY <1>1, <1>4, <1>5 DEF l

(* A packet begun has a header and a payload. *)
LEMMA BegunSize ==
  ASSUME NEW ps \in Seq(Begun), NEW k \in 1..Len(ps)
  PROVE  /\ ps[k].length \in 1..MAX_PACKET_SIZE /\ Size(ps[k]) \in Nat
         /\ Size(ps[k]) = HEADER_SIZE + ps[k].length
         /\ Size(ps[k]) > HEADER_SIZE
<1>1. ps[k] \in Begun
  BY ElementOfSeq
<1>2. PICK n \in 1..MAX_PACKET_SIZE : n = ps[k].length
  BY <1>1 DEF Begun
<1>3. HEADER_SIZE + n \in Nat /\ HEADER_SIZE + n > HEADER_SIZE
  BY Constants
<1>4. QED
  BY <1>2, <1>3 DEF Size

(* The bytes under way after one send() of the only thread that is sending.*)
LEMMA StreamGrows ==
  ASSUME TypeOK, TypeOK', NEW x \in Nat, Stream(x), BufferFollows,
         UNCHANGED <<received, buffer>>,
         NEW N \in Nat, N = Len(packets), NEW k \in Nat, k = Len(packets'),
         \A i \in 1..N : packets'[i] = packets[i],
         NEW s, NEW n, NEW sent \in Nat, NEW count \in Nat \ {0},
         Added(s, k, n, sent, count),
         NEW top \in Nat, HEADER_SIZE + n = top, top = Size(packets'[k]),
         \/ k = N /\ sent = x /\ N > 0 /\ x < Total(N)
         \/ k = N + 1 /\ sent = 0 /\ (N > 0 => x = Total(N))
  PROVE  Stream(sent + count)'
<1>1. /\ Chain(Totals, wire)
      /\ wire # << >> => /\ wire[1] = <<Len(received) + 1, Len(buffer) + 1>>
                         /\ wire[Len(wire)] = <<N, x>>
      /\ wire = << >> =>
           \/ Len(received) = N /\ (N = 0 \/ x = Total(N))
           \/ Len(received) + 1 = N /\ Len(buffer) = x
  BY DEF Stream
<1>2. /\ sent + count <= top /\ wire' \in Seq(Byte) /\ Len(wire') = Len(wire) + count
      /\ \A i \in 1..Len(wire) : wire'[i] = wire[i]
      /\ \A i \in 1..count : wire'[Len(wire) + i] = <<k, sent + i>>
  BY DEF Added
<1>3. wire \in Seq(Byte) /\ Len(wire) \in Nat /\ Len(received) \in Nat /\ Len(buffer) \in Nat
  BY DEF TypeOK
<1>4. Chain(Totals', wire')
  <2> DEFINE t == Totals
             u == Totals'
             w == wire
             v == wire'
  <2>1. /\ DOMAIN t = 1..N /\ \A i \in 1..N : t[i] = Size(packets[i])
        /\ DOMAIN u = 1..k /\ \A i \in 1..k : u[i] = Size(packets'[i])
    BY DEF Totals, Total
  <2>2. /\ k >= 1 /\ k \in 1..k
        /\ \A i \in 1..N : i \in 1..k
    OBVIOUS
  <2>3. top = u[k] /\ \A i \in 1..N : u[i] = t[i]
    BY <2>1, <2>2
  <2>4. \/ k = N /\ sent = x
        \/ k = N + 1 /\ sent = 0 /\ (N > 0 => x = t[N])
    <3>1. N > 0 => t[N] = Total(N)
      BY <2>1 DEF Total
    <3>2. QED
      BY <3>1
  <2>5. Chain(t, w) /\ w \in Seq(Byte) /\ v \in Seq(Byte)
    BY <1>1, <1>2, <1>3
  <2>6. /\ Len(v) = Len(w) + count
        /\ \A i \in 1..Len(w) : v[i] = w[i]
        /\ \A i \in 1..count : v[Len(w) + i] = <<k, sent + i>>
        /\ w # << >> => w[Len(w)] = <<N, x>>
    BY <1>1, <1>2
  <2>7. sent + count <= top /\ DOMAIN t = 1..N /\ DOMAIN u = 1..k
    BY <1>2, <2>1
  <2> HIDE DEF t, u, w, v
  <2>8. Chain(u, v)
    <3>1. Continue(t, u, w, v, N, k, x, sent, count, top)
      BY <2>2, <2>3, <2>4, <2>6, <2>7 DEF Continue
    <3>2. QED
      BY <2>5, <3>1, ChainGrows
  <2>9. QED
    BY <2>8 DEF u, v
<1>5. wire' # << >> /\ wire'[Len(wire')] = <<k, sent + count>>
  <2>1. Len(<< >>) = 0 /\ count \in 1..count
    OBVIOUS
  <2>2. QED
    BY <1>2, <1>3, <2>1
<1>6. wire'[1] = <<Len(received) + 1, Len(buffer) + 1>>
  <2>1. CASE wire # << >>
    <3>1. 1 \in 1..Len(wire)
      BY <1>3, <2>1, EmptySeq
    <3>2. QED
      BY <1>1, <1>2, <2>1, <3>1
  <2>2. CASE wire = << >>
    <3>1. wire'[1] = <<k, sent + 1>>
      <4>1. Len(wire) + 1 = 1 /\ 1 \in 1..count
        BY <2>2
      <4>2. wire'[Len(wire) + 1] = <<k, sent + 1>>
        BY <1>2, <4>1
      <4>3. QED
        BY <4>1, <4>2
    <3>2. k = Len(received) + 1 /\ sent = Len(buffer)
      <4>1. CASE k = N /\ sent = x /\ N > 0 /\ x < Total(N)
        <5>1. x # Total(N)
          BY <4>1
        <5>2. QED
          BY <1>1, <2>2, <4>1, <5>1
      <4>2. CASE k = N + 1 /\ sent = 0 /\ (N > 0 => x = Total(N))
        <5>1. CASE Len(received) = N
          <6>1. buffer = << >>
            BY <5>1 DEF BufferFollows
          <6>2. QED
            BY <4>2, <5>1, <6>1
        <5>2. CASE Len(received) + 1 = N /\ Len(buffer) = x
          <6>1. Len(buffer) < Total(N)
            BY <1>3, <5>2 DEF BufferFollows
          <6>2. x = Total(N)
            BY <1>3, <4>2, <5>2
          <6>3. QED
            BY <5>2, <6>1, <6>2
        <5>3. QED
          BY <1>1, <2>2, <5>1, <5>2
      <4>3. QED
        BY <4>1, <4>2
    <3>3. QED
      BY <3>1, <3>2
  <2>3. QED
    BY <2>1, <2>2
<1>7. QED
  BY <1>4, <1>5, <1>6 DEF Stream

(* What has been received is of a packet begun, whatever is begun next. *)
LEMMA BegunKeepsReceived ==
  ASSUME TypeOK, TypeOK', ReceivedWhole, BufferFollows, ReceiverFollows,
         UNCHANGED <<received, buffer, receiver, length>>,
         NEW N \in Nat, N = Len(packets), NEW k \in Nat, k = Len(packets'),
         k = N \/ k = N + 1,
         \A i \in 1..N : packets'[i] = packets[i]
  PROVE  ReceivedWhole' /\ BufferFollows'
<1>1. PICK R, b \in Nat : R = Len(received) /\ b = Len(buffer)
  <2>1. Len(received) \in Nat /\ Len(buffer) \in Nat
    BY DEF TypeOK
  <2>2. QED
    BY <2>1
<1>2. R <= N /\ \A i \in 1..R : received[i] = Bytes(i, packets[i].length)
  BY <1>1 DEF ReceivedWhole
<1>3. ReceivedWhole'
  <2>1. R <= k /\ \A i \in 1..R : i \in 1..N
    BY <1>2
  <2>2. QED
    BY <1>1, <1>2, <2>1 DEF ReceivedWhole
<1>4. /\ buffer # << >> => R < N
      /\ R < N => b < Size(packets[R + 1])
      /\ \A i \in 1..b : buffer[i] = <<R + 1, i>>
      /\ receiver = "payload" => length = packets[R + 1].length
  BY <1>1 DEF BufferFollows, Total
<1>5. CASE R < N
  <2>1. packets'[R + 1] = packets[R + 1] /\ R < k
    BY <1>5
  <2>2. QED
    BY <1>1, <1>3, <1>4, <1>5, <2>1 DEF BufferFollows, Total
<1>6. CASE R = N
  <2>1. buffer = << >> /\ b = 0
    BY <1>1, <1>4, <1>6
  <2>2. receiver # "payload"
    <3>1. receiver = "payload" => Len(buffer) >= HEADER_SIZE
      <4>1. HEADER_SIZE \in Nat /\ length \in Nat
        BY Constants DEF TypeOK
      <4>2. QED
        BY <4>1 DEF ReceiverFollows
    <3>2. QED
      BY <1>1, <2>1, <3>1, Constants
  <2>3. R < k => b < Size(packets'[R + 1])
    <3>1. ASSUME R < k
          PROVE  Size(packets'[R + 1]) \in Nat /\ Size(packets'[R + 1]) > HEADER_SIZE
      <4>1. packets' \in Seq(Begun) /\ R + 1 \in 1..Len(packets')
        BY <3>1 DEF TypeOK, Begun
      <4>2. QED
        BY <4>1, BegunSize
    <3>2. QED
      BY <2>1, <3>1, Constants
  <2>4. QED
    BY <1>1, <1>3, <2>1, <2>2, <2>3 DEF BufferFollows, Total
<1>7. QED
  BY <1>2, <1>5, <1>6

(* A send() by the only thread that is sending keeps the framing. *)
LEMMA AddedFraming ==
  ASSUME TypeOK, TypeOK', ReceiverFollows, Framing,
         connection # "reset", connection' # "reset",
         NEW x \in Nat, Stream(x),
         UNCHANGED <<received, buffer, receiver, length>>,
         NEW N \in Nat, N = Len(packets), NEW k \in Nat, k = Len(packets'),
         \A i \in 1..N : packets'[i] = packets[i],
         NEW s \in Senders, \A d \in Senders : d # s => sender[d] = Idle,
         NEW n, NEW sent \in Nat, NEW count \in Nat \ {0},
         Added(s, k, n, sent, count),
         NEW top \in Nat, HEADER_SIZE + n = top, top = Size(packets'[k]),
         \/ k = N /\ sent = x /\ N > 0 /\ x < Total(N)
         \/ k = N + 1 /\ sent = 0 /\ (N > 0 => x = Total(N))
  PROVE  Framing'
<1>1. Stream(sent + count)'
  BY StreamGrows DEF Framing
<1>2. ReceivedWhole' /\ BufferFollows'
  BY BegunKeepsReceived DEF Framing
<1>3. PICK y \in Nat : y = sent + count
  OBVIOUS
<1>4. SentIs(y)'
  <2>1. /\ sender' = [sender EXCEPT ![s] =
                        IF y = top THEN Idle ELSE [packet |-> k, sent |-> y]]
    BY <1>3 DEF Added
  <2>2. \A d \in Senders : d # s => sender'[d] = Idle
    BY <2>1
  <2>3. s \in DOMAIN sender
    BY DEF TypeOK
  <2>4. CASE y = top
    <3>1. sender'[s] = Idle
      BY <2>1, <2>3, <2>4
    <3>2. QED
      BY <2>2, <2>4, <3>1 DEF SentIs, Total
  <2>5. CASE y # top
    <3>1. sender'[s] = [packet |-> k, sent |-> y]
      BY <2>1, <2>3, <2>5
    <3>2. sender'[s].packet = k /\ sender'[s].sent = y
      BY <3>1
    <3>3. sender'[s] # Idle
      BY <1>3, <3>2 DEF Idle
    <3>4. QED
      BY <2>2, <3>2, <3>3 DEF SentIs
  <2>6. QED
    BY <2>4, <2>5
<1>5. QED
  BY <1>1, <1>2, <1>3, <1>4 DEF Framing

(* What recv() returns is of the packet being received, and nothing of the *)
(* packet behind it if it asks for no more than the rest.                  *)
Arrives(n, R, b, N, x, top) ==
  /\ R = Len(received) /\ b = Len(buffer) /\ N = Len(packets)
  /\ R < N /\ top = Size(packets[R + 1]) /\ b < top
  /\ SentIs(x) /\ Stream(x)
  /\ Len(Taken(n)) = b + n
  /\ b + n <= top => \A i \in 1..(b + n) : Taken(n)[i] = <<R + 1, i>>

LEMMA TakenArrives ==
  ASSUME TypeOK, Framing, NEW n \in Nat \ {0}, Takes(n)
  PROVE  \E R, b, N, x, top \in Nat : Arrives(n, R, b, N, x, top)
<1>1. PICK R, b, N \in Nat : R = Len(received) /\ b = Len(buffer) /\ N = Len(packets)
  <2>1. Len(received) \in Nat /\ Len(buffer) \in Nat /\ Len(packets) \in Nat
    BY DEF TypeOK
  <2>2. QED
    BY <2>1
<1>2. /\ n <= Len(wire) /\ Len(wire) \in Nat /\ Len(Taken(n)) = b + n
      /\ \A i \in 1..b : Taken(n)[i] = buffer[i]
      /\ \A i \in 1..n : Taken(n)[b + i] = wire[i]
  BY <1>1, TakesBytes
<1>3. wire # << >> /\ wire \in Seq(Byte)
  <2>1. Len(<< >>) = 0
    OBVIOUS
  <2>2. QED
    BY <1>2, <2>1 DEF TypeOK
<1>4. PICK x \in Nat : SentIs(x) /\ Stream(x)
  BY <1>3 DEF Framing
<1>5. Chain(Totals, wire) /\ wire[1] = <<R + 1, b + 1>>
  BY <1>1, <1>3, <1>4 DEF Stream
<1>6. R + 1 \in DOMAIN Totals
  <2>1. 1 \in 1..Len(wire)
    BY <1>2
  <2>2. PICK p, y, z \in Nat : Place(Totals, wire, 1, p, y, z)
    BY <1>5, <2>1 DEF Chain
  <2>3. wire[1] = <<p, y>> /\ p \in DOMAIN Totals
    BY <2>2 DEF Place
  <2>4. p = R + 1
    BY <1>5, <2>3
  <2>5. QED
    BY <2>3, <2>4
<1>7. R + 1 \in 1..N /\ R < N /\ Totals[R + 1] = Size(packets[R + 1])
  <2>1. R + 1 \in 1..N
    BY <1>1, <1>6 DEF Totals
  <2>2. QED
    BY <1>1, <2>1 DEF Totals, Total
<1>8. PICK top \in Nat : top = Size(packets[R + 1])
  <2>1. packets \in Seq(Begun)
    BY DEF TypeOK, Begun
  <2>2. QED
    BY <1>1, <1>7, <2>1, BegunSize
<1>9. /\ \A i \in 1..b : buffer[i] = <<R + 1, i>>
      /\ b < top
  BY <1>1, <1>7, <1>8 DEF Framing, BufferFollows, Total
<1>10. ASSUME b + n <= top, NEW i \in 1..(b + n)
       PROVE  Taken(n)[i] = <<R + 1, i>>
  <2>1. CASE i <= b
    BY <1>2, <1>9, <2>1
  <2>2. CASE i > b
    <3>1. i - b \in 1..n /\ b + (i - b) = i /\ i - b \in 1..Len(wire)
      BY <1>2, <2>2
    <3>2. top = Totals[R + 1] /\ b + (i - b) <= top /\ R + 1 \in Nat
      BY <1>7, <1>8, <1>10, <3>1
    <3>3. wire[i - b] = <<R + 1, b + (i - b)>>
      <4>1. BeginsAt(Totals, wire, R + 1, b, top)
        BY <1>5, <3>2 DEF BeginsAt
      <4>2. Reaches(wire, R + 1, b, top, i - b)
        BY <1>3, <3>1, <3>2, <4>1, ChainBegins
      <4>3. QED
        BY <3>2, <4>2 DEF Reaches
    <3>4. Taken(n)[b + (i - b)] = wire[i - b]
      BY <1>2, <3>1
    <3>5. QED
      BY <3>1, <3>3, <3>4
  <2>3. QED
    BY <2>1, <2>2
<1>11. Arrives(n, R, b, N, x, top)
  BY <1>1, <1>2, <1>4, <1>7, <1>8, <1>9, <1>10 DEF Arrives
<1>12. QED
  BY <1>11

(* The bytes that are left under way. *)
Left(n, R, b, N, x, top) ==
  /\ Chain(Totals, wire')
  /\ wire' # << >> => /\ b + n < top => wire'[1] = <<R + 1, b + n + 1>>
                      /\ b + n = top => wire'[1] = <<R + 2, 1>>
                      /\ wire'[Len(wire')] = <<N, x>>
  /\ wire' = << >> => N = R + 1 /\ x = b + n

LEMMA WireLeft ==
  ASSUME TypeOK, NEW n \in Nat \ {0}, Takes(n),
         NEW R \in Nat, NEW b \in Nat, NEW N \in Nat, NEW x \in Nat, NEW top \in Nat,
         Arrives(n, R, b, N, x, top), b + n <= top
  PROVE  Left(n, R, b, N, x, top)
<1> DEFINE l == Len(wire)
<1>1. /\ n <= l /\ l \in Nat /\ wire' \in Seq(Byte) /\ Len(wire') = l - n
      /\ \A i \in 1..(l - n) : wire'[i] = wire[n + i]
  BY TakesBytes
<1>2. wire # << >> /\ wire \in Seq(Byte)
  <2>1. Len(<< >>) = 0
    OBVIOUS
  <2>2. QED
    BY <1>1, <2>1 DEF TypeOK
<1>3. /\ Chain(Totals, wire) /\ wire[1] = <<R + 1, b + 1>> /\ wire[l] = <<N, x>>
  BY <1>2 DEF Arrives, Stream
<1>4. /\ Chain(Totals, wire')
      /\ wire' # << >> => wire'[Len(wire')] = <<N, x>>
  BY <1>1, <1>2, <1>3, ChainShrinks
<1>5. top = Totals[R + 1] /\ R + 1 \in Nat
  <2>1. R + 1 \in 1..N /\ N = Len(packets) /\ top = Size(packets[R + 1])
    BY DEF Arrives
  <2>2. QED
    BY <2>1 DEF Totals, Total
<1>6. \A i \in 1..l : /\ b + i <= top => wire[i] = <<R + 1, b + i>>
                      /\ b + i = top + 1 => wire[i] = <<R + 1 + 1, 1>>
  <2>1. PICK p \in Nat : p = R + 1
    BY <1>5
  <2>2. top = Totals[p] /\ wire[1] = <<p, b + 1>>
    BY <1>3, <1>5, <2>1
  <2>3. ASSUME NEW i \in 1..l
        PROVE  /\ b + i <= top => wire[i] = <<p, b + i>>
               /\ b + i = top + 1 => wire[i] = <<p + 1, 1>>
    <3>1. BeginsAt(Totals, wire, p, b, top) /\ i \in 1..Len(wire)
      BY <1>3, <2>2 DEF BeginsAt
    <3>2. Reaches(wire, p, b, top, i)
      BY <1>2, <3>1, ChainBegins
    <3>3. QED
      BY <3>2 DEF Reaches
  <2>4. QED
    BY <2>1, <2>3
<1> HIDE DEF l
<1>7. ASSUME wire' # << >>
      PROVE  /\ b + n < top => wire'[1] = <<R + 1, b + n + 1>>
             /\ b + n = top => wire'[1] = <<R + 2, 1>>
  <2>1. 1 \in 1..(l - n) /\ n + 1 \in 1..l
    <3>1. l - n # 0
      BY <1>1, <1>7, EmptySeq
    <3>2. QED
      BY <1>1, <3>1
  <2>2. wire'[1] = wire[n + 1]
    BY <1>1, <2>1
  <2>3. CASE b + n < top
    <3>1. b + (n + 1) <= top /\ b + (n + 1) = b + n + 1
      BY <2>3
    <3>2. wire[n + 1] = <<R + 1, b + (n + 1)>>
      BY <1>6, <2>1, <3>1
    <3>3. QED
      BY <2>2, <2>3, <3>1, <3>2
  <2>4. CASE b + n = top
    <3>1. b + (n + 1) = top + 1 /\ R + 1 + 1 = R + 2
      BY <2>4
    <3>2. wire[n + 1] = <<R + 1 + 1, 1>>
      BY <1>6, <2>1, <3>1
    <3>3. QED
      BY <2>2, <2>4, <3>1, <3>2
  <2>5. QED
    BY <2>3, <2>4
<1>8. ASSUME wire' = << >>
      PROVE  N = R + 1 /\ x = b + n
  <2>1. l = n /\ n \in 1..l
    BY <1>1, <1>8
  <2>2. wire[n] = <<R + 1, b + n>> /\ wire[n] = <<N, x>>
    BY <1>3, <1>6, <2>1
  <2>3. QED
    BY <2>2
<1>9. QED
  BY <1>4, <1>7, <1>8 DEF Left

(* recv() returns a part of the rest of a packet. *)
LEMMA PartReceived ==
  ASSUME TypeOK, Framing, NEW n \in Nat \ {0}, Takes(n),
         UNCHANGED <<packets, sender, connection, received>>,
         NEW R \in Nat, NEW b \in Nat, NEW N \in Nat, NEW x \in Nat, NEW top \in Nat,
         Arrives(n, R, b, N, x, top), b + n < top, buffer' = Taken(n),
         receiver' = "payload" => length' = packets[R + 1].length
  PROVE  Framing'
<1>1. /\ R = Len(received) /\ N = Len(packets) /\ R < N /\ top = Size(packets[R + 1])
      /\ SentIs(x) /\ Stream(x) /\ Len(buffer') = b + n
      /\ \A i \in 1..(b + n) : buffer'[i] = <<R + 1, i>>
  BY DEF Arrives
<1>2. /\ Chain(Totals, wire')
      /\ wire' # << >> => /\ wire'[1] = <<R + 1, b + n + 1>>
                          /\ wire'[Len(wire')] = <<N, x>>
      /\ wire' = << >> => N = R + 1 /\ x = b + n
  <2>1. b + n <= top
    OBVIOUS
  <2>2. Left(n, R, b, N, x, top)
    BY <2>1, WireLeft
  <2>3. QED
    BY <2>2 DEF Left
<1>3. ReceivedWhole'
  BY DEF Framing, ReceivedWhole
<1>4. BufferFollows'
  BY <1>1 DEF BufferFollows, Total
<1>5. SentIs(x)'
  BY <1>1 DEF SentIs, Total
<1>6. Stream(x)'
  <2>1. Totals' = Totals
    BY DEF Totals, Total
  <2>2. QED
    BY <1>1, <1>2, <2>1 DEF Stream
<1>7. connection # "reset"
  <2>1. wire # << >>
    <3>1. n <= Len(wire) /\ Len(wire) \in Nat
      BY TakesBytes
    <3>2. Len(<< >>) = 0
      OBVIOUS
    <3>3. QED
      BY <3>1, <3>2
  <2>2. QED
    BY <2>1 DEF Framing
<1>8. QED
  BY <1>3, <1>4, <1>5, <1>6, <1>7 DEF Framing

(* recv() returns the rest of a packet, and receivePacket returns it. *)
LEMMA WholeReceived ==
  ASSUME TypeOK, TypeOK', Framing, NEW n \in Nat \ {0}, Takes(n),
         UNCHANGED <<packets, sender, connection>>, Returns(Taken(n)),
         NEW R \in Nat, NEW b \in Nat, NEW N \in Nat, NEW x \in Nat, NEW top \in Nat,
         Arrives(n, R, b, N, x, top), b + n = top
  PROVE  Framing'
<1>1. /\ R = Len(received) /\ N = Len(packets) /\ R < N /\ top = Size(packets[R + 1])
      /\ SentIs(x) /\ Stream(x) /\ Len(Taken(n)) = top
      /\ \A i \in 1..top : Taken(n)[i] = <<R + 1, i>>
  BY DEF Arrives
<1>2. /\ Chain(Totals, wire')
      /\ wire' # << >> => /\ wire'[1] = <<R + 2, 1>>
                          /\ wire'[Len(wire')] = <<N, x>>
      /\ wire' = << >> => N = R + 1 /\ x = top
  <2>1. b + n <= top /\ b + n = top
    OBVIOUS
  <2>2. Left(n, R, b, N, x, top)
    BY <2>1, WireLeft
  <2>3. QED
    BY <2>1, <2>2 DEF Left
<1>3. /\ packets[R + 1].length \in 1..MAX_PACKET_SIZE
      /\ top = HEADER_SIZE + packets[R + 1].length
  <2>1. packets \in Seq(Begun)
    BY DEF TypeOK, Begun
  <2>2. QED
    BY <1>1, <2>1, BegunSize
<1>4. Taken(n) = Bytes(R + 1, packets[R + 1].length) /\ Taken(n) \in Seq(Byte)
  <2>1. Taken(n) \in Seq(Byte)
    BY TakesBytes
  <2>2. DOMAIN Taken(n) = 1..top
    BY <1>1, <2>1
  <2>3. Taken(n) = [i \in 1..top |-> Taken(n)[i]]
    BY <2>1, <2>2
  <2>4. [i \in 1..top |-> Taken(n)[i]] = [i \in 1..top |-> <<R + 1, i>>]
    BY <1>1
  <2>5. QED
    BY <1>3, <2>1, <2>3, <2>4 DEF Bytes
<1>5. /\ Len(received') = R + 1 /\ buffer' = << >> /\ Len(buffer') = 0
      /\ receiver' = "header"
      /\ \A i \in 1..R : received'[i] = received[i]
      /\ received'[R + 1] = Taken(n)
  <2>1. received \in Seq(Seq(Byte))
    BY DEF TypeOK
  <2>2. Len(<< >>) = 0
    OBVIOUS
  <2>3. QED
    BY <1>1, <1>4, <2>1, <2>2, AppendProperties DEF Returns
<1>6. ReceivedWhole'
  <2>1. \A i \in 1..R : received[i] = Bytes(i, packets[i].length)
    BY <1>1 DEF Framing, ReceivedWhole
  <2>2. \A i \in 1..(R + 1) : i \in 1..R \/ i = R + 1
    OBVIOUS
  <2>3. \A i \in 1..(R + 1) : received'[i] = Bytes(i, packets[i].length)
    BY <1>4, <1>5, <2>1, <2>2
  <2>4. R + 1 <= N
    BY <1>1
  <2>5. QED
    BY <1>1, <1>5, <2>3, <2>4 DEF ReceivedWhole
<1>7. BufferFollows'
  <2>1. R + 1 < N => 0 < Size(packets[R + 1 + 1])
    <3>1. SUFFICES ASSUME R + 1 < N
                   PROVE  0 < Size(packets[R + 1 + 1])
      OBVIOUS
    <3>2. PICK k \in 1..Len(packets) : k = R + 1 + 1
      BY <1>1, <3>1
    <3>3. packets \in Seq(Begun)
      BY DEF TypeOK, Begun
    <3>4. Size(packets[k]) \in Nat /\ Size(packets[k]) > HEADER_SIZE
      BY <3>3, BegunSize
    <3>5. QED
      BY <3>2, <3>4, Constants
  <2>2. QED
    BY <1>1, <1>5, <2>1 DEF BufferFollows, Total
<1>8. SentIs(x)'
  BY <1>1 DEF SentIs, Total
<1>9. Stream(x)'
  <2>1. Totals' = Totals
    BY DEF Totals, Total
  <2>2. wire' = << >> => Len(received') = N /\ (N = 0 \/ x = Total(N))
    BY <1>1, <1>2, <1>5 DEF Total
  <2>3. Len(received') + 1 = R + 2 /\ Len(buffer') + 1 = 1
    BY <1>5
  <2>4. Total(N)' = Total(N)
    BY DEF Total
  <2>5. QED
    BY <1>1, <1>2, <2>1, <2>2, <2>3, <2>4 DEF Stream
<1>10. connection # "reset"
  <2>1. n <= Len(wire) /\ Len(wire) \in Nat
    BY TakesBytes
  <2>2. Len(<< >>) = 0
    OBVIOUS
  <2>3. QED
    BY <2>1, <2>2 DEF Framing
<1>11. QED
  BY <1>6, <1>7, <1>8, <1>9, <1>10 DEF Framing

(* recv() keeps the framing. *)
LEMMA ReceivedFraming ==
  ASSUME TypeOK, TypeOK', ReceiverFollows, Framing, NEW n \in Nat \ {0},
         receiveHeader(n) \/ receivePayload(n)
  PROVE  Framing'
<1>1. Takes(n) /\ UNCHANGED <<packets, sender, connection>>
  BY DEF receiveHeader, receivePayload, ReceiveStep
<1>2. PICK R, b, N, x, top \in Nat : Arrives(n, R, b, N, x, top)
  BY <1>1, TakenArrives
<1>3. /\ R = Len(received) /\ b = Len(buffer) /\ R + 1 \in 1..Len(packets)
      /\ Len(Taken(n)) = b + n
      /\ b + n <= top => \A i \in 1..(b + n) : Taken(n)[i] = <<R + 1, i>>
  BY <1>2 DEF Arrives
<1>4. PICK len \in 1..MAX_PACKET_SIZE :
        /\ len = packets[R + 1].length /\ top = HEADER_SIZE + len
        /\ HEADER_SIZE < top
  <2>1. packets \in Seq(Begun)
    BY DEF TypeOK, Begun
  <2>2. /\ packets[R + 1].length \in 1..MAX_PACKET_SIZE
        /\ Size(packets[R + 1]) = HEADER_SIZE + packets[R + 1].length
        /\ Size(packets[R + 1]) > HEADER_SIZE
    BY <1>3, <2>1, BegunSize
  <2>3. top = Size(packets[R + 1])
    BY <1>2 DEF Arrives
  <2>4. HEADER_SIZE < top
    BY <2>2, <2>3, Constants
  <2>5. QED
    BY <2>2, <2>3, <2>4
<1>5. CASE receiveHeader(n)
  <2>1. \/ /\ b + n < HEADER_SIZE /\ buffer' = Taken(n)
           /\ UNCHANGED <<receiver, length, received>>
        \/ b + n = HEADER_SIZE
    BY <1>3, <1>5 DEF receiveHeader
  <2>2. receiver = "header"
    BY <1>5 DEF receiveHeader, ReceiveStep
  <2>3. CASE /\ b + n < HEADER_SIZE /\ buffer' = Taken(n)
             /\ UNCHANGED <<receiver, length, received>>
    <3>1. b + n < top
      BY <1>4, <2>3, Constants
    <3>2. receiver' # "payload"
      BY <2>2, <2>3
    <3>3. QED
      BY <1>1, <1>2, <2>3, <3>1, <3>2, PartReceived
  <2>4. CASE b + n = HEADER_SIZE
    <3>1. b + n < top
      BY <1>4, <2>4
    <3>2. Taken(n)[HEADER_SIZE] = <<R + 1, HEADER_SIZE>>
      <4>1. HEADER_SIZE \in 1..(b + n) /\ b + n <= top
        BY <2>4, <3>1, Constants
      <4>2. QED
        BY <1>3, <4>1
    <3>3. PICK read \in 0..(LengthRange - 1) :
            /\ deserializeHeader(Taken(n), read)
            /\ length' = read
            /\ \/ /\ read > 0
                  /\ buffer' = Taken(n)
                  /\ receiver' = "payload"
                  /\ UNCHANGED received
               \/ /\ read = 0
                  /\ Returns(Taken(n))
      <4>1. ~(Len(Taken(n)) < HEADER_SIZE)
        BY <1>3, <2>4, Constants
      <4>2. QED
        BY <1>5, <4>1 DEF receiveHeader
    <3>4. read = len
      BY <1>4, <3>2, <3>3 DEF deserializeHeader
    <3>5. buffer' = Taken(n) /\ UNCHANGED received /\ length' = packets[R + 1].length
      <4>1. read # 0
        BY <3>4
      <4>2. QED
        BY <1>4, <3>3, <3>4, <4>1
    <3>6. QED
      BY <1>1, <1>2, <3>1, <3>5, PartReceived
  <2>5. QED
    BY <2>1, <2>3, <2>4
<1>6. CASE receivePayload(n)
  <2>1. receiver = "payload" /\ length' = length
    BY <1>6 DEF receivePayload, ReceiveStep
  <2>2. length = len /\ HEADER_SIZE + length = top
    BY <1>3, <1>4, <2>1 DEF Framing, BufferFollows
  <2>3. \/ b + n < top /\ buffer' = Taken(n) /\ UNCHANGED received
        \/ b + n = top /\ Returns(Taken(n))
    BY <1>3, <1>6, <2>2 DEF receivePayload
  <2>4. CASE b + n < top /\ buffer' = Taken(n) /\ UNCHANGED received
    BY <1>1, <1>2, <1>4, <2>1, <2>2, <2>4, PartReceived
  <2>5. CASE b + n = top /\ Returns(Taken(n))
    BY <1>1, <1>2, <2>5, WholeReceived
  <2>6. QED
    BY <2>3, <2>4, <2>5
<1>7. QED
  BY <1>5, <1>6

(* Every step that puts no byte between those of a packet keeps the        *)
(* framing.                                                                *)
LEMMA FramingNext ==
  ASSUME TypeOK, TypeOK', SendersFollow, ReceiverFollows, ~interleaved', Framing,
         [Next]_vars
  PROVE  Framing'
<1>1. ASSUME NEW s \in Senders, SendRest(s)
      PROVE  Framing'
  <2>1. /\ \A d \in Senders : d # s => sender[d] = Idle
        /\ connection = "open" /\ connection' = "open"
        /\ UNCHANGED <<packets, received, buffer, receiver, length>>
        /\ sender[s] # Idle
    BY <1>1 DEF SendRest, Copy
  <2>2. PICK x \in Nat : SentIs(x) /\ Stream(x)
    BY <2>1 DEF Framing
  <2>3. PICK k \in 1..Len(packets) : k = sender[s].packet
    BY <1>1, SendGoesOn
  <2>4. PICK sent, top \in Nat : sent = sender[s].sent /\ top = Total(k)
    BY <1>1, <2>3, SendGoesOn
  <2>5. PICK count \in Nat \ {0} : Added(s, k, packets[k].length, sent, count)
    BY <1>1, <2>3, <2>4, SendGoesOn
  <2>6. k = Len(packets) /\ sent = x /\ x < Total(k)
    BY <2>1, <2>2, <2>3, <2>4 DEF SentIs, SendersFollow
  <2>7. /\ k \in Nat /\ k > 0 /\ packets' = packets
        /\ HEADER_SIZE + packets[k].length = top /\ top = Size(packets'[k])
    BY <2>1, <2>4 DEF Total, Size
  <2>8. QED
    BY <2>1, <2>2, <2>5, <2>6, <2>7, AddedFraming
<1>2. ASSUME NEW s \in Senders, NEW size \in Sizes, sendPacket(s, size)
      PROVE  Framing'
  <2>1. /\ \A d \in Senders : d # s => sender[d] = Idle
        /\ connection = "open" /\ connection' = "open"
        /\ UNCHANGED <<received, buffer, receiver, length>>
    BY <1>2 DEF sendPacket, Copy
  <2>2. PICK x \in Nat : SentIs(x) /\ Stream(x)
    BY <2>1 DEF Framing
  <2>3. PICK N \in Nat : N = Len(packets)
    BY <1>2, SendBegins
  <2>4. PICK k \in Nat : k = N + 1
    BY <2>3
  <2>5. PICK n \in 1..MAX_PACKET_SIZE : n = size % LengthRange
    BY <1>2, SendBegins
  <2>6. /\ sender[s] = Idle /\ Len(packets') = k
        /\ packets' \in Seq(Begun)
        /\ \A i \in 1..N : packets'[i] = packets[i]
        /\ packets'[k] = [size |-> size, length |-> n]
        /\ \E count \in Nat \ {0} : Added(s, k, n, 0, count)
    BY <1>2, <2>3, <2>4, <2>5, SendBegins
  <2>7. PICK count \in Nat \ {0} : Added(s, k, n, 0, count)
    BY <2>6
  <2>8. N > 0 => x = Total(N)
    BY <2>1, <2>2, <2>3, <2>6 DEF SentIs
  <2>9. PICK top \in Nat : HEADER_SIZE + n = top /\ top = Size(packets'[k])
    <3>1. HEADER_SIZE + n \in Nat
      BY Constants
    <3>2. HEADER_SIZE + n = Size(packets'[k])
      BY <2>6 DEF Size
    <3>3. QED
      BY <3>1, <3>2
  <2>10. QED
    BY <2>1, <2>2, <2>3, <2>4, <2>6, <2>7, <2>8, <2>9, AddedFraming
<1>3. CASE Receive
  <2>1. /\ \A n \in 1..HEADER_SIZE : n \in Nat \ {0}
        /\ \A n \in 1..LengthRange : n \in Nat \ {0}
    BY Constants
  <2>2. PICK n \in Nat \ {0} : receiveHeader(n) \/ receivePayload(n)
    BY <1>3, <2>1 DEF Receive
  <2>3. QED
    BY <2>2, ReceivedFraming
<1>4. CASE Reset
  BY <1>4 DEF Reset, Framing, ReceivedWhole, BufferFollows, Total
<1>5. ASSUME UNCHANGED <<packets, sender, wire, buffer, length, received>>,
             receiver' = "payload" => receiver = "payload",
             connection' = "reset" <=> connection = "reset"
      PROVE  Framing'
  <2>1. ReceivedWhole' /\ BufferFollows'
    BY <1>5 DEF Framing, ReceivedWhole, BufferFollows, Total
  <2>2. ASSUME NEW x \in Nat, SentIs(x), Stream(x)
        PROVE  SentIs(x)' /\ Stream(x)'
    <3>1. Totals' = Totals
      BY <1>5 DEF Totals, Total
    <3>2. QED
      BY <1>5, <2>2, <3>1 DEF SentIs, Stream, Total
  <2>3. QED
    BY <1>5, <2>1, <2>2 DEF Framing
<1>6. CASE closeConnection
  BY <1>5, <1>6 DEF closeConnection
<1>7. CASE HeaderThrows \/ PayloadSpins \/ PayloadFreesTwice
  BY <1>5, <1>7 DEF HeaderThrows, PayloadSpins, PayloadFreesTwice, ReceiverEnds,
     ReceiveStep
<1>8. CASE UNCHANGED vars
  BY <1>5, <1>8 DEF vars
<1>9. QED
  BY <1>1, <1>2, <1>3, <1>4, <1>6, <1>7, <1>8 DEF Next, Send

(* A packet whose bytes were mixed with another's stays so. *)
LEMMA InterleavedStays ==
  ASSUME [Next]_vars, ~interleaved'
  PROVE  ~interleaved
BY DEF Next, Send, SendRest, sendPacket, Copy, closeConnection, Reset, Receive,
   receiveHeader, receivePayload, HeaderThrows, PayloadSpins, PayloadFreesTwice,
   ReceiverEnds, ReceiveStep, vars

LEMMA Initially ==
  ASSUME Init
  PROVE  IInv
<1>1. << >> \in Seq(Begun) /\ << >> \in Seq(Byte) /\ << >> \in Seq(Seq(Byte))
      /\ Len(<< >>) = 0
  OBVIOUS
<1>2. TypeOK
  <2>1. Idle \in [packet : 0..MaxPackets, sent : 0..(HEADER_SIZE + MAX_PACKET_SIZE)]
    BY Constants DEF Idle
  <2>2. 0 \in 0..(LengthRange - 1) /\ 0 <= Capacity
    BY Constants
  <2>3. QED
    BY <1>1, <2>1, <2>2 DEF Init, TypeOK, Begun
<1>3. SendersFollow
  BY <1>1, Constants DEF Init, SendersFollow
<1>4. ReceiverFollows
  BY <1>1, Constants DEF Init, ReceiverFollows
<1>5. ReceivedWhole /\ BufferFollows
  BY <1>1 DEF Init, ReceivedWhole, BufferFollows
<1>6. SentIs(0)
  BY <1>1 DEF Init, SentIs
<1>7. Stream(0)
  <2>1. Chain(Totals, wire)
    BY <1>1 DEF Init, Chain
  <2>2. QED
    BY <1>1, <2>1 DEF Init, Stream
<1>8. QED
  BY <1>2, <1>3, <1>4, <1>5, <1>6, <1>7 DEF Init, IInv, Framing

LEMMA Inductive ==
  ASSUME IInv, [Next]_vars
  PROVE  IInv'
<1>1. TypeOK' /\ SendersFollow' /\ ReceiverFollows'
  BY TypeNext, SendersNext, ReceiverNext DEF IInv
<1>2. ~interleaved' => Framing'
  BY <1>1, InterleavedStays, FramingNext DEF IInv
<1>3. QED
  BY <1>1, <1>2 DEF IInv

LEMMA IInvHolds == Spec => []IInv
<1>1. Init => IInv
  BY Initially
<1>2. IInv /\ [Next]_vars => IInv'
  BY Inductive
<1>3. QED
  BY <1>1, <1>2, PTL DEF Spec

(* Every variable keeps its type: no thread of the sending process counts  *)
(* more bytes than its packet has, and the socket buffers never hold more  *)
(* than they can.                                                          *)
THEOREM TypeCorrect == Spec => []TypeOK
<1>1. IInv => TypeOK
  BY DEF IInv
<1>2. QED
  BY <1>1, IInvHolds, PTL

(* However send() and recv() cut the bytes, receivePacket returns the      *)
(* packets that sendPacket was given, whole and in order, as long as no    *)
(* two threads' bytes are mixed.                                           *)
THEOREM FramingCorrect == Spec => []FramingKept
<1>1. ASSUME IInv
      PROVE  FramingKept
  <2>1. SUFFICES ASSUME ~interleaved
                 PROVE  /\ Len(received) <= Len(packets)
                        /\ \A k \in 1..Len(received) :
                             received[k] = Bytes(k, IF packets[k].size < LengthRange
                                                    THEN packets[k].size
                                                    ELSE packets[k].length)
    BY DEF FramingKept
  <2>2. /\ Len(received) <= Len(packets)
        /\ \A k \in 1..Len(received) : received[k] = Bytes(k, packets[k].length)
    BY <1>1, <2>1 DEF IInv, Framing, ReceivedWhole
  <2>3. ASSUME NEW k \in 1..Len(packets), packets[k].size < LengthRange
        PROVE  packets[k].length = packets[k].size
    <3>1. packets \in Seq(Begun)
      BY <1>1 DEF IInv, TypeOK, Begun
    <3>2. packets[k] \in Begun
      BY <3>1, ElementOfSeq
    <3>3. PICK n \in Nat : n = packets[k].size
      BY <3>2, SizesAssumption DEF Begun
    <3>4. n % LengthRange = n
      BY <2>3, <3>3, SizeFits
    <3>5. packets[k].length = packets[k].size % LengthRange
      BY <1>1 DEF IInv, SendersFollow
    <3>6. QED
      BY <3>3, <3>4, <3>5
  <2>4. \A k \in 1..Len(received) : k \in 1..Len(packets)
    <3>1. Len(received) \in Nat /\ Len(packets) \in Nat
      BY <1>1 DEF IInv, TypeOK
    <3>2. QED
      BY <2>2, <3>1
  <2>5. QED
    BY <2>2, <2>3, <2>4
<1>2. QED
  BY <1>1, IInvHolds, PTL

(* receivePacket waits for ever, or frees its payload twice, only when the *)
(* connection ended inside a payload: an end between two packets throws.   *)
THEOREM EndNoticed == Spec => []EndBetweenPacketsThrows
<1>1. IInv => EndBetweenPacketsThrows
  BY DEF IInv, ReceiverFollows, EndBetweenPacketsThrows
<1>2. QED
  BY <1>1, IInvHolds, PTL
-----------------------------------------------------------------------------
(* The connection as a channel of packets *)

Sent == [k \in 1..Len(packets) |-> Bytes(k, packets[k].length)]

State == IF receiver \notin {"header", "payload"} THEN "ended"
         ELSE IF connection = "open" THEN "open" ELSE "closed"

Payloads == {Bytes(k, n) : k \in 1..MaxPackets, n \in 1..MAX_PACKET_SIZE}

Begins == \E p \in Payloads : Channel!Begin(p)

Shared == \E s, d \in Senders : s # d

(* What was sent is a sequence, and a packet that begins is added to it.   *)
LEMMA SentGrows ==
  ASSUME TypeOK, NEW size, NEW n,
         packets' = Append(packets, [size |-> size, length |-> n]),
         [size |-> size, length |-> n] \in Begun
  PROVE  Sent' = Append(Sent, Bytes(Len(packets) + 1, n))
<1> DEFINE p == [size |-> size, length |-> n]
           Ps == {Bytes(k, m) : k \in Nat, m \in 1..MAX_PACKET_SIZE}
<1>1. packets \in Seq(Begun) /\ Len(packets) \in Nat
  BY DEF TypeOK, Begun
<1>2. PICK l \in Nat : l = Len(packets)
  BY <1>1
<1>3. PICK q \in Seq(Begun) : q = packets
  BY <1>1
<1>4. p \in Begun /\ p.length = n /\ n \in 1..MAX_PACKET_SIZE
  BY DEF Begun
<1> HIDE DEF p
<1>5. /\ Append(q, p) \in Seq(Begun) /\ Len(Append(q, p)) = l + 1
      /\ \A k \in 1..l : Append(q, p)[k] = q[k]
      /\ Append(q, p)[l + 1] = p
  BY <1>2, <1>3, <1>4, AppendProperties
<1>6. packets' = Append(q, p)
  BY <1>3 DEF p
<1>7. \A k \in 1..l : q[k] \in Begun
  BY <1>2, <1>3, ElementOfSeq
<1>8. \A k \in 1..l : Bytes(k, q[k].length) \in Ps
  BY <1>7 DEF Begun
<1> HIDE DEF Ps
<1>9. PICK f : f = [k \in 1..l |-> Bytes(k, q[k].length)]
  OBVIOUS
<1>10. f \in Seq(Ps) /\ Len(f) = l /\ \A k \in 1..l : f[k] = Bytes(k, q[k].length)
  <2>1. f \in Seq(Ps)
    BY <1>8, <1>9
  <2>2. QED
    BY <1>9, <2>1
<1>11. Sent = f
  BY <1>2, <1>3, <1>9 DEF Sent
<1>12. l + 1 \in Nat /\ 1..(l + 1) = 1..l \cup {l + 1}
  BY <1>2
<1>13. PICK b \in Ps : b = Bytes(l + 1, n)
  <2>1. PICK j \in Nat : j = l + 1
    BY <1>12
  <2>2. Bytes(j, n) \in Ps
    BY <1>4 DEF Ps
  <2>3. QED
    BY <2>1, <2>2
<1>14. /\ Append(f, b) \in Seq(Ps) /\ Len(Append(f, b)) = l + 1
       /\ \A k \in 1..l : Append(f, b)[k] = f[k]
       /\ Append(f, b)[l + 1] = b
  BY <1>10, AppendProperties
<1>15. PICK j \in Nat : j = l + 1
  BY <1>12
<1>16. PICK a : a = Append(q, p)
  OBVIOUS
<1>17. PICK g : g = [k \in 1..j |-> Bytes(k, a[k].length)]
  OBVIOUS
<1>18. Sent' = g
  BY <1>5, <1>6, <1>15, <1>16, <1>17 DEF Sent
<1>19. \A k \in 1..(l + 1) : g[k] = Append(f, b)[k]
  <2>1. ASSUME NEW k \in 1..(l + 1)
        PROVE  g[k] = Append(f, b)[k]
    <3>1. CASE k \in 1..l
      BY <1>5, <1>10, <1>12, <1>14, <1>15, <1>16, <1>17, <3>1
    <3>2. CASE k = l + 1
      BY <1>4, <1>5, <1>12, <1>13, <1>14, <1>15, <1>16, <1>17, <3>2
    <3>3. QED
      BY <1>12, <3>1, <3>2
  <2>2. QED
    BY <2>1
<1>20. g = Append(f, b)
  <2>1. \A k \in 1..(l + 1) : g[k] \in Ps
    BY <1>14, <1>19, ElementOfSeq
  <2>2. g \in Seq(Ps) /\ Len(g) = l + 1
    <3>1. \A k \in 1..j : Bytes(k, a[k].length) \in Ps
      BY <1>15, <1>17, <2>1
    <3>2. g \in Seq(Ps)
      BY <1>17, <3>1
    <3>3. Len(g) = j
      BY <1>17, <3>2
    <3>4. QED
      BY <1>15, <3>2, <3>3
  <2>3. QED
    BY <1>14, <1>19, <2>2, SeqEqual
<1>21. QED
  BY <1>2, <1>11, <1>13, <1>18, <1>20

(* A thread that sends begins a packet or goes on with one. *)
LEMMA SenderBegins ==
  ASSUME IInv, NEW s \in Senders, Send(s)
  PROVE  Begins \/ Channel!GoOn
<1>1. State = "open" /\ State' = "open" /\ received' = received
  <2>1. connection = "open" /\ UNCHANGED <<connection, receiver, received>>
    BY DEF Send, SendRest, sendPacket, Copy
  <2>2. QED
    BY <2>1 DEF IInv, ReceiverFollows, TypeOK, State
<1>2. interleaved' \in {interleaved, interleaved \/ Shared}
  <2>1. PICK other \in BOOLEAN : other = (\E d \in Senders \ {s} : sender[d] # Idle)
    OBVIOUS
  <2>2. interleaved' = (interleaved \/ other)
    BY <2>1 DEF Send, SendRest, sendPacket, Copy
  <2>3. other => Shared
    BY <2>1 DEF Shared
  <2>4. interleaved \in BOOLEAN
    BY DEF IInv, TypeOK
  <2>5. QED
    BY <2>2, <2>3, <2>4
<1>3. CASE SendRest(s)
  <2>1. Sent' = Sent
    BY <1>3 DEF SendRest, Sent
  <2>2. QED
    BY <1>1, <1>2, <2>1 DEF Channel!GoOn, Channel!MayMix, Sent, State, Shared
<1>4. ASSUME NEW size \in Sizes, sendPacket(s, size)
      PROVE  Begins \/ Channel!GoOn
  <2>1. PICK n \in 1..MAX_PACKET_SIZE : n = size % LengthRange
    BY <1>4 DEF sendPacket, isPacketValid
  <2>2. /\ packets' = Append(packets, [size |-> size, length |-> n])
        /\ Len(packets) < MaxPackets
    BY <1>4, <2>1 DEF sendPacket
  <2>3. PICK k \in 1..MaxPackets : k = Len(packets) + 1
    BY <2>2, Constants DEF IInv, TypeOK
  <2>4. [size |-> size, length |-> n] \in Begun
    BY <2>1 DEF Begun
  <2>5. Sent' = Append(Sent, Bytes(k, n))
    BY <2>2, <2>3, <2>4, SentGrows DEF IInv
  <2>6. Bytes(k, n) \in Payloads
    BY DEF Payloads
  <2>7. QED
    BY <1>1, <1>2, <2>5, <2>6
       DEF Begins, Channel!Begin, Channel!MayMix, Sent, State, Shared
<1>5. SendRest(s) \/ \E size \in Sizes : sendPacket(s, size)
  BY DEF Send
<1>6. QED
  BY <1>3, <1>4, <1>5

(* receivePacket returns the next packet, or is not done with it. *)
LEMMA ReceiveDelivers ==
  ASSUME IInv, IInv', Receive
  PROVE  \/ Channel!Deliver \/ Channel!DeliverMixed
         \/ UNCHANGED Channel!channelVars
<1>1. /\ Sent' = Sent /\ interleaved' = interleaved /\ State' = State
      /\ State # "ended"
  <2>1. /\ UNCHANGED <<packets, connection, interleaved>>
        /\ receiver \in {"header", "payload"} /\ receiver' \in {"header", "payload"}
    BY DEF Receive, receiveHeader, receivePayload, ReceiveStep, Returns
  <2>2. QED
    BY <2>1 DEF Sent, State
<1>2. CASE received' = received
  BY <1>1, <1>2 DEF Channel!channelVars, Sent, State
<1>3. ASSUME NEW bytes \in Seq(Byte), received' = Append(received, bytes)
      PROVE  Channel!Deliver \/ Channel!DeliverMixed
  <2>1. PICK l \in Nat : l = Len(received)
    BY DEF IInv, TypeOK
  <2>2. /\ Len(received') = l + 1 /\ received'[l + 1] = bytes
        /\ Len(packets) \in Nat
    BY <1>3, <2>1, AppendProperties DEF IInv, TypeOK
  <2>3. CASE interleaved
    BY <1>1, <1>3, <2>1, <2>2, <2>3 DEF Channel!DeliverMixed, Sent, State
  <2>4. CASE ~interleaved
    <3>1. /\ Len(received') <= Len(packets')
          /\ \A k \in 1..Len(received') : received'[k] = Bytes(k, packets'[k].length)
      BY <1>1, <2>4 DEF IInv, Framing, ReceivedWhole
    <3>2. packets' = packets
      BY DEF Receive, receiveHeader, receivePayload, ReceiveStep
    <3>3. l + 1 \in 1..Len(received') /\ l + 1 \in 1..Len(packets) /\ l < Len(packets)
      BY <2>2, <3>1, <3>2
    <3>4. bytes = Bytes(l + 1, packets[l + 1].length)
      BY <2>2, <3>1, <3>2, <3>3
    <3>5. Sent[l + 1] = bytes /\ Len(Sent) = Len(packets)
      BY <2>2, <3>3, <3>4 DEF Sent
    <3>6. Channel!Deliver
      BY <1>1, <1>3, <2>1, <2>4, <3>3, <3>5 DEF Channel!Deliver, Sent, State
    <3>7. QED
      BY <3>6
  <2>5. QED
    BY <2>3, <2>4
<1>4. received' = received \/ \E bytes \in Seq(Byte) : received' = Append(received, bytes)
  <2>1. \/ \E n \in Nat \ {0} : receiveHeader(n)
        \/ \E n \in Nat \ {0} : receivePayload(n)
    BY Constants DEF Receive
  <2>2. ASSUME NEW n \in Nat \ {0}, receiveHeader(n) \/ receivePayload(n)
        PROVE  \/ received' = received
               \/ Taken(n) \in Seq(Byte) /\ received' = Append(received, Taken(n))
    <3>1. Taken(n) \in Seq(Byte)
      BY <2>2, TakesBytes DEF IInv, receiveHeader, receivePayload
    <3>2. QED
      BY <2>2, <3>1 DEF receiveHeader, receivePayload, Returns
  <2>3. QED
    BY <2>1, <2>2
<1>5. QED
  BY <1>2, <1>3, <1>4

(* The connection is closed, and the receiver notices. *)
LEMMA EndsClose ==
  ASSUME IInv, closeConnection \/ Reset \/ HeaderThrows \/ PayloadSpins
               \/ PayloadFreesTwice
  PROVE  Channel!Close \/ Channel!End \/ UNCHANGED Channel!channelVars
<1>1. /\ UNCHANGED <<packets, received, interleaved>>
      /\ Sent' = Sent
  BY DEF closeConnection, Reset, HeaderThrows, PayloadSpins, PayloadFreesTwice,
         ReceiverEnds, ReceiveStep, Sent
<1>2. CASE closeConnection \/ Reset
  <2>1. receiver' = receiver /\ connection' # "open"
    BY <1>2 DEF closeConnection, Reset
  <2>2. (State = "open" /\ State' = "closed") \/ State' = State
    BY <2>1 DEF IInv, ReceiverFollows, State
  <2>3. QED
    BY <1>1, <2>2 DEF Channel!Close, Channel!channelVars, Sent, State
<1>3. CASE HeaderThrows \/ PayloadSpins \/ PayloadFreesTwice
  <2>1. State = "closed" /\ State' = "ended"
    BY <1>3 DEF HeaderThrows, PayloadSpins, PayloadFreesTwice, ReceiverEnds,
       ReceiveStep, Ended, State
  <2>2. QED
    BY <1>1, <2>1 DEF Channel!End, Sent, State
<1>4. QED
  BY <1>2, <1>3

(* A connection is a channel for whole packets that breaks only when       *)
(* several threads' packets are mixed.                                     *)
THEOREM ConnectionImplementsChannel ==
  Spec => ImplementsChannel
<1>1. Init => Channel!ChannelInit
  <2>1. Init => Sent = << >> /\ State = "open"
    BY DEF Init, Sent, State
  <2>2. QED
    BY <2>1 DEF Init, Channel!ChannelInit, Sent, State
<1>2. ASSUME IInv, IInv', [Next]_vars
      PROVE  [Channel!ChannelNext]_(Channel!channelVars)
  <2>1. CASE \E s \in Senders : Send(s)
    <3>1. PICK s \in Senders : Send(s)
      BY <2>1
    <3>2. Begins \/ Channel!GoOn
      BY <1>2, <3>1, SenderBegins
    <3>3. Channel!ChannelNext
      BY <3>2 DEF Channel!ChannelNext, Begins, Payloads
    <3>4. QED
      BY <3>3
  <2>2. CASE Receive
    BY <1>2, <2>2, ReceiveDelivers DEF Channel!ChannelNext
  <2>3. CASE closeConnection \/ Reset \/ HeaderThrows \/ PayloadSpins
             \/ PayloadFreesTwice
    BY <1>2, <2>3, EndsClose DEF Channel!ChannelNext
  <2>4. CASE UNCHANGED vars
    BY <2>4 DEF Channel!channelVars, vars
  <2>5. QED
    BY <1>2, <2>1, <2>2, <2>3, <2>4 DEF Next
<1>3. QED
  BY IInvHolds, <1>1, <1>2, PTL DEF Spec, ImplementsChannel, Channel!ChannelSpec
=============================================================================
