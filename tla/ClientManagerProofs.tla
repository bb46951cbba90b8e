------------------------- MODULE ClientManagerProofs -------------------------
(***************************************************************************)
(* Proofs about the registry of devices, for any number of connections and *)
(* any limit: type correctness, when device_mutex excludes, that clients   *)
(* that only connect and leave do no harm, that the vector lists the       *)
(* devices there are, and whom a push reaches.                             *)
(***************************************************************************)
EXTENDS ClientManager, SequenceTheorems, FiniteSetTheorems, TLAPS

(* The first n cells of a buffer exist and hold devices. *)
InBuffer(s, n) == n <= Len(s) /\ \A i \in 1..n : s[i] \in Connections

(* Every size that was read of the buffer in use lies within it, even if   *)
(* exclusion was lost: no thread ever sees a cell that was never written.  *)
SeenWithin ==
  \A c \in Connections :
    /\ seen[c].buffer <= buffer
    /\ seen[c].buffer = buffer => InBuffer(cells, seen[c].size)
    /\ handler[c] = "erase" => seen[c].at \in 1..seen[c].size

WalksWithin ==
  \A c \in Connections :
    /\ walk[c].buffer <= buffer
    /\ walk[c].buffer = buffer => InBuffer(cells, walk[c].end)
    /\ walk[c].pc # "idle" => walk[c].pos >= 1
    /\ walk[c].pc = "send" => walk[c].target \in Connections

WithinBuffer == InBuffer(cells, size) /\ SeenWithin /\ WalksWithin

(* A thread that changes the vector knows its buffer, unless exclusion was *)
(* lost.                                                                   *)
KnowsBuffer ==
  ~stolen =>
    \A c \in Connections :
      handler[c] \in {"push_back", "erase"} => seen[c].buffer = buffer

InUse == {"unlock", "running", "remove", "find", "erase"}

(* A device is listed, in one cell, while its handler says so. *)
Listing ==
  /\ \A c \in Connections : handler[c] \in InUse <=> \E i \in 1..size : cells[i] = c
  /\ \A i, j \in 1..size : cells[i] = cells[j] => i = j

(* What a thread has read of the vector it is about to change. *)
Reading ==
  \A c \in Connections :
    /\ handler[c] \in {"push_back", "erase"} => seen[c].size = size
    /\ handler[c] = "erase" => cells[seen[c].at] = c

(* A device is deleted at the end of its handler. *)
Deleted == \A c \in freed : handler[c] \in {"leave", "guard", "done"}

RegistryInv == Deleted /\ (~stolen => Listing /\ Reading)

(* A walk that the vector has not changed under has handed its push to the *)
(* other devices in the cells before its place, once to each.              *)
Reached(c, d, n) == d # c /\ \E i \in 1..n : cells[i] = d

Walking(c) ==
  /\ walk[c].buffer = buffer /\ walk[c].end = size
  /\ \A d \in Connections : d \in walk[c].others <=> Reached(c, d, size)
  /\ walk[c].pos \in 1..(size + 1)
  /\ walk[c].pc = "send" =>
       walk[c].pos <= size /\ walk[c].target = cells[walk[c].pos] /\ walk[c].target # c
  /\ walk[c].pc = "returned" => walk[c].pos = size + 1
  /\ ~stolen => \A d \in Connections :
       pushed[c][d] = IF Reached(c, d, walk[c].pos - 1) THEN 1 ELSE 0

WalksReach ==
  \A c \in Connections :
    /\ walk[c].pc = "idle" => \A d \in Connections : pushed[c][d] = 0
    /\ walk[c].pc # "idle" /\ ~walk[c].overlapped => Walking(c)

IInv ==
  /\ TypeOK /\ WithinBuffer /\ OneHolder /\ KnowsBuffer /\ ConnectingIsSafe
  /\ RegistryInv /\ WalksReach

(* Adding a device: the cells in use are those before and the new one.     *)
LEMMA PushBackCells ==
  ASSUME TypeOK, WithinBuffer, NEW c \in Connections, PushBack(c)
  PROVE  /\ VectorOK'
         /\ InBuffer(cells', size')
         /\ buffer' \in {buffer, buffer + 1}
         /\ \A n \in Nat : buffer' = buffer /\ InBuffer(cells, n) => InBuffer(cells', n)
<1> DEFINE n == seen[c].size
<1>1. /\ cells \in Seq(Connections \cup {None}) /\ buffer \in Nat
      /\ n \in Nat /\ InBuffer(cells, n)
  BY DEF TypeOK, VectorOK, HandlersOK, WithinBuffer, SeenWithin, PushBack, BufferGone
<1>2. size' = n + 1
  BY DEF PushBack
<1>3. CASE n < Len(cells)
  <2>1. cells' = [cells EXCEPT ![n + 1] = c] /\ buffer' = buffer
    BY <1>3 DEF PushBack
  <2>2. cells' \in Seq(Connections \cup {None}) /\ Len(cells') = Len(cells)
    BY <1>1, <1>3, <2>1
  <2>3. QED
    BY <1>1, <1>2, <1>3, <2>1, <2>2 DEF VectorOK, InBuffer
<1>4. CASE ~(n < Len(cells))
  <2> DEFINE m == IF n = 0 THEN 1 ELSE 2 * n
             new == [i \in 1..m |-> CASE i <= n -> cells[i]
                                      [] i = n + 1 -> c
                                      [] OTHER -> None]
  <2>1. cells' = new /\ buffer' = buffer + 1
    BY <1>4 DEF PushBack
  <2>2. m \in Nat /\ n + 1 <= m
    BY <1>1
  <2>3. \A i \in 1..m : new[i] \in Connections \cup {None}
    BY <1>1, <2>2 DEF InBuffer
  <2>4. \A i \in 1..(n + 1) : new[i] \in Connections
    BY <1>1, <2>2 DEF InBuffer
  <2> HIDE DEF m
  <2>5. new \in Seq(Connections \cup {None}) /\ Len(new) = m
    <3> HIDE DEF new
    <3>1. DOMAIN new = 1..m
      BY DEF new
    <3>2. new = [i \in 1..m |-> new[i]]
      BY DEF new
    <3>3. QED
      BY <2>2, <2>3, <3>1, <3>2
  <2>6. QED
    BY <1>1, <1>2, <2>1, <2>2, <2>4, <2>5 DEF VectorOK, InBuffer
<1>5. QED
  BY <1>3, <1>4

(* Removing a device: the buffer stays, and every cell that was written    *)
(* still holds a device.                                                   *)
LEMMA EraseCells ==
  ASSUME TypeOK, WithinBuffer, NEW c \in Connections, Erase(c)
  PROVE  /\ VectorOK'
         /\ InBuffer(cells', size')
         /\ buffer' = buffer
         /\ \A n \in Nat : InBuffer(cells, n) => InBuffer(cells', n)
<1> DEFINE n == seen[c].size
           new == [i \in 1..Len(cells) |->
                     IF i \in seen[c].at..(n - 1) THEN cells[i + 1] ELSE cells[i]]
<1>1. /\ cells \in Seq(Connections \cup {None}) /\ buffer \in Nat
      /\ n \in Nat /\ InBuffer(cells, n) /\ seen[c].at \in 1..n
  BY DEF TypeOK, VectorOK, HandlersOK, WithinBuffer, SeenWithin, Erase, BufferGone,
         HandlerStep
<1>2. cells' = new /\ size' = n - 1 /\ buffer' = buffer
  BY DEF Erase
<1>3. \A i \in 1..Len(cells) : new[i] \in Connections \cup {None}
  BY <1>1 DEF InBuffer
<1>4. new \in Seq(Connections \cup {None}) /\ Len(new) = Len(cells)
  BY <1>1, <1>3
<1>5. \A k \in Nat : InBuffer(cells, k) => InBuffer(cells', k)
  BY <1>1, <1>2, <1>4 DEF InBuffer
<1>6. QED
  BY <1>1, <1>2, <1>4, <1>5 DEF VectorOK, InBuffer

(* Marking the walks under way leaves where they are. *)
LEMMA OverlapKeeps ==
  ASSUME WalksOK, Overlap, NEW c \in Connections
  PROVE  /\ walk'[c].pc = walk[c].pc
         /\ walk'[c].buffer = walk[c].buffer
         /\ walk'[c].pos = walk[c].pos
         /\ walk'[c].end = walk[c].end
         /\ walk'[c].target = walk[c].target
BY DEF WalksOK, WalkRecords, Overlap

(* ... and keeps their type. *)
LEMMA OverlapTyped ==
  ASSUME WalksOK, Overlap
  PROVE  WalksOK'
<1>1. ASSUME NEW w \in WalkRecords, NEW more \in BOOLEAN
      PROVE  [w EXCEPT !.overlapped = @ \/ more] \in WalkRecords
  BY DEF WalkRecords
<1>2. \A c \in Connections :
        [walk[c] EXCEPT !.overlapped = @ \/ walk[c].pc # "idle"] \in WalkRecords
  BY <1>1 DEF WalksOK
<1>3. walk' = [c \in Connections |->
                [walk[c] EXCEPT !.overlapped = @ \/ walk[c].pc # "idle"]]
  BY DEF Overlap
<1>4. QED
  BY <1>2, <1>3 DEF WalksOK

(* A walk that has handed over its push is at the next cell.               *)
LEMMA MovesOn ==
  ASSUME NEW w \in WalkRecords, NEW n \in Nat,
         NEW t \in Connections \cup {None}
  PROVE  [w EXCEPT !.pc = "next", !.pos = n, !.target = t] \in WalkRecords
BY DEF WalkRecords

(* Every step keeps the type of the vector. *)
LEMMA VectorStep ==
  ASSUME TypeOK, WithinBuffer, [Next]_vars
  PROVE  VectorOK'
<1> USE DEF vars, vector, devices, TypeOK, VectorOK
<1>1. ASSUME NEW c \in Connections, Connect(c) \/ Remove(c) \/ Walk(c) \/ PushSent(c)
      PROVE  VectorOK'
  <2>1. CASE Arrive(c)
    BY <2>1 DEF Arrive, HandlerStep
  <2>2. CASE CheckSize(c)
    BY <2>2 DEF CheckSize, HandlerStep
  <2>3. CASE Construct(c)
    BY <2>3 DEF Construct, HandlerStep
  <2>4. CASE ConstructFails(c)
    BY <2>4 DEF ConstructFails, HandlerStep
  <2>5. CASE LockForPushBack(c)
    BY <2>5 DEF LockForPushBack, Lock, HandlerStep
  <2>6. CASE ReadSize(c)
    BY <2>6 DEF ReadSize, HandlerStep
  <2>7. CASE PushBack(c)
    BY <2>7, PushBackCells
  <2>8. CASE ExplicitUnlock(c)
    BY <2>8 DEF ExplicitUnlock, Unlock, HandlerStep
  <2>9. CASE ThreadsEnd(c)
    BY <2>9 DEF ThreadsEnd, HandlerStep
  <2>10. CASE LockForRemove(c)
    BY <2>10 DEF LockForRemove, Lock, HandlerStep
  <2>11. CASE Find(c)
    BY <2>11 DEF Find, HandlerStep
  <2>12. CASE Erase(c)
    BY <2>12, EraseCells
  <2>13. CASE Delete(c)
    BY <2>13 DEF Delete, HandlerStep
  <2>14. CASE LeaveRemove(c)
    BY <2>14 DEF LeaveRemove, Unlock, HandlerStep
  <2>15. CASE GuardUnlock(c)
    BY <2>15 DEF GuardUnlock, Unlock, HandlerStep
  <2>16. CASE ChangeUsesFreed(c)
    BY <2>16 DEF ChangeUsesFreed
  <2>17. CASE WalkBegins(c)
    BY <2>17 DEF WalkBegins, WalkStep
  <2>18. CASE WalkNext(c)
    BY <2>18 DEF WalkNext, WalkStep
  <2>19. CASE WalkSends(c)
    BY <2>19 DEF WalkSends
  <2>20. CASE WalkEnds(c)
    BY <2>20 DEF WalkEnds, WalkStep
  <2>21. CASE WalkAborts(c)
    BY <2>21 DEF WalkAborts
  <2>22. CASE PushSent(c)
    BY <2>22 DEF PushSent
  <2>23. QED
    BY <1>1, <2>1, <2>2, <2>3, <2>4, <2>5, <2>6, <2>7, <2>8, <2>9, <2>10, <2>11, <2>12, <2>13, <2>14, <2>15, <2>16, <2>17, <2>18, <2>19, <2>20, <2>21, <2>22 DEF Connect, Remove, Walk
<1>2. CASE UNCHANGED vars
  BY <1>2
<1>3. QED
  BY <1>1, <1>2 DEF Next

(* ... of the mutex and the handlers. *)
LEMMA HandlersStep ==
  ASSUME TypeOK, [Next]_vars
  PROVE  HandlersOK'
<1> USE DEF vars, vector, devices, TypeOK, VectorOK, HandlersOK
<1>1. ASSUME NEW c \in Connections, Connect(c) \/ Remove(c) \/ Walk(c) \/ PushSent(c)
      PROVE  HandlersOK'
  <2>1. CASE Arrive(c)
    BY <2>1 DEF Arrive, HandlerStep, HandlerPC
  <2>2. CASE CheckSize(c)
    BY <2>2 DEF CheckSize, HandlerStep, HandlerPC
  <2>3. CASE Construct(c)
    BY <2>3 DEF Construct, HandlerStep, HandlerPC
  <2>4. CASE ConstructFails(c)
    BY <2>4 DEF ConstructFails, HandlerStep, HandlerPC
  <2>5. CASE LockForPushBack(c)
    BY <2>5 DEF LockForPushBack, Lock, HandlerStep, HandlerPC
  <2>6. CASE ReadSize(c)
    BY <2>6 DEF ReadSize, HandlerStep, HandlerPC
  <2>7. CASE PushBack(c)
    BY <2>7 DEF PushBack, HandlerStep, Overlap, HandlerPC
  <2>8. CASE ExplicitUnlock(c)
    BY <2>8 DEF ExplicitUnlock, Unlock, HandlerStep, HandlerPC
  <2>9. CASE ThreadsEnd(c)
    BY <2>9 DEF ThreadsEnd, HandlerStep, HandlerPC
  <2>10. CASE LockForRemove(c)
    BY <2>10 DEF LockForRemove, Lock, HandlerStep, HandlerPC
  <2>11. CASE Find(c)
    <3>1. CASE c \notin Listed /\ UNCHANGED seen
      BY <2>11, <3>1 DEF Find, HandlerStep, HandlerPC
    <3>2. ASSUME NEW i \in 1..size,
                 seen' = [seen EXCEPT ![c] =
                           [buffer |-> buffer, size |-> size, at |-> i]]
          PROVE  seen' \in [Connections -> [buffer : Nat, size : Nat, at : Nat]]
      BY <3>2
    <3>3. handler' \in [Connections -> HandlerPC]
      BY <2>11 DEF Find, HandlerStep, HandlerPC
    <3>4. QED
      BY <2>11, <3>1, <3>2, <3>3 DEF Find
  <2>12. CASE Erase(c)
    BY <2>12 DEF Erase, HandlerStep, Overlap, HandlerPC
  <2>13. CASE Delete(c)
    BY <2>13 DEF Delete, HandlerStep, HandlerPC
  <2>14. CASE LeaveRemove(c)
    BY <2>14 DEF LeaveRemove, Unlock, HandlerStep, HandlerPC
  <2>15. CASE GuardUnlock(c)
    BY <2>15 DEF GuardUnlock, Unlock, HandlerStep, HandlerPC
  <2>16. CASE ChangeUsesFreed(c)
    BY <2>16 DEF ChangeUsesFreed
  <2>17. CASE WalkBegins(c)
    BY <2>17 DEF WalkBegins, WalkStep
  <2>18. CASE WalkNext(c)
    BY <2>18 DEF WalkNext, WalkStep
  <2>19. CASE WalkSends(c)
    BY <2>19 DEF WalkSends
  <2>20. CASE WalkEnds(c)
    BY <2>20 DEF WalkEnds, WalkStep
  <2>21. CASE WalkAborts(c)
    BY <2>21 DEF WalkAborts
  <2>22. CASE PushSent(c)
    BY <2>22 DEF PushSent
  <2>23. QED
    BY <1>1, <2>1, <2>2, <2>3, <2>4, <2>5, <2>6, <2>7, <2>8, <2>9, <2>10, <2>11, <2>12, <2>13, <2>14, <2>15, <2>16, <2>17, <2>18, <2>19, <2>20, <2>21, <2>22 DEF Connect, Remove, Walk
<1>2. CASE UNCHANGED vars
  BY <1>2
<1>3. QED
  BY <1>1, <1>2 DEF Next

(* ... of the walks. *)
LEMMA WalksStep ==
  ASSUME TypeOK, WithinBuffer, [Next]_vars
  PROVE  WalksOK'
<1> USE DEF vars, vector, devices, TypeOK, VectorOK, WalksOK, WalkRecords
<1>1. ASSUME NEW c \in Connections, Connect(c) \/ Remove(c) \/ Walk(c) \/ PushSent(c)
      PROVE  WalksOK'
  <2>1. CASE Arrive(c)
    BY <2>1 DEF Arrive, HandlerStep
  <2>2. CASE CheckSize(c)
    BY <2>2 DEF CheckSize, HandlerStep
  <2>3. CASE Construct(c)
    BY <2>3 DEF Construct, HandlerStep
  <2>4. CASE ConstructFails(c)
    BY <2>4 DEF ConstructFails, HandlerStep
  <2>5. CASE LockForPushBack(c)
    BY <2>5 DEF LockForPushBack, Lock, HandlerStep
  <2>6. CASE ReadSize(c)
    BY <2>6 DEF ReadSize, HandlerStep
  <2>7. CASE PushBack(c)
    BY <2>7, OverlapTyped DEF PushBack
  <2>8. CASE ExplicitUnlock(c)
    BY <2>8 DEF ExplicitUnlock, Unlock, HandlerStep
  <2>9. CASE ThreadsEnd(c)
    BY <2>9 DEF ThreadsEnd, HandlerStep
  <2>10. CASE LockForRemove(c)
    BY <2>10 DEF LockForRemove, Lock, HandlerStep
  <2>11. CASE Find(c)
    BY <2>11 DEF Find, HandlerStep
  <2>12. CASE Erase(c)
    BY <2>12, OverlapTyped DEF Erase
  <2>13. CASE Delete(c)
    BY <2>13 DEF Delete, HandlerStep
  <2>14. CASE LeaveRemove(c)
    BY <2>14 DEF LeaveRemove, Unlock, HandlerStep
  <2>15. CASE GuardUnlock(c)
    BY <2>15 DEF GuardUnlock, Unlock, HandlerStep
  <2>16. CASE ChangeUsesFreed(c)
    BY <2>16 DEF ChangeUsesFreed
  <2>17. CASE WalkBegins(c)
    <3>1. Listed \ {c} \in SUBSET Connections
      BY DEF WithinBuffer, InBuffer, Listed, TypeOK, VectorOK
    <3>2. QED
      BY <2>17, <3>1 DEF WalkBegins, WalkStep, NotWalking
  <2>18. CASE WalkNext(c)
    <3>1. cells[walk[c].pos] \in Connections
      BY <2>18 DEF WalkNext, WithinBuffer, WalksWithin, InBuffer
    <3>2. CASE cells[walk[c].pos] # c
      BY <2>18, <3>1, <3>2 DEF WalkNext, WalkStep
    <3>3. CASE cells[walk[c].pos] = c
      BY <2>18, <3>3 DEF WalkNext, WalkStep
    <3>4. QED
      BY <3>2, <3>3
  <2>19. CASE WalkSends(c)
    <3>1. walk' = [walk EXCEPT ![c] = [walk[c] EXCEPT !.pc = "next",
                     !.pos = walk[c].pos + 1, !.target = None]]
      BY <2>19 DEF WalkSends
    <3>2. walk[c] \in WalkRecords /\ walk[c].pos + 1 \in Nat
      OBVIOUS
    <3>3. [walk[c] EXCEPT !.pc = "next", !.pos = walk[c].pos + 1,
                        !.target = None] \in WalkRecords
      BY <3>2, MovesOn
    <3>4. QED
      BY <3>1, <3>3
  <2>20. CASE WalkEnds(c)
    BY <2>20 DEF WalkEnds, WalkStep
  <2>21. CASE WalkAborts(c)
    BY <2>21 DEF WalkAborts
  <2>22. CASE PushSent(c)
    BY <2>22 DEF PushSent
  <2>23. QED
    BY <1>1, <2>1, <2>2, <2>3, <2>4, <2>5, <2>6, <2>7, <2>8, <2>9, <2>10, <2>11, <2>12, <2>13, <2>14, <2>15, <2>16, <2>17, <2>18, <2>19, <2>20, <2>21, <2>22 DEF Connect, Remove, Walk
<1>2. CASE UNCHANGED vars
  BY <1>2
<1>3. QED
  BY <1>1, <1>2 DEF Next

(* ... and of the devices. *)
LEMMA DevicesStep ==
  ASSUME TypeOK, WithinBuffer, [Next]_vars
  PROVE  DevicesOK'
<1> USE DEF vars, vector, devices, TypeOK, DevicesOK
<1>1. ASSUME NEW c \in Connections, Connect(c) \/ Remove(c) \/ Walk(c) \/ PushSent(c)
      PROVE  DevicesOK'
  <2>1. CASE Arrive(c)
    BY <2>1 DEF Arrive, HandlerStep
  <2>2. CASE CheckSize(c)
    BY <2>2 DEF CheckSize, HandlerStep
  <2>3. CASE Construct(c)
    BY <2>3 DEF Construct, HandlerStep
  <2>4. CASE ConstructFails(c)
    BY <2>4 DEF ConstructFails, HandlerStep
  <2>5. CASE LockForPushBack(c)
    BY <2>5 DEF LockForPushBack, Lock, HandlerStep
  <2>6. CASE ReadSize(c)
    BY <2>6 DEF ReadSize, HandlerStep
  <2>7. CASE PushBack(c)
    BY <2>7 DEF PushBack, HandlerStep, Overlap
  <2>8. CASE ExplicitUnlock(c)
    BY <2>8 DEF ExplicitUnlock, Unlock, HandlerStep
  <2>9. CASE ThreadsEnd(c)
    BY <2>9 DEF ThreadsEnd, HandlerStep
  <2>10. CASE LockForRemove(c)
    BY <2>10 DEF LockForRemove, Lock, HandlerStep
  <2>11. CASE Find(c)
    BY <2>11 DEF Find, HandlerStep
  <2>12. CASE Erase(c)
    BY <2>12 DEF Erase, HandlerStep, Overlap
  <2>13. CASE Delete(c)
    BY <2>13 DEF Delete, HandlerStep
  <2>14. CASE LeaveRemove(c)
    BY <2>14 DEF LeaveRemove, Unlock, HandlerStep
  <2>15. CASE GuardUnlock(c)
    BY <2>15 DEF GuardUnlock, Unlock, HandlerStep
  <2>16. CASE ChangeUsesFreed(c)
    BY <2>16 DEF ChangeUsesFreed
  <2>17. CASE WalkBegins(c)
    BY <2>17 DEF WalkBegins, WalkStep
  <2>18. CASE WalkNext(c)
    BY <2>18 DEF WalkNext, WalkStep
  <2>19. CASE WalkSends(c)
    <3> DEFINE t == walk[c].target
    <3>1. pushed' = [pushed EXCEPT ![c] = [pushed[c] EXCEPT ![t] = pushed[c][t] + 1]]
      BY <2>19 DEF WalkSends
    <3>2. t \in Connections
      BY <2>19 DEF WalkSends, WithinBuffer, WalksWithin
    <3>3. [pushed[c] EXCEPT ![t] = pushed[c][t] + 1] \in [Connections -> Nat]
      BY <3>2
    <3>4. pushed' \in [Connections -> [Connections -> Nat]]
      BY <3>1, <3>3
    <3>5. mailbox' \in [Connections -> BOOLEAN]
      BY <2>19, <3>2 DEF WalkSends
    <3>6. QED
      BY <2>19, <3>4, <3>5 DEF WalkSends
  <2>20. CASE WalkEnds(c)
    BY <2>20 DEF WalkEnds, WalkStep
  <2>21. CASE WalkAborts(c)
    BY <2>21 DEF WalkAborts
  <2>22. CASE PushSent(c)
    BY <2>22 DEF PushSent
  <2>23. QED
    BY <1>1, <2>1, <2>2, <2>3, <2>4, <2>5, <2>6, <2>7, <2>8, <2>9, <2>10, <2>11, <2>12, <2>13, <2>14, <2>15, <2>16, <2>17, <2>18, <2>19, <2>20, <2>21, <2>22 DEF Connect, Remove, Walk
<1>2. CASE UNCHANGED vars
  BY <1>2
<1>3. QED
  BY <1>1, <1>2 DEF Next

(* What lies within the buffer in use stays within it. *)
LEMMA BufferStep ==
  ASSUME TypeOK, WithinBuffer, [Next]_vars
  PROVE  /\ InBuffer(cells', size')
         /\ buffer' \in {buffer, buffer + 1}
         /\ \A n \in Nat : buffer' = buffer /\ InBuffer(cells, n) => InBuffer(cells', n)
<1> USE DEF vars, vector, devices, TypeOK, VectorOK, WithinBuffer
<1>1. ASSUME NEW c \in Connections, Connect(c) \/ Remove(c) \/ Walk(c) \/ PushSent(c)
      PROVE  /\ InBuffer(cells', size')
         /\ buffer' \in {buffer, buffer + 1}
         /\ \A n \in Nat : buffer' = buffer /\ InBuffer(cells, n) => InBuffer(cells', n)
  <2>1. CASE Arrive(c)
    BY <2>1 DEF Arrive, HandlerStep
  <2>2. CASE CheckSize(c)
    BY <2>2 DEF CheckSize, HandlerStep
  <2>3. CASE Construct(c)
    BY <2>3 DEF Construct, HandlerStep
  <2>4. CASE ConstructFails(c)
    BY <2>4 DEF ConstructFails, HandlerStep
  <2>5. CASE LockForPushBack(c)
    BY <2>5 DEF LockForPushBack, Lock, HandlerStep
  <2>6. CASE ReadSize(c)
    BY <2>6 DEF ReadSize, HandlerStep
  <2>7. CASE PushBack(c)
    BY <2>7, PushBackCells
  <2>8. CASE ExplicitUnlock(c)
    BY <2>8 DEF ExplicitUnlock, Unlock, HandlerStep
  <2>9. CASE ThreadsEnd(c)
    BY <2>9 DEF ThreadsEnd, HandlerStep
  <2>10. CASE LockForRemove(c)
    BY <2>10 DEF LockForRemove, Lock, HandlerStep
  <2>11. CASE Find(c)
    BY <2>11 DEF Find, HandlerStep
  <2>12. CASE Erase(c)
    BY <2>12, EraseCells
  <2>13. CASE Delete(c)
    BY <2>13 DEF Delete, HandlerStep
  <2>14. CASE LeaveRemove(c)
    BY <2>14 DEF LeaveRemove, Unlock, HandlerStep
  <2>15. CASE GuardUnlock(c)
    BY <2>15 DEF GuardUnlock, Unlock, HandlerStep
  <2>16. CASE ChangeUsesFreed(c)
    BY <2>16 DEF ChangeUsesFreed
  <2>17. CASE WalkBegins(c)
    BY <2>17 DEF WalkBegins, WalkStep
  <2>18. CASE WalkNext(c)
    BY <2>18 DEF WalkNext, WalkStep
  <2>19. CASE WalkSends(c)
    BY <2>19 DEF WalkSends
  <2>20. CASE WalkEnds(c)
    BY <2>20 DEF WalkEnds, WalkStep
  <2>21. CASE WalkAborts(c)
    BY <2>21 DEF WalkAborts
  <2>22. CASE PushSent(c)
    BY <2>22 DEF PushSent
  <2>23. QED
    BY <1>1, <2>1, <2>2, <2>3, <2>4, <2>5, <2>6, <2>7, <2>8, <2>9, <2>10, <2>11, <2>12, <2>13, <2>14, <2>15, <2>16, <2>17, <2>18, <2>19, <2>20, <2>21, <2>22 DEF Connect, Remove, Walk
<1>2. CASE UNCHANGED vars
  BY <1>2
<1>3. QED
  BY <1>1, <1>2 DEF Next

(* What the handlers read stays within the buffer. *)
LEMMA SeenStep ==
  ASSUME TypeOK, WithinBuffer, [Next]_vars
  PROVE  SeenWithin'
<1> USE BufferStep
<1> USE DEF vars, vector, devices, TypeOK, VectorOK, HandlersOK, WithinBuffer, SeenWithin
<1>1. ASSUME NEW c \in Connections, Connect(c) \/ Remove(c) \/ Walk(c) \/ PushSent(c)
      PROVE  SeenWithin'
  <2>1. CASE Arrive(c)
    BY <2>1 DEF Arrive, HandlerStep
  <2>2. CASE CheckSize(c)
    BY <2>2 DEF CheckSize, HandlerStep
  <2>3. CASE Construct(c)
    BY <2>3 DEF Construct, HandlerStep
  <2>4. CASE ConstructFails(c)
    BY <2>4 DEF ConstructFails, HandlerStep
  <2>5. CASE LockForPushBack(c)
    BY <2>5 DEF LockForPushBack, Lock, HandlerStep
  <2>6. CASE ReadSize(c)
    BY <2>6 DEF ReadSize, HandlerStep
  <2>7. CASE PushBack(c)
    BY <2>7 DEF PushBack, HandlerStep, Overlap
  <2>8. CASE ExplicitUnlock(c)
    BY <2>8 DEF ExplicitUnlock, Unlock, HandlerStep
  <2>9. CASE ThreadsEnd(c)
    BY <2>9 DEF ThreadsEnd, HandlerStep
  <2>10. CASE LockForRemove(c)
    BY <2>10 DEF LockForRemove, Lock, HandlerStep
  <2>11. CASE Find(c)
    <3>1. CASE c \notin Listed /\ UNCHANGED seen
      BY <2>11, <3>1 DEF Find, HandlerStep
    <3>2. ASSUME NEW i \in 1..size, handler' = [handler EXCEPT ![c] = "erase"],
                 seen' = [seen EXCEPT ![c] =
                           [buffer |-> buffer, size |-> size, at |-> i]]
          PROVE  SeenWithin'
      BY <2>11, <3>2 DEF Find
    <3>3. QED
      BY <2>11, <3>1, <3>2 DEF Find, HandlerStep
  <2>12. CASE Erase(c)
    BY <2>12 DEF Erase, HandlerStep, Overlap
  <2>13. CASE Delete(c)
    BY <2>13 DEF Delete, HandlerStep
  <2>14. CASE LeaveRemove(c)
    BY <2>14 DEF LeaveRemove, Unlock, HandlerStep
  <2>15. CASE GuardUnlock(c)
    BY <2>15 DEF GuardUnlock, Unlock, HandlerStep
  <2>16. CASE ChangeUsesFreed(c)
    BY <2>16 DEF ChangeUsesFreed
  <2>17. CASE WalkBegins(c)
    BY <2>17 DEF WalkBegins, WalkStep
  <2>18. CASE WalkNext(c)
    BY <2>18 DEF WalkNext, WalkStep
  <2>19. CASE WalkSends(c)
    BY <2>19 DEF WalkSends
  <2>20. CASE WalkEnds(c)
    BY <2>20 DEF WalkEnds, WalkStep
  <2>21. CASE WalkAborts(c)
    BY <2>21 DEF WalkAborts
  <2>22. CASE PushSent(c)
    BY <2>22 DEF PushSent
  <2>23. QED
    BY <1>1, <2>1, <2>2, <2>3, <2>4, <2>5, <2>6, <2>7, <2>8, <2>9, <2>10, <2>11, <2>12, <2>13, <2>14, <2>15, <2>16, <2>17, <2>18, <2>19, <2>20, <2>21, <2>22 DEF Connect, Remove, Walk
<1>2. CASE UNCHANGED vars
  BY <1>2
<1>3. QED
  BY <1>1, <1>2 DEF Next

(* So does what the walks read. *)
LEMMA WalksWithinStep ==
  ASSUME TypeOK, WithinBuffer, [Next]_vars
  PROVE  WalksWithin'
<1> USE BufferStep
<1> USE DEF vars, vector, devices, TypeOK, VectorOK, WalksOK, WalkRecords, WithinBuffer, WalksWithin
<1>1. ASSUME NEW c \in Connections, Connect(c) \/ Remove(c) \/ Walk(c) \/ PushSent(c)
      PROVE  WalksWithin'
  <2>1. CASE Arrive(c)
    BY <2>1 DEF Arrive, HandlerStep
  <2>2. CASE CheckSize(c)
    BY <2>2 DEF CheckSize, HandlerStep
  <2>3. CASE Construct(c)
    BY <2>3 DEF Construct, HandlerStep
  <2>4. CASE ConstructFails(c)
    BY <2>4 DEF ConstructFails, HandlerStep
  <2>5. CASE LockForPushBack(c)
    BY <2>5 DEF LockForPushBack, Lock, HandlerStep
  <2>6. CASE ReadSize(c)
    BY <2>6 DEF ReadSize, HandlerStep
  <2>7. CASE PushBack(c)
    <3>1. WalksOK /\ Overlap
      BY <2>7 DEF PushBack
    <3>2. QED
      BY <3>1, OverlapKeeps
  <2>8. CASE ExplicitUnlock(c)
    BY <2>8 DEF ExplicitUnlock, Unlock, HandlerStep
  <2>9. CASE ThreadsEnd(c)
    BY <2>9 DEF ThreadsEnd, HandlerStep
  <2>10. CASE LockForRemove(c)
    BY <2>10 DEF LockForRemove, Lock, HandlerStep
  <2>11. CASE Find(c)
    BY <2>11 DEF Find, HandlerStep
  <2>12. CASE Erase(c)
    <3>1. WalksOK /\ Overlap
      BY <2>12 DEF Erase
    <3>2. QED
      BY <3>1, OverlapKeeps
  <2>13. CASE Delete(c)
    BY <2>13 DEF Delete, HandlerStep
  <2>14. CASE LeaveRemove(c)
    BY <2>14 DEF LeaveRemove, Unlock, HandlerStep
  <2>15. CASE GuardUnlock(c)
    BY <2>15 DEF GuardUnlock, Unlock, HandlerStep
  <2>16. CASE ChangeUsesFreed(c)
    BY <2>16 DEF ChangeUsesFreed
  <2>17. CASE WalkBegins(c)
    BY <2>17 DEF WalkBegins, WalkStep, NotWalking
  <2>18. CASE WalkNext(c)
    <3>1. cells[walk[c].pos] \in Connections
      BY <2>18 DEF WalkNext, InBuffer
    <3>2. CASE cells[walk[c].pos] # c
      BY <2>18, <3>1, <3>2 DEF WalkNext, WalkStep
    <3>3. CASE cells[walk[c].pos] = c
      BY <2>18, <3>3 DEF WalkNext, WalkStep
    <3>4. QED
      BY <3>2, <3>3
  <2>19. CASE WalkSends(c)
    BY <2>19 DEF WalkSends
  <2>20. CASE WalkEnds(c)
    BY <2>20 DEF WalkEnds, WalkStep
  <2>21. CASE WalkAborts(c)
    BY <2>21 DEF WalkAborts
  <2>22. CASE PushSent(c)
    BY <2>22 DEF PushSent
  <2>23. QED
    BY <1>1, <2>1, <2>2, <2>3, <2>4, <2>5, <2>6, <2>7, <2>8, <2>9, <2>10, <2>11, <2>12, <2>13, <2>14, <2>15, <2>16, <2>17, <2>18, <2>19, <2>20, <2>21, <2>22 DEF Connect, Remove, Walk
<1>2. CASE UNCHANGED vars
  BY <1>2
<1>3. QED
  BY <1>1, <1>2 DEF Next

(* Only a stolen lock lets two threads in. *)
LEMMA HolderStep ==
  ASSUME TypeOK, OneHolder, [Next]_vars
  PROVE  OneHolder'
<1> USE DEF vars, vector, devices, TypeOK, HandlersOK, DevicesOK, OneHolder, Holds, Holding
<1>1. ASSUME NEW c \in Connections, Connect(c) \/ Remove(c) \/ Walk(c) \/ PushSent(c)
      PROVE  OneHolder'
  <2>1. CASE Arrive(c)
    BY <2>1 DEF Arrive, HandlerStep
  <2>2. CASE CheckSize(c)
    BY <2>2 DEF CheckSize, HandlerStep
  <2>3. CASE Construct(c)
    BY <2>3 DEF Construct, HandlerStep
  <2>4. CASE ConstructFails(c)
    BY <2>4 DEF ConstructFails, HandlerStep
  <2>5. CASE LockForPushBack(c)
    BY <2>5 DEF LockForPushBack, Lock, HandlerStep
  <2>6. CASE ReadSize(c)
    BY <2>6 DEF ReadSize, HandlerStep
  <2>7. CASE PushBack(c)
    BY <2>7 DEF PushBack, HandlerStep, Overlap
  <2>8. CASE ExplicitUnlock(c)
    BY <2>8 DEF ExplicitUnlock, Unlock, HandlerStep
  <2>9. CASE ThreadsEnd(c)
    BY <2>9 DEF ThreadsEnd, HandlerStep
  <2>10. CASE LockForRemove(c)
    BY <2>10 DEF LockForRemove, Lock, HandlerStep
  <2>11. CASE Find(c)
    BY <2>11 DEF Find, HandlerStep
  <2>12. CASE Erase(c)
    BY <2>12 DEF Erase, HandlerStep, Overlap
  <2>13. CASE Delete(c)
    BY <2>13 DEF Delete, HandlerStep
  <2>14. CASE LeaveRemove(c)
    BY <2>14 DEF LeaveRemove, Unlock, HandlerStep
  <2>15. CASE GuardUnlock(c)
    BY <2>15 DEF GuardUnlock, Unlock, HandlerStep
  <2>16. CASE ChangeUsesFreed(c)
    BY <2>16 DEF ChangeUsesFreed
  <2>17. CASE WalkBegins(c)
    BY <2>17 DEF WalkBegins, WalkStep
  <2>18. CASE WalkNext(c)
    BY <2>18 DEF WalkNext, WalkStep
  <2>19. CASE WalkSends(c)
    BY <2>19 DEF WalkSends
  <2>20. CASE WalkEnds(c)
    BY <2>20 DEF WalkEnds, WalkStep
  <2>21. CASE WalkAborts(c)
    BY <2>21 DEF WalkAborts
  <2>22. CASE PushSent(c)
    BY <2>22 DEF PushSent
  <2>23. QED
    BY <1>1, <2>1, <2>2, <2>3, <2>4, <2>5, <2>6, <2>7, <2>8, <2>9, <2>10, <2>11, <2>12, <2>13, <2>14, <2>15, <2>16, <2>17, <2>18, <2>19, <2>20, <2>21, <2>22 DEF Connect, Remove, Walk
<1>2. CASE UNCHANGED vars
  BY <1>2
<1>3. QED
  BY <1>1, <1>2 DEF Next

(* Nobody else replaces the buffer under a thread that holds the mutex. *)
LEMMA KnowsStep ==
  ASSUME TypeOK, OneHolder, KnowsBuffer, [Next]_vars
  PROVE  KnowsBuffer'
<1> USE DEF vars, vector, devices, TypeOK, HandlersOK, DevicesOK, KnowsBuffer
<1>1. ASSUME NEW c \in Connections, Connect(c) \/ Remove(c) \/ Walk(c) \/ PushSent(c)
      PROVE  KnowsBuffer'
  <2>1. CASE Arrive(c)
    BY <2>1 DEF Arrive, HandlerStep
  <2>2. CASE CheckSize(c)
    BY <2>2 DEF CheckSize, HandlerStep
  <2>3. CASE Construct(c)
    BY <2>3 DEF Construct, HandlerStep
  <2>4. CASE ConstructFails(c)
    BY <2>4 DEF ConstructFails, HandlerStep
  <2>5. CASE LockForPushBack(c)
    BY <2>5 DEF LockForPushBack, Lock, HandlerStep
  <2>6. CASE ReadSize(c)
    BY <2>6 DEF ReadSize, HandlerStep
  <2>7. CASE PushBack(c)
    BY <2>7 DEF PushBack, HandlerStep, Overlap, OneHolder, Holds, Holding
  <2>8. CASE ExplicitUnlock(c)
    BY <2>8 DEF ExplicitUnlock, Unlock, HandlerStep
  <2>9. CASE ThreadsEnd(c)
    BY <2>9 DEF ThreadsEnd, HandlerStep
  <2>10. CASE LockForRemove(c)
    BY <2>10 DEF LockForRemove, Lock, HandlerStep
  <2>11. CASE Find(c)
    BY <2>11 DEF Find, HandlerStep
  <2>12. CASE Erase(c)
    BY <2>12 DEF Erase, HandlerStep, Overlap
  <2>13. CASE Delete(c)
    BY <2>13 DEF Delete, HandlerStep
  <2>14. CASE LeaveRemove(c)
    BY <2>14 DEF LeaveRemove, Unlock, HandlerStep
  <2>15. CASE GuardUnlock(c)
    BY <2>15 DEF GuardUnlock, Unlock, HandlerStep
  <2>16. CASE ChangeUsesFreed(c)
    BY <2>16 DEF ChangeUsesFreed
  <2>17. CASE WalkBegins(c)
    BY <2>17 DEF WalkBegins, WalkStep
  <2>18. CASE WalkNext(c)
    BY <2>18 DEF WalkNext, WalkStep
  <2>19. CASE WalkSends(c)
    BY <2>19 DEF WalkSends
  <2>20. CASE WalkEnds(c)
    BY <2>20 DEF WalkEnds, WalkStep
  <2>21. CASE WalkAborts(c)
    BY <2>21 DEF WalkAborts
  <2>22. CASE PushSent(c)
    BY <2>22 DEF PushSent
  <2>23. QED
    BY <1>1, <2>1, <2>2, <2>3, <2>4, <2>5, <2>6, <2>7, <2>8, <2>9, <2>10, <2>11, <2>12, <2>13, <2>14, <2>15, <2>16, <2>17, <2>18, <2>19, <2>20, <2>21, <2>22 DEF Connect, Remove, Walk
<1>2. CASE UNCHANGED vars
  BY <1>2
<1>3. QED
  BY <1>1, <1>2 DEF Next

(* Connecting and leaving do not abort the process. *)
LEMMA SafeStep ==
  ASSUME TypeOK, KnowsBuffer, ConnectingIsSafe, [Next]_vars
  PROVE  ConnectingIsSafe'
<1> USE DEF vars, vector, devices, TypeOK, HandlersOK, WalksOK, WalkRecords, DevicesOK, ConnectingIsSafe
<1>1. ASSUME NEW c \in Connections, Connect(c) \/ Remove(c) \/ Walk(c) \/ PushSent(c)
      PROVE  ConnectingIsSafe'
  <2>1. CASE Arrive(c)
    BY <2>1 DEF Arrive, HandlerStep
  <2>2. CASE CheckSize(c)
    BY <2>2 DEF CheckSize, HandlerStep
  <2>3. CASE Construct(c)
    BY <2>3 DEF Construct, HandlerStep
  <2>4. CASE ConstructFails(c)
    BY <2>4 DEF ConstructFails, HandlerStep
  <2>5. CASE LockForPushBack(c)
    BY <2>5 DEF LockForPushBack, Lock, HandlerStep
  <2>6. CASE ReadSize(c)
    BY <2>6 DEF ReadSize, HandlerStep
  <2>7. CASE PushBack(c)
    <3>1. Overlap /\ UNCHANGED <<process, stolen>>
      BY <2>7 DEF PushBack
    <3>2. QED
      BY <3>1, OverlapKeeps
  <2>8. CASE ExplicitUnlock(c)
    BY <2>8 DEF ExplicitUnlock, Unlock, HandlerStep
  <2>9. CASE ThreadsEnd(c)
    BY <2>9 DEF ThreadsEnd, HandlerStep
  <2>10. CASE LockForRemove(c)
    BY <2>10 DEF LockForRemove, Lock, HandlerStep
  <2>11. CASE Find(c)
    BY <2>11 DEF Find, HandlerStep
  <2>12. CASE Erase(c)
    <3>1. Overlap /\ UNCHANGED <<process, stolen>>
      BY <2>12 DEF Erase
    <3>2. QED
      BY <3>1, OverlapKeeps
  <2>13. CASE Delete(c)
    BY <2>13 DEF Delete, HandlerStep
  <2>14. CASE LeaveRemove(c)
    BY <2>14 DEF LeaveRemove, Unlock, HandlerStep
  <2>15. CASE GuardUnlock(c)
    BY <2>15 DEF GuardUnlock, Unlock, HandlerStep
  <2>16. CASE ChangeUsesFreed(c)
    BY <2>16 DEF ChangeUsesFreed, KnowsBuffer, BufferGone
  <2>17. CASE WalkBegins(c)
    BY <2>17 DEF WalkBegins, WalkStep
  <2>18. CASE WalkNext(c)
    BY <2>18 DEF WalkNext, WalkStep
  <2>19. CASE WalkSends(c)
    BY <2>19 DEF WalkSends
  <2>20. CASE WalkEnds(c)
    BY <2>20 DEF WalkEnds, WalkStep
  <2>21. CASE WalkAborts(c)
    BY <2>21 DEF WalkAborts
  <2>22. CASE PushSent(c)
    BY <2>22 DEF PushSent
  <2>23. QED
    BY <1>1, <2>1, <2>2, <2>3, <2>4, <2>5, <2>6, <2>7, <2>8, <2>9, <2>10, <2>11, <2>12, <2>13, <2>14, <2>15, <2>16, <2>17, <2>18, <2>19, <2>20, <2>21, <2>22 DEF Connect, Remove, Walk
<1>2. CASE UNCHANGED vars
  BY <1>2
<1>3. QED
  BY <1>1, <1>2 DEF Next

(* The cells after a device was added by a thread that knows the size. *)
LEMMA PushBackAdds ==
  ASSUME TypeOK, WithinBuffer, NEW c \in Connections, PushBack(c),
         seen[c].size = size
  PROVE  /\ size' = size + 1
         /\ cells'[size + 1] = c
         /\ \A i \in 1..size : cells'[i] = cells[i]
<1>1. /\ cells \in Seq(Connections \cup {None}) /\ size \in Nat
      /\ size <= Len(cells) /\ size' = size + 1
  BY DEF TypeOK, VectorOK, WithinBuffer, InBuffer, PushBack
<1>2. CASE size < Len(cells)
  <2>1. cells' = [cells EXCEPT ![size + 1] = c]
    BY <1>2 DEF PushBack
  <2>2. QED
    BY <1>1, <1>2, <2>1
<1>3. CASE ~(size < Len(cells))
  <2> DEFINE m == IF size = 0 THEN 1 ELSE 2 * size
  <2>1. cells' = [i \in 1..m |-> CASE i <= size -> cells[i]
                                   [] i = size + 1 -> c
                                   [] OTHER -> None]
    BY <1>3 DEF PushBack
  <2>2. size + 1 \in 1..m /\ \A i \in 1..size : i \in 1..m
    BY <1>1
  <2> HIDE DEF m
  <2>3. cells'[size + 1] = c
    BY <1>1, <2>1, <2>2
  <2>4. \A i \in 1..size : cells'[i] = cells[i]
    BY <1>1, <2>1, <2>2
  <2>5. QED
    BY <1>1, <2>3, <2>4
<1>4. QED
  BY <1>2, <1>3

(* The cells after a device was removed by one. *)
LEMMA EraseRemoves ==
  ASSUME TypeOK, WithinBuffer, NEW c \in Connections, Erase(c),
         seen[c].size = size
  PROVE  /\ size' = size - 1
         /\ seen[c].at \in 1..size
         /\ \A i \in 1..(size - 1) :
              cells'[i] = IF i < seen[c].at THEN cells[i] ELSE cells[i + 1]
<1> DEFINE k == seen[c].at
<1>1. /\ cells \in Seq(Connections \cup {None}) /\ size \in Nat
      /\ size <= Len(cells) /\ size' = size - 1 /\ k \in 1..size
  BY DEF TypeOK, VectorOK, WithinBuffer, InBuffer, SeenWithin, Erase, HandlerStep
<1>2. cells' = [i \in 1..Len(cells) |->
                  IF i \in k..(size - 1) THEN cells[i + 1] ELSE cells[i]]
  BY DEF Erase
<1> HIDE DEF k
<1>3. \A i \in 1..(size - 1) : i \in 1..Len(cells) /\ (i < k <=> i \notin k..(size - 1))
  BY <1>1
<1>4. QED
  BY <1>1, <1>2, <1>3 DEF k

(* The vector lists each device while it is in use. *)
LEMMA RegistryStep ==
  ASSUME TypeOK, WithinBuffer, OneHolder, RegistryInv, [Next]_vars
  PROVE  RegistryInv'
<1> USE DEF vars, vector, devices, TypeOK, HandlersOK, DevicesOK, HandlerStep
<1>1. ASSUME NEW c \in Connections,
             UNCHANGED <<cells, size, freed, seen>>, stolen \in BOOLEAN,
             stolen => stolen',
             \A d \in Connections : d # c => handler'[d] = handler[d],
             handler[c] \in InUse <=> handler'[c] \in InUse,
             handler'[c] \in {"push_back", "erase"} => handler'[c] = handler[c],
             handler[c] \in {"leave", "guard", "done"} =>
               handler'[c] \in {"leave", "guard", "done"}
      PROVE  RegistryInv'
  <2>1. Deleted'
    BY <1>1 DEF RegistryInv, Deleted
  <2>2. ~stolen' => Listing'
    BY <1>1 DEF RegistryInv, Listing
  <2>3. ~stolen' => Reading'
    BY <1>1 DEF RegistryInv, Reading
  <2>4. QED
    BY <2>1, <2>2, <2>3 DEF RegistryInv
<1>2. ASSUME NEW c \in Connections,
             Connect(c) \/ Remove(c) \/ Walk(c) \/ PushSent(c)
      PROVE  RegistryInv'
  <2>1. CASE Arrive(c) \/ CheckSize(c) \/ Construct(c) \/ ConstructFails(c)
    BY <1>1, <2>1 DEF Arrive, CheckSize, Construct, ConstructFails, InUse
  <2>2. CASE LockForPushBack(c) \/ ExplicitUnlock(c) \/ ThreadsEnd(c)
             \/ LockForRemove(c)
    BY <1>1, <2>2 DEF LockForPushBack, ExplicitUnlock, ThreadsEnd, LockForRemove,
       Lock, Unlock, InUse
  <2>3. CASE LeaveRemove(c) \/ GuardUnlock(c)
    BY <1>1, <2>3 DEF LeaveRemove, GuardUnlock, Unlock, InUse
  <2>4. CASE ChangeUsesFreed(c)
    BY <1>1, <2>4 DEF ChangeUsesFreed
  <2>5. CASE Walk(c) \/ PushSent(c)
    BY <1>1, <2>5 DEF Walk, WalkBegins, WalkNext, WalkSends, WalkEnds, WalkAborts,
       WalkStep, PushSent
  <2>6. CASE Delete(c)
    <3>1. Deleted'
      BY <2>6 DEF Delete, RegistryInv, Deleted
    <3>2. ~stolen' => Listing'
      BY <2>6 DEF Delete, RegistryInv, Listing, InUse
    <3>3. ~stolen' => Reading'
      BY <2>6 DEF Delete, RegistryInv, Reading
    <3>4. QED
      BY <3>1, <3>2, <3>3 DEF RegistryInv
  <2>7. CASE ReadSize(c)
    <3>1. Deleted'
      BY <2>7 DEF ReadSize, RegistryInv, Deleted
    <3>2. ~stolen' => Listing'
      BY <2>7 DEF ReadSize, RegistryInv, Listing, InUse
    <3>3. ~stolen' => Reading'
      BY <2>7 DEF ReadSize, RegistryInv, Reading
    <3>4. QED
      BY <3>1, <3>2, <3>3 DEF RegistryInv
  <2>8. CASE Find(c)
    <3>1. Deleted'
      BY <2>8 DEF Find, RegistryInv, Deleted
    <3>2. ~stolen' => Listing'
      BY <2>8 DEF Find, RegistryInv, Listing, InUse, Listed
    <3>3. ~stolen' => Reading'
      <4>1. CASE handler'[c] = "leave" /\ UNCHANGED <<vector, seen, stolen>>
        BY <2>8, <4>1 DEF Find, RegistryInv, Reading
      <4>2. ASSUME NEW i \in 1..size, FoundAt(c, i),
                   seen' = [seen EXCEPT ![c] =
                              [buffer |-> buffer, size |-> size, at |-> i]]
            PROVE  ~stolen' => Reading'
        BY <2>8, <4>2 DEF Find, RegistryInv, Reading, FoundAt
      <4>3. QED
        BY <2>8, <4>1, <4>2 DEF Find
    <3>4. QED
      BY <3>1, <3>2, <3>3 DEF RegistryInv
  <2>9. CASE PushBack(c)
    <3>1. Deleted'
      BY <2>9 DEF PushBack, RegistryInv, Deleted
    <3>2. SUFFICES ASSUME ~stolen
                   PROVE  Listing' /\ Reading'
      BY <2>9, <3>1 DEF PushBack, RegistryInv
    <3>3. handler[c] = "push_back" /\ handler' = [handler EXCEPT ![c] = "unlock"]
          /\ UNCHANGED seen
      BY <2>9 DEF PushBack
    <3>4. \A d \in Connections :
            d # c => handler[d] \notin {"push_back", "erase"}
      BY <3>2, <3>3 DEF OneHolder, Holds, Holding
    <3>5. Listing /\ seen[c].size = size
      BY <3>2, <3>3 DEF RegistryInv, Reading
    <3>6. /\ size' = size + 1 /\ cells'[size + 1] = c
          /\ \A i \in 1..size : cells'[i] = cells[i]
      BY <2>9, <3>5, PushBackAdds
    <3>7. \A i \in 1..size : cells[i] # c
      BY <3>3, <3>5 DEF Listing, InUse
    <3>8. size \in Nat /\ \A i \in 1..(size + 1) : i \in 1..size \/ i = size + 1
      BY DEF VectorOK
    <3>9. \A i \in 1..size : i \in 1..(size + 1)
      BY <3>8
    <3>10. size + 1 \in 1..(size + 1)
      BY <3>8
    <3>11. \A d \in Connections :
             handler'[d] \in InUse <=> d = c \/ handler[d] \in InUse
      BY <3>3 DEF InUse
    <3>12. \A d \in Connections :
             (\E i \in 1..(size + 1) : cells'[i] = d)
               <=> d = c \/ \E i \in 1..size : cells[i] = d
      BY <3>6, <3>8, <3>9, <3>10
    <3>13. ASSUME NEW i \in 1..(size + 1), NEW j \in 1..(size + 1),
                  cells'[i] = cells'[j]
           PROVE  i = j
      <4>1. CASE i \in 1..size /\ j \in 1..size
        <5>1. cells[i] = cells[j]
          BY <3>6, <3>13, <4>1
        <5>2. QED
          BY <3>5, <4>1, <5>1 DEF Listing
      <4>2. CASE i = size + 1 \/ j = size + 1
        <5>1. \A m \in 1..size : cells'[m] # c
          BY <3>6, <3>7
        <5>2. CASE i = size + 1
          <6>1. cells'[j] = c
            BY <3>6, <3>13, <5>2
          <6>2. QED
            BY <3>8, <5>1, <5>2, <6>1
        <5>3. CASE j = size + 1
          <6>1. cells'[i] = c
            BY <3>6, <3>13, <5>3
          <6>2. QED
            BY <3>8, <5>1, <5>3, <6>1
        <5>4. QED
          BY <4>2, <5>2, <5>3
      <4>3. QED
        BY <3>8, <4>1, <4>2
    <3>14. Listing'
      BY <3>5, <3>6, <3>11, <3>12, <3>13 DEF Listing
    <3>15. Reading'
      BY <3>3, <3>4 DEF Reading
    <3>16. QED
      BY <3>14, <3>15
  <2>10. CASE Erase(c)
    <3> DEFINE k == seen[c].at
    <3>1. Deleted'
      BY <2>10 DEF Erase, RegistryInv, Deleted
    <3>2. SUFFICES ASSUME ~stolen
                   PROVE  Listing' /\ Reading'
      BY <2>10, <3>1 DEF Erase, RegistryInv
    <3>3. handler[c] = "erase" /\ handler' = [handler EXCEPT ![c] = "delete"]
          /\ UNCHANGED seen
      BY <2>10 DEF Erase
    <3>4. \A d \in Connections :
            d # c => handler[d] \notin {"push_back", "erase"}
      BY <3>2, <3>3 DEF OneHolder, Holds, Holding
    <3>5. Listing /\ seen[c].size = size /\ cells[k] = c
      BY <3>2, <3>3 DEF RegistryInv, Reading
    <3>6. /\ size' = size - 1 /\ k \in 1..size
          /\ \A i \in 1..(size - 1) :
               cells'[i] = IF i < k THEN cells[i] ELSE cells[i + 1]
      BY <2>10, <3>5, EraseRemoves
    <3>7. size \in Nat
      BY DEF VectorOK
    <3> HIDE DEF k
    <3>8. \A d \in Connections :
            handler'[d] \in InUse <=> d # c /\ handler[d] \in InUse
      BY <3>3 DEF InUse
    <3>9. \A i \in 1..size : cells[i] = c <=> i = k
      BY <3>5, <3>6 DEF Listing
    <3>10. \A i \in 1..(size - 1) : i \in 1..size /\ i + 1 \in 1..size
      BY <3>7
    <3>11. ASSUME NEW d \in Connections
           PROVE  (\E i \in 1..(size - 1) : cells'[i] = d)
                    <=> d # c /\ \E i \in 1..size : cells[i] = d
      <4>1. ASSUME NEW i \in 1..(size - 1)
            PROVE  cells'[i] # c /\ \E j \in 1..size : cells[j] = cells'[i]
        <5>1. i < k => i # k
          BY <3>6, <3>7
        <5>2. ~(i < k) => i + 1 # k
          BY <3>6, <3>7
        <5>3. QED
          BY <3>6, <3>9, <3>10, <5>1, <5>2
      <4>2. ASSUME NEW i \in 1..size, cells[i] = d, d # c
            PROVE  \E j \in 1..(size - 1) : cells'[j] = d
        <5>1. i # k
          BY <3>9, <4>2
        <5>2. CASE i < k
          <6>1. i \in 1..(size - 1)
            BY <3>6, <3>7, <5>2
          <6>2. QED
            BY <3>6, <4>2, <5>2, <6>1
        <5>3. CASE i > k
          <6>1. i - 1 \in 1..(size - 1) /\ ~(i - 1 < k) /\ (i - 1) + 1 = i
            BY <3>6, <3>7, <5>3
          <6>2. cells'[i - 1] = cells[i]
            BY <3>6, <6>1
          <6>3. QED
            BY <4>2, <6>1, <6>2
        <5>4. QED
          BY <3>6, <3>7, <5>1, <5>2, <5>3
      <4>3. QED
        BY <4>1, <4>2
    <3>12. ASSUME NEW i \in 1..(size - 1), NEW j \in 1..(size - 1),
                  cells'[i] = cells'[j]
           PROVE  i = j
      <4>1. \A m, n \in 1..size : cells[m] = cells[n] => m = n
        BY <3>5 DEF Listing
      <4>2. (IF i < k THEN i ELSE i + 1) = (IF j < k THEN j ELSE j + 1)
        BY <3>6, <3>10, <3>12, <4>1
      <4>3. QED
        BY <3>6, <3>7, <4>2
    <3>13. Listing'
      BY <3>5, <3>6, <3>8, <3>11, <3>12 DEF Listing
    <3>14. Reading'
      BY <3>3, <3>4 DEF Reading
    <3>15. QED
      BY <3>13, <3>14
  <2>11. QED
    BY <1>2, <2>1, <2>2, <2>3, <2>4, <2>5, <2>6, <2>7, <2>8, <2>9, <2>10
       DEF Connect, Remove
<1>3. CASE UNCHANGED vars
  BY <1>3 DEF RegistryInv, Deleted, Listing, Reading
<1>4. QED
  BY <1>2, <1>3 DEF Next

(* A walk is where it was as long as it, its pushes and the vector are.    *)
LEMMA ReachAlone ==
  ASSUME TypeOK, WalksReach, NEW c \in Connections,
         UNCHANGED <<cells, size, buffer>>,
         walk'[c] = walk[c], \A d \in Connections : pushed'[c][d] = pushed[c][d],
         stolen \in BOOLEAN, stolen => stolen'
  PROVE  /\ walk'[c].pc = "idle" => \A d \in Connections : pushed'[c][d] = 0
         /\ walk'[c].pc # "idle" /\ ~walk'[c].overlapped => Walking(c)'
BY DEF WalksReach, Walking, Reached

(* A change of the vector is seen by every walk under way. *)
LEMMA ReachChanged ==
  ASSUME TypeOK, WalksReach, Overlap, UNCHANGED pushed
  PROVE  WalksReach'
<1>1. ASSUME NEW c \in Connections
      PROVE  /\ walk'[c].pc = walk[c].pc
             /\ walk'[c].pc # "idle" => walk'[c].overlapped
  BY DEF Overlap, TypeOK, WalksOK, WalkRecords
<1>2. QED
  BY <1>1 DEF WalksReach

(* The push reaches each other device of the vector once, if the vector    *)
(* does not change.                                                        *)
LEMMA ReachStep ==
  ASSUME TypeOK, WithinBuffer, RegistryInv, WalksReach, [Next]_vars
  PROVE  WalksReach'
<1> USE DEF vars, vector, devices, TypeOK
<1>0. size \in Nat /\ stolen \in BOOLEAN
  BY DEF VectorOK, DevicesOK
<1>1. ASSUME UNCHANGED <<cells, size, buffer, walk, pushed>>, stolen => stolen'
      PROVE  WalksReach'
  <2>1. \A c \in Connections : walk'[c] = walk[c]
    BY <1>1
  <2>2. \A c, d \in Connections : pushed'[c][d] = pushed[c][d]
    BY <1>1
  <2>3. QED
    BY <1>0, <1>1, <2>1, <2>2, ReachAlone DEF WalksReach
<1>2. ASSUME NEW c \in Connections,
             UNCHANGED <<cells, size, buffer, stolen>>,
             \A d \in Connections : d # c => walk'[d] = walk[d],
             \A d, e \in Connections : d # c => pushed'[d][e] = pushed[d][e],
             walk'[c].pc # "idle",
             ~walk'[c].overlapped => Walking(c)'
      PROVE  WalksReach'
  <2>1. ASSUME NEW d \in Connections, d # c
        PROVE  /\ walk'[d].pc = "idle" => \A e \in Connections : pushed'[d][e] = 0
               /\ walk'[d].pc # "idle" /\ ~walk'[d].overlapped => Walking(d)'
    BY <1>0, <1>2, <2>1, ReachAlone
  <2>2. QED
    BY <1>2, <2>1 DEF WalksReach
<1>3. ASSUME NEW c \in Connections
      PROVE  Connect(c) \/ Remove(c) \/ PushSent(c) => WalksReach'
  <2>1. CASE PushBack(c) \/ Erase(c)
    BY <2>1, ReachChanged DEF PushBack, Erase, HandlerStep
  <2>2. CASE Arrive(c) \/ CheckSize(c) \/ Construct(c) \/ ConstructFails(c)
             \/ LockForPushBack(c) \/ ReadSize(c) \/ ThreadsEnd(c)
             \/ LockForRemove(c) \/ Find(c) \/ Delete(c)
    BY <1>1, <2>2 DEF Arrive, CheckSize, Construct, ConstructFails, LockForPushBack,
       ReadSize, ThreadsEnd, LockForRemove, Find, Delete, Lock, HandlerStep
  <2>3. CASE ExplicitUnlock(c) \/ LeaveRemove(c) \/ GuardUnlock(c)
    BY <1>1, <2>3 DEF ExplicitUnlock, LeaveRemove, GuardUnlock, Unlock, HandlerStep
  <2>4. CASE ChangeUsesFreed(c) \/ PushSent(c)
    BY <1>1, <2>4 DEF ChangeUsesFreed, PushSent
  <2>5. QED
    BY <2>1, <2>2, <2>3, <2>4 DEF Connect, Remove
<1>4. ASSUME NEW c \in Connections, WalkBegins(c)
      PROVE  WalksReach'
  <2>1. /\ walk[c].pc = "idle"
        /\ walk' = [walk EXCEPT ![c] = [NotWalking EXCEPT !.pc = "next",
                      !.buffer = buffer, !.pos = 1, !.end = size,
                      !.others = Listed \ {c}]]
        /\ UNCHANGED <<cells, size, buffer, pushed, stolen>>
    BY <1>4 DEF WalkBegins, WalkStep
  <2>2. /\ walk'[c].pc = "next" /\ walk'[c].buffer = buffer /\ walk'[c].pos = 1
        /\ walk'[c].end = size /\ walk'[c].others = Listed \ {c}
    BY <2>1 DEF WalksOK, NotWalking
  <2>3. \A d \in Connections : d \in walk'[c].others <=> Reached(c, d, size)
    BY <2>2 DEF Listed, Reached
  <2>4. \A d \in Connections : pushed'[c][d] = 0 /\ ~Reached(c, d, 1 - 1)
    <3>1. 1..(1 - 1) = {}
      OBVIOUS
    <3>2. QED
      BY <2>1, <3>1 DEF WalksReach, Reached
  <2>5. Walking(c)'
    BY <1>0, <2>1, <2>2, <2>3, <2>4 DEF Walking, Reached
  <2>6. \A d \in Connections : d # c => walk'[d] = walk[d]
    BY <2>1 DEF WalksOK
  <2>7. QED
    BY <1>2, <2>1, <2>2, <2>5, <2>6
<1>5. ASSUME NEW c \in Connections, WalkNext(c)
      PROVE  WalksReach'
  <2> DEFINE w == walk[c]
  <2>1. /\ w.pc = "next" /\ w.pos <= w.end
        /\ UNCHANGED <<cells, size, buffer, pushed, stolen>>
    BY <1>5 DEF WalkNext, WalkStep
  <2>2. /\ w \in WalkRecords /\ w.pos \in Nat
        /\ \A d \in Connections : d # c => walk'[d] = walk[d]
    BY <1>5 DEF WalkNext, WalksOK, WalkRecords
  <2>3. CASE cells[w.pos] # c
    <3>1. walk' = [walk EXCEPT ![c] = [w EXCEPT !.pc = "send",
                                                !.target = cells[w.pos]]]
      BY <1>5, <2>3 DEF WalkNext
    <3>2. /\ walk'[c].pc = "send" /\ walk'[c].buffer = w.buffer
          /\ walk'[c].pos = w.pos /\ walk'[c].end = w.end
          /\ walk'[c].target = cells[w.pos] /\ walk'[c].others = w.others
          /\ walk'[c].overlapped = w.overlapped
      BY <2>2, <3>1 DEF WalksOK, WalkRecords
    <3>3. ~w.overlapped => Walking(c)
      BY <2>1 DEF WalksReach
    <3>4. ~w.overlapped => Walking(c)'
      BY <2>1, <2>3, <3>2, <3>3 DEF Walking, Reached
    <3>5. QED
      BY <1>2, <2>1, <2>2, <3>2, <3>4
  <2>4. CASE cells[w.pos] = c
    <3>1. walk' = [walk EXCEPT ![c] = [w EXCEPT !.pos = w.pos + 1]]
      BY <1>5, <2>4 DEF WalkNext
    <3>2. /\ walk'[c].pc = "next" /\ walk'[c].buffer = w.buffer
          /\ walk'[c].pos = w.pos + 1 /\ walk'[c].end = w.end
          /\ walk'[c].others = w.others
          /\ walk'[c].overlapped = w.overlapped
      BY <2>1, <2>2, <3>1 DEF WalksOK, WalkRecords
    <3>3. ASSUME ~w.overlapped
          PROVE  Walking(c)'
      <4>1. Walking(c)
        BY <2>1, <3>3 DEF WalksReach
      <4>2. w.pos \in 1..size
        BY <1>0, <2>1, <2>2, <4>1 DEF Walking
      <4>3. w.pos + 1 \in 1..(size + 1) /\ (w.pos + 1) - 1 = w.pos
            /\ 1..w.pos = 1..(w.pos - 1) \cup {w.pos}
        BY <1>0, <4>2
      <4>4. \A d \in Connections : Reached(c, d, w.pos) <=> Reached(c, d, w.pos - 1)
        BY <2>4, <4>3 DEF Reached
      <4>5. QED
        BY <2>1, <3>2, <4>1, <4>3, <4>4 DEF Walking, Reached
    <3>4. QED
      BY <1>2, <2>1, <2>2, <3>2, <3>3
  <2>5. QED
    BY <2>3, <2>4
<1>6. ASSUME NEW c \in Connections, WalkSends(c)
      PROVE  WalksReach'
  <2> DEFINE w == walk[c]
             k == w.pos
             t == w.target
  <2>1. /\ w.pc = "send"
        /\ pushed' = [pushed EXCEPT ![c][t] = @ + 1]
        /\ walk' = [walk EXCEPT ![c] = [w EXCEPT !.pc = "next", !.pos = k + 1,
                                                 !.target = None]]
        /\ UNCHANGED <<cells, size, buffer, stolen>>
    BY <1>6 DEF WalkSends
  <2>2. /\ w \in WalkRecords /\ k \in Nat /\ t \in Connections
        /\ \A d \in Connections : d # c => walk'[d] = walk[d]
    BY <2>1 DEF WalksOK, WalkRecords, WithinBuffer, WalksWithin
  <2>3. /\ walk'[c].pc = "next" /\ walk'[c].buffer = w.buffer
        /\ walk'[c].pos = k + 1 /\ walk'[c].end = w.end
        /\ walk'[c].others = w.others
        /\ walk'[c].overlapped = w.overlapped
    BY <2>1, <2>2 DEF WalksOK, WalkRecords
  <2>4. /\ \A d, e \in Connections : d # c => pushed'[d][e] = pushed[d][e]
        /\ \A e \in Connections : pushed'[c][e] =
             IF e = t THEN pushed[c][e] + 1 ELSE pushed[c][e]
    <3>1. pushed \in [Connections -> [Connections -> Nat]]
      BY DEF DevicesOK
    <3> HIDE DEF t
    <3>2. QED
      BY <2>1, <2>2, <3>1
  <2>5. ASSUME ~w.overlapped
        PROVE  Walking(c)'
    <3>1. Walking(c)
      BY <2>1, <2>5 DEF WalksReach
    <3>2. k \in 1..size /\ t = cells[k] /\ t # c
      BY <1>0, <2>1, <2>2, <3>1 DEF Walking
    <3>3. k + 1 \in 1..(size + 1) /\ (k + 1) - 1 = k
          /\ 1..k = 1..(k - 1) \cup {k} /\ \A i \in 1..(k - 1) : i \in 1..size /\ i # k
      BY <1>0, <3>2
    <3>4. \A d \in Connections : Reached(c, d, k) <=> d = t \/ Reached(c, d, k - 1)
      <4> HIDE DEF k, t
      <4>1. QED
        BY <3>2, <3>3 DEF Reached
    <3>5. ~stolen => ~Reached(c, t, k - 1)
      <4> HIDE DEF k, t
      <4>1. QED
        BY <3>2, <3>3 DEF Reached, RegistryInv, Listing
    <3>6. ~stolen => \A d \in Connections :
            pushed[c][d] = IF Reached(c, d, k - 1) THEN 1 ELSE 0
      BY <3>1 DEF Walking
    <3>7. ~stolen => \A d \in Connections :
            pushed'[c][d] = IF Reached(c, d, k) THEN 1 ELSE 0
      <4> HIDE DEF k, t
      <4>1. QED
        BY <2>4, <3>4, <3>5, <3>6
    <3>8. /\ walk[c].buffer = buffer /\ walk[c].end = size
          /\ \A d \in Connections : d \in walk[c].others <=> Reached(c, d, size)
      BY <3>1 DEF Walking
    <3> HIDE DEF k, t
    <3>9. QED
      BY <2>1, <2>3, <3>3, <3>7, <3>8 DEF Walking, Reached
  <2>6. QED
    BY <1>2, <2>1, <2>2, <2>3, <2>4, <2>5
<1>7. ASSUME NEW c \in Connections, WalkEnds(c)
      PROVE  WalksReach'
  <2> DEFINE w == walk[c]
  <2>1. /\ w.pc = "next" /\ w.pos > w.end
        /\ walk' = [walk EXCEPT ![c].pc = "returned"]
        /\ UNCHANGED <<cells, size, buffer, pushed, stolen>>
    BY <1>7 DEF WalkEnds, WalkStep
  <2>2. /\ walk'[c].pc = "returned" /\ walk'[c].buffer = w.buffer
        /\ walk'[c].pos = w.pos /\ walk'[c].end = w.end
        /\ walk'[c].others = w.others /\ walk'[c].overlapped = w.overlapped
        /\ \A d \in Connections : d # c => walk'[d] = walk[d]
    BY <2>1 DEF WalksOK, WalkRecords
  <2>3. ASSUME ~w.overlapped
        PROVE  Walking(c)'
    <3>1. Walking(c)
      BY <2>1, <2>3 DEF WalksReach
    <3>2. w.pos = size + 1
      BY <1>0, <2>1, <3>1 DEF Walking
    <3>3. QED
      BY <2>1, <2>2, <3>1, <3>2 DEF Walking, Reached
  <2>4. QED
    BY <1>2, <2>1, <2>2, <2>3
<1>8. ASSUME NEW c \in Connections, WalkAborts(c)
      PROVE  WalksReach'
  BY <1>1, <1>8 DEF WalkAborts
<1>9. CASE UNCHANGED vars
  BY <1>1, <1>9
<1>10. QED
  BY <1>3, <1>4, <1>5, <1>6, <1>7, <1>8, <1>9 DEF Next, Walk

(* As many devices are listed as there are cells in use. *)
LEMMA ListedCount ==
  ASSUME size \in Nat, Listing, \A i \in 1..size : cells[i] \in Connections
  PROVE  Listed = Registered /\ Cardinality(Registered) = size
<1> DEFINE at == [i \in 1..size |-> cells[i]]
<1>1. /\ \A c \in Registered : \E i \in 1..size : cells[i] = c
      /\ \A i \in 1..size : cells[i] \in Registered
  BY DEF Listing, Registered, InUse
<1>2. \A i, j \in 1..size : cells[i] = cells[j] => i = j
  BY DEF Listing
<1>3. at \in Bijection(1..size, Registered)
  BY <1>1, <1>2 DEF Bijection, Injection, IsInjective, Surjection
<1>4. Cardinality(Registered) = size
  BY <1>3, FS_CountingElements DEF ExistsBijection
<1>5. QED
  BY <1>1, <1>4 DEF Listed

(* A manager without devices satisfies the invariant. *)
LEMMA InvInit ==
  Init => IInv
<1> SUFFICES ASSUME Init PROVE IInv
  OBVIOUS
<1>1. VectorOK
  BY EmptySeq DEF Init, VectorOK
<1>2. HandlersOK
  <2>1. handler \in [Connections -> HandlerPC]
    BY DEF Init, HandlerPC
  <2>2. seen \in [Connections -> [buffer : Nat, size : Nat, at : Nat]]
    BY DEF Init, NothingSeen
  <2>3. QED
    BY <2>1, <2>2 DEF Init, HandlersOK
<1>3. WalksOK
  <2>1. NotWalking \in WalkRecords
    BY DEF NotWalking, WalkRecords
  <2>2. QED
    BY <2>1 DEF Init, WalksOK
<1>4. DevicesOK
  <2>1. pushed \in [Connections -> [Connections -> Nat]]
    BY DEF Init
  <2>2. mailbox \in [Connections -> BOOLEAN] /\ freed \subseteq Connections
    BY DEF Init
  <2>3. QED
    BY <2>1, <2>2 DEF Init, DevicesOK
<1>5. WithinBuffer
  <2>1. InBuffer(cells, 0)
    BY <1>1 DEF InBuffer, VectorOK
  <2>2. SeenWithin
    BY <2>1 DEF Init, NothingSeen, SeenWithin
  <2>3. WalksWithin
    BY <2>1 DEF Init, NotWalking, WalksWithin
  <2>4. QED
    BY <2>1, <2>2, <2>3 DEF Init, WithinBuffer
<1>6. OneHolder /\ KnowsBuffer /\ ConnectingIsSafe
  BY DEF Init, OneHolder, Holds, Holding, KnowsBuffer, ConnectingIsSafe
<1>7. RegistryInv
  BY DEF Init, RegistryInv, Deleted, Listing, Reading, InUse
<1>8. WalksReach
  BY DEF Init, NotWalking, WalksReach
<1>9. QED
  BY <1>1, <1>2, <1>3, <1>4, <1>5, <1>6, <1>7, <1>8 DEF IInv, TypeOK

(* The invariant is inductive. *)
LEMMA Inv ==
  Spec => []IInv
<1>1. IInv /\ [Next]_vars => IInv'
  <2> SUFFICES ASSUME IInv, [Next]_vars PROVE IInv'
    OBVIOUS
  <2> USE DEF IInv
  <2>1. TypeOK'
    BY VectorStep, HandlersStep, WalksStep, DevicesStep DEF TypeOK
  <2>2. WithinBuffer'
    BY BufferStep, SeenStep, WalksWithinStep DEF WithinBuffer
  <2>3. OneHolder' /\ KnowsBuffer' /\ ConnectingIsSafe'
    BY HolderStep, KnowsStep, SafeStep
  <2>4. RegistryInv' /\ WalksReach'
    BY RegistryStep, ReachStep
  <2>5. QED
    BY <2>1, <2>2, <2>3, <2>4
<1>2. QED
  BY InvInit, <1>1, PTL DEF Spec

(* Every variable keeps its type, with or without exclusion: in particular *)
(* a walk never takes a cell that was never written for a device.          *)
THEOREM TypeCorrect ==
  Spec => []TypeOK
<1>1. IInv => TypeOK
  BY DEF IInv
<1>2. QED
  BY Inv, <1>1, PTL

(* device_mutex excludes, for any number of connections, until a handler's *)
(* second unlock takes it from another thread: nothing else breaks it.     *)
THEOREM MutexExcludes ==
  Spec => []OneHolder
<1>1. IInv => OneHolder
  BY DEF IInv
<1>2. QED
  BY Inv, <1>1, PTL

(* Connecting and leaving, in any number and order, do not abort the       *)
(* process while exclusion lasts and no push was propagated.               *)
THEOREM ConnectingSafe ==
  Spec => []ConnectingIsSafe
<1>1. IInv => ConnectingIsSafe
  BY DEF IInv
<1>2. QED
  BY Inv, <1>1, PTL

(* As long as exclusion lasts the vector lists exactly the devices in use, *)
(* each in one cell, and none that was deleted, for any number of          *)
(* connections that come and go in any order.                              *)
THEOREM RegistryCorrect ==
  Spec => []RegistryConsistent
<1>1. IInv => RegistryConsistent
  <2> SUFFICES ASSUME IInv, ~stolen
               PROVE  /\ Listed = Registered
                      /\ size = Cardinality(Registered)
                      /\ Listed \cap freed = {}
    BY DEF RegistryConsistent
  <2>1. size \in Nat /\ \A i \in 1..size : cells[i] \in Connections
    BY DEF IInv, TypeOK, VectorOK, WithinBuffer, InBuffer
  <2>2. Listed = Registered /\ size = Cardinality(Registered)
    BY <2>1, ListedCount DEF IInv, RegistryInv
  <2>3. Registered \cap freed = {}
    BY DEF IInv, RegistryInv, Deleted, Registered
  <2>4. QED
    BY <2>2, <2>3
<1>2. QED
  BY Inv, <1>1, PTL

(* A push that the vector does not change under is handed to every other   *)
(* listed device once and to no other, however long the vector is and      *)
(* however many other pushes are under way.                                *)
THEOREM PushReachesEach ==
  Spec => []UndisturbedPushReachesEach
<1>1. IInv => UndisturbedPushReachesEach
  <2> SUFFICES ASSUME IInv, NEW c \in Connections, walk[c].pc = "returned",
                      ~walk[c].overlapped, ~stolen, NEW d \in Connections
               PROVE  pushed[c][d] = IF d \in walk[c].others THEN 1 ELSE 0
    BY DEF UndisturbedPushReachesEach
  <2>1. Walking(c)
    BY DEF IInv, WalksReach
  <2>2. size \in Nat
    BY DEF IInv, TypeOK, VectorOK
  <2>3. walk[c].pos - 1 = size
    BY <2>1, <2>2 DEF Walking
  <2>4. QED
    BY <2>1, <2>3 DEF Walking
<1>2. QED
  BY Inv, <1>1, PTL
==============================================================================
