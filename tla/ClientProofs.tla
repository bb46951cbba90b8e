---------------------------- MODULE ClientProofs ----------------------------
(***************************************************************************)
(* Proofs about the client's three threads, for any files, any number of   *)
(* commands of the user and of pushes: type correctness, that what the     *)
(* file thread has reported is what the directory holds once it is idle,   *)
(* and that no part of a file that is being pushed is reported.            *)
(***************************************************************************)
EXTENDS Client, SequenceLemmas, TLAPS

(* The packets that name a file name one of the files. *)
NamingPackets ==
  {p \in Packets : p.type \in {"WRITE", "DELETE"} => p.text \in Names}

NamesKnown ==
  /\ stream \in Seq(NamingPackets)
  /\ push_thread.pc # "wait" => push_thread.name \in Names
  /\ io.pc # "wait" => io.name \in Names

(* The file thread has the lock for a write, and then the push thread does *)
(* not have it.                                                            *)
LockFollows ==
  file_thread = "locked" =>
    /\ push_thread.pc # "receive"
    /\ batch # << >> /\ Head(batch).mask = "CLOSE_WRITE"

Unpushed == Contents \cup {Absent, << >>}

(* Nothing of a push is in a file before the push thread has the lock. *)
FilesUnpushed ==
  /\ push_thread.pc # "receive" => \A n \in Names : file[n] \in Unpushed
  /\ io.pc = "copy" => io.content \in Contents

(* Events tell of a delete of n, or of a write of n that none follows. *)
Deleted(seq, n) == \E i \in 1..Len(seq) : seq[i] = Event("DELETE", n)

Written(seq, n) ==
  \E i \in 1..Len(seq) :
    /\ seq[i] = Event("CLOSE_WRITE", n)
    /\ \A j \in 1..Len(seq) : j > i => seq[j] # Event("DELETE", n)

(* The events in `first` are handled before those in `next`. *)
DeletePending(first, next, n) == Deleted(first, n) \/ Deleted(next, n)

WritePending(first, next, n) ==
  Written(next, n) \/ (Written(first, n) /\ ~Deleted(next, n))

(* What the events still to be handled will make of what was reported. *)
ToReport(content, last, copying, first, next, n) ==
  /\ content = Absent => last = Absent \/ DeletePending(first, next, n)
  /\ content # Absent =>
       \/ copying
       \/ WritePending(first, next, n)
       \/ last = content /\ ~DeletePending(first, next, n)

Copying(n) == io.pc = "copy" /\ io.name = n

Reported(n) ==
  ToReport(file[n], reported[n], Copying(n), batch, events, n)

AllReported ==
  push_thread.pc # "receive" => \A n \in Names \ unseen : Reported(n)

IInv == TypeOK /\ NamesKnown /\ LockFollows /\ FilesUnpushed /\ AllReported
-----------------------------------------------------------------------------
(* Events *)

(* An event is one of Events, and it is one event on one file. *)
LEMMA EventsDiffer ==
  ASSUME NEW m \in {"CLOSE_WRITE", "DELETE"}, NEW n \in Names
  PROVE  /\ Event(m, n) \in Events
         /\ Event(m, n).mask = m /\ Event(m, n).name = n
  BY DEF Event, Events

(* An event is what its mask and its name are. *)
LEMMA EventRead ==
  ASSUME NEW e \in Events
  PROVE  /\ e.mask \in {"CLOSE_WRITE", "DELETE"} /\ e.name \in Names
         /\ e = Event(e.mask, e.name)
  BY DEF Event, Events

(* No event tells of nothing. *)
LEMMA NoEvents ==
  ASSUME NEW n
  PROVE  ~Deleted(<< >>, n) /\ ~Written(<< >>, n)
  BY DEF Deleted, Written

(* What the first event adds to those behind it. *)
LEMMA FirstEvent ==
  ASSUME NEW seq \in Seq(Events), seq # << >>, NEW n \in Names
  PROVE  /\ Deleted(seq, n) <=>
              Head(seq) = Event("DELETE", n) \/ Deleted(Tail(seq), n)
         /\ Written(seq, n) <=>
              \/ Written(Tail(seq), n)
              \/ /\ Head(seq) = Event("CLOSE_WRITE", n)
                 /\ ~Deleted(Tail(seq), n)
<1> DEFINE rest == Tail(seq)
           del == Event("DELETE", n)
           cw == Event("CLOSE_WRITE", n)
<1>1. /\ rest \in Seq(Events) /\ Len(rest) = Len(seq) - 1
      /\ Head(seq) = seq[1] /\ \A i \in 1..Len(rest) : rest[i] = seq[i + 1]
  BY HeadTailProperties
<1>2. PICK len \in Nat : len = Len(rest)
  BY <1>1, LenProperties
<1>3. Len(seq) = len + 1
  BY <1>1, <1>2, LenProperties
<1>4. \A i \in 1..len : rest[i] = seq[i + 1]
  BY <1>1, <1>2
<1>5. ASSUME NEW i \in 1..(len + 1), i # 1
      PROVE  i - 1 \in 1..len /\ seq[i] = rest[i - 1]
  <2>1. i - 1 \in 1..len /\ (i - 1) + 1 = i
    BY <1>5
  <2>2. rest[i - 1] = seq[(i - 1) + 1]
    BY <1>4, <2>1
  <2>3. QED
    BY <2>1, <2>2
<1>6. \A i \in 1..len : i + 1 \in 1..(len + 1)
  OBVIOUS
<1>7. Deleted(rest, n) <=> \E i \in 1..len : rest[i] = del
  BY <1>2 DEF Deleted
<1>8. Deleted(seq, n) <=> \E i \in 1..(len + 1) : seq[i] = del
  BY <1>3 DEF Deleted
<1>9. Written(rest, n) <=>
        \E i \in 1..len :
          rest[i] = cw /\ \A j \in 1..len : j > i => rest[j] # del
  BY <1>2 DEF Written
<1>10. Written(seq, n) <=>
         \E i \in 1..(len + 1) :
           seq[i] = cw /\ \A j \in 1..(len + 1) : j > i => seq[j] # del
  BY <1>3 DEF Written
<1>11. Head(seq) = seq[1] /\ 1 \in 1..(len + 1)
  BY <1>1
<1> HIDE DEF rest, del, cw
<1>12. Deleted(seq, n) <=> Head(seq) = del \/ Deleted(rest, n)
  BY <1>4, <1>5, <1>6, <1>7, <1>8, <1>11
<1>13. ASSUME Written(seq, n)
       PROVE  Written(rest, n) \/ (Head(seq) = cw /\ ~Deleted(rest, n))
  <2>1. PICK i \in 1..(len + 1) :
          seq[i] = cw /\ \A j \in 1..(len + 1) : j > i => seq[j] # del
    BY <1>10, <1>13
  <2>2. CASE i = 1
    BY <1>4, <1>6, <1>7, <1>11, <2>1, <2>2
  <2>3. CASE i # 1
    <3>1. i - 1 \in 1..len /\ rest[i - 1] = cw
      BY <1>5, <2>1, <2>3
    <3>2. \A j \in 1..len : j > i - 1 => rest[j] # del
      BY <1>4, <1>6, <2>1
    <3>3. QED
      BY <1>9, <3>1, <3>2
  <2>4. QED
    BY <2>2, <2>3
<1>14. ASSUME Written(rest, n)
       PROVE  Written(seq, n)
  <2>1. PICK i \in 1..len :
          rest[i] = cw /\ \A j \in 1..len : j > i => rest[j] # del
    BY <1>9, <1>14
  <2>2. i + 1 \in 1..(len + 1) /\ seq[i + 1] = cw
    BY <1>4, <1>6, <2>1
  <2>3. ASSUME NEW j \in 1..(len + 1), j > i + 1
        PROVE  seq[j] # del
    <3>1. j # 1 /\ j - 1 > i
      BY <2>3
    <3>2. j - 1 \in 1..len /\ seq[j] = rest[j - 1]
      BY <1>5, <3>1
    <3>3. QED
      BY <2>1, <3>1, <3>2
  <2>4. QED
    BY <1>10, <2>2, <2>3
<1>15. ASSUME Head(seq) = cw, ~Deleted(rest, n)
       PROVE  Written(seq, n)
  <2>1. \A j \in 1..(len + 1) : j > 1 => seq[j] # del
    BY <1>5, <1>7, <1>15
  <2>2. QED
    BY <1>10, <1>11, <1>15, <2>1
<1>16. QED
  BY <1>12, <1>13, <1>14, <1>15 DEF rest, del, cw

(* `later` are the events of seq once e was told of. *)
Told(seq, e, later) ==
  later = IF seq # << >> /\ Last(seq) = e THEN seq ELSE Append(seq, e)

(* What an event that is told of adds to those before it, joined or not. *)
LEMMA ToldEvent ==
  ASSUME NEW seq \in Seq(Events), NEW e \in Events, NEW later,
         Told(seq, e, later), NEW n \in Names
  PROVE  /\ later \in Seq(Events)
         /\ Deleted(later, n) <=> Deleted(seq, n) \/ e = Event("DELETE", n)
         /\ Written(later, n) <=>
              \/ e = Event("CLOSE_WRITE", n)
              \/ Written(seq, n) /\ e # Event("DELETE", n)
<1> DEFINE del == Event("DELETE", n)
           cw == Event("CLOSE_WRITE", n)
<1>1. del # cw
  BY EventsDiffer, "DELETE" # "CLOSE_WRITE"
<1>2. Len(seq) \in Nat
  BY LenProperties
<1>3. CASE seq # << >> /\ Last(seq) = e
  <2>1. later = seq
    BY <1>3 DEF Told
  <2>2. PICK len \in Nat : len = Len(seq)
    BY <1>2
  <2>3. len \in 1..len /\ seq[len] = e
    BY <1>3, <2>2, EmptySeq DEF Last
  <2>4. Deleted(seq, n) <=> \E i \in 1..len : seq[i] = del
    BY <2>2 DEF Deleted
  <2>5. Written(seq, n) <=>
          \E i \in 1..len :
            seq[i] = cw /\ \A j \in 1..len : j > i => seq[j] # del
    BY <2>2 DEF Written
  <2> HIDE DEF del, cw
  <2>6. e = del => Deleted(seq, n)
    BY <2>3, <2>4
  <2>7. e = del => ~Written(seq, n)
    BY <1>1, <2>3, <2>5
  <2>8. e = cw => Written(seq, n)
    BY <2>3, <2>5
  <2>9. QED
    BY <1>1, <2>1, <2>6, <2>7, <2>8 DEF del, cw
<1>4. CASE ~(seq # << >> /\ Last(seq) = e)
  <2>1. later = Append(seq, e)
    BY <1>4 DEF Told
  <2>2. PICK len \in Nat : len = Len(seq)
    BY <1>2
  <2>3. /\ later \in Seq(Events) /\ Len(later) = len + 1
        /\ later[len + 1] = e
        /\ \A i \in 1..len : later[i] = seq[i]
    BY <2>1, <2>2, AppendProperties
  <2>4. Deleted(seq, n) <=> \E i \in 1..len : seq[i] = del
    BY <2>2 DEF Deleted
  <2>5. Written(seq, n) <=>
          \E i \in 1..len :
            seq[i] = cw /\ \A j \in 1..len : j > i => seq[j] # del
    BY <2>2 DEF Written
  <2>6. Deleted(later, n) <=> \E i \in 1..(len + 1) : later[i] = del
    BY <2>3 DEF Deleted
  <2>7. Written(later, n) <=>
          \E i \in 1..(len + 1) :
            later[i] = cw /\ \A j \in 1..(len + 1) : j > i => later[j] # del
    BY <2>3 DEF Written
  <2>8. \A i \in 1..(len + 1) : i \in 1..len \/ i = len + 1
    OBVIOUS
  <2>9. \A i \in 1..len : i \in 1..(len + 1) /\ len + 1 > i
    OBVIOUS
  <2>10. len + 1 \in 1..(len + 1)
    OBVIOUS
  <2> HIDE DEF del, cw
  <2>11. Deleted(later, n) <=> Deleted(seq, n) \/ e = del
    BY <2>3, <2>4, <2>6, <2>8, <2>9, <2>10
  <2>12. ASSUME Written(later, n)
         PROVE  e = cw \/ (Written(seq, n) /\ e # del)
    <3>1. PICK i \in 1..(len + 1) :
            later[i] = cw /\ \A j \in 1..(len + 1) : j > i => later[j] # del
      BY <2>7, <2>12
    <3>2. CASE i = len + 1
      BY <2>3, <3>1, <3>2
    <3>3. CASE i \in 1..len
      <4>1. e # del
        BY <2>3, <2>9, <2>10, <3>1, <3>3
      <4>2. seq[i] = cw /\ \A j \in 1..len : j > i => seq[j] # del
        BY <2>3, <2>9, <3>1, <3>3
      <4>3. QED
        BY <2>5, <3>3, <4>1, <4>2
    <3>4. QED
      BY <2>8, <3>2, <3>3
  <2>13. ASSUME e = cw
         PROVE  Written(later, n)
    <3>1. \A j \in 1..(len + 1) : ~(j > len + 1)
      OBVIOUS
    <3>2. QED
      BY <2>3, <2>7, <2>10, <2>13, <3>1
  <2>14. ASSUME Written(seq, n), e # del
         PROVE  Written(later, n)
    <3>1. PICK i \in 1..len :
            seq[i] = cw /\ \A j \in 1..len : j > i => seq[j] # del
      BY <2>5, <2>14
    <3>2. \A j \in 1..(len + 1) : j > i => later[j] # del
      BY <2>3, <2>8, <2>14, <3>1
    <3>3. QED
      BY <2>3, <2>7, <2>9, <3>1, <3>2
  <2>15. QED
    BY <2>3, <2>11, <2>12, <2>13, <2>14 DEF del, cw
<1>5. QED
  BY <1>3, <1>4
-----------------------------------------------------------------------------
(* What the threads know *)

(* The push thread goes on, about the same file. *)
LEMMA PushPlace ==
  ASSUME NEW t \in PushThreads, NEW t2,
         NEW pc \in {"wait", "clear", "lock", "receive", "look", "remove"},
         t2 = [t EXCEPT !.pc = pc]
  PROVE  t2 \in PushThreads /\ t2.pc = pc /\ t2.name = t.name
  BY DEF PushThreads

(* The IO thread goes on, about the same file, or done with its content.   *)
LEMMA IoPlace ==
  ASSUME NEW t \in IoThreads, NEW t2,
         NEW pc \in {"wait", "copy", "look", "remove"},
         t2 = [t EXCEPT !.pc = pc]
  PROVE  /\ t2 \in IoThreads /\ t2.pc = pc
         /\ t2.name = t.name /\ t2.content = t.content
  BY DEF IoThreads

LEMMA IoContent ==
  ASSUME NEW t \in IoThreads, NEW t2, NEW f \in Files,
         NEW pc \in {"wait", "copy", "look", "remove"},
         t2 = [t EXCEPT !.pc = pc, !.content = f]
  PROVE  t2 \in IoThreads /\ t2.pc = pc
  BY DEF IoThreads

(* Absent is no file; the files of the user are files, and so is an empty  *)
(* one.                                                                    *)
LEMMA FilesKnown ==
  /\ Contents \subseteq Files /\ << >> \in Files /\ Absent \in Files
  /\ Absent \notin Contents /\ << >> # Absent
<1>1. << >> \in Seq(Texts)
  OBVIOUS
<1>2. Contents \subseteq Seq(Texts) /\ Absent \notin Seq(Texts)
  BY ClientAssumption
<1>3. QED
  BY <1>1, <1>2 DEF Files

(* What inotify tells of is an event. *)
LEMMA TellsTyped ==
  ASSUME TypeOK, NEW mask \in {"CLOSE_WRITE", "DELETE"}, NEW k \in Names,
         Tells(mask, k)
  PROVE  events' \in Seq(Events) /\ unseen' \subseteq Names
<1>1. /\ Event(mask, k) \in Events
      /\ events \in Seq(Events) /\ unseen \subseteq Names
  BY EventsDiffer DEF TypeOK
<1>2. events' \in Seq(Events)
  <2>1. CASE ~watching
    BY <1>1, <2>1 DEF Tells
  <2>2. CASE watching
    <3>1. Told(events, Event(mask, k), events')
      BY <2>2 DEF Tells, Told
    <3>2. QED
      BY <1>1, <3>1, ToldEvent
  <2>3. QED
    BY <2>1, <2>2
<1>3. unseen' \subseteq Names
  BY <1>1 DEF Tells
<1>4. QED
  BY <1>2, <1>3

(* inotify tells of a change of k, or the directory is not watched yet:    *)
(* every other file is as well reported as before, and k is by its event.  *)
LEMMA TellsReports ==
  ASSUME TypeOK, NEW mask \in {"CLOSE_WRITE", "DELETE"}, NEW k \in Names,
         Tells(mask, k), UNCHANGED <<batch, reported>>,
         \A n \in Names \ unseen : Reported(n),
         \A n \in Names : n # k =>
           file'[n] = file[n] /\ (Copying(n)' <=> Copying(n)),
         mask = "DELETE" => file'[k] = Absent,
         mask = "CLOSE_WRITE" /\ file'[k] = Absent => file[k] = Absent
  PROVE  \A n \in Names \ unseen' : Reported(n)'
<1> DEFINE e == Event(mask, k)
<1>1. /\ e \in Events /\ e.mask = mask /\ e.name = k
      /\ events \in Seq(Events) /\ unseen \subseteq Names
  BY EventsDiffer DEF TypeOK
<1>2. CASE ~watching
  <2>1. events' = events /\ unseen' = unseen \cup {k}
    BY <1>2 DEF Tells
  <2>2. ASSUME NEW n \in Names \ unseen'
        PROVE  Reported(n)'
    <3>1. n # k /\ n \in Names \ unseen
      BY <2>1
    <3>2. Reported(n)
      BY <3>1
    <3>3. file'[n] = file[n] /\ (Copying(n)' <=> Copying(n))
      BY <3>1
    <3>4. QED
      BY <2>1, <3>2, <3>3 DEF Reported, ToReport
  <2>3. QED
    BY <2>2
<1>3. CASE watching
  <2>1. Told(events, e, events')
    BY <1>3 DEF Tells, Told
  <2>2. unseen' = IF mask = "CLOSE_WRITE" /\ file'[k] = Absent THEN unseen
                  ELSE unseen \ {k}
    BY <1>3 DEF Tells
  <2> HIDE DEF e
  <2>3. ASSUME NEW n \in Names
        PROVE  /\ Deleted(events', n) <=>
                    Deleted(events, n) \/ e = Event("DELETE", n)
               /\ Written(events', n) <=>
                    \/ e = Event("CLOSE_WRITE", n)
                    \/ Written(events, n) /\ e # Event("DELETE", n)
    BY <1>1, <2>1, ToldEvent
  <2>4. ASSUME NEW n \in Names \ unseen'
        PROVE  Reported(n)'
    <3>1. CASE n # k
      <4>1. e # Event("DELETE", n) /\ e # Event("CLOSE_WRITE", n)
        BY <1>1, <3>1, EventsDiffer
      <4>2. /\ Deleted(events', n) <=> Deleted(events, n)
            /\ Written(events', n) <=> Written(events, n)
        BY <2>3, <4>1
      <4>3. n \in Names \ unseen
        BY <2>2, <3>1
      <4>4. Reported(n)
        BY <4>3
      <4>5. file'[n] = file[n] /\ (Copying(n)' <=> Copying(n))
        BY <3>1
      <4>6. QED
        BY <4>2, <4>4, <4>5 DEF Reported, ToReport, DeletePending, WritePending
    <3>2. CASE n = k /\ mask = "DELETE"
      <4>1. Deleted(events', k)
        BY <2>3, <3>2 DEF e
      <4>2. file'[k] = Absent
        BY <3>2
      <4>3. QED
        BY <3>2, <4>1, <4>2 DEF Reported, ToReport, DeletePending
    <3>3. CASE n = k /\ mask = "CLOSE_WRITE" /\ file'[k] # Absent
      <4>1. Written(events', k)
        BY <2>3, <3>3 DEF e
      <4>2. QED
        BY <3>3, <4>1 DEF Reported, ToReport, WritePending
    <3>4. CASE n = k /\ mask = "CLOSE_WRITE" /\ file'[k] = Absent
      <4>1. Reported(k) /\ file[k] = Absent
        BY <2>2, <3>4
      <4>2. Deleted(events, k) => Deleted(events', k)
        BY <2>3
      <4>3. QED
        BY <3>4, <4>1, <4>2 DEF Reported, ToReport, DeletePending
    <3>5. QED
      BY <3>1, <3>2, <3>3, <3>4
  <2>5. QED
    BY <2>4
<1>4. QED
  BY <1>2, <1>3

(* Nothing that the reports depend on has changed. *)
LEMMA UntoldReports ==
  ASSUME UNCHANGED <<batch, events, unseen, reported>>,
         \A n \in Names \ unseen : Reported(n),
         \A n \in Names :
           file'[n] = file[n] /\ (Copying(n)' <=> Copying(n))
  PROVE  \A n \in Names \ unseen' : Reported(n)'
<1> SUFFICES ASSUME NEW n \in Names \ unseen'
             PROVE  Reported(n)'
  OBVIOUS
<1>1. Reported(n)
  OBVIOUS
<1>2. file'[n] = file[n] /\ (Copying(n)' <=> Copying(n))
  OBVIOUS
<1>3. QED
  BY <1>1, <1>2 DEF Reported, ToReport
-----------------------------------------------------------------------------
(* The threads keep the invariant *)

(* What a step of the IO thread, or of the user, has to keep. *)
LEMMA IoFrame ==
  ASSUME IInv, NEW from, IoStep(from),
         file' \in [Names -> Files],
         io' \in IoThreads,
         io'.pc # "wait" => io'.name \in Names,
         io'.pc = "copy" => io'.content \in Contents,
         events' \in Seq(Events), unseen' \subseteq Names,
         process' \in {"running", "terminated"},
         commands' \in 0..MaxCommands,
         push_thread.pc # "receive" =>
           /\ \A m \in Names : file'[m] \in Unpushed
           /\ \A m \in Names \ unseen' : Reported(m)'
  PROVE  IInv'
<1>1. UNCHANGED <<watcher_push_lock, watching, batch, file_thread, push_thread,
                  stream, server, pushes, reported>>
  BY DEF IoStep
<1>2. TypeOK'
  BY <1>1 DEF IInv, TypeOK, LockHeld
<1>3. NamesKnown'
  BY <1>1 DEF IInv, NamesKnown
<1>4. LockFollows'
  BY <1>1 DEF IInv, LockFollows
<1>5. FilesUnpushed'
  BY <1>1 DEF FilesUnpushed
<1>6. AllReported'
  BY <1>1 DEF AllReported
<1>7. QED
  BY <1>2, <1>3, <1>4, <1>5, <1>6 DEF IInv

(* What the invariant says of the files before the push thread has the     *)
(* lock.                                                                   *)
LEMMA BeforePush ==
  ASSUME IInv, push_thread.pc # "receive"
  PROVE  /\ \A m \in Names : file[m] \in Unpushed
         /\ \A m \in Names \ unseen : Reported(m)
  BY DEF IInv, FilesUnpushed, AllReported

(* The removal of a file that a thread has seen. *)
LEMMA RemovesKeeps ==
  ASSUME IInv, NEW k \in Names, Removes(k), UNCHANGED <<batch, reported>>,
         \A n \in Names : Copying(n)' <=> Copying(n)
  PROVE  /\ file' \in [Names -> Files]
         /\ events' \in Seq(Events) /\ unseen' \subseteq Names
         /\ process' \in {"running", "terminated"}
         /\ push_thread.pc # "receive" =>
              /\ \A m \in Names : file'[m] \in Unpushed
              /\ \A m \in Names \ unseen' : Reported(m)'
<1>1. TypeOK
  BY DEF IInv
<1>2. CASE /\ file[k] = Absent
           /\ process' = "terminated"
           /\ Untold /\ UNCHANGED file
  <2>1. UNCHANGED <<file, events, unseen>>
    BY <1>2 DEF Untold
  <2>2. push_thread.pc # "receive" => \A m \in Names \ unseen' : Reported(m)'
    BY <2>1, BeforePush, UntoldReports
  <2>3. push_thread.pc # "receive" => \A m \in Names : file'[m] \in Unpushed
    BY <2>1, BeforePush
  <2>4. QED
    BY <1>1, <1>2, <2>1, <2>2, <2>3 DEF TypeOK
<1>3. CASE /\ file[k] # Absent
           /\ file' = [file EXCEPT ![k] = Absent]
           /\ Tells("DELETE", k)
           /\ UNCHANGED process
  <2>1. /\ file' \in [Names -> Files] /\ file'[k] = Absent
        /\ \A m \in Names : m # k => file'[m] = file[m]
    BY <1>1, <1>3, FilesKnown DEF TypeOK
  <2>2. process' \in {"running", "terminated"}
    BY <1>1, <1>3 DEF TypeOK
  <2>3. events' \in Seq(Events) /\ unseen' \subseteq Names
    BY <1>1, <1>3, TellsTyped
  <2>4. ASSUME push_thread.pc # "receive"
        PROVE  /\ \A m \in Names : file'[m] \in Unpushed
               /\ \A m \in Names \ unseen' : Reported(m)'
    <3>1. \A m \in Names : file'[m] \in Unpushed
      BY <2>1, <2>4, BeforePush DEF Unpushed
    <3>2. \A m \in Names \ unseen : Reported(m)
      BY <2>4, BeforePush
    <3>3. \A m \in Names \ unseen' : Reported(m)'
      BY <1>1, <1>3, <2>1, <3>2, TellsReports
    <3>4. QED
      BY <3>1, <3>3
  <2>5. QED
    BY <2>1, <2>2, <2>3, <2>4
<1>4. QED
  BY <1>2, <1>3 DEF Removes

(* What a step of the IO thread has of the state before. *)
LEMMA IoKnows ==
  ASSUME IInv
  PROVE  /\ io \in IoThreads /\ file \in [Names -> Files]
         /\ io.name \in Names \cup {Absent} /\ io.content \in Files
         /\ io.pc # "wait" => io.name \in Names
         /\ io.pc = "copy" => io.content \in Contents
         /\ events \in Seq(Events) /\ unseen \subseteq Names
         /\ process \in {"running", "terminated"}
         /\ commands \in 0..MaxCommands
<1>1. io \in IoThreads
  BY DEF IInv, TypeOK
<1>2. io.name \in Names \cup {Absent} /\ io.content \in Files
  BY <1>1 DEF IoThreads
<1>3. QED
  BY <1>1, <1>2 DEF IInv, TypeOK, NamesKnown, FilesUnpushed

(* A command of the user is counted. *)
LEMMA CommandCounted ==
  ASSUME UserCommand, commands \in 0..MaxCommands
  PROVE  commands' \in 0..MaxCommands
  BY ClientAssumption DEF UserCommand

LEMMA UploadKeeps ==
  ASSUME IInv, NEW n \in Names, NEW f \in Contents, Upload(n, f)
  PROVE  IInv'
<1>1. IoStep("wait") /\ io.pc = "wait"
  BY DEF Upload, IoStep
<1>2. /\ file' = [file EXCEPT ![n] = << >>]
      /\ io' = [pc |-> "copy", name |-> n, content |-> f]
      /\ UNCHANGED <<events, unseen, process>>
  BY DEF Upload, Untold
<1>3. commands' \in 0..MaxCommands
  BY IoKnows, CommandCounted DEF Upload
<1>4. f \in Files
  BY FilesKnown
<1>5. /\ io' \in IoThreads
      /\ io'.pc = "copy" /\ io'.name = n /\ io'.content = f
  BY <1>2, <1>4 DEF IoThreads
<1>6. /\ file' \in [Names -> Files] /\ file'[n] = << >>
      /\ \A m \in Names : m # n => file'[m] = file[m]
  BY <1>2, IoKnows, FilesKnown
<1>7. ASSUME push_thread.pc # "receive"
      PROVE  /\ \A m \in Names : file'[m] \in Unpushed
             /\ \A m \in Names \ unseen' : Reported(m)'
  <2>1. \A m \in Names : file'[m] \in Unpushed
    BY <1>6, <1>7, BeforePush DEF Unpushed
  <2>2. ASSUME NEW m \in Names \ unseen'
        PROVE  Reported(m)'
    <3>1. CASE m = n
      BY <1>5, <1>6, <3>1, FilesKnown DEF Reported, ToReport, Copying
    <3>2. CASE m # n
      <4>1. Reported(m)
        BY <1>2, <1>7, BeforePush
      <4>2. ~Copying(m) /\ ~Copying(m)'
        BY <1>1, <1>5, <3>2 DEF Copying
      <4>3. UNCHANGED <<batch, events, reported>> /\ file'[m] = file[m]
        BY <1>1, <1>2, <1>6, <3>2 DEF IoStep
      <4>4. QED
        BY <4>1, <4>2, <4>3 DEF Reported, ToReport
    <3>3. QED
      BY <3>1, <3>2
  <2>3. QED
    BY <2>1, <2>2
<1>8. QED
  BY <1>1, <1>2, <1>3, <1>5, <1>6, <1>7, IoKnows, IoFrame

LEMMA CloseUploadKeeps ==
  ASSUME IInv, CloseUpload
  PROVE  IInv'
<1>1. PICK n \in Names : n = io.name
  BY IoKnows DEF CloseUpload, IoStep
<1>2. PICK f \in Contents : f = io.content
  BY IoKnows DEF CloseUpload, IoStep
<1>3. /\ IoStep("copy") /\ io.pc = "copy"
      /\ file' = [file EXCEPT ![n] = IF @ = Absent THEN @ ELSE f]
      /\ io' = [io EXCEPT !.pc = "wait", !.content = Absent]
      /\ Tells("CLOSE_WRITE", n)
      /\ UNCHANGED <<process, commands>>
  BY <1>1, <1>2 DEF CloseUpload, IoStep
<1>4. io' \in IoThreads /\ io'.pc = "wait"
  BY <1>3, IoKnows, IoContent, FilesKnown
<1>5. /\ file' \in [Names -> Files]
      /\ file'[n] = IF file[n] = Absent THEN Absent ELSE f
      /\ \A m \in Names : m # n => file'[m] = file[m]
  BY <1>3, IoKnows, FilesKnown
<1>6. events' \in Seq(Events) /\ unseen' \subseteq Names
  BY <1>3, TellsTyped DEF IInv
<1>7. ASSUME push_thread.pc # "receive"
      PROVE  /\ \A m \in Names : file'[m] \in Unpushed
             /\ \A m \in Names \ unseen' : Reported(m)'
  <2>1. \A m \in Names : file'[m] \in Unpushed
    BY <1>5, <1>7, BeforePush DEF Unpushed
  <2>2. \A m \in Names : m # n => (Copying(m)' <=> Copying(m))
    BY <1>1, <1>3, <1>4 DEF Copying
  <2>3. file'[n] = Absent => file[n] = Absent
    BY <1>5, FilesKnown
  <2>4. UNCHANGED <<batch, reported>>
    BY <1>3 DEF IoStep
  <2>5. TypeOK /\ \A m \in Names \ unseen : Reported(m)
    BY <1>7, BeforePush DEF IInv
  <2>6. \A m \in Names \ unseen' : Reported(m)'
    BY <1>3, <1>5, <2>2, <2>3, <2>4, <2>5, TellsReports
  <2>7. QED
    BY <2>1, <2>6
<1>8. QED
  BY <1>3, <1>4, <1>5, <1>6, <1>7, IoKnows, IoFrame

(* The steps of the IO thread that leave the directory as it is. *)
LEMMA IoQuietKeeps ==
  ASSUME IInv, NEW from, IoStep(from), UNCHANGED <<file, events, unseen>>,
         io' \in IoThreads, io'.pc # "wait" => io'.name \in Names,
         io.pc # "copy" /\ io'.pc # "copy",
         process' \in {"running", "terminated"},
         commands' \in 0..MaxCommands
  PROVE  IInv'
<1>1. ASSUME push_thread.pc # "receive"
      PROVE  /\ \A m \in Names : file'[m] \in Unpushed
             /\ \A m \in Names \ unseen' : Reported(m)'
  <2>1. \A m \in Names : file'[m] = file[m] /\ (Copying(m)' <=> Copying(m))
    BY DEF Copying
  <2>2. UNCHANGED <<batch, events, unseen, reported>>
    BY DEF IoStep
  <2>3. QED
    BY <1>1, <2>1, <2>2, BeforePush, UntoldReports
<1>2. QED
  BY <1>1, IoKnows, IoFrame

LEMMA IoKeeps ==
  ASSUME IInv, User \/ IoThread
  PROVE  IInv'
<1>1. ASSUME NEW n \in Names, Delete(n)
      PROVE  IInv'
  <2>1. /\ IoStep("wait") /\ io.pc = "wait"
        /\ io' = [io EXCEPT !.pc = "look", !.name = n]
        /\ UNCHANGED <<file, events, unseen, process>>
    BY <1>1 DEF Delete, IoStep, Untold
  <2>2. io' \in IoThreads /\ io'.pc = "look" /\ io'.name = n
    <3>1. io \in IoThreads
      BY IoKnows
    <3>2. QED
      BY <2>1, <3>1 DEF IoThreads
  <2>3. commands' \in 0..MaxCommands
    BY <1>1, IoKnows, CommandCounted DEF Delete
  <2>4. QED
    BY <2>1, <2>2, <2>3, IoKnows, IoQuietKeeps
<1>2. ASSUME Exit
      PROVE  IInv'
  <2>1. /\ IoStep("wait") /\ io.pc = "wait"
        /\ UNCHANGED <<file, events, unseen, io, commands>>
        /\ process' = "terminated"
    BY <1>2 DEF Exit, IoStep, Untold
  <2>2. QED
    BY <2>1, IoKnows, IoQuietKeeps
<1>3. ASSUME IoLooks
      PROVE  IInv'
  <2>1. PICK pc \in {"wait", "remove"} : io' = [io EXCEPT !.pc = pc]
    BY <1>3 DEF IoLooks
  <2>2. /\ IoStep("look") /\ io.pc = "look"
        /\ UNCHANGED <<file, events, unseen, process, commands>>
    BY <1>3 DEF IoLooks, IoStep, Untold
  <2>3. io' \in IoThreads /\ io'.pc = pc /\ io'.name = io.name
    <3>1. pc \in {"wait", "copy", "look", "remove"}
      OBVIOUS
    <3>2. io \in IoThreads
      BY IoKnows
    <3>3. QED
      BY <2>1, <3>1, <3>2, IoPlace
  <2>4. io'.pc # "copy" /\ io'.name \in Names
    BY <2>2, <2>3, IoKnows
  <2>5. QED
    BY <2>2, <2>3, <2>4, IoKnows, IoQuietKeeps
<1>4. ASSUME IoRemoves
      PROVE  IInv'
  <2>1. PICK k \in Names : k = io.name
    BY <1>4, IoKnows DEF IoRemoves, IoStep
  <2>2. /\ IoStep("remove") /\ io.pc = "remove" /\ Removes(k)
        /\ io' = [io EXCEPT !.pc = "wait"] /\ UNCHANGED commands
    BY <1>4, <2>1 DEF IoRemoves, IoStep
  <2>3. io' \in IoThreads /\ io'.pc = "wait"
    BY <2>2, IoKnows, IoPlace
  <2>4. \A n \in Names : Copying(n)' <=> Copying(n)
    BY <2>2, <2>3 DEF Copying
  <2>5. UNCHANGED <<batch, reported>>
    BY <2>2 DEF IoStep
  <2>6. QED
    BY <2>2, <2>3, <2>4, <2>5, IoKnows, RemovesKeeps, IoFrame
<1>5. QED
  BY <1>1, <1>2, <1>3, <1>4, UploadKeeps, CloseUploadKeeps DEF User, IoThread

(* Who has the lock. *)
LEMMA LockPlaces ==
  ASSUME IInv
  PROVE  /\ file_thread = "locked" =>
              watcher_push_lock = "file thread" /\ push_thread.pc # "receive"
         /\ push_thread.pc = "receive" => watcher_push_lock = "push thread"
         /\ watcher_push_lock = "free" <=>
              file_thread # "locked" /\ push_thread.pc # "receive"
<1>1. LockHeld /\ LockFollows
  BY DEF IInv, TypeOK
<1>2. file_thread = "locked" => push_thread.pc # "receive"
  BY <1>1 DEF LockFollows
<1>3. CASE file_thread = "locked"
  BY <1>1, <1>2, <1>3 DEF LockHeld
<1>4. CASE file_thread # "locked" /\ push_thread.pc = "receive"
  BY <1>1, <1>4 DEF LockHeld
<1>5. CASE file_thread # "locked" /\ push_thread.pc # "receive"
  BY <1>1, <1>5 DEF LockHeld
<1>6. QED
  BY <1>3, <1>4, <1>5

(* What a step of the file thread has to keep. *)
LEMMA FileFrame ==
  ASSUME IInv, NEW from, FileStep(from),
         watching' \in BOOLEAN,
         events' \in Seq(Events), batch' \in Seq(Events),
         file_thread' \in {"start", "read", "locked"},
         watcher_push_lock' \in {"free", "file thread", "push thread"},
         reported' \in [Names -> Files],
         LockHeld', LockFollows',
         push_thread.pc # "receive" =>
           \A m \in Names \ unseen : Reported(m)'
  PROVE  IInv'
<1>1. UNCHANGED <<file, push_thread, io, stream, server, process, commands,
                  pushes, unseen>>
  BY DEF FileStep
<1>2. TypeOK'
  BY <1>1 DEF IInv, TypeOK
<1>3. NamesKnown'
  BY <1>1 DEF IInv, NamesKnown
<1>4. FilesUnpushed'
  BY <1>1 DEF IInv, FilesUnpushed
<1>5. AllReported'
  BY <1>1 DEF AllReported
<1>6. QED
  BY <1>2, <1>3, <1>4, <1>5 DEF IInv

(* What a step of the file thread has of the state before. *)
LEMMA FileKnows ==
  ASSUME IInv
  PROVE  /\ watching \in BOOLEAN
         /\ events \in Seq(Events) /\ batch \in Seq(Events)
         /\ watcher_push_lock \in {"free", "file thread", "push thread"}
         /\ file \in [Names -> Files] /\ reported \in [Names -> Files]
         /\ LockHeld
  BY DEF IInv, TypeOK

(* The first event is handled: the others remain, as they are. *)
LEMMA FirstHandled ==
  ASSUME IInv, batch # << >>
  PROVE  /\ Head(batch) \in Events /\ Tail(batch) \in Seq(Events)
         /\ Head(batch).name \in Names
         /\ Head(batch) = Event(Head(batch).mask, Head(batch).name)
<1>1. Head(batch) \in Events /\ Tail(batch) \in Seq(Events)
  BY FileKnows, HeadTailProperties
<1>2. QED
  BY <1>1, EventRead

(* A file that the first event is not about is as well reported without.   *)
LEMMA OthersReported ==
  ASSUME IInv, batch # << >>, batch' = Tail(batch),
         UNCHANGED <<file, io, events>>,
         NEW m \in Names, m # Head(batch).name, reported'[m] = reported[m],
         Reported(m)
  PROVE  Reported(m)'
<1>1. Head(batch) # Event("DELETE", m) /\ Head(batch) # Event("CLOSE_WRITE", m)
  BY FirstHandled, EventsDiffer
<1>2. /\ Deleted(Tail(batch), m) <=> Deleted(batch, m)
      /\ Written(Tail(batch), m) <=> Written(batch, m)
  BY <1>1, FileKnows, FirstEvent
<1>3. Copying(m)' <=> Copying(m)
  BY DEF Copying
<1>4. QED
  BY <1>2, <1>3 DEF Reported, ToReport, DeletePending, WritePending

LEMMA AddWatchKeeps ==
  ASSUME IInv, AddWatch
  PROVE  IInv'
<1>1. /\ FileStep("start") /\ file_thread = "start"
      /\ watching' = TRUE /\ file_thread' = "read"
      /\ UNCHANGED <<watcher_push_lock, events, batch, reported>>
      /\ UNCHANGED <<file, push_thread, io, unseen>>
  BY DEF AddWatch, FileStep
<1>2. LockHeld'
  BY <1>1, FileKnows DEF LockHeld
<1>3. LockFollows'
  BY <1>1 DEF LockFollows
<1>4. ASSUME push_thread.pc # "receive"
      PROVE  \A m \in Names \ unseen : Reported(m)'
  <2>1. \A m \in Names : file'[m] = file[m] /\ (Copying(m)' <=> Copying(m))
    BY <1>1 DEF Copying
  <2>2. QED
    BY <1>1, <1>4, <2>1, BeforePush, UntoldReports
<1>5. QED
  BY <1>1, <1>2, <1>3, <1>4, FileKnows, FileFrame

LEMMA ReadEventsKeeps ==
  ASSUME IInv, ReadEvents
  PROVE  IInv'
<1>1. /\ FileStep("read") /\ file_thread = "read"
      /\ batch = << >> /\ batch' = events /\ events' = << >>
      /\ UNCHANGED <<watcher_push_lock, watching, file_thread, reported>>
      /\ UNCHANGED <<file, push_thread, io, unseen>>
  BY DEF ReadEvents, FileStep
<1>2. LockHeld'
  BY <1>1, FileKnows DEF LockHeld
<1>3. LockFollows'
  BY <1>1 DEF LockFollows
<1>4. ASSUME push_thread.pc # "receive", NEW m \in Names \ unseen
      PROVE  Reported(m)'
  <2>1. Reported(m)
    BY <1>4, BeforePush
  <2>2. /\ ~Deleted(batch, m) /\ ~Written(batch, m)
        /\ ~Deleted(events', m) /\ ~Written(events', m)
    BY <1>1, NoEvents
  <2>3. Copying(m)' <=> Copying(m)
    BY <1>1 DEF Copying
  <2>4. QED
    BY <1>1, <2>1, <2>2, <2>3
       DEF Reported, ToReport, DeletePending, WritePending
<1>5. events' \in Seq(Events) /\ batch' \in Seq(Events)
  BY <1>1, FileKnows
<1>6. file_thread' \in {"start", "read", "locked"}
  BY <1>1
<1>7. QED
  BY <1>1, <1>2, <1>3, <1>4, <1>5, <1>6, FileKnows, FileFrame

LEMMA LockForWriteKeeps ==
  ASSUME IInv, LockForWrite
  PROVE  IInv'
<1>1. /\ FileStep("read") /\ file_thread = "read"
      /\ watcher_push_lock = "free" /\ watcher_push_lock' = "file thread"
      /\ file_thread' = "locked"
      /\ batch # << >> /\ Head(batch).mask = "CLOSE_WRITE"
      /\ UNCHANGED <<watching, events, batch, reported>>
      /\ UNCHANGED <<file, push_thread, io, unseen>>
  BY DEF LockForWrite, TakesForWrite, FileStep
<1>2. push_thread.pc # "receive"
  BY <1>1, LockPlaces
<1>3. LockHeld'
  BY <1>1, <1>2 DEF LockHeld
<1>4. LockFollows'
  BY <1>1, <1>2 DEF LockFollows
<1>5. \A m \in Names \ unseen : Reported(m)'
  <2>1. \A m \in Names : file'[m] = file[m] /\ (Copying(m)' <=> Copying(m))
    BY <1>1 DEF Copying
  <2>2. QED
    BY <1>1, <1>2, <2>1, BeforePush, UntoldReports
<1>6. QED
  BY <1>1, <1>3, <1>4, <1>5, FileKnows, FileFrame

(* The write of a file is reported as the file is now.  A delete that      *)
(* comes after was told of after, and so was a write that follows it.      *)
LEMMA SendWriteKeeps ==
  ASSUME IInv, SendWrite
  PROVE  IInv'
<1>1. file_thread = "locked" /\ push_thread.pc # "receive"
  BY LockPlaces DEF SendWrite, Writes, FileStep
<1>2. batch # << >> /\ Head(batch).mask = "CLOSE_WRITE"
  BY <1>1 DEF IInv, LockFollows
<1>3. PICK k \in Names : k = Head(batch).name
  BY <1>2, FirstHandled
<1>4. Head(batch) = Event("CLOSE_WRITE", k)
  BY <1>2, <1>3, FirstHandled
<1>5. /\ FileStep("locked")
      /\ reported' = [reported EXCEPT ![k] = IF file[k] = Absent THEN @ ELSE file[k]]
      /\ batch' = Tail(batch)
      /\ watcher_push_lock' = "free" /\ file_thread' = "read"
      /\ UNCHANGED <<watching, events>>
      /\ UNCHANGED <<file, push_thread, io, unseen>>
  BY <1>3 DEF SendWrite, Writes, FileStep
<1>6. /\ reported' \in [Names -> Files]
      /\ reported'[k] = IF file[k] = Absent THEN reported[k] ELSE file[k]
      /\ \A m \in Names : m # k => reported'[m] = reported[m]
  BY <1>5, FileKnows
<1>7. LockHeld'
  BY <1>1, <1>5 DEF LockHeld
<1>8. LockFollows'
  BY <1>5 DEF LockFollows
<1>9. ASSUME NEW m \in Names \ unseen
      PROVE  Reported(m)'
  <2>1. Reported(m)
    BY <1>1, BeforePush
  <2>2. CASE m # k
    BY <1>2, <1>3, <1>5, <1>6, <2>1, <2>2, OthersReported
  <2>3. CASE m = k
    <3>1. Head(batch) # Event("DELETE", k)
      BY <1>4, EventsDiffer
    <3>2. /\ Deleted(batch, k) <=> Deleted(Tail(batch), k)
          /\ Written(batch, k) <=>
               Written(Tail(batch), k) \/ ~Deleted(Tail(batch), k)
      BY <1>2, <1>4, <3>1, FileKnows, FirstEvent
    <3>3. Copying(k)' <=> Copying(k)
      BY <1>5 DEF Copying
    <3>4. CASE file[k] = Absent
      BY <1>5, <1>6, <2>1, <2>3, <3>2, <3>4
         DEF Reported, ToReport, DeletePending
    <3>5. CASE file[k] # Absent
      BY <1>5, <1>6, <2>1, <2>3, <3>2, <3>3, <3>5
         DEF Reported, ToReport, DeletePending, WritePending
    <3>6. QED
      BY <3>4, <3>5
  <2>4. QED
    BY <2>2, <2>3
<1>10. batch' \in Seq(Events)
  BY <1>2, <1>5, FirstHandled
<1>11. QED
  BY <1>5, <1>6, <1>7, <1>8, <1>9, <1>10, FileKnows, FileFrame

(* The delete of a file that is there again: a write was told of since.    *)
LEMMA SendDeleteKeeps ==
  ASSUME IInv, SendDelete
  PROVE  IInv'
<1>1. batch # << >> /\ Head(batch).mask = "DELETE"
  BY DEF SendDelete, Deletes
<1>2. PICK k \in Names : k = Head(batch).name
  BY <1>1, FirstHandled
<1>3. Head(batch) = Event("DELETE", k)
  BY <1>1, <1>2, FirstHandled
<1>4. /\ FileStep("read") /\ file_thread = "read"
      /\ reported' = [reported EXCEPT ![k] = Absent]
      /\ batch' = Tail(batch)
      /\ UNCHANGED <<watcher_push_lock, watching, events, file_thread>>
      /\ UNCHANGED <<file, push_thread, io, unseen>>
  BY <1>2 DEF SendDelete, Deletes, FileStep
<1>5. /\ reported' \in [Names -> Files] /\ reported'[k] = Absent
      /\ \A m \in Names : m # k => reported'[m] = reported[m]
  BY <1>4, FileKnows, FilesKnown
<1>6. LockHeld'
  BY <1>4, FileKnows DEF LockHeld
<1>7. LockFollows'
  BY <1>4 DEF LockFollows
<1>8. ASSUME push_thread.pc # "receive", NEW m \in Names \ unseen
      PROVE  Reported(m)'
  <2>1. Reported(m)
    BY <1>8, BeforePush
  <2>2. CASE m # k
    BY <1>1, <1>2, <1>4, <1>5, <2>1, <2>2, OthersReported
  <2>3. CASE m = k
    <3>1. Head(batch) # Event("CLOSE_WRITE", k)
      BY <1>3, EventsDiffer
    <3>2. Deleted(batch, k) /\ (Written(batch, k) <=> Written(Tail(batch), k))
      BY <1>1, <1>3, <3>1, FileKnows, FirstEvent
    <3>3. Copying(k)' <=> Copying(k)
      BY <1>4 DEF Copying
    <3>4. QED
      BY <1>4, <1>5, <2>1, <2>3, <3>2, <3>3
         DEF Reported, ToReport, DeletePending, WritePending
  <2>4. QED
    BY <2>2, <2>3
<1>9. batch' \in Seq(Events)
  BY <1>1, <1>4, FirstHandled
<1>10. file_thread' \in {"start", "read", "locked"}
  BY <1>4
<1>11. QED
  BY <1>4, <1>5, <1>6, <1>7, <1>8, <1>9, <1>10, FileKnows, FileFrame

LEMMA FileKeeps ==
  ASSUME IInv, FileThread
  PROVE  IInv'
  BY AddWatchKeeps, ReadEventsKeeps, LockForWriteKeeps, SendWriteKeeps,
     SendDeleteKeeps DEF FileThread

(* The packets that name files are packets. *)
LEMMA StreamTyped ==
  ASSUME NEW s \in Seq(NamingPackets)
  PROVE  s \in Seq(Packets)
<1>1. NamingPackets \subseteq Packets
  BY DEF NamingPackets
<1>2. /\ Len(s) \in Nat /\ s = [i \in 1..Len(s) |-> s[i]]
      /\ \A i \in 1..Len(s) : s[i] \in NamingPackets
  BY LenProperties, ElementOfSeq
<1>3. \A i \in 1..Len(s) : s[i] \in Packets
  BY <1>1, <1>2
<1>4. QED
  BY <1>2, <1>3, IsASeq

(* What a step of the push thread has to keep. *)
LEMMA PushFrame ==
  ASSUME IInv, NEW from, PushStep(from),
         file' \in [Names -> Files],
         watcher_push_lock' \in {"free", "file thread", "push thread"},
         events' \in Seq(Events), unseen' \subseteq Names,
         push_thread' \in PushThreads,
         push_thread'.pc # "wait" => push_thread'.name \in Names,
         stream' \in Seq(NamingPackets),
         process' \in {"running", "terminated"},
         LockHeld',
         file_thread = "locked" => push_thread'.pc # "receive",
         push_thread'.pc # "receive" =>
           /\ \A m \in Names : file'[m] \in Unpushed
           /\ \A m \in Names \ unseen' : Reported(m)'
  PROVE  IInv'
<1>1. UNCHANGED <<watching, batch, file_thread, io, server, commands, pushes,
                  reported>>
  BY DEF PushStep
<1>2. TypeOK'
  BY <1>1, StreamTyped DEF IInv, TypeOK
<1>3. NamesKnown'
  BY <1>1 DEF IInv, NamesKnown
<1>4. LockFollows'
  BY <1>1 DEF IInv, LockFollows
<1>5. FilesUnpushed'
  BY <1>1 DEF IInv, FilesUnpushed
<1>6. AllReported'
  BY <1>1 DEF AllReported
<1>7. QED
  BY <1>2, <1>3, <1>4, <1>5, <1>6 DEF IInv

(* What a step of the push thread has of the state before. *)
LEMMA PushKnows ==
  ASSUME IInv
  PROVE  /\ push_thread \in PushThreads
         /\ push_thread.name \in Names \cup {Absent}
         /\ push_thread.pc # "wait" => push_thread.name \in Names
         /\ stream \in Seq(NamingPackets)
         /\ file \in [Names -> Files]
         /\ watcher_push_lock \in {"free", "file thread", "push thread"}
         /\ events \in Seq(Events) /\ unseen \subseteq Names
         /\ process \in {"running", "terminated"}
         /\ LockHeld
<1>1. push_thread \in PushThreads
  BY DEF IInv, TypeOK
<1>2. push_thread.name \in Names \cup {Absent}
  BY <1>1 DEF PushThreads
<1>3. QED
  BY <1>1, <1>2 DEF IInv, TypeOK, NamesKnown

(* A step that leaves the lock to whom it was.                             *)
LEMMA LockStays ==
  ASSUME IInv, NEW from, PushStep(from), from # "receive",
         UNCHANGED watcher_push_lock, push_thread'.pc # "receive"
  PROVE  LockHeld'
  BY PushKnows DEF LockHeld, PushStep

(* The steps of the push thread that leave the directory as it is. *)
LEMMA PushQuiet ==
  ASSUME IInv, NEW from, PushStep(from), push_thread.pc # "receive",
         UNCHANGED <<file, events, unseen>>
  PROVE  /\ \A m \in Names : file'[m] \in Unpushed
         /\ \A m \in Names \ unseen' : Reported(m)'
<1>1. \A m \in Names : file'[m] = file[m] /\ (Copying(m)' <=> Copying(m))
  BY DEF Copying, PushStep
<1>2. UNCHANGED <<batch, events, unseen, reported>>
  BY DEF PushStep
<1>3. QED
  BY <1>1, <1>2, BeforePush, UntoldReports

(* A packet that says what the server pushes. *)
LEMMA PushReceivesKeeps ==
  ASSUME IInv, NEW type \in {"WRITE", "DELETE"}, NEW to \in {"clear", "look"},
         PushReceives(type, to)
  PROVE  IInv'
<1>1. /\ PushStep("wait") /\ push_thread.pc = "wait"
      /\ stream # << >> /\ Head(stream).type = type /\ stream' = Tail(stream)
      /\ push_thread' = [pc |-> to, name |-> Head(stream).text]
      /\ UNCHANGED <<file, events, unseen, watcher_push_lock, process>>
  BY DEF PushReceives, PushStep, Untold
<1>2. Head(stream) \in NamingPackets /\ stream' \in Seq(NamingPackets)
  BY <1>1, PushKnows, HeadTailProperties
<1>3. Head(stream).text \in Names
  BY <1>1, <1>2 DEF NamingPackets
<1>4. /\ push_thread' \in PushThreads
      /\ push_thread'.pc = to /\ push_thread'.name \in Names
  BY <1>1, <1>3 DEF PushThreads
<1>5. push_thread'.pc # "receive"
  BY <1>4
<1>6. LockHeld'
  BY <1>1, <1>5, LockStays
<1>7. QED
  BY <1>1, <1>2, <1>4, <1>5, <1>6, PushKnows, PushQuiet, PushFrame

LEMMA ClearFileKeeps ==
  ASSUME IInv, ClearFile
  PROVE  IInv'
<1>1. PICK k \in Names : k = push_thread.name
  BY PushKnows DEF ClearFile, PushStep
<1>2. /\ PushStep("clear") /\ push_thread.pc = "clear"
      /\ file' = [file EXCEPT ![k] = << >>]
      /\ push_thread' = [push_thread EXCEPT !.pc = "lock"]
      /\ Tells("CLOSE_WRITE", k)
      /\ UNCHANGED <<watcher_push_lock, stream, process, io, batch, reported>>
  BY <1>1 DEF ClearFile, PushStep, PushGoes
<1>3. push_thread' \in PushThreads /\ push_thread'.pc = "lock"
      /\ push_thread'.name = k
  BY <1>1, <1>2, PushKnows, PushPlace
<1>4. /\ file' \in [Names -> Files] /\ file'[k] = << >>
      /\ \A m \in Names : m # k => file'[m] = file[m]
  BY <1>2, PushKnows, FilesKnown
<1>5. events' \in Seq(Events) /\ unseen' \subseteq Names
  BY <1>2, TellsTyped DEF IInv
<1>6. LockHeld'
  BY <1>2, <1>3, LockStays
<1>7. \A m \in Names : file'[m] \in Unpushed
  BY <1>2, <1>4, BeforePush DEF Unpushed
<1>8. \A m \in Names \ unseen' : Reported(m)'
  <2>1. \A m \in Names : Copying(m)' <=> Copying(m)
    BY <1>2 DEF Copying
  <2>2. file'[k] # Absent
    BY <1>4, FilesKnown
  <2>3. TypeOK /\ \A m \in Names \ unseen : Reported(m)
    BY <1>2, BeforePush DEF IInv
  <2>4. QED
    BY <1>2, <1>4, <2>1, <2>2, <2>3, TellsReports
<1>9. stream' \in Seq(NamingPackets) /\ push_thread'.pc # "receive"
  BY <1>2, <1>3, PushKnows
<1>10. QED
  BY <1>2, <1>3, <1>4, <1>5, <1>6, <1>7, <1>8, <1>9, PushKnows, PushFrame

LEMMA LockForPushKeeps ==
  ASSUME IInv, LockForPush
  PROVE  IInv'
<1>1. PICK k \in Names : k = push_thread.name
  BY PushKnows DEF LockForPush, TakesForPush, PushStep
<1>2. /\ PushStep("lock") /\ push_thread.pc = "lock"
      /\ watcher_push_lock = "free" /\ watcher_push_lock' = "push thread"
      /\ push_thread' = [push_thread EXCEPT !.pc = "receive"]
      /\ UNCHANGED <<file, stream, process, events, unseen, file_thread>>
  BY <1>1 DEF LockForPush, TakesForPush, PushStep, PushGoes, Untold
<1>3. push_thread' \in PushThreads /\ push_thread'.pc = "receive"
      /\ push_thread'.name = k
  BY <1>1, <1>2, PushKnows, PushPlace
<1>4. file_thread # "locked"
  BY <1>2, LockPlaces
<1>5. LockHeld'
  BY <1>2, <1>3, <1>4 DEF LockHeld
<1>6. QED
  BY <1>2, <1>3, <1>4, <1>5, PushKnows, PushFrame

(* Once the push thread has the lock, only types are kept. *)
LEMMA ReceiveFileKeeps ==
  ASSUME IInv, ReceiveFile
  PROVE  IInv'
<1>1. PICK k \in Names : k = push_thread.name
  BY PushKnows DEF ReceiveFile, PushStep
<1>2. /\ PushStep("receive") /\ push_thread.pc = "receive"
      /\ stream # << >> /\ stream' = Tail(stream)
      /\ file' = [file EXCEPT ![k] = writeFile(@, Head(stream).text)]
      /\ Tells("CLOSE_WRITE", k)
      /\ UNCHANGED <<watcher_push_lock, push_thread, process, file_thread>>
  BY <1>1 DEF ReceiveFile, PushStep
<1>3. Head(stream) \in NamingPackets /\ stream' \in Seq(NamingPackets)
  BY <1>2, PushKnows, HeadTailProperties
<1>4. PICK t \in Texts : t = Head(stream).text
  BY <1>3 DEF NamingPackets, Packets
<1>5. writeFile(file[k], t) \in Files
  <2>1. file[k] \in Files
    BY PushKnows
  <2>2. CASE file[k] = Absent
    <3>1. ASSUME NEW S, NEW e \in S
          PROVE  <<e>> \in Seq(S)
      OBVIOUS
    <3>2. <<t>> \in Seq(Texts)
      BY <3>1
    <3>3. QED
      BY <2>2, <3>2 DEF writeFile, Files
  <2>3. CASE file[k] # Absent
    <3>1. file[k] \in Seq(Texts)
      BY <2>1, <2>3 DEF Files
    <3>2. Append(file[k], t) \in Seq(Texts)
      BY <3>1, AppendProperties
    <3>3. QED
      BY <2>3, <3>2 DEF writeFile, Files
  <2>4. QED
    BY <2>2, <2>3
<1>6. file' \in [Names -> Files]
  BY <1>2, <1>4, <1>5, PushKnows
<1>7. events' \in Seq(Events) /\ unseen' \subseteq Names
  BY <1>2, TellsTyped DEF IInv
<1>8. LockHeld'
  BY <1>2, PushKnows DEF LockHeld
<1>9. file_thread # "locked"
  BY <1>2, LockPlaces
<1>10. QED
  BY <1>1, <1>2, <1>3, <1>6, <1>7, <1>8, <1>9, PushKnows, PushFrame

LEMMA PushKeeps ==
  ASSUME IInv, PushThread
  PROVE  IInv'
<1>1. ASSUME PushLooks
      PROVE  IInv'
  <2>1. PICK pc \in {"wait", "remove"} :
          push_thread' = [push_thread EXCEPT !.pc = pc]
    BY <1>1 DEF PushLooks, PushGoes
  <2>2. /\ PushStep("look") /\ push_thread.pc = "look"
        /\ UNCHANGED <<file, events, unseen, watcher_push_lock, stream, process>>
    BY <1>1 DEF PushLooks, PushStep, Untold
  <2>3. /\ push_thread' \in PushThreads /\ push_thread'.pc = pc
        /\ push_thread'.name = push_thread.name
    <3>1. pc \in {"wait", "clear", "lock", "receive", "look", "remove"}
      OBVIOUS
    <3>2. push_thread \in PushThreads
      BY PushKnows
    <3>3. QED
      BY <2>1, <3>1, <3>2, PushPlace
  <2>4. push_thread'.pc # "receive" /\ push_thread'.name \in Names
    BY <2>2, <2>3, PushKnows
  <2>5. LockHeld'
    BY <2>2, <2>4, LockStays
  <2>6. stream' \in Seq(NamingPackets)
    BY <2>2, PushKnows
  <2>7. QED
    BY <2>2, <2>3, <2>4, <2>5, <2>6, PushKnows, PushQuiet, PushFrame
<1>2. ASSUME PushRemoves
      PROVE  IInv'
  <2>1. PICK k \in Names : k = push_thread.name
    BY <1>2, PushKnows DEF PushRemoves, PushStep
  <2>2. /\ PushStep("remove") /\ push_thread.pc = "remove" /\ Removes(k)
        /\ push_thread' = [push_thread EXCEPT !.pc = "wait"]
        /\ UNCHANGED <<watcher_push_lock, stream, io, batch, reported>>
    BY <1>2, <2>1 DEF PushRemoves, PushStep, PushGoes
  <2>3. push_thread' \in PushThreads /\ push_thread'.pc = "wait"
    BY <2>2, PushKnows, PushPlace
  <2>4. \A n \in Names : Copying(n)' <=> Copying(n)
    BY <2>2 DEF Copying
  <2>5. LockHeld'
    BY <2>2, <2>3, LockStays
  <2>6. stream' \in Seq(NamingPackets)
    BY <2>2, PushKnows
  <2>7. /\ file' \in [Names -> Files]
        /\ events' \in Seq(Events) /\ unseen' \subseteq Names
        /\ process' \in {"running", "terminated"}
        /\ \A m \in Names : file'[m] \in Unpushed
        /\ \A m \in Names \ unseen' : Reported(m)'
    BY <2>2, <2>4, RemovesKeeps
  <2>8. QED
    BY <2>2, <2>3, <2>5, <2>6, <2>7, PushKnows, PushFrame
<1>3. ASSUME ReceiveFails
      PROVE  IInv'
  <2>1. PICK from \in {"wait", "receive"} : PushStep(from)
    BY <1>3 DEF ReceiveFails
  <2>2. /\ push_thread.pc = from /\ process' = "terminated"
        /\ UNCHANGED <<file, watcher_push_lock, push_thread, stream, events,
                       unseen, file_thread>>
    BY <1>3, <2>1 DEF ReceiveFails, PushStep, Untold
  <2>3. LockHeld'
    BY <2>2, PushKnows DEF LockHeld
  <2>4. file_thread = "locked" => push_thread'.pc # "receive"
    BY <2>2, LockPlaces
  <2>5. push_thread'.pc # "receive" =>
          /\ \A m \in Names : file'[m] \in Unpushed
          /\ \A m \in Names \ unseen' : Reported(m)'
    BY <2>1, <2>2, PushQuiet
  <2>6. stream' \in Seq(NamingPackets)
    BY <2>2, PushKnows
  <2>7. QED
    BY <2>1, <2>2, <2>3, <2>4, <2>5, <2>6, PushKnows, PushFrame
<1>4. QED
  BY <1>1, <1>2, <1>3, PushReceivesKeeps, ClearFileKeeps, LockForPushKeeps,
     ReceiveFileKeeps DEF PushThread, ReceiveWrite, ReceiveDelete

(* What the server pushes are packets that name files. *)
LEMMA PushedPackets ==
  ASSUME NEW n \in Names, NEW f \in Pushed \cup {Absent}
  PROVE  /\ <<Packet("WRITE", n)>> \o sendFileInChunks(f) \in Seq(NamingPackets)
         /\ <<Packet("DELETE", n)>> \in Seq(NamingPackets)
<1>1. ASSUME NEW S, NEW e \in S
      PROVE  <<e>> \in Seq(S)
  OBVIOUS
<1>2. n \in Texts
  BY ClientAssumption
<1>3. ASSUME NEW type \in {"WRITE", "DELETE"}
      PROVE  Packet(type, n) \in NamingPackets
  BY <1>2 DEF NamingPackets, Packets, Packet
<1>4. ASSUME NEW type \in {"DATA", "END_OF_FILE"}, NEW text \in Texts
      PROVE  Packet(type, text) \in NamingPackets
  BY DEF NamingPackets, Packets, Packet
<1>5. << >> \in Seq(NamingPackets)
  OBVIOUS
<1>6. sendFileInChunks(f) \in Seq(NamingPackets)
  <2>1. CASE f = Absent
    BY <1>5, <2>1 DEF sendFileInChunks
  <2>2. CASE f # Absent
    <3>1. f \in Seq(Texts)
      BY <2>2, ClientAssumption
    <3>2. DOMAIN f = 1..Len(f) /\ Len(f) \in Nat
      BY <3>1, LenProperties
    <3>3. \A i \in 1..Len(f) : f[i] \in Texts
      BY <3>1, ElementOfSeq
    <3> DEFINE data == [i \in 1..Len(f) |-> Packet("DATA", f[i])]
    <3>4. \A i \in 1..Len(f) : Packet("DATA", f[i]) \in NamingPackets
      BY <1>4, <3>3
    <3>5. data \in Seq(NamingPackets)
      BY <3>2, <3>4, IsASeq
    <3>6. Filler \in Texts
      BY ClientAssumption
    <3>7. Packet("END_OF_FILE", Filler) \in NamingPackets
      BY <1>4, <3>6
    <3>8. <<Packet("END_OF_FILE", Filler)>> \in Seq(NamingPackets)
      BY <1>1, <3>7
    <3>9. sendFileInChunks(f) = data \o <<Packet("END_OF_FILE", Filler)>>
      BY <2>2, <3>2 DEF sendFileInChunks, Chunks
    <3> HIDE DEF data
    <3>10. QED
      BY <3>5, <3>8, <3>9, ConcatProperties
  <2>3. QED
    BY <2>1, <2>2
<1>7. /\ <<Packet("WRITE", n)>> \in Seq(NamingPackets)
      /\ <<Packet("DELETE", n)>> \in Seq(NamingPackets)
  BY <1>1, <1>3
<1>8. QED
  BY <1>6, <1>7, ConcatProperties

LEMMA ServerKeeps ==
  ASSUME IInv, Server
  PROVE  IInv'
<1> DEFINE Kept ==
      /\ UNCHANGED <<file, watcher_push_lock, watching, events, batch,
                     file_thread, push_thread, io, process, commands, reported,
                     unseen>>
      /\ server' \in BOOLEAN /\ pushes' \in 0..MaxPushes
      /\ stream' \in Seq(NamingPackets)
<1>1. Kept
  <2>1. stream \in Seq(NamingPackets) /\ pushes \in 0..MaxPushes
    BY DEF IInv, TypeOK, NamesKnown
  <2>2. ASSUME NEW packets \in Seq(NamingPackets), ServerPushes(packets)
        PROVE  Kept
    <3>1. stream' \in Seq(NamingPackets)
      BY <2>1, <2>2, ConcatProperties DEF ServerPushes
    <3>2. pushes' \in 0..MaxPushes
      BY <2>1, <2>2, ClientAssumption DEF ServerPushes
    <3>3. QED
      BY <2>2, <3>1, <3>2 DEF ServerPushes, ServerStep, threads, IInv, TypeOK
  <2>3. ASSUME ServerLeaves
        PROVE  Kept
    BY <2>1, <2>3 DEF ServerLeaves, ServerStep, threads
  <2>4. QED
    BY <2>2, <2>3, PushedPackets DEF Server
<1>2. TypeOK'
  BY <1>1, StreamTyped DEF IInv, TypeOK, LockHeld
<1>3. NamesKnown'
  BY <1>1 DEF IInv, NamesKnown
<1>4. LockFollows' /\ FilesUnpushed'
  BY <1>1 DEF IInv, LockFollows, FilesUnpushed
<1>5. AllReported'
  <2>1. ASSUME NEW n
        PROVE  Copying(n)' <=> Copying(n)
    BY <1>1 DEF Copying
  <2>2. QED
    BY <1>1, <2>1 DEF IInv, AllReported, Reported
<1>6. QED
  BY <1>2, <1>3, <1>4, <1>5 DEF IInv
-----------------------------------------------------------------------------
(* The theorems *)

LEMMA Initially ==
  ASSUME Init
  PROVE  IInv
<1>1. /\ push_thread = [pc |-> "wait", name |-> Absent]
      /\ io = [pc |-> "wait", name |-> Absent, content |-> Absent]
      /\ file_thread = "start" /\ watcher_push_lock = "free"
      /\ events = << >> /\ batch = << >> /\ stream = << >> /\ unseen = {}
      /\ reported = file /\ file \in [Names -> Contents \cup {Absent}]
  BY DEF Init
<1>2. /\ push_thread \in PushThreads /\ push_thread.pc = "wait"
      /\ io \in IoThreads /\ io.pc = "wait"
  BY <1>1 DEF PushThreads, IoThreads, Files
<1>3. file \in [Names -> Files]
  BY <1>1, FilesKnown
<1>4. << >> \in Seq(Events) /\ << >> \in Seq(NamingPackets)
  OBVIOUS
<1>5. LockHeld
  BY <1>1, <1>2 DEF LockHeld
<1>6. 0 \in 0..MaxCommands /\ 0 \in 0..MaxPushes
  BY ClientAssumption
<1>7. TypeOK
  BY <1>1, <1>2, <1>3, <1>4, <1>5, <1>6, StreamTyped DEF Init, TypeOK
<1>8. NamesKnown /\ LockFollows
  BY <1>1, <1>2, <1>4 DEF NamesKnown, LockFollows
<1>9. FilesUnpushed
  BY <1>1, <1>2 DEF FilesUnpushed, Unpushed
<1>10. AllReported
  <2>1. ASSUME NEW n \in Names
        PROVE  ~DeletePending(batch, events, n)
    BY <1>1, NoEvents DEF DeletePending
  <2>2. QED
    BY <1>1, <2>1 DEF AllReported, Reported, ToReport
<1>11. QED
  BY <1>7, <1>8, <1>9, <1>10 DEF IInv

LEMMA Stutters ==
  ASSUME IInv, UNCHANGED vars
  PROVE  IInv'
<1> USE DEF vars, threads
<1>1. TypeOK'
  BY DEF IInv, TypeOK, LockHeld
<1>2. NamesKnown' /\ LockFollows' /\ FilesUnpushed'
  BY DEF IInv, NamesKnown, LockFollows, FilesUnpushed
<1>3. AllReported'
  <2>1. ASSUME NEW n
        PROVE  Copying(n)' <=> Copying(n)
    BY DEF Copying
  <2>2. QED
    BY <2>1 DEF IInv, AllReported, Reported
<1>4. QED
  BY <1>1, <1>2, <1>3 DEF IInv

LEMMA Invariance == Spec => []IInv
<1>1. Init => IInv
  BY Initially
<1>2. IInv /\ [Next]_vars => IInv'
  BY IoKeeps, FileKeeps, PushKeeps, ServerKeeps, Stutters DEF Next
<1>3. QED
  BY <1>1, <1>2, PTL DEF Spec

(* The variables of the client keep their types, and the lock is held      *)
(* where the code is between lock() and unlock().                          *)
THEOREM TypeCorrect == Spec => []TypeOK
<1>1. IInv => TypeOK
  BY DEF IInv
<1>2. QED
  BY <1>1, Invariance, PTL

(* Whenever the file thread is idle, the server was told what each file is *)
(* now: no upload or delete is lost, however the two are interleaved with  *)
(* the deletes that the server pushes.                                     *)
THEOREM IdleCorrect == Spec => []IdleIsReported
<1>1. IInv => IdleIsReported
  <2> SUFFICES ASSUME IInv, watching, events = << >>, batch = << >>,
                      watcher_push_lock # "push thread",
                      NEW n \in Names \ unseen
               PROVE  \/ reported[n] = file[n]
                      \/ io.pc = "copy" /\ io.name = n
    BY DEF IdleIsReported
  <2>1. push_thread.pc # "receive"
    BY LockPlaces
  <2>2. Reported(n)
    BY <2>1, BeforePush
  <2>3. ~DeletePending(batch, events, n) /\ ~WritePending(batch, events, n)
    BY NoEvents DEF DeletePending, WritePending
  <2>4. QED
    BY <2>2, <2>3 DEF Reported, ToReport, Copying
<1>2. QED
  BY <1>1, Invariance, PTL

(* No part of a file that the server pushes is sent back to it. *)
THEOREM NoPushBackCorrect == Spec => NoPushGoesBack
<1> DEFINE FromUser ==
      \A n \in Names : reported'[n] # reported[n] =>
        reported'[n] \in Contents \cup {Absent, << >>}
<1>1. IInv /\ [Next]_vars => FromUser
  <2> SUFFICES ASSUME IInv, [Next]_vars, NEW n \in Names,
                      reported'[n] # reported[n]
               PROVE  reported'[n] \in Unpushed
    BY DEF Unpushed
  <2>1. CASE SendWrite
    <3>1. push_thread.pc # "receive"
      BY <2>1, LockPlaces DEF SendWrite, Writes, FileStep
    <3>2. file[n] \in Unpushed
      BY <3>1, BeforePush
    <3>3. reported'[n] = file[n]
      BY <2>1, FileKnows DEF SendWrite, Writes
    <3>4. QED
      BY <3>2, <3>3
  <2>2. CASE SendDelete
    <3>1. reported'[n] = Absent
      BY <2>2, FileKnows DEF SendDelete, Deletes
    <3>2. QED
      BY <3>1 DEF Unpushed
  <2>3. CASE AddWatch \/ ReadEvents \/ LockForWrite
    BY <2>3 DEF AddWatch, ReadEvents, LockForWrite, TakesForWrite
  <2>4. CASE User \/ IoThread
    BY <2>4 DEF User, IoThread, Delete, Upload, Exit, CloseUpload, IoLooks,
                IoRemoves, IoStep
  <2>5. CASE PushThread
    BY <2>5 DEF PushThread, ReceiveWrite, ReceiveDelete, PushReceives,
                ClearFile, LockForPush, TakesForPush, ReceiveFile, PushLooks,
                PushRemoves, ReceiveFails, PushStep
  <2>6. CASE Server
    BY <2>6 DEF Server, ServerPushes, ServerLeaves, ServerStep
  <2>7. CASE UNCHANGED vars
    BY <2>7 DEF vars
  <2>8. QED
    BY <2>1, <2>2, <2>3, <2>4, <2>5, <2>6, <2>7 DEF Next, FileThread
<1>2. Spec => [][FromUser]_vars
  BY <1>1, Invariance, PTL DEF Spec
<1>3. QED
  BY <1>2 DEF NoPushGoesBack
=============================================================================
