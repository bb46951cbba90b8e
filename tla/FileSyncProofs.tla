--------------------------- MODULE FileSyncProofs ---------------------------
(***************************************************************************)
(* Proofs about the files of a user, for any devices, files and changes:   *)
(* type correctness, that an upload becomes the file and that a file goes  *)
(* missing only for the reasons given, that a download is answered, and    *)
(* that the backup holds what was pushed to it.                            *)
(***************************************************************************)
EXTENDS FileSync, SequenceLemmas, TLAPS

(* The packets that name a file name one of the files. *)
NamingPackets ==
  {p \in Packets : p.type \in {"WRITE", "DELETE"} => p.text \in Names}

FilePackets == {p \in Packets : p.type \in {"DATA", "END_OF_FILE"}}

NamesKnown ==
  /\ \A d \in Devices :
       /\ stream[d] \in Seq(NamingPackets)
       /\ rest[d] \in Seq(FilePackets)
       /\ watcher[d].pc \notin {"loop", "ended"} => watcher[d].name \in Names
       /\ rest[d] # << >> => watcher[d].pc = "send"
  /\ download.pc # "none" => download.name \in Names

(* From createFile of the copy to its end. *)
Copied == {"build", "hash file", "hash copy", "replace", "unchanged", "rename"}

(* What a device that nobody has disturbed knows of file, copy and hash.   *)
UploadAt(w, n_file, n_copy, texts) ==
  /\ w.pc \in {"create file", "create copy"} => texts = << >>
  /\ w.pc \in Copied => n_copy = texts
  /\ w.pc = "hash copy" => w.hash = n_file
  /\ w.pc = "unchanged" => n_file = n_copy

Uploaded(d) ==
  ~disturbed[d] =>
    UploadAt(watcher[d], file[watcher[d].name], file[copy_name[watcher[d].name]],
             upload[d])

AllUploaded == \A d \in Devices : Uploaded(d)

(* Whatever is missing has been deleted, or is about to be replaced, or    *)
(* somebody has disturbed whoever was to replace it.                       *)
MissingFollows ==
  \A n \in Names \ deleted : file[n] = Absent =>
    \E d \in Devices :
      /\ watcher[d].name = n
      /\ \/ watcher[d].pc = "rename"
         \/ watcher[d].pc = "ended" /\ disturbed[d]

(* The file asked for was missing after the test. *)
DownloadFollows ==
  download.pc = "found" /\ file[download.name] = Absent => download.removed

(* Packets that will make what the backup has what it should have.         *)
Completes(packets, n, have, want) ==
  \E f \in Seq(Texts) :
    /\ packets = Chunks(f)
    /\ want[n] = Appended(have[n], f)
    /\ \A m \in Names : m # n => want[m] = have[m]

Pushing(d) ==
  /\ building = watcher[d].name
  /\ \A e \in Devices : e # d => ~Sending(e)
  /\ \/ watcher[d].pc = "read" /\ rest[d] = << >> /\ backup_file = expected
     \/ /\ watcher[d].pc = "send"
        /\ Completes(rest[d], watcher[d].name, backup_file, expected)

NobodyPushes ==
  /\ building = Absent /\ backup_file = expected
  /\ \A d \in Devices : ~Sending(d)

(* One push at a time goes on at the backup. *)
BackupFollows == ~mixed => NobodyPushes \/ \E d \in Devices : Pushing(d)

IInv ==
  /\ TypeOK /\ NamesKnown /\ AllUploaded /\ MissingFollows
  /\ DownloadFollows /\ FoundIsAnswered /\ BackupFollows
-----------------------------------------------------------------------------
(* Files and packets *)

(* Absent is no file. *)
LEMMA FilesKnown ==
  /\ << >> \in Seq(Texts) /\ Seq(Texts) \subseteq Files /\ Absent \in Files
  /\ Absent \notin Seq(Texts) /\ Absent \notin Names
  /\ \A f \in Files : f # Absent => f \in Seq(Texts)
<1>1. << >> \in Seq(Texts)
  OBVIOUS
<1>2. QED
  BY <1>1, FilesAssumption DEF Files

(* The directory has a place for each file and for its copy, which is      *)
(* another.                                                                *)
LEMMA EntriesAre ==
  /\ Names \subseteq Entries
  /\ \A n \in Names : copy_name[n] \in Entries /\ copy_name[n] # n
  BY FilesAssumption DEF Entries

LEMMA OneElement ==
  ASSUME NEW S, NEW e \in S
  PROVE  <<e>> \in Seq(S)
  OBVIOUS

(* The elements of a sequence may be of a larger set. *)
LEMMA LargerSet ==
  ASSUME NEW S, NEW T, S \subseteq T, NEW s \in Seq(S)
  PROVE  s \in Seq(T)
<1>1. /\ Len(s) \in Nat /\ s = [i \in 1..Len(s) |-> s[i]]
      /\ \A i \in 1..Len(s) : s[i] \in S
  BY LenProperties, ElementOfSeq
<1>2. \A i \in 1..Len(s) : s[i] \in T
  BY <1>1
<1>3. QED
  BY <1>1, <1>2, IsASeq

LEMMA PacketIs ==
  ASSUME NEW type \in {"DATA", "END_OF_FILE", "WRITE", "DELETE"}, NEW text \in Texts
  PROVE  /\ Packet(type, text) \in Packets
         /\ Packet(type, text).type = type /\ Packet(type, text).text = text
  BY DEF Packet, Packets

(* The packets of a file are sent one by one, and the last is its end.     *)
LEMMA ChunksOf ==
  ASSUME NEW f \in Seq(Texts)
  PROVE  /\ Chunks(f) \in Seq(FilePackets) /\ Chunks(f) # << >>
         /\ \E p \in ToSet(Chunks(f)) : p.type = "END_OF_FILE"
         /\ f = << >> => /\ Head(Chunks(f)) = Packet("END_OF_FILE", Filler)
                         /\ Tail(Chunks(f)) = << >>
         /\ f # << >> => /\ Head(Chunks(f)) = Packet("DATA", Head(f))
                         /\ Tail(Chunks(f)) = Chunks(Tail(f))
<1> DEFINE Data(g) == [i \in 1..Len(g) |-> Packet("DATA", g[i])]
           last == Packet("END_OF_FILE", Filler)
<1>1. last \in FilePackets /\ <<last>> \in Seq(FilePackets) /\ Len(<<last>>) = 1
  <2>1. Filler \in Texts
    BY FilesAssumption
  <2>2. last \in FilePackets
    BY <2>1, PacketIs DEF FilePackets
  <2> HIDE DEF last
  <2>3. QED
    BY <2>2, OneElement
<1>2. ASSUME NEW g \in Seq(Texts)
      PROVE  /\ Len(g) \in Nat
             /\ Data(g) \in Seq(FilePackets) /\ Len(Data(g)) = Len(g)
             /\ \A i \in 1..Len(g) : Data(g)[i] = Packet("DATA", g[i])
             /\ Chunks(g) = Data(g) \o <<last>>
  <2>1. DOMAIN g = 1..Len(g) /\ Len(g) \in Nat
    BY LenProperties
  <2>2. \A i \in 1..Len(g) : g[i] \in Texts
    BY ElementOfSeq
  <2>3. \A i \in 1..Len(g) : Packet("DATA", g[i]) \in FilePackets
    BY <2>2, PacketIs DEF FilePackets
  <2>4. Data(g) \in Seq(FilePackets)
    BY <2>1, <2>3, IsASeq
  <2>5. Len(Data(g)) = Len(g)
    BY <2>1, <2>4, LenProperties
  <2>6. Chunks(g) = Data(g) \o <<last>>
    BY <2>1 DEF Chunks
  <2>7. QED
    BY <2>1, <2>4, <2>5, <2>6
<1> HIDE DEF Data, last
<1>3. ASSUME NEW g \in Seq(Texts)
      PROVE  /\ Chunks(g) \in Seq(FilePackets) /\ Len(g) \in Nat
             /\ Len(Chunks(g)) = Len(g) + 1
             /\ \A i \in 1..Len(g) : Chunks(g)[i] = Packet("DATA", g[i])
             /\ Chunks(g)[Len(g) + 1] = last
  <2>1. PICK s \in Seq(FilePackets) : s = Data(g)
    BY <1>2
  <2>2. PICK e \in Seq(FilePackets) : e = <<last>>
    BY <1>1
  <2>3. PICK n \in Nat : n = Len(g)
    BY <1>2
  <2>4. Len(s) = n /\ Len(e) = 1 /\ e[1] = last
    BY <1>1, <1>2, <2>1, <2>2, <2>3
  <2>5. /\ s \o e \in Seq(FilePackets) /\ Len(s \o e) = n + 1
        /\ \A i \in 1..n : (s \o e)[i] = s[i]
        /\ (s \o e)[n + 1] = e[1]
    <3>1. /\ s \o e \in Seq(FilePackets) /\ Len(s \o e) = n + 1
          /\ \A i \in 1..(n + 1) :
               (s \o e)[i] = IF i <= n THEN s[i] ELSE e[i - n]
      <4>1. /\ s \o e \in Seq(FilePackets)
            /\ Len(s \o e) = Len(s) + Len(e)
        BY ConcatProperties
      <4>2. \A i \in 1..(Len(s) + Len(e)) :
              (s \o e)[i] = IF i <= Len(s) THEN s[i] ELSE e[i - Len(s)]
        BY ConcatProperties
      <4>3. QED
        BY <2>4, <4>1, <4>2
    <3>2. n + 1 \in 1..(n + 1) /\ ~(n + 1 <= n) /\ (n + 1) - n = 1
      OBVIOUS
    <3>3. \A i \in 1..n : i \in 1..(n + 1) /\ i <= n
      OBVIOUS
    <3>4. (s \o e)[n + 1] = e[1]
      BY <3>1, <3>2
    <3>5. QED
      BY <3>1, <3>3, <3>4
  <2>6. Chunks(g) = s \o e /\ \A i \in 1..n : s[i] = Packet("DATA", g[i])
    BY <1>2, <2>1, <2>2, <2>3
  <2>7. QED
    BY <2>3, <2>4, <2>5, <2>6
<1>4. /\ Chunks(f) \in Seq(FilePackets) /\ Chunks(f) # << >>
      /\ \E p \in ToSet(Chunks(f)) : p.type = "END_OF_FILE"
  <2>1. PICK n \in Nat : n = Len(f)
    BY <1>3
  <2>2. PICK c \in Seq(FilePackets) : c = Chunks(f)
    BY <1>3
  <2>3. Len(c) = n + 1 /\ c[n + 1] = last
    BY <1>3, <2>1, <2>2
  <2>4. n + 1 \in 1..Len(c)
    BY <2>3
  <2>5. last \in ToSet(c)
    BY <2>3, <2>4, ToSetElements
  <2>6. last.type = "END_OF_FILE"
    BY DEF last, Packet
  <2>7. c # << >>
    BY <2>3, EmptySeq
  <2>8. QED
    BY <2>2, <2>5, <2>6, <2>7
<1>5. CASE f = << >>
  <2>1. Len(f) = 0
    BY <1>5
  <2>2. PICK c \in Seq(FilePackets) : c = Chunks(f)
    BY <1>4
  <2>3. Len(c) = 1 /\ c[1] = last /\ c # << >>
    <3>1. Len(f) + 1 = 1
      BY <2>1
    <3>2. Len(c) = Len(f) + 1 /\ c[Len(f) + 1] = last
      BY <1>3, <2>2
    <3>3. QED
      BY <1>4, <2>2, <3>1, <3>2
  <2>4. Head(c) = last /\ Tail(c) \in Seq(FilePackets) /\ Len(Tail(c)) = 0
    BY <2>3, HeadTailProperties
  <2>5. Tail(c) = << >>
    BY <2>4, EmptySeq
  <2>6. QED
    BY <1>4, <1>5, <2>2, <2>4, <2>5 DEF last
<1>6. CASE f # << >>
  <2>1. PICK g \in Seq(Texts) : g = Tail(f)
    BY <1>6, HeadTailProperties
  <2>2. PICK n \in Nat : n = Len(g)
    BY LenProperties
  <2>3. /\ Head(f) = f[1] /\ Len(f) = n + 1
        /\ \A i \in 1..n : g[i] = f[i + 1]
    BY <1>6, <2>1, <2>2, HeadTailProperties, LenProperties
  <2>4. /\ Chunks(f) \in Seq(FilePackets) /\ Len(Chunks(f)) = n + 2
        /\ \A i \in 1..(n + 1) : Chunks(f)[i] = Packet("DATA", f[i])
        /\ Chunks(f)[n + 2] = last
    <3>1. /\ Chunks(f) \in Seq(FilePackets) /\ Len(Chunks(f)) = Len(f) + 1
          /\ \A i \in 1..Len(f) : Chunks(f)[i] = Packet("DATA", f[i])
          /\ Chunks(f)[Len(f) + 1] = last
      BY <1>3
    <3>2. Len(f) = n + 1 /\ Len(f) + 1 = n + 2
      BY <2>3
    <3>3. QED
      BY <3>1, <3>2
  <2>5. /\ Chunks(g) \in Seq(FilePackets) /\ Len(Chunks(g)) = n + 1
        /\ \A i \in 1..n : Chunks(g)[i] = Packet("DATA", g[i])
        /\ Chunks(g)[n + 1] = last
    BY <1>3, <2>2
  <2> DEFINE t == Tail(Chunks(f))
  <2>6. /\ Head(Chunks(f)) = Chunks(f)[1] /\ t \in Seq(FilePackets)
        /\ Len(t) = n + 1
        /\ \A i \in 1..(n + 1) : t[i] = Chunks(f)[i + 1]
    BY <1>4, <2>4, HeadTailProperties
  <2>7. Head(Chunks(f)) = Packet("DATA", Head(f))
    BY <2>3, <2>4, <2>6
  <2> HIDE DEF t
  <2>8. ASSUME NEW i \in 1..(n + 1)
        PROVE  t[i] = Chunks(g)[i]
    <3>1. CASE i = n + 1
      BY <2>4, <2>5, <2>6, <3>1
    <3>2. CASE i \in 1..n
      <4>1. i + 1 \in 1..(n + 1)
        BY <3>2
      <4>2. t[i] = Packet("DATA", f[i + 1])
        BY <2>4, <2>6, <4>1
      <4>3. QED
        BY <2>3, <2>5, <3>2, <4>2
    <3>3. QED
      BY <3>1, <3>2
  <2>9. t = Chunks(g)
    BY <2>5, <2>6, <2>8, SeqEqual
  <2>10. QED
    BY <1>4, <1>6, <2>1, <2>7, <2>9 DEF t
<1>7. QED
  BY <1>4, <1>5, <1>6

(* A text written makes a file. *)
LEMMA WrittenIsFile ==
  ASSUME NEW f \in Files, NEW text \in Texts
  PROVE  writeFile(f, text) \in Files
<1>1. CASE f = Absent
  <2>1. <<text>> \in Seq(Texts)
    BY OneElement
  <2>2. QED
    BY <1>1, <2>1, FilesKnown DEF writeFile
<1>2. CASE f # Absent
  <2>1. f \in Seq(Texts)
    BY <1>2, FilesKnown
  <2>2. Append(f, text) \in Seq(Texts)
    BY <2>1, AppendProperties
  <2>3. QED
    BY <1>2, <2>2, FilesKnown DEF writeFile
<1>3. QED
  BY <1>1, <1>2

(* A text more, or a file more, is appended. *)
LEMMA AppendedIs ==
  ASSUME NEW f \in Files, NEW g \in Seq(Texts)
  PROVE  /\ Appended(f, g) \in Files
         /\ g = << >> => Appended(f, g) = f
         /\ g # << >> => Appended(writeFile(f, Head(g)), Tail(g)) = Appended(f, g)
<1>1. CASE g = << >>
  BY <1>1 DEF Appended
<1>2. CASE g # << >>
  <2>1. PICK x \in Texts : x = Head(g)
    BY <1>2, HeadTailProperties
  <2>2. PICK t \in Seq(Texts) : t = Tail(g)
    BY <1>2, HeadTailProperties
  <2>3. <<x>> \in Seq(Texts)
    BY OneElement
  <2>4. g = <<x>> \o t
    <3>1. /\ Len(g) \in Nat /\ Len(t) \in Nat /\ Len(g) = Len(t) + 1
          /\ g[1] = x /\ \A i \in 1..Len(t) : t[i] = g[i + 1]
      BY <1>2, <2>1, <2>2, HeadTailProperties, LenProperties
    <3>2. Len(<<x>>) = 1 /\ <<x>>[1] = x
      OBVIOUS
    <3> DEFINE c == <<x>> \o t
    <3>3. /\ c \in Seq(Texts) /\ Len(c) = 1 + Len(t)
          /\ \A i \in 1..(1 + Len(t)) :
               c[i] = IF i <= 1 THEN <<x>>[i] ELSE t[i - 1]
      BY <2>3, <3>2, ConcatProperties
    <3> HIDE DEF c
    <3>4. ASSUME NEW i \in 1..Len(g)
          PROVE  g[i] = c[i]
      <4>1. CASE i = 1
        BY <3>1, <3>2, <3>3, <4>1
      <4>2. CASE i # 1
        <5>1. i - 1 \in 1..Len(t) /\ (i - 1) + 1 = i /\ ~(i <= 1)
          BY <3>1, <4>2
        <5>2. c[i] = t[i - 1]
          BY <3>1, <3>3, <5>1
        <5>3. t[i - 1] = g[(i - 1) + 1]
          BY <3>1, <5>1
        <5>4. QED
          BY <5>1, <5>2, <5>3
      <4>3. QED
        BY <4>1, <4>2
    <3>5. QED
      BY <3>1, <3>3, <3>4, SeqEqual DEF c
  <2>5. CASE f = Absent
    <3>1. writeFile(f, x) = <<x>> /\ <<x>> # Absent
      BY <2>3, <2>5, FilesKnown DEF writeFile
    <3>2. Appended(f, g) = g
      BY <1>2, <2>5 DEF Appended
    <3>3. CASE t = << >>
      <4>1. Appended(<<x>>, t) = <<x>> /\ g = <<x>>
        BY <2>3, <2>4, <3>3, ConcatEmptySeq DEF Appended
      <4>2. QED
        BY <1>2, <2>1, <2>2, <3>1, <3>2, <4>1, FilesKnown
    <3>4. CASE t # << >>
      <4>1. Appended(<<x>>, t) = <<x>> \o t
        BY <3>1, <3>4 DEF Appended
      <4>2. QED
        BY <1>2, <2>1, <2>2, <2>4, <3>1, <3>2, <4>1, FilesKnown
    <3>5. QED
      BY <3>3, <3>4
  <2>6. CASE f # Absent
    <3>1. f \in Seq(Texts)
      BY <2>6, FilesKnown
    <3>2. writeFile(f, x) = Append(f, x) /\ Append(f, x) = f \o <<x>>
      BY <2>6, <3>1, AppendIsConcat DEF writeFile
    <3>3. Append(f, x) \in Seq(Texts) /\ Append(f, x) # Absent
      BY <3>1, AppendProperties, FilesKnown
    <3>4. Appended(f, g) = f \o g /\ f \o g \in Seq(Texts)
      BY <1>2, <2>6, <3>1, ConcatProperties DEF Appended
    <3>5. f \o g = (f \o <<x>>) \o t
      BY <2>3, <2>4, <3>1, ConcatAssociative
    <3>6. CASE t = << >>
      <4>1. Appended(Append(f, x), t) = Append(f, x)
        BY <3>6 DEF Appended
      <4>2. (f \o <<x>>) \o t = f \o <<x>>
        BY <2>3, <3>1, <3>6, ConcatProperties, ConcatEmptySeq
      <4>3. QED
        BY <1>2, <2>1, <2>2, <3>2, <3>4, <3>5, <4>1, <4>2, FilesKnown
    <3>7. CASE t # << >>
      <4>1. Appended(Append(f, x), t) = Append(f, x) \o t
        BY <3>3, <3>7 DEF Appended
      <4>2. QED
        BY <1>2, <2>1, <2>2, <3>2, <3>4, <3>5, <4>1, FilesKnown
    <3>8. QED
      BY <3>6, <3>7
  <2>7. QED
    BY <2>5, <2>6
<1>3. QED
  BY <1>1, <1>2
-----------------------------------------------------------------------------
(* Where a watcher is *)

(* Where deleteFile is called, and where each call goes on. *)
LEMMA AfterDeleteIs ==
  /\ DOMAIN AfterDelete = {"replace", "unchanged", "delete"}
  /\ AfterDelete["replace"] = "rename"
  /\ AfterDelete["unchanged"] = "loop"
  /\ AfterDelete["delete"] = "push delete"
  BY DEF AfterDelete

LEMMA PlacesAre ==
  WatcherPC = {"loop", "create file", "create copy", "build", "hash file",
               "hash copy", "rename", "push write", "read", "send", "ended",
               "replace", "unchanged", "delete", "push delete"}
<1>1. {AfterDelete[p] : p \in DOMAIN AfterDelete} =
        {"rename", "loop", "push delete"}
  BY AfterDeleteIs
<1>2. QED
  BY <1>1, AfterDeleteIs DEF WatcherPC

(* A watcher goes on, or has found the file to delete. *)
LEMMA WatcherGoes ==
  ASSUME NEW w \in Watchers, NEW pc \in WatcherPC
  PROVE  /\ [w EXCEPT !.pc = pc] \in Watchers
         /\ [w EXCEPT !.pc = pc].pc = pc
         /\ [w EXCEPT !.pc = pc].name = w.name
         /\ [w EXCEPT !.pc = pc].hash = w.hash
  BY DEF Watchers

LEMMA WatcherFinds ==
  ASSUME NEW w \in Watchers
  PROVE  /\ [w EXCEPT !.found = TRUE] \in Watchers
         /\ [w EXCEPT !.found = TRUE].pc = w.pc
         /\ [w EXCEPT !.found = TRUE].name = w.name
         /\ [w EXCEPT !.found = TRUE].hash = w.hash
  BY DEF Watchers

(* What there is to know of a watcher and its packets. *)
LEMMA WatcherKnows ==
  ASSUME IInv, NEW d \in Devices
  PROVE  /\ watcher[d] \in Watchers /\ watcher[d].pc \in WatcherPC
         /\ watcher[d].name \in Names \cup {Absent}
         /\ watcher[d].hash \in Files /\ watcher[d].found \in BOOLEAN
         /\ watcher[d].pc \notin {"loop", "ended"} => watcher[d].name \in Names
         /\ stream[d] \in Seq(NamingPackets) /\ rest[d] \in Seq(FilePackets)
         /\ rest[d] # << >> => watcher[d].pc = "send"
         /\ disturbed[d] \in BOOLEAN /\ past_end[d] \in BOOLEAN
         /\ upload[d] \in Seq(Texts) /\ Uploaded(d)
<1>1. watcher[d] \in Watchers
  BY DEF IInv, TypeOK
<1>2. /\ watcher[d].pc \in WatcherPC /\ watcher[d].name \in Names \cup {Absent}
      /\ watcher[d].hash \in Files /\ watcher[d].found \in BOOLEAN
  BY <1>1 DEF Watchers
<1>3. QED
  BY <1>1, <1>2 DEF IInv, TypeOK, NamesKnown, AllUploaded

(* The directory has a content, or none, for each name. *)
LEMMA DirectoryKnows ==
  ASSUME IInv
  PROVE  /\ file \in [Entries -> Files]
         /\ watcher \in [Devices -> Watchers]
         /\ stream \in [Devices -> Seq(Packets)]
         /\ upload \in [Devices -> Seq(Texts)]
         /\ disturbed \in [Devices -> BOOLEAN]
         /\ past_end \in [Devices -> BOOLEAN]
         /\ deleted \subseteq Names
         /\ download \in Downloads
  BY DEF IInv, TypeOK

(* Packets that name a file are packets. *)
LEMMA NamingArePackets ==
  ASSUME NEW s \in Seq(NamingPackets)
  PROVE  s \in Seq(Packets)
<1>1. NamingPackets \subseteq Packets
  BY DEF NamingPackets
<1>2. QED
  BY <1>1, LargerSet
-----------------------------------------------------------------------------
(* A step of a watcher in the directory *)

(* The other watchers notice no more of it than what disturbs them. *)
OthersUndisturbed(d) ==
  \A e \in Devices : e # d =>
    /\ disturbed[e] => disturbed'[e]
    /\ ~disturbed'[e] /\ watcher[e].name \in Names =>
         /\ file'[watcher[e].name] = file[watcher[e].name]
         /\ file'[copy_name[watcher[e].name]] = file[copy_name[watcher[e].name]]

(* A file is missing after it for a reason. *)
RemovesForReason(d, w) ==
  /\ \A n \in Names : file[n] # Absent /\ file'[n] = Absent =>
       \/ watcher[d].pc = "delete"
       \/ watcher[d].pc \in {"unchanged", "rename"} /\ n = copy(d)
       \/ w.pc = "rename" /\ w.name = n
  /\ watcher[d].pc = "rename" =>
       \/ file'[watcher[d].name] # Absent
       \/ w.pc = "ended" /\ w.name = watcher[d].name /\ disturbed'[d]

(* The steps of watcher d between the pushes. *)
Moves(d, w) ==
  /\ watcher' = [watcher EXCEPT ![d] = w]
  /\ watcher[d].pc \notin {"read", "send", "ended"}
  /\ w.pc \notin {"read", "send"}
  /\ w.pc \notin {"loop", "ended"} => w.name \in Names

LEMMA Moved ==
  ASSUME IInv, NEW d \in Devices, NEW w \in Watchers, Moves(d, w)
  PROVE  /\ watcher' \in [Devices -> Watchers] /\ watcher'[d] = w
         /\ \A e \in Devices : e # d => watcher'[e] = watcher[e]
  BY DirectoryKnows DEF Moves

LEMMA QuietDownload ==
  ASSUME IInv, NEW d \in Devices, Quietly(d)
  PROVE  /\ download' \in Downloads
         /\ download'.pc = download.pc /\ download'.name = download.name
         /\ download.removed => download'.removed
         /\ DownloadFollows' /\ FoundIsAnswered'
<1>1. download \in Downloads /\ download.removed \in BOOLEAN
  BY DirectoryKnows DEF Downloads
<1>2. PICK gone \in BOOLEAN :
        gone = (download.pc = "found" /\ file'[download.name] = Absent)
  OBVIOUS
<1>3. download' = [download EXCEPT !.removed = @ \/ gone]
  BY <1>2 DEF Quietly
<1>4. /\ download' \in Downloads
      /\ download'.pc = download.pc /\ download'.name = download.name
      /\ download'.removed = (download.removed \/ gone)
  BY <1>1, <1>3 DEF Downloads
<1>5. DownloadFollows'
  BY <1>2, <1>4 DEF DownloadFollows
<1>6. FoundIsAnswered'
  BY <1>4 DEF FoundIsAnswered, IInv
<1>7. QED
  BY <1>4, <1>5, <1>6

LEMMA QuietMissing ==
  ASSUME IInv, NEW d \in Devices, NEW w \in Watchers, Moves(d, w),
         Quietly(d), OthersUndisturbed(d), RemovesForReason(d, w)
  PROVE  MissingFollows' /\ deleted' \subseteq Names
<1>1. deleted' = {n \in Names :
         /\ file'[n] = Absent
         /\ \/ n \in deleted
            \/ file[n] # Absent /\ watcher[d].pc = "delete"
            \/ /\ file[n] # Absent /\ watcher[d].pc \in {"unchanged", "rename"}
               /\ n = copy(d)}
  BY DEF Quietly
<1>2. /\ watcher'[d] = w
      /\ \A e \in Devices : e # d => watcher'[e] = watcher[e]
  BY Moved
<1>3. ASSUME NEW n \in Names \ deleted', file'[n] = Absent
      PROVE  \E e \in Devices :
               /\ watcher'[e].name = n
               /\ \/ watcher'[e].pc = "rename"
                  \/ watcher'[e].pc = "ended" /\ disturbed'[e]
  <2>1. /\ n \notin deleted
        /\ file[n] # Absent =>
             /\ watcher[d].pc # "delete"
             /\ ~(watcher[d].pc \in {"unchanged", "rename"} /\ n = copy(d))
    BY <1>1, <1>3
  <2>2. CASE file[n] # Absent
    BY <1>2, <1>3, <2>1, <2>2 DEF RemovesForReason
  <2>3. CASE file[n] = Absent
    <3>1. PICK e \in Devices :
            /\ watcher[e].name = n
            /\ \/ watcher[e].pc = "rename"
               \/ watcher[e].pc = "ended" /\ disturbed[e]
      BY <2>1, <2>3 DEF IInv, MissingFollows
    <3>2. CASE e # d
      BY <1>2, <3>1, <3>2 DEF OthersUndisturbed
    <3>3. CASE e = d
      <4>1. watcher[d].pc = "rename"
        BY <3>1, <3>3 DEF Moves
      <4>2. w.pc = "ended" /\ w.name = n /\ disturbed'[d]
        BY <1>3, <3>1, <3>3, <4>1 DEF RemovesForReason
      <4>3. QED
        BY <1>2, <4>2
    <3>4. QED
      BY <3>2, <3>3
  <2>4. QED
    BY <2>2, <2>3
<1>4. QED
  BY <1>1, <1>3 DEF MissingFollows

LEMMA QuietBackup ==
  ASSUME IInv, NEW d \in Devices, NEW w \in Watchers, Moves(d, w), Quietly(d)
  PROVE  BackupFollows'
<1>1. /\ UNCHANGED <<rest, building, backup_file, mixed, expected>>
      /\ watcher'[d] = w
      /\ \A e \in Devices : e # d => watcher'[e] = watcher[e]
  BY Moved DEF Quietly, backup
<1>2. ~Sending(d) /\ ~Sending(d)'
  <2>1. rest[d] = << >>
    BY WatcherKnows DEF Moves
  <2>2. QED
    BY <1>1, <2>1 DEF Sending, Moves
<1>3. \A e \in Devices : Sending(e)' <=> Sending(e)
  BY <1>1, <1>2 DEF Sending
<1>4. SUFFICES ASSUME ~mixed
               PROVE  NobodyPushes' \/ \E e \in Devices : Pushing(e)'
  BY <1>1 DEF BackupFollows
<1>5. CASE NobodyPushes
  BY <1>1, <1>3, <1>5 DEF NobodyPushes
<1>6. CASE \E e \in Devices : Pushing(e)
  <2>1. PICK e \in Devices : Pushing(e)
    BY <1>6
  <2>2. e # d
    BY <2>1 DEF Pushing, Moves
  <2>3. watcher'[e] = watcher[e]
    BY <1>1, <2>2
  <2>4. Pushing(e)'
    BY <1>1, <1>3, <2>1, <2>3 DEF Pushing
  <2>5. QED
    BY <2>4
<1>7. QED
  BY <1>4, <1>5, <1>6 DEF IInv, BackupFollows

(* What a step of watcher d between the pushes has to keep. *)
LEMMA QuietFrame ==
  ASSUME IInv, NEW d \in Devices, NEW w \in Watchers, Moves(d, w),
         Quietly(d), OthersUndisturbed(d), RemovesForReason(d, w),
         file' \in [Entries -> Files],
         stream' \in [Devices -> Seq(Packets)],
         stream'[d] \in Seq(NamingPackets),
         \A e \in Devices : e # d =>
           stream'[e] = stream[e] /\ upload'[e] = upload[e],
         upload' \in [Devices -> Seq(Texts)],
         disturbed' \in [Devices -> BOOLEAN],
         past_end' \in [Devices -> BOOLEAN],
         Uploaded(d)'
  PROVE  IInv'
<1>1. /\ watcher' \in [Devices -> Watchers] /\ watcher'[d] = w
      /\ \A e \in Devices : e # d => watcher'[e] = watcher[e]
  BY Moved
<1>2. UNCHANGED <<process, client, operations, rest, building, backup_file,
                  mixed, expected>>
  BY DEF Quietly, backup
<1>3. /\ download' \in Downloads
      /\ download'.pc = download.pc /\ download'.name = download.name
      /\ DownloadFollows' /\ FoundIsAnswered'
  BY QuietDownload
<1>4. MissingFollows' /\ deleted' \subseteq Names
  BY QuietMissing
<1>5. BackupFollows'
  BY QuietBackup
<1>6. TypeOK'
  BY <1>1, <1>2, <1>3, <1>4 DEF IInv, TypeOK
<1>7. NamesKnown'
  <2>1. ASSUME NEW e \in Devices
        PROVE  /\ stream'[e] \in Seq(NamingPackets)
               /\ rest'[e] \in Seq(FilePackets)
               /\ watcher'[e].pc \notin {"loop", "ended"} =>
                    watcher'[e].name \in Names
               /\ rest'[e] # << >> => watcher'[e].pc = "send"
    <3>1. CASE e = d
      BY <1>1, <1>2, <3>1, WatcherKnows DEF Moves
    <3>2. CASE e # d
      BY <1>1, <1>2, <3>2, WatcherKnows
    <3>3. QED
      BY <3>1, <3>2
  <2>2. download'.pc # "none" => download'.name \in Names
    BY <1>3 DEF IInv, NamesKnown
  <2>3. QED
    BY <2>1, <2>2 DEF NamesKnown
<1>8. AllUploaded'
  <2>1. ASSUME NEW e \in Devices
        PROVE  Uploaded(e)'
    <3>1. CASE e = d
      BY <3>1
    <3>2. CASE e # d
      <4>1. SUFFICES ASSUME ~disturbed'[e]
                     PROVE  UploadAt(watcher[e], file'[watcher[e].name],
                                     file'[copy_name[watcher[e].name]], upload[e])
        BY <1>1, <3>2 DEF Uploaded
      <4>2. ~disturbed[e]
        BY <3>2, <4>1 DEF OthersUndisturbed
      <4>3. UploadAt(watcher[e], file[watcher[e].name],
                     file[copy_name[watcher[e].name]], upload[e])
        BY <4>2, WatcherKnows DEF Uploaded
      <4>4. CASE watcher[e].name \in Names
        BY <3>2, <4>1, <4>3, <4>4 DEF OthersUndisturbed
      <4>5. CASE watcher[e].name \notin Names
        <5>1. watcher[e].pc \in {"loop", "ended"}
          BY <4>5, WatcherKnows
        <5>2. QED
          BY <5>1 DEF UploadAt, Copied
      <4>6. QED
        BY <4>4, <4>5
    <3>3. QED
      BY <3>1, <3>2
  <2>2. QED
    BY <2>1 DEF AllUploaded
<1>9. QED
  BY <1>3, <1>4, <1>5, <1>6, <1>7, <1>8 DEF IInv

(* What a change of the directory means to the other devices. *)
LEMMA DisturbsOthers ==
  ASSUME IInv, NEW d \in Devices, Disturbs(d)
  PROVE  /\ disturbed' \in [Devices -> BOOLEAN]
         /\ disturbed'[d] = disturbed[d]
         /\ OthersUndisturbed(d)
<1>1. ASSUME NEW e \in Devices
      PROVE  \E b \in BOOLEAN :
               /\ b = (\E n \in {watcher[e].name} \cap Names :
                         \E m \in {n, copy_name[n]} : file'[m] # file[m])
               /\ disturbed'[e] = (disturbed[e] \/ (e # d /\ b))
  BY DEF Disturbs
<1>2. disturbed' \in [Devices -> BOOLEAN]
  BY DEF Disturbs
<1>3. disturbed'[d] = disturbed[d]
  BY <1>1, WatcherKnows
<1>4. ASSUME NEW e \in Devices, e # d
      PROVE  /\ disturbed[e] => disturbed'[e]
             /\ ~disturbed'[e] /\ watcher[e].name \in Names =>
                  /\ file'[watcher[e].name] = file[watcher[e].name]
                  /\ file'[copy_name[watcher[e].name]] =
                       file[copy_name[watcher[e].name]]
  BY <1>1, <1>4
<1>5. QED
  BY <1>2, <1>3, <1>4 DEF OthersUndisturbed

(* Nothing changes in the directory. *)
LEMMA NothingDisturbed ==
  ASSUME NEW d \in Devices, UNCHANGED file,
         \A e \in Devices : e # d => disturbed'[e] = disturbed[e]
  PROVE  OthersUndisturbed(d)
  BY DEF OthersUndisturbed

LEMMA NothingRemoved ==
  ASSUME NEW d \in Devices, NEW w, UNCHANGED file,
         watcher[d].pc # "rename"
  PROVE  RemovesForReason(d, w)
  BY DEF RemovesForReason

(* What a step on the file or the copy has to keep. *)
LEMMA DirectoryFrame ==
  ASSUME IInv, NEW d \in Devices, NEW w \in Watchers, Moves(d, w),
         DirectoryStep(d), RemovesForReason(d, w),
         file' \in [Entries -> Files],
         ~disturbed[d] =>
           UploadAt(w, file'[w.name], file'[copy_name[w.name]], upload[d])
  PROVE  IInv'
<1>1. Quietly(d) /\ Disturbs(d) /\ UNCHANGED <<stream, upload, past_end>>
  BY DEF DirectoryStep
<1>2. /\ disturbed' \in [Devices -> BOOLEAN]
      /\ disturbed'[d] = disturbed[d] /\ OthersUndisturbed(d)
  BY <1>1, DisturbsOthers
<1>3. watcher'[d] = w
  BY Moved
<1>4. Uploaded(d)'
  BY <1>1, <1>2, <1>3 DEF Uploaded
<1>5. /\ stream' \in [Devices -> Seq(Packets)]
      /\ upload' \in [Devices -> Seq(Texts)]
      /\ past_end' \in [Devices -> BOOLEAN]
      /\ stream'[d] \in Seq(NamingPackets)
  BY <1>1, DirectoryKnows, WatcherKnows
<1>6. QED
  BY <1>1, <1>2, <1>4, <1>5, QuietFrame

(* A packet is taken. *)
LEMMA PacketTaken ==
  ASSUME IInv, NEW d \in Devices, NEW from, Receives(d, from)
  PROVE  /\ watcher[d].pc = from
         /\ Taken(d) \in NamingPackets /\ Taken(d).text \in Texts
         /\ stream' \in [Devices -> Seq(Packets)]
         /\ stream'[d] \in Seq(NamingPackets)
         /\ \A e \in Devices : e # d => stream'[e] = stream[e]
<1>1. /\ watcher[d].pc = from /\ stream[d] # << >>
      /\ stream' = [stream EXCEPT ![d] = Tail(stream[d])]
  BY DEF Receives, At
<1>2. PICK s \in Seq(NamingPackets) : s = stream[d]
  BY WatcherKnows
<1>3. Head(s) \in NamingPackets /\ Tail(s) \in Seq(NamingPackets)
  BY <1>1, <1>2, HeadTailProperties
<1>4. Tail(s) \in Seq(Packets)
  BY <1>3, NamingArePackets
<1>5. /\ stream' \in [Devices -> Seq(Packets)] /\ stream'[d] = Tail(s)
      /\ \A e \in Devices : e # d => stream'[e] = stream[e]
  BY <1>1, <1>2, <1>4, DirectoryKnows
<1>6. Head(s).text \in Texts
  BY <1>3 DEF NamingPackets, Packets
<1>7. QED
  BY <1>1, <1>2, <1>3, <1>5, <1>6 DEF Taken

(* A WRITE or a DELETE begins. *)
LEMMA BeginsKeeps ==
  ASSUME IInv, NEW d \in Devices, Receives(d, "loop"),
         Taken(d).type \in {"WRITE", "DELETE"},
         NEW missing \in {"create file", "loop"},
         NEW found \in {"create copy", "delete"},
         Begins(d, Taken(d).text, missing, found)
  PROVE  IInv'
<1>1. PICK n \in Names : n = Taken(d).text
  BY PacketTaken DEF NamingPackets
<1>2. PICK pc \in {"create file", "loop", "create copy", "delete"} :
        pc = IF file[n] = Absent THEN missing ELSE found
  OBVIOUS
<1>3. pc \in WatcherPC
  BY PlacesAre
<1>4. PICK w : w = [watcher[d] EXCEPT !.name = n, !.pc = pc]
  OBVIOUS
<1>5. w \in Watchers /\ w.pc = pc /\ w.name = n
  <2>1. watcher[d] \in Watchers
    BY WatcherKnows
  <2>2. QED
    BY <1>3, <1>4, <2>1 DEF Watchers
<1>6. watcher' = [watcher EXCEPT ![d] = w]
  <2>1. watcher' = [watcher EXCEPT ![d].name = n, ![d].pc = pc]
    BY <1>1, <1>2 DEF Begins
  <2>2. QED
    BY <1>4, <2>1, DirectoryKnows
<1>7. /\ upload' = [upload EXCEPT ![d] = << >>]
      /\ disturbed' = [disturbed EXCEPT ![d] = FALSE]
      /\ past_end' = [past_end EXCEPT ![d] = FALSE]
      /\ UNCHANGED file /\ Quietly(d)
  BY DEF Begins
<1>8. watcher[d].pc = "loop" /\ Moves(d, w)
  <2>1. watcher[d].pc = "loop"
    BY DEF Receives, At
  <2>2. pc \notin {"read", "send"}
    OBVIOUS
  <2>3. QED
    BY <1>5, <1>6, <2>1, <2>2 DEF Moves
<1>9. /\ upload' \in [Devices -> Seq(Texts)] /\ upload'[d] = << >>
      /\ \A e \in Devices : e # d => upload'[e] = upload[e]
  BY <1>7, DirectoryKnows, FilesKnown
<1>10. /\ disturbed' \in [Devices -> BOOLEAN]
       /\ past_end' \in [Devices -> BOOLEAN]
       /\ \A e \in Devices : e # d => disturbed'[e] = disturbed[e]
  BY <1>7, DirectoryKnows
<1>11. OthersUndisturbed(d)
  BY <1>7, <1>10, NothingDisturbed
<1>12. RemovesForReason(d, w)
  BY <1>7, <1>8, NothingRemoved
<1>13. Uploaded(d)'
  <2>1. watcher'[d] = w
    BY <1>5, <1>8, Moved
  <2>2. w.pc \notin Copied
    BY <1>5 DEF Copied
  <2>3. QED
    BY <1>9, <2>1, <2>2 DEF Uploaded, UploadAt, Copied
<1>14. file' \in [Entries -> Files]
  BY <1>7, DirectoryKnows
<1>15. /\ stream' \in [Devices -> Seq(Packets)]
       /\ stream'[d] \in Seq(NamingPackets)
       /\ \A e \in Devices : e # d => stream'[e] = stream[e]
  BY PacketTaken
<1>16. QED
  BY <1>5, <1>7, <1>8, <1>9, <1>10, <1>11, <1>12, <1>13, <1>14, <1>15,
     QuietFrame

(* Packets that are passed over. *)
LEMMA ReceiveOtherKeeps ==
  ASSUME IInv, NEW d \in Devices, ReceiveOther(d)
  PROVE  IInv'
<1>1. /\ Receives(d, "loop") /\ Quietly(d) /\ UNCHANGED file
      /\ UNCHANGED <<watcher, upload, disturbed, past_end>>
  BY DEF ReceiveOther
<1>2. PICK w \in Watchers : w = watcher[d]
  BY WatcherKnows
<1>3. w.pc = "loop"
  BY <1>1, <1>2, PacketTaken
<1>4. watcher' = [watcher EXCEPT ![d] = w]
  BY <1>1, <1>2, DirectoryKnows
<1>5. Moves(d, w)
  BY <1>2, <1>3, <1>4 DEF Moves
<1>6. OthersUndisturbed(d) /\ RemovesForReason(d, w)
  BY <1>1, <1>2, <1>3, NothingDisturbed, NothingRemoved
<1>7. Uploaded(d)'
  BY <1>1, <1>2, <1>3 DEF Uploaded, UploadAt, Copied
<1>8. /\ file' \in [Entries -> Files]
      /\ upload' \in [Devices -> Seq(Texts)]
      /\ disturbed' \in [Devices -> BOOLEAN]
      /\ past_end' \in [Devices -> BOOLEAN]
      /\ \A e \in Devices : upload'[e] = upload[e]
  BY <1>1, DirectoryKnows
<1>9. /\ stream' \in [Devices -> Seq(Packets)]
      /\ stream'[d] \in Seq(NamingPackets)
      /\ \A e \in Devices : e # d => stream'[e] = stream[e]
  BY <1>1, PacketTaken
<1>10. QED
  BY <1>1, <1>5, <1>6, <1>7, <1>8, <1>9, QuietFrame

LEMMA FailsKeeps ==
  ASSUME IInv, NEW d \in Devices, ReceiveFails(d)
  PROVE  IInv'
<1>1. PICK pc \in {"loop", "build"} : FailsAt(d, pc)
  BY DEF ReceiveFails
<1>2. PICK w : w = [watcher[d] EXCEPT !.pc = "ended"]
  OBVIOUS
<1>3. "ended" \in WatcherPC
  BY PlacesAre
<1>4. w \in Watchers /\ w.pc = "ended" /\ w.name = watcher[d].name
  BY <1>2, <1>3, WatcherKnows, WatcherGoes
<1>5. /\ watcher[d].pc = pc /\ UNCHANGED file /\ DirectoryStep(d)
      /\ watcher' = [watcher EXCEPT ![d] = w]
  BY <1>1, <1>2, DirectoryKnows DEF FailsAt, At, Goes
<1>6. Moves(d, w)
  BY <1>4, <1>5 DEF Moves
<1>7. RemovesForReason(d, w)
  BY <1>5, NothingRemoved
<1>8. UploadAt(w, file'[w.name], file'[copy_name[w.name]], upload[d])
  BY <1>4 DEF UploadAt, Copied
<1>9. file' \in [Entries -> Files]
  BY <1>5, DirectoryKnows
<1>10. QED
  BY <1>4, <1>5, <1>6, <1>7, <1>8, <1>9, DirectoryFrame

LEMMA CreateFileKeeps ==
  ASSUME IInv, NEW d \in Devices, CreateFile(d)
  PROVE  IInv'
<1>1. watcher[d].pc = "create file" /\ DirectoryStep(d)
  BY DEF CreateFile, At
<1>2. PICK n \in Names : n = watcher[d].name
  BY <1>1, WatcherKnows
<1>3. PICK w : w = [watcher[d] EXCEPT !.pc = "create copy"]
  OBVIOUS
<1>4. "create copy" \in WatcherPC
  BY PlacesAre
<1>5. w \in Watchers /\ w.pc = "create copy" /\ w.name = n
  BY <1>2, <1>3, <1>4, WatcherKnows, WatcherGoes
<1>6. /\ file' = [file EXCEPT ![n] = << >>]
      /\ watcher' = [watcher EXCEPT ![d] = w]
  BY <1>2, <1>3, DirectoryKnows DEF CreateFile, Goes
<1>7. /\ file' \in [Entries -> Files]
      /\ \A m \in Names : m # n => file'[m] = file[m]
      /\ file'[n] = << >> /\ << >> # Absent
  BY <1>6, DirectoryKnows, FilesKnown, EntriesAre
<1>8. Moves(d, w)
  BY <1>1, <1>5, <1>6 DEF Moves
<1>9. RemovesForReason(d, w)
  BY <1>1, <1>7 DEF RemovesForReason
<1>10. ASSUME ~disturbed[d]
       PROVE  UploadAt(w, file'[w.name], file'[copy_name[w.name]], upload[d])
  <2>1. upload[d] = << >>
    BY <1>1, <1>10, WatcherKnows DEF Uploaded, UploadAt
  <2>2. QED
    BY <1>5, <2>1 DEF UploadAt, Copied
<1>11. QED
  BY <1>1, <1>5, <1>7, <1>8, <1>9, <1>10, DirectoryFrame

LEMMA CreateCopyKeeps ==
  ASSUME IInv, NEW d \in Devices, CreateCopy(d)
  PROVE  IInv'
<1>1. watcher[d].pc = "create copy" /\ DirectoryStep(d)
  BY DEF CreateCopy, CopyBecomes, At
<1>2. PICK n \in Names : n = watcher[d].name
  BY <1>1, WatcherKnows
<1>3. PICK w : w = [watcher[d] EXCEPT !.pc = "build"]
  OBVIOUS
<1>4. "build" \in WatcherPC
  BY PlacesAre
<1>5. w \in Watchers /\ w.pc = "build" /\ w.name = n
  BY <1>2, <1>3, <1>4, WatcherKnows, WatcherGoes
<1>6. /\ file' = [file EXCEPT ![copy_name[n]] = << >>]
      /\ watcher' = [watcher EXCEPT ![d] = w]
  BY <1>2, <1>3, DirectoryKnows DEF CreateCopy, CopyBecomes, Goes, copy
<1>7. /\ file' \in [Entries -> Files]
      /\ file'[copy_name[n]] = << >> /\ << >> # Absent
      /\ \A m \in Names : m # copy_name[n] => file'[m] = file[m]
  BY <1>2, <1>6, DirectoryKnows, FilesKnown, EntriesAre
<1>8. Moves(d, w)
  BY <1>1, <1>2, <1>5, <1>6 DEF Moves
<1>9. RemovesForReason(d, w)
  BY <1>1, <1>7 DEF RemovesForReason
<1>10. ASSUME ~disturbed[d]
       PROVE  UploadAt(w, file'[w.name], file'[copy_name[w.name]], upload[d])
  <2>1. upload[d] = << >>
    BY <1>1, <1>10, WatcherKnows DEF Uploaded, UploadAt
  <2>2. QED
    BY <1>5, <1>7, <2>1 DEF UploadAt
<1>11. QED
  BY <1>1, <1>5, <1>7, <1>8, <1>9, <1>10, DirectoryFrame

LEMMA BuildWritesKeeps ==
  ASSUME IInv, NEW d \in Devices, BuildWrites(d)
  PROVE  IInv'
<1>1. /\ Receives(d, "build") /\ watcher[d].pc = "build"
      /\ Quietly(d) /\ Disturbs(d) /\ UNCHANGED watcher
  BY DEF BuildWrites, Receives, At
<1>2. PICK n \in Names : n = watcher[d].name
  BY <1>1, WatcherKnows
<1>3. PICK t \in Texts : t = Taken(d).text
  BY <1>1, PacketTaken
<1>4. PICK w \in Watchers : w = watcher[d]
  BY WatcherKnows
<1>5. w.pc = "build" /\ w.name = n
  BY <1>1, <1>2, <1>4
<1>6. /\ file' = [file EXCEPT ![copy_name[n]] = writeFile(file[copy_name[n]], t)]
      /\ upload' = [upload EXCEPT ![d] = Append(upload[d], t)]
      /\ past_end' = [past_end EXCEPT ![d] =
                        past_end[d] \/ Taken(d).type = "END_OF_FILE"]
  BY <1>2, <1>3, DirectoryKnows DEF BuildWrites, copy
<1>7. PICK new \in Files : new = writeFile(file[copy_name[n]], t) /\ new # Absent
  <2>1. file[copy_name[n]] \in Files /\ <<t>> \in Seq(Texts)
    BY DirectoryKnows, EntriesAre, OneElement
  <2>2. CASE file[copy_name[n]] = Absent
    BY <2>1, <2>2, FilesKnown DEF writeFile
  <2>3. CASE file[copy_name[n]] # Absent
    <3>1. Append(file[copy_name[n]], t) \in Seq(Texts)
      BY <2>1, <2>3, FilesKnown, AppendProperties
    <3>2. QED
      BY <2>3, <3>1, FilesKnown DEF writeFile
  <2>4. QED
    BY <2>2, <2>3
<1>8. Append(upload[d], t) \in Seq(Texts)
  BY WatcherKnows, AppendProperties
<1>9. /\ file' \in [Entries -> Files]
      /\ file'[copy_name[n]] = writeFile(file[copy_name[n]], t)
      /\ file'[copy_name[n]] # Absent
      /\ \A m \in Names : m # copy_name[n] => file'[m] = file[m]
  BY <1>6, <1>7, DirectoryKnows, EntriesAre
<1>10. /\ upload' \in [Devices -> Seq(Texts)]
       /\ upload'[d] = Append(upload[d], t)
       /\ \A e \in Devices : e # d => upload'[e] = upload[e]
  BY <1>6, <1>8, DirectoryKnows
<1>11. past_end' \in [Devices -> BOOLEAN]
  <2>1. PICK b \in BOOLEAN : b = (past_end[d] \/ Taken(d).type = "END_OF_FILE")
    BY WatcherKnows
  <2>2. past_end' = [past_end EXCEPT ![d] = b]
    BY <1>6, <2>1
  <2>3. QED
    BY <2>2, DirectoryKnows
<1>12. watcher' = [watcher EXCEPT ![d] = w]
  BY <1>1, <1>4, DirectoryKnows
<1>13. Moves(d, w)
  BY <1>1, <1>5, <1>12 DEF Moves
<1>14. RemovesForReason(d, w)
  BY <1>1, <1>9 DEF RemovesForReason
<1>15. /\ disturbed' \in [Devices -> BOOLEAN]
       /\ disturbed'[d] = disturbed[d] /\ OthersUndisturbed(d)
  BY <1>1, DisturbsOthers
<1>16. Uploaded(d)'
  <2>1. SUFFICES ASSUME ~disturbed[d]
                 PROVE  UploadAt(w, file'[n], file'[copy_name[n]], upload'[d])
    BY <1>1, <1>4, <1>5, <1>15 DEF Uploaded
  <2>2. file[copy_name[n]] = upload[d]
    BY <1>1, <1>2, <2>1, WatcherKnows DEF Uploaded, UploadAt, Copied
  <2>3. file[copy_name[n]] # Absent
    BY <2>2, WatcherKnows, FilesKnown
  <2>4. file'[copy_name[n]] = upload'[d]
    BY <1>9, <1>10, <2>2, <2>3 DEF writeFile
  <2>5. QED
    BY <1>5, <2>4 DEF UploadAt
<1>17. /\ stream' \in [Devices -> Seq(Packets)]
       /\ stream'[d] \in Seq(NamingPackets)
       /\ \A e \in Devices : e # d => stream'[e] = stream[e]
  BY <1>1, PacketTaken
<1>18. QED
  BY <1>1, <1>9, <1>10, <1>11, <1>13, <1>14, <1>15, <1>16, <1>17, QuietFrame

LEMMA BuildEndsKeeps ==
  ASSUME IInv, NEW d \in Devices, BuildEnds(d)
  PROVE  IInv'
<1>1. /\ Receives(d, "build") /\ watcher[d].pc = "build"
      /\ Quietly(d) /\ UNCHANGED file
      /\ UNCHANGED <<upload, disturbed, past_end>>
  BY DEF BuildEnds, Receives, At
<1>2. PICK n \in Names : n = watcher[d].name
  BY <1>1, WatcherKnows
<1>3. PICK w : w = [watcher[d] EXCEPT !.pc = "hash file"]
  OBVIOUS
<1>4. "hash file" \in WatcherPC
  BY PlacesAre
<1>5. w \in Watchers /\ w.pc = "hash file" /\ w.name = n
  BY <1>2, <1>3, <1>4, WatcherKnows, WatcherGoes
<1>6. watcher' = [watcher EXCEPT ![d] = w]
  BY <1>3, DirectoryKnows DEF BuildEnds, Goes
<1>7. Moves(d, w)
  BY <1>1, <1>5, <1>6 DEF Moves
<1>8. OthersUndisturbed(d) /\ RemovesForReason(d, w)
  BY <1>1, NothingDisturbed, NothingRemoved
<1>9. Uploaded(d)'
  <2>1. watcher'[d] = w
    BY <1>5, <1>7, Moved
  <2>2. SUFFICES ASSUME ~disturbed[d]
                 PROVE  UploadAt(w, file[n], file[copy_name[n]], upload[d])
    BY <1>1, <1>5, <2>1 DEF Uploaded
  <2>3. file[copy_name[n]] = upload[d]
    BY <1>1, <1>2, <2>2, WatcherKnows DEF Uploaded, UploadAt, Copied
  <2>4. QED
    BY <1>5, <2>3 DEF UploadAt
<1>10. /\ file' \in [Entries -> Files]
       /\ upload' \in [Devices -> Seq(Texts)]
       /\ disturbed' \in [Devices -> BOOLEAN]
       /\ past_end' \in [Devices -> BOOLEAN]
       /\ \A e \in Devices : upload'[e] = upload[e]
  BY <1>1, DirectoryKnows
<1>11. /\ stream' \in [Devices -> Seq(Packets)]
       /\ stream'[d] \in Seq(NamingPackets)
       /\ \A e \in Devices : e # d => stream'[e] = stream[e]
  BY <1>1, PacketTaken
<1>12. QED
  BY <1>1, <1>5, <1>7, <1>8, <1>9, <1>10, <1>11, QuietFrame

LEMMA HashFileKeeps ==
  ASSUME IInv, NEW d \in Devices, HashFile(d)
  PROVE  IInv'
<1>1. /\ watcher[d].pc = "hash file"
      /\ DirectoryStep(d) /\ UNCHANGED file
  BY DEF HashFile, At
<1>2. PICK n \in Names : n = watcher[d].name
  BY <1>1, WatcherKnows
<1>3. PICK f \in Files : f = file[n]
  BY DirectoryKnows, EntriesAre
<1>4. PICK pc \in {"ended", "hash copy"} :
        pc = IF f = Absent THEN "ended" ELSE "hash copy"
  OBVIOUS
<1>5. PICK w : w = [watcher[d] EXCEPT !.hash = f, !.pc = pc]
  OBVIOUS
<1>6. w \in Watchers /\ w.pc = pc /\ w.name = n /\ w.hash = f
  <2>1. watcher[d] \in Watchers /\ pc \in WatcherPC
    BY WatcherKnows, PlacesAre
  <2>2. QED
    BY <1>2, <1>5, <2>1 DEF Watchers
<1>7. watcher' = [watcher EXCEPT ![d] = w]
  <2>1. watcher' = [watcher EXCEPT ![d].hash = f, ![d].pc = pc]
    BY <1>2, <1>3, <1>4 DEF HashFile
  <2>2. QED
    BY <1>5, <2>1, DirectoryKnows
<1>8. Moves(d, w)
  <2>1. pc \notin {"read", "send"}
    OBVIOUS
  <2>2. QED
    BY <1>1, <1>6, <1>7, <2>1 DEF Moves
<1>9. RemovesForReason(d, w)
  BY <1>1, NothingRemoved
<1>10. ASSUME ~disturbed[d]
       PROVE  UploadAt(w, file'[w.name], file'[copy_name[w.name]], upload[d])
  <2>1. file[copy_name[n]] = upload[d]
    BY <1>1, <1>2, <1>10, WatcherKnows DEF Uploaded, UploadAt, Copied
  <2>2. pc \notin {"create file", "create copy", "unchanged"}
    OBVIOUS
  <2>3. file'[n] = f /\ file'[copy_name[n]] = upload[d]
    BY <1>1, <1>3, <2>1
  <2>4. QED
    BY <1>6, <2>2, <2>3 DEF UploadAt
<1>11. file' \in [Entries -> Files]
  BY <1>1, DirectoryKnows
<1>12. QED
  BY <1>1, <1>6, <1>8, <1>9, <1>10, <1>11, DirectoryFrame

LEMMA HashCopyKeeps ==
  ASSUME IInv, NEW d \in Devices, HashCopy(d)
  PROVE  IInv'
<1>1. /\ watcher[d].pc = "hash copy"
      /\ DirectoryStep(d) /\ UNCHANGED file
  BY DEF HashCopy, At
<1>2. PICK n \in Names : n = watcher[d].name
  BY <1>1, WatcherKnows
<1>3. PICK pc \in {"ended", "unchanged", "replace"} :
        /\ watcher' = [watcher EXCEPT ![d].hash = Absent, ![d].pc = pc]
        /\ pc = "unchanged" => file[copy_name[n]] = watcher[d].hash
  <2> DEFINE c == file[copy_name[watcher[d].name]]
             to == CASE c = Absent -> "ended"
                     [] c = watcher[d].hash -> "unchanged"
                     [] OTHER -> "replace"
  <2>1. watcher' = [watcher EXCEPT ![d].hash = Absent, ![d].pc = to]
    BY DEF HashCopy, copy
  <2>2. CASE c = Absent /\ c = watcher[d].hash
    <3>1. to \in {"ended", "unchanged"}
      BY <2>2
    <3> HIDE DEF to
    <3>2. QED
      BY <1>2, <2>1, <2>2, <3>1
  <2>3. CASE c = Absent /\ c # watcher[d].hash
    <3>1. to = "ended"
      BY <2>3
    <3> HIDE DEF to
    <3>2. QED
      BY <2>1, <3>1
  <2>4. CASE c # Absent /\ c = watcher[d].hash
    <3>1. to = "unchanged"
      BY <2>4
    <3> HIDE DEF to
    <3>2. QED
      BY <1>2, <2>1, <2>4, <3>1
  <2>5. CASE c # Absent /\ c # watcher[d].hash
    <3>1. to = "replace"
      BY <2>5
    <3> HIDE DEF to
    <3>2. QED
      BY <2>1, <3>1
  <2>6. QED
    BY <2>2, <2>3, <2>4, <2>5
<1>4. PICK w : w = [watcher[d] EXCEPT !.hash = Absent, !.pc = pc]
  OBVIOUS
<1>5. w \in Watchers /\ w.pc = pc /\ w.name = n
  <2>1. watcher[d] \in Watchers /\ pc \in WatcherPC /\ Absent \in Files
    BY WatcherKnows, PlacesAre, FilesKnown
  <2>2. QED
    BY <1>2, <1>4, <2>1 DEF Watchers
<1>6. watcher' = [watcher EXCEPT ![d] = w]
  BY <1>3, <1>4, DirectoryKnows
<1>7. Moves(d, w)
  <2>1. pc \notin {"read", "send"}
    OBVIOUS
  <2>2. QED
    BY <1>1, <1>5, <1>6, <2>1 DEF Moves
<1>8. RemovesForReason(d, w)
  BY <1>1, NothingRemoved
<1>9. ASSUME ~disturbed[d]
      PROVE  UploadAt(w, file'[w.name], file'[copy_name[w.name]], upload[d])
  <2>1. file[copy_name[n]] = upload[d] /\ watcher[d].hash = file[n]
    BY <1>1, <1>2, <1>9, WatcherKnows DEF Uploaded, UploadAt, Copied
  <2>2. pc \notin {"create file", "create copy", "hash copy"}
    OBVIOUS
  <2>3. file'[n] = file[n] /\ file'[copy_name[n]] = upload[d]
    BY <1>1, <2>1
  <2>4. pc = "unchanged" => file[n] = upload[d]
    BY <1>3, <2>1
  <2>5. QED
    BY <1>5, <2>2, <2>3, <2>4 DEF UploadAt
<1>10. file' \in [Entries -> Files]
  BY <1>1, DirectoryKnows
<1>11. QED
  BY <1>1, <1>5, <1>7, <1>8, <1>9, <1>10, DirectoryFrame

(* deleteFile looks for the file. *)
LEMMA DeleteLooksKeeps ==
  ASSUME IInv, NEW d \in Devices, DeleteLooks(d)
  PROVE  IInv'
<1>1. PICK at \in {"replace", "unchanged", "delete"} :
        /\ watcher[d].pc = at
        /\ watcher' = IF file[Target(d)] = Absent
                      THEN [watcher EXCEPT ![d].pc = AfterDelete[at]]
                      ELSE [watcher EXCEPT ![d].found = TRUE]
  BY AfterDeleteIs DEF DeleteLooks, At
<1>2. DirectoryStep(d) /\ UNCHANGED file
  BY DEF DeleteLooks
<1>3. PICK n \in Names : n = watcher[d].name
  BY <1>1, WatcherKnows
<1>4. PICK to \in {"rename", "loop", "push delete"} :
        /\ to = AfterDelete[at]
        /\ to = "rename" <=> at = "replace"
  BY AfterDeleteIs
<1>5. to \in WatcherPC /\ watcher[d] \in Watchers
  BY PlacesAre, WatcherKnows
<1>6. PICK w \in Watchers :
        /\ watcher' = [watcher EXCEPT ![d] = w] /\ w.name = n
        /\ w.pc \in {at, to} /\ w.hash = watcher[d].hash
  <2>1. CASE file[Target(d)] = Absent
    <3>1. watcher' = [watcher EXCEPT ![d] = [watcher[d] EXCEPT !.pc = to]]
      BY <1>1, <1>4, <2>1, DirectoryKnows
    <3>2. PICK w : w = [watcher[d] EXCEPT !.pc = to]
      OBVIOUS
    <3>3. /\ w \in Watchers /\ w.pc = to /\ w.name = watcher[d].name
          /\ w.hash = watcher[d].hash
      BY <1>5, <3>2, WatcherGoes
    <3>4. QED
      BY <1>3, <3>1, <3>2, <3>3
  <2>2. CASE file[Target(d)] # Absent
    <3>1. watcher' = [watcher EXCEPT ![d] = [watcher[d] EXCEPT !.found = TRUE]]
      BY <1>1, <2>2, DirectoryKnows
    <3>2. PICK w : w = [watcher[d] EXCEPT !.found = TRUE]
      OBVIOUS
    <3>3. /\ w \in Watchers /\ w.pc = at /\ w.name = watcher[d].name
          /\ w.hash = watcher[d].hash
      BY <1>1, <1>5, <3>2, WatcherFinds
    <3>4. QED
      BY <1>3, <3>1, <3>2, <3>3
  <2>3. QED
    BY <2>1, <2>2
<1>7. /\ watcher[d].pc \notin {"read", "send", "ended", "rename"}
      /\ w.pc \notin {"read", "send", "create file", "create copy", "hash copy"}
      /\ w.pc = "rename" => at = "replace"
      /\ w.pc = "unchanged" => at = "unchanged"
      /\ w.pc = "replace" => at = "replace"
      /\ w.pc \notin {"build", "hash file"}
  BY <1>1, <1>4, <1>6
<1>8. Moves(d, w)
  BY <1>6, <1>7 DEF Moves
<1>9. RemovesForReason(d, w)
  BY <1>2, <1>7, NothingRemoved
<1>10. ASSUME ~disturbed[d]
       PROVE  UploadAt(w, file'[w.name], file'[copy_name[w.name]], upload[d])
  <2>1. UploadAt(watcher[d], file[n], file[copy_name[n]], upload[d])
    BY <1>3, <1>10, WatcherKnows DEF Uploaded
  <2>2. at \in {"replace", "unchanged"} => file[copy_name[n]] = upload[d]
    BY <1>1, <2>1 DEF UploadAt, Copied
  <2>3. at = "unchanged" => file[n] = file[copy_name[n]]
    BY <1>1, <2>1 DEF UploadAt
  <2>4. file'[n] = file[n] /\ file'[copy_name[n]] = file[copy_name[n]]
    BY <1>2
  <2>5. w.pc \in Copied => at \in {"replace", "unchanged"}
    BY <1>7 DEF Copied
  <2>6. QED
    BY <1>6, <1>7, <2>2, <2>3, <2>4, <2>5 DEF UploadAt
<1>11. file' \in [Entries -> Files]
  BY <1>2, DirectoryKnows
<1>12. QED
  BY <1>2, <1>6, <1>8, <1>9, <1>10, <1>11, DirectoryFrame

(* deleteFile removes it, or throws when it is gone. *)
LEMMA DeleteRemovesKeeps ==
  ASSUME IInv, NEW d \in Devices, DeleteRemoves(d)
  PROVE  IInv'
<1>1. PICK n : n = watcher[d].name
  OBVIOUS
<1>2. PICK at \in {"replace", "unchanged", "delete"} :
        /\ watcher[d].pc = at
        /\ watcher' = [watcher EXCEPT ![d].found = FALSE, ![d].pc =
                         IF file[Target(d)] = Absent THEN "ended" ELSE AfterDelete[at]]
        /\ file' = [file EXCEPT ![Target(d)] = Absent]
        /\ DirectoryStep(d)
  BY <1>1, AfterDeleteIs DEF DeleteRemoves, At
<1>3. n \in Names
  BY <1>1, <1>2, WatcherKnows
<1>4. PICK to \in {"ended", "rename", "loop", "push delete"} :
        /\ to = IF file[Target(d)] = Absent THEN "ended" ELSE AfterDelete[at]
        /\ to = "rename" => at = "replace"
        /\ at = "replace" /\ file[n] # Absent => to = "rename"
  <2>1. at = "replace" => Target(d) = n
    BY <1>1, <1>2 DEF Target
  <2>2. CASE file[Target(d)] = Absent
    BY <2>1, <2>2
  <2>3. CASE file[Target(d)] # Absent
    BY <2>1, <2>3, AfterDeleteIs
  <2>4. QED
    BY <2>2, <2>3
<1>5. PICK w : w = [watcher[d] EXCEPT !.found = FALSE, !.pc = to]
  OBVIOUS
<1>6. w \in Watchers /\ w.pc = to /\ w.name = n
  <2>1. watcher[d] \in Watchers /\ to \in WatcherPC
    BY WatcherKnows, PlacesAre
  <2>2. QED
    BY <1>1, <1>5, <2>1 DEF Watchers
<1>7. watcher' = [watcher EXCEPT ![d] = w]
  <2>1. watcher' = [watcher EXCEPT ![d].found = FALSE, ![d].pc = to]
    BY <1>2, <1>4
  <2>2. QED
    BY <1>5, <2>1, DirectoryKnows
<1>8. Moves(d, w)
  <2>1. /\ watcher[d].pc \notin {"read", "send", "ended"}
        /\ w.pc \notin {"read", "send"}
    BY <1>2, <1>4, <1>6
  <2>2. QED
    BY <1>3, <1>6, <1>7, <2>1 DEF Moves
<1>9. /\ file' \in [Entries -> Files]
      /\ Target(d) = IF at = "unchanged" THEN copy(d) ELSE n
      /\ \A m \in Entries : m # Target(d) => file'[m] = file[m]
  BY <1>1, <1>2, DirectoryKnows, FilesKnown DEF Target
<1>10. RemovesForReason(d, w)
  <2>1. ASSUME NEW m \in Names, file[m] # Absent, file'[m] = Absent
        PROVE  \/ watcher[d].pc = "delete"
               \/ watcher[d].pc \in {"unchanged", "rename"} /\ m = copy(d)
               \/ w.pc = "rename" /\ w.name = m
    <3>1. m = IF at = "unchanged" THEN copy(d) ELSE n
      BY <1>9, <2>1, EntriesAre
    <3>2. CASE at = "delete"
      BY <1>2, <3>2
    <3>3. CASE at = "replace"
      BY <1>4, <1>6, <2>1, <3>1, <3>3
    <3>4. CASE at = "unchanged"
      BY <1>2, <3>1, <3>4
    <3>5. QED
      BY <3>2, <3>3, <3>4
  <2>2. watcher[d].pc # "rename"
    BY <1>2
  <2>3. QED
    BY <2>1, <2>2 DEF RemovesForReason
<1>11. ASSUME ~disturbed[d]
       PROVE  UploadAt(w, file'[w.name], file'[copy_name[w.name]], upload[d])
  <2>1. CASE to = "rename"
    <3>1. at = "replace"
      BY <1>4, <2>1
    <3>2. file[copy_name[n]] = upload[d]
      BY <1>1, <1>2, <1>11, <3>1, WatcherKnows DEF Uploaded, UploadAt, Copied
    <3>3. file'[copy_name[n]] = file[copy_name[n]]
      BY <1>3, <1>9, <3>1, EntriesAre
    <3>4. QED
      BY <1>6, <2>1, <3>2, <3>3 DEF UploadAt
  <2>2. CASE to # "rename"
    BY <1>6, <2>2 DEF UploadAt, Copied
  <2>3. QED
    BY <2>1, <2>2
<1>12. QED
  BY <1>2, <1>6, <1>8, <1>9, <1>10, <1>11, DirectoryFrame

LEMMA RenameCopyKeeps ==
  ASSUME IInv, NEW d \in Devices, RenameCopy(d)
  PROVE  IInv'
<1>1. watcher[d].pc = "rename" /\ DirectoryStep(d)
  BY DEF RenameCopy, At
<1>2. PICK n \in Names : n = watcher[d].name
  BY <1>1, WatcherKnows
<1>3. PICK w : w = [watcher[d] EXCEPT !.pc = "push write"]
  OBVIOUS
<1>4. "push write" \in WatcherPC
  BY PlacesAre
<1>5. w \in Watchers /\ w.pc = "push write" /\ w.name = n
  BY <1>2, <1>3, <1>4, WatcherKnows, WatcherGoes
<1>6. /\ file[copy_name[n]] # Absent
      /\ file' = [file EXCEPT ![n] = file[copy_name[n]], ![copy_name[n]] = Absent]
      /\ watcher' = [watcher EXCEPT ![d] = w]
  BY <1>2, <1>3, DirectoryKnows DEF RenameCopy, Goes, copy
<1>7. /\ file' \in [Entries -> Files]
      /\ file'[n] # Absent
      /\ \A m \in Names : m # n /\ m # copy_name[n] => file'[m] = file[m]
  <2>1. /\ n \in Entries /\ copy_name[n] \in Entries /\ copy_name[n] # n
        /\ file \in [Entries -> Files] /\ Absent \in Files
    BY DirectoryKnows, FilesKnown, EntriesAre
  <2>2. PICK k \in Entries : k = copy_name[n]
    BY <2>1
  <2>3. file' = [file EXCEPT ![n] = file[k], ![k] = Absent]
    BY <1>6, <2>2
  <2>4. /\ file' \in [Entries -> Files] /\ file'[n] = file[k]
        /\ \A m \in Entries : m # n /\ m # k => file'[m] = file[m]
    BY <2>1, <2>2, <2>3
  <2>5. QED
    BY <1>6, <2>2, <2>4, EntriesAre
<1>8. Moves(d, w)
  BY <1>1, <1>2, <1>5, <1>6 DEF Moves
<1>9. RemovesForReason(d, w)
  BY <1>1, <1>2, <1>7 DEF RemovesForReason, copy
<1>10. UploadAt(w, file'[w.name], file'[copy_name[w.name]], upload[d])
  BY <1>5 DEF UploadAt, Copied
<1>11. QED
  BY <1>1, <1>5, <1>7, <1>8, <1>9, <1>10, DirectoryFrame

(* The copy is gone because another device took it. *)
LEMMA RenameFailsKeeps ==
  ASSUME IInv, NEW d \in Devices, RenameFails(d)
  PROVE  IInv'
<1>1. /\ watcher[d].pc = "rename" /\ file[copy_name[watcher[d].name]] = Absent
      /\ DirectoryStep(d) /\ UNCHANGED file
  BY DEF RenameFails, At, copy
<1>2. PICK w : w = [watcher[d] EXCEPT !.pc = "ended"]
  OBVIOUS
<1>3. "ended" \in WatcherPC
  BY PlacesAre
<1>4. w \in Watchers /\ w.pc = "ended" /\ w.name = watcher[d].name
  BY <1>2, <1>3, WatcherKnows, WatcherGoes
<1>5. watcher' = [watcher EXCEPT ![d] = w]
  BY <1>2, DirectoryKnows DEF RenameFails, Goes
<1>6. Moves(d, w)
  BY <1>1, <1>4, <1>5 DEF Moves
<1>7. disturbed[d]
  <2>1. upload[d] # Absent
    BY WatcherKnows, FilesKnown
  <2>2. QED
    BY <1>1, <2>1, WatcherKnows DEF Uploaded, UploadAt, Copied
<1>8. disturbed'[d]
  BY <1>1, <1>7, DisturbsOthers DEF DirectoryStep
<1>9. RemovesForReason(d, w)
  BY <1>1, <1>4, <1>8 DEF RemovesForReason
<1>10. UploadAt(w, file'[w.name], file'[copy_name[w.name]], upload[d])
  BY <1>4 DEF UploadAt, Copied
<1>11. file' \in [Entries -> Files]
  BY <1>1, DirectoryKnows
<1>12. QED
  BY <1>1, <1>4, <1>6, <1>9, <1>10, <1>11, DirectoryFrame
-----------------------------------------------------------------------------
(* A step of the clients, or of a download *)

(* What clients report names files. *)
LEMMA ReportedPackets ==
  ASSUME NEW n \in Names, NEW f \in Contents \cup {Absent}
  PROVE  /\ <<Packet("WRITE", n)>> \o sendFileInChunks(f) \in Seq(NamingPackets)
         /\ <<Packet("DELETE", n)>> \in Seq(NamingPackets)
<1>1. n \in Texts
  BY FilesAssumption
<1>2. ASSUME NEW type \in {"WRITE", "DELETE"}
      PROVE  <<Packet(type, n)>> \in Seq(NamingPackets)
  <2>1. Packet(type, n) \in NamingPackets
    BY <1>1, PacketIs DEF NamingPackets
  <2>2. QED
    BY <2>1, OneElement
<1>3. sendFileInChunks(f) \in Seq(NamingPackets)
  <2>1. CASE f = Absent
    <3>1. << >> \in Seq(NamingPackets)
      OBVIOUS
    <3>2. QED
      BY <2>1, <3>1 DEF sendFileInChunks
  <2>2. CASE f # Absent
    <3>1. f \in Seq(Texts)
      BY <2>2, FilesAssumption
    <3>2. Chunks(f) \in Seq(FilePackets)
      BY <3>1, ChunksOf
    <3>3. FilePackets \subseteq NamingPackets
      BY DEF FilePackets, NamingPackets
    <3>4. QED
      BY <2>2, <3>2, <3>3, LargerSet DEF sendFileInChunks
  <2>3. QED
    BY <2>1, <2>2
<1>4. QED
  BY <1>2, <1>3, ConcatProperties

(* What a step of a client has to keep. *)
LEMMA ClientFrame ==
  ASSUME IInv, NEW d \in Devices, NEW s \in Seq(NamingPackets),
         UNCHANGED <<file, watcher, process, download, backup, history>>,
         client' \in [Devices -> BOOLEAN], operations' \in 0..MaxOperations,
         stream' = [stream EXCEPT ![d] = s]
  PROVE  IInv'
<1> USE DEF backup, history
<1>1. /\ stream' \in [Devices -> Seq(Packets)] /\ stream'[d] = s
      /\ \A e \in Devices : e # d => stream'[e] = stream[e]
  BY NamingArePackets, DirectoryKnows
<1>2. TypeOK'
  BY <1>1 DEF IInv, TypeOK
<1>3. NamesKnown'
  <2>1. \A e \in Devices : stream'[e] \in Seq(NamingPackets)
    BY <1>1, WatcherKnows
  <2>2. QED
    BY <2>1 DEF IInv, NamesKnown
<1>4. AllUploaded' /\ MissingFollows'
  BY DEF IInv, AllUploaded, Uploaded, MissingFollows
<1>5. DownloadFollows' /\ FoundIsAnswered'
  BY DEF IInv, DownloadFollows, FoundIsAnswered
<1>6. BackupFollows'
  <2>1. \A e \in Devices : (Sending(e)' <=> Sending(e)) /\ (Pushing(e)' <=> Pushing(e))
    BY DEF Sending, Pushing
  <2>2. QED
    BY <2>1 DEF IInv, BackupFollows, NobodyPushes
<1>7. QED
  BY <1>2, <1>3, <1>4, <1>5, <1>6 DEF IInv

LEMMA ClientKeeps ==
  ASSUME IInv, NEW d \in Devices, Client(d)
  PROVE  IInv'
<1>1. client \in [Devices -> BOOLEAN] /\ operations \in 0..MaxOperations
  BY DEF IInv, TypeOK
<1>2. ASSUME NEW s \in Seq(NamingPackets), Reports(d, s)
      PROVE  IInv'
  <2>1. operations' \in 0..MaxOperations
    BY <1>1, <1>2, FilesAssumption DEF Reports
  <2>2. /\ UNCHANGED <<file, watcher, process, download, backup, history>>
        /\ client' \in [Devices -> BOOLEAN]
        /\ stream' = [stream EXCEPT ![d] = s]
    BY <1>1, <1>2 DEF Reports
  <2>3. QED
    BY <2>1, <2>2, ClientFrame
<1>3. ASSUME ClientLeaves(d)
      PROVE  IInv'
  <2>1. /\ UNCHANGED <<file, watcher, process, download, backup, history>>
        /\ client' \in [Devices -> BOOLEAN] /\ operations' \in 0..MaxOperations
        /\ stream' = [stream EXCEPT ![d] = << >>]
    BY <1>1, <1>3 DEF ClientLeaves
  <2>2. << >> \in Seq(NamingPackets)
    OBVIOUS
  <2>3. QED
    BY <2>1, <2>2, ClientFrame
<1>4. QED
  BY <1>2, <1>3, ReportedPackets DEF Client, ReportsWrite, ReportsDelete

(* A file that is there is sent to its end. *)
LEMMA DownloadKeeps ==
  ASSUME IInv, Download
  PROVE  IInv'
<1>1. /\ UNCHANGED <<file, watcher, process, clients, backup, history>>
  BY DEF Download, SendDownload, AnswerDownload, DownloadStep
<1>2. /\ download \in Downloads /\ download.name \in Names \cup {Absent}
      /\ download.removed \in BOOLEAN
  BY DirectoryKnows DEF Downloads
<1> DEFINE Follows ==
      /\ download' \in Downloads
      /\ download'.pc # "none" => download'.name \in Names
      /\ DownloadFollows' /\ FoundIsAnswered'
<1>3. Follows
  <2>1. CASE SendDownload
    <3>1. PICK pc \in {"ended", "waiting"} :
            /\ download' = [download EXCEPT !.pc = pc]
            /\ pc = "waiting" =>
                 ~\E p \in ToSet(sendFileInChunks(file[download.name])) :
                    p.type = "END_OF_FILE"
      BY <2>1 DEF SendDownload
    <3>2. download.pc = "found"
      BY <2>1 DEF SendDownload, DownloadStep
    <3>3. PICK n \in Names : n = download.name
      BY <3>2 DEF IInv, NamesKnown
    <3>4. /\ download' \in Downloads /\ download'.pc = pc
          /\ download'.name = n /\ download'.removed = download.removed
      BY <1>2, <3>1, <3>3 DEF Downloads
    <3>5. ASSUME pc = "waiting"
          PROVE  download.removed
      <4>1. CASE file[n] = Absent
        BY <3>2, <3>3, <4>1 DEF IInv, DownloadFollows
      <4>2. CASE file[n] # Absent
        <5>1. file[n] \in Seq(Texts)
          BY <4>2, DirectoryKnows, EntriesAre, FilesKnown
        <5>2. sendFileInChunks(file[n]) = Chunks(file[n])
          BY <4>2 DEF sendFileInChunks
        <5>3. QED
          BY <3>1, <3>3, <3>5, <5>1, <5>2, ChunksOf
      <4>3. QED
        BY <4>1, <4>2
    <3>6. QED
      BY <3>4, <3>5 DEF DownloadFollows, FoundIsAnswered
  <2>2. ASSUME NEW n \in Names, AnswerDownload(n)
        PROVE  Follows
    <3>1. PICK pc \in {"ended", "found"} :
            /\ download' = [download EXCEPT !.name = n, !.pc = pc]
            /\ pc = "found" => file[n] # Absent
      BY <2>2 DEF AnswerDownload
    <3>2. /\ download' \in Downloads
          /\ download'.pc = pc /\ download'.name = n
      BY <1>2, <3>1 DEF Downloads
    <3>3. QED
      BY <1>1, <3>1, <3>2 DEF DownloadFollows, FoundIsAnswered
  <2>3. QED
    BY <2>1, <2>2 DEF Download
<1> USE DEF clients, backup, history
<1>4. TypeOK'
  BY <1>1, <1>3 DEF IInv, TypeOK
<1>5. NamesKnown'
  BY <1>1, <1>3 DEF IInv, NamesKnown
<1>6. AllUploaded' /\ MissingFollows'
  BY <1>1 DEF IInv, AllUploaded, Uploaded, MissingFollows
<1>7. BackupFollows'
  <2>1. \A e \in Devices : (Sending(e)' <=> Sending(e)) /\ (Pushing(e)' <=> Pushing(e))
    BY <1>1 DEF Sending, Pushing
  <2>2. QED
    BY <1>1, <2>1 DEF IInv, BackupFollows, NobodyPushes
<1>8. QED
  BY <1>3, <1>4, <1>5, <1>6, <1>7 DEF IInv
-----------------------------------------------------------------------------
(* A push to the backup *)

(* What the backup does with a packet of each type. *)
LEMMA TakesPacket ==
  ASSUME IInv, NEW p \in NamingPackets, BackupTakes(p)
  PROVE  /\ building' \in Names \cup {Absent}
         /\ backup_file' \in [Names -> Files]
         /\ building = Absent /\ p.type = "WRITE" =>
              building' = p.text /\ backup_file' = backup_file
         /\ building = Absent /\ p.type = "DELETE" =>
              /\ building' = Absent
              /\ backup_file' = [backup_file EXCEPT ![p.text] = Absent]
         /\ building # Absent /\ p.type = "DATA" =>
              /\ building' = building
              /\ backup_file' = [backup_file EXCEPT
                   ![building] = writeFile(backup_file[building], p.text)]
         /\ building # Absent /\ p.type = "END_OF_FILE" =>
              building' = Absent /\ backup_file' = backup_file
<1>1. /\ building \in Names \cup {Absent}
      /\ backup_file \in [Names -> Files]
  BY DEF IInv, TypeOK
<1>2. /\ p.type \in {"WRITE", "DELETE"} => p.text \in Names
      /\ p.text \in Texts
  BY DEF NamingPackets, Packets
<1>3. BackupHandles(p, p.type = "WRITE", p.type = "END_OF_FILE")
  BY DEF BackupTakes
<1>4. CASE building = Absent
  <2>1. /\ building' = IF p.type = "WRITE" THEN p.text ELSE Absent
        /\ backup_file' = IF p.type = "WRITE" \/ p.type # "DELETE"
                          THEN backup_file
                          ELSE [backup_file EXCEPT ![p.text] = Absent]
    BY <1>3, <1>4 DEF BackupHandles
  <2>2. building' \in Names \cup {Absent}
    BY <1>2, <2>1
  <2>3. backup_file' \in [Names -> Files]
    BY <1>1, <2>1, FilesKnown
  <2>4. QED
    BY <1>4, <2>1, <2>2, <2>3
<1>5. CASE building # Absent
  <2>1. building \in Names
    BY <1>1, <1>5
  <2>2. /\ building' = IF p.type = "END_OF_FILE" THEN Absent ELSE building
        /\ backup_file' = IF p.type = "END_OF_FILE" THEN backup_file
             ELSE [backup_file EXCEPT
                     ![building] = writeFile(backup_file[building], p.text)]
    BY <1>3, <1>5 DEF BackupHandles
  <2>3. writeFile(backup_file[building], p.text) \in Files
    <3>1. backup_file[building] \in Files
      BY <1>1, <2>1
    <3>2. QED
      BY <1>2, <3>1, WrittenIsFile
  <2>4. backup_file' \in [Names -> Files]
    BY <1>1, <2>2, <2>3
  <2>5. QED
    BY <1>1, <1>5, <2>2, <2>4
<1>6. QED
  BY <1>4, <1>5

(* What a step of the push of watcher d to the backup has to keep. *)
LEMMA PushFrame ==
  ASSUME IInv, NEW d \in Devices,
         NEW from \in {"push write", "push delete", "read", "send"},
         NEW to \in {"read", "send"}, PushStep(d, from, to),
         rest' \in [Devices -> Seq(FilePackets)],
         rest'[d] # << >> => to = "send",
         \A e \in Devices : e # d => rest'[e] = rest[e],
         building' \in Names \cup {Absent},
         backup_file' \in [Names -> Files], expected' \in [Names -> Files],
         mixed' \in BOOLEAN, BackupFollows'
  PROVE  IInv'
<1> USE DEF clients, history
<1>1. /\ watcher[d].pc = from
      /\ watcher' = [watcher EXCEPT ![d].pc = to]
      /\ UNCHANGED <<file, process, clients, download, history>>
  BY DEF PushStep, At, Goes
<1>2. PICK w : w = [watcher[d] EXCEPT !.pc = to]
  OBVIOUS
<1>3. to \in WatcherPC
  BY PlacesAre
<1>4. w \in Watchers /\ w.pc = to /\ w.name = watcher[d].name
  <2>1. watcher[d] \in Watchers
    BY WatcherKnows
  <2>2. QED
    BY <1>2, <1>3, <2>1, WatcherGoes
<1>5. watcher' = [watcher EXCEPT ![d] = w]
  BY <1>1, <1>2, DirectoryKnows
<1>6. /\ watcher' \in [Devices -> Watchers] /\ watcher'[d] = w
      /\ \A e \in Devices : e # d => watcher'[e] = watcher[e]
  BY <1>4, <1>5, DirectoryKnows
<1>7. rest' \in [Devices -> Seq(Packets)]
  <2>1. FilePackets \subseteq Packets
    BY DEF FilePackets
  <2>2. \A e \in Devices : rest'[e] \in Seq(Packets)
    BY <2>1, LargerSet
  <2>3. QED
    BY <2>2
<1>8. TypeOK'
  BY <1>1, <1>6, <1>7 DEF IInv, TypeOK
<1>9. NamesKnown'
  <2>1. ASSUME NEW e \in Devices
        PROVE  /\ stream'[e] \in Seq(NamingPackets)
               /\ rest'[e] \in Seq(FilePackets)
               /\ watcher'[e].pc \notin {"loop", "ended"} =>
                    watcher'[e].name \in Names
               /\ rest'[e] # << >> => watcher'[e].pc = "send"
    <3>1. CASE e = d
      BY <1>1, <1>4, <1>6, <3>1, WatcherKnows
    <3>2. CASE e # d
      BY <1>1, <1>6, <3>2, WatcherKnows
    <3>3. QED
      BY <3>1, <3>2
  <2>2. QED
    BY <1>1, <2>1 DEF IInv, NamesKnown
<1>10. AllUploaded'
  <2>1. ASSUME NEW e \in Devices
        PROVE  Uploaded(e)'
    <3>1. CASE e = d
      BY <1>4, <1>6, <3>1 DEF Uploaded, UploadAt, Copied
    <3>2. CASE e # d
      BY <1>1, <1>6, <3>2, WatcherKnows DEF Uploaded
    <3>3. QED
      BY <3>1, <3>2
  <2>2. QED
    BY <2>1 DEF AllUploaded
<1>11. MissingFollows'
  <2>1. ASSUME NEW n \in Names \ deleted', file'[n] = Absent
        PROVE  \E e \in Devices :
                 /\ watcher'[e].name = n
                 /\ \/ watcher'[e].pc = "rename"
                    \/ watcher'[e].pc = "ended" /\ disturbed'[e]
    <3>1. n \in Names \ deleted /\ file[n] = Absent
      BY <1>1, <2>1
    <3>2. PICK e \in Devices :
            /\ watcher[e].name = n
            /\ \/ watcher[e].pc = "rename"
               \/ watcher[e].pc = "ended" /\ disturbed[e]
      BY <3>1 DEF IInv, MissingFollows
    <3>3. e # d
      BY <1>1, <3>2
    <3>4. QED
      BY <1>1, <1>6, <3>2, <3>3
  <2>2. QED
    BY <2>1 DEF MissingFollows
<1>12. DownloadFollows' /\ FoundIsAnswered'
  BY <1>1 DEF IInv, DownloadFollows, FoundIsAnswered
<1>13. QED
  BY <1>8, <1>9, <1>10, <1>11, <1>12 DEF IInv

(* Who is at the backup. *)
LEMMA PushingSends ==
  ASSUME IInv, NEW d \in Devices, Pushing(d)
  PROVE  Sending(d)
<1>1. CASE watcher[d].pc = "read"
  BY <1>1 DEF Sending
<1>2. CASE watcher[d].pc # "read"
  <2>1. PICK f \in Seq(Texts) : rest[d] = Chunks(f)
    BY <1>2 DEF Pushing, Completes
  <2>2. Chunks(f) # << >>
    BY ChunksOf
  <2>3. QED
    BY <2>1, <2>2 DEF Sending
<1>3. QED
  BY <1>1, <1>2

LEMMA PushingIs ==
  ASSUME IInv, ~mixed, NEW d \in Devices, Sending(d)
  PROVE  Pushing(d)
<1>1. ~NobodyPushes
  BY DEF NobodyPushes
<1>2. PICK e \in Devices : Pushing(e)
  BY <1>1 DEF IInv, BackupFollows
<1>3. e = d
  BY <1>2 DEF Pushing
<1>4. QED
  BY <1>2, <1>3

LEMMA NobodyPushing ==
  ASSUME IInv, ~mixed, \A d \in Devices : ~Sending(d)
  PROVE  NobodyPushes
  BY PushingSends DEF IInv, BackupFollows

(* The next packet is of the only push, if the pushes have not mixed. *)
LEMMA SentAlone ==
  ASSUME IInv, NEW d \in Devices, NEW p, SendsBackup(d, p), ~mixed'
  PROVE  ~mixed /\ \A e \in Devices : e # d => ~Sending(e)
  BY DEF IInv, TypeOK, SendsBackup

(* A step of the push of watcher d. *)
PushMoves(d, to) ==
  /\ watcher'[d].pc = to /\ watcher'[d].name = watcher[d].name
  /\ \A e \in Devices : e # d => watcher'[e] = watcher[e]

LEMMA PushMoved ==
  ASSUME IInv, NEW d \in Devices, NEW from, NEW to \in {"read", "send"},
         PushStep(d, from, to)
  PROVE  PushMoves(d, to)
<1>1. watcher[d] \in Watchers
  BY WatcherKnows
<1>2. watcher' = [watcher EXCEPT ![d] = [watcher[d] EXCEPT !.pc = to]]
  BY DirectoryKnows DEF PushStep, Goes
<1>3. to \in WatcherPC
  BY PlacesAre
<1>4. QED
  BY <1>1, <1>2, <1>3, DirectoryKnows, WatcherGoes DEF PushMoves

LEMMA PushWriteKeeps ==
  ASSUME IInv, NEW d \in Devices, PushWrite(d)
  PROVE  IInv'
<1>1. PushStep(d, "push write", "read") /\ UNCHANGED <<rest, expected>>
  BY DEF PushWrite
<1>2. watcher[d].pc = "push write"
  BY <1>1 DEF PushStep, At
<1>3. PICK n \in Names : n = watcher[d].name
  BY <1>2, WatcherKnows
<1>4. PICK p : p = Packet("WRITE", n)
  OBVIOUS
<1>5. p \in NamingPackets /\ p.type = "WRITE" /\ p.text = n
  <2>1. n \in Texts
    BY FilesAssumption
  <2>2. QED
    BY <1>4, <2>1, PacketIs DEF NamingPackets
<1>6. SendsBackup(d, p)
  BY <1>3, <1>4 DEF PushWrite
<1>7. BackupTakes(p) /\ mixed' \in BOOLEAN
  BY <1>6 DEF SendsBackup, IInv, TypeOK
<1>8. /\ building' \in Names \cup {Absent} /\ backup_file' \in [Names -> Files]
      /\ building = Absent => building' = n /\ backup_file' = backup_file
  BY <1>5, <1>7, TakesPacket
<1>9. rest[d] = << >> /\ rest \in [Devices -> Seq(FilePackets)]
  <2>1. rest \in [Devices -> Seq(Packets)]
    BY DEF IInv, TypeOK
  <2>2. \A e \in Devices : rest[e] \in Seq(FilePackets)
    BY WatcherKnows
  <2>3. rest[d] = << >>
    BY <1>2, WatcherKnows
  <2>4. QED
    BY <2>1, <2>2, <2>3
<1>10. BackupFollows'
  <2>1. SUFFICES ASSUME ~mixed'
                 PROVE  Pushing(d)'
    BY DEF BackupFollows
  <2>2. ~mixed /\ \A e \in Devices : e # d => ~Sending(e)
    BY <1>6, <2>1, SentAlone
  <2>3. ~Sending(d)
    BY <1>2, <1>9 DEF Sending
  <2>4. NobodyPushes
    BY <2>2, <2>3, NobodyPushing
  <2>5. building' = n /\ backup_file' = expected'
    BY <1>1, <1>8, <2>4 DEF NobodyPushes
  <2>6. PushMoves(d, "read")
    BY <1>1, PushMoved
  <2>7. \A e \in Devices : e # d => ~Sending(e)'
    BY <1>1, <2>2, <2>6 DEF Sending, PushMoves
  <2>8. QED
    BY <1>1, <1>3, <1>9, <2>5, <2>6, <2>7 DEF Pushing, PushMoves
<1>11. expected' \in [Names -> Files]
  BY <1>1 DEF IInv, TypeOK
<1>12. QED
  BY <1>1, <1>7, <1>8, <1>9, <1>10, <1>11, PushFrame

LEMMA PushDeleteKeeps ==
  ASSUME IInv, NEW d \in Devices, PushDelete(d)
  PROVE  IInv'
<1>1. PushStep(d, "push delete", "send") /\ UNCHANGED rest
  BY DEF PushDelete
<1>2. watcher[d].pc = "push delete"
  BY <1>1 DEF PushStep, At
<1>3. PICK n \in Names : n = watcher[d].name
  BY <1>2, WatcherKnows
<1>4. PICK p : p = Packet("DELETE", n)
  OBVIOUS
<1>5. p \in NamingPackets /\ p.type = "DELETE" /\ p.text = n
  <2>1. n \in Texts
    BY FilesAssumption
  <2>2. QED
    BY <1>4, <2>1, PacketIs DEF NamingPackets
<1>6. SendsBackup(d, p) /\ expected' = [expected EXCEPT ![n] = Absent]
  BY <1>3, <1>4 DEF PushDelete
<1>7. BackupTakes(p) /\ mixed' \in BOOLEAN
  BY <1>6 DEF SendsBackup, IInv, TypeOK
<1>8. /\ building' \in Names \cup {Absent} /\ backup_file' \in [Names -> Files]
      /\ building = Absent =>
           /\ building' = Absent
           /\ backup_file' = [backup_file EXCEPT ![n] = Absent]
  BY <1>5, <1>7, TakesPacket
<1>9. rest[d] = << >> /\ rest \in [Devices -> Seq(FilePackets)]
  <2>1. rest \in [Devices -> Seq(Packets)]
    BY DEF IInv, TypeOK
  <2>2. \A e \in Devices : rest[e] \in Seq(FilePackets)
    BY WatcherKnows
  <2>3. rest[d] = << >>
    BY <1>2, WatcherKnows
  <2>4. QED
    BY <2>1, <2>2, <2>3
<1>10. BackupFollows'
  <2>1. SUFFICES ASSUME ~mixed'
                 PROVE  NobodyPushes'
    BY DEF BackupFollows
  <2>2. ~mixed /\ \A e \in Devices : e # d => ~Sending(e)
    BY <1>6, <2>1, SentAlone
  <2>3. ~Sending(d)
    BY <1>2, <1>9 DEF Sending
  <2>4. NobodyPushes
    BY <2>2, <2>3, NobodyPushing
  <2>5. building' = Absent /\ backup_file' = expected'
    BY <1>6, <1>8, <2>4 DEF NobodyPushes
  <2>6. PushMoves(d, "send")
    BY <1>1, PushMoved
  <2>7. \A e \in Devices : ~Sending(e)'
    BY <1>1, <1>9, <2>2, <2>6 DEF Sending, PushMoves
  <2>8. QED
    BY <2>5, <2>7 DEF NobodyPushes
<1>11. expected' \in [Names -> Files]
  BY <1>6, FilesKnown DEF IInv, TypeOK
<1>12. QED
  BY <1>1, <1>7, <1>8, <1>9, <1>10, <1>11, PushFrame

LEMMA ReadKeeps ==
  ASSUME IInv, NEW d \in Devices, ReadForBackup(d)
  PROVE  IInv'
<1>1. PushStep(d, "read", "send") /\ UNCHANGED <<building, backup_file>>
  BY DEF ReadForBackup
<1>2. watcher[d].pc = "read"
  BY <1>1 DEF PushStep, At
<1>3. PICK n \in Names : n = watcher[d].name
  BY <1>2, WatcherKnows
<1>4. PICK packets : packets = sendFileInChunks(file[n])
  OBVIOUS
<1>5. packets \in Seq(FilePackets)
  <2>1. CASE file[n] = Absent
    <3>1. << >> \in Seq(FilePackets)
      OBVIOUS
    <3>2. QED
      BY <1>4, <2>1, <3>1 DEF sendFileInChunks
  <2>2. CASE file[n] # Absent
    <3>1. file[n] \in Seq(Texts)
      BY <2>2, DirectoryKnows, EntriesAre, FilesKnown
    <3>2. QED
      BY <1>4, <2>2, <3>1, ChunksOf DEF sendFileInChunks
  <2>3. QED
    BY <2>1, <2>2
<1>6. /\ rest' = [rest EXCEPT ![d] = packets]
      /\ mixed' = (mixed \/ file[n] = Absent)
      /\ expected' = [expected EXCEPT ![n] =
           IF file[n] = Absent THEN expected[n] ELSE Appended(expected[n], file[n])]
  BY <1>3, <1>4 DEF ReadForBackup
<1>7. /\ rest' \in [Devices -> Seq(FilePackets)] /\ rest'[d] = packets
      /\ \A e \in Devices : e # d => rest'[e] = rest[e]
  <2>1. rest \in [Devices -> Seq(Packets)]
    BY DEF IInv, TypeOK
  <2>2. \A e \in Devices : rest[e] \in Seq(FilePackets)
    BY WatcherKnows
  <2>3. QED
    BY <1>5, <1>6, <2>1, <2>2
<1>8. /\ building' \in Names \cup {Absent} /\ backup_file' \in [Names -> Files]
      /\ mixed' \in BOOLEAN /\ expected \in [Names -> Files]
  BY <1>1, <1>6 DEF IInv, TypeOK
<1>9. expected' \in [Names -> Files]
  <2>1. expected[n] \in Files
    BY <1>8
  <2>2. CASE file[n] = Absent
    BY <1>6, <1>8, <2>1, <2>2
  <2>3. CASE file[n] # Absent
    <3>1. file[n] \in Seq(Texts)
      BY <2>3, DirectoryKnows, EntriesAre, FilesKnown
    <3>2. Appended(expected[n], file[n]) \in Files
      BY <2>1, <3>1, AppendedIs
    <3>3. QED
      BY <1>6, <1>8, <2>3, <3>2
  <2>4. QED
    BY <2>2, <2>3
<1>10. BackupFollows'
  <2>1. SUFFICES ASSUME ~mixed'
                 PROVE  Pushing(d)'
    BY DEF BackupFollows
  <2>2. ~mixed /\ file[n] # Absent
    BY <1>6, <2>1
  <2>3. Pushing(d)
    BY <1>2, <2>2, PushingIs DEF Sending
  <2>4. /\ building = n /\ backup_file = expected
        /\ \A e \in Devices : e # d => ~Sending(e)
    BY <1>2, <1>3, <2>3 DEF Pushing
  <2>5. file[n] \in Seq(Texts) /\ packets = Chunks(file[n])
    BY <1>4, <2>2, DirectoryKnows, EntriesAre, FilesKnown DEF sendFileInChunks
  <2>6. /\ expected'[n] = Appended(expected[n], file[n])
        /\ \A m \in Names : m # n => expected'[m] = expected[m]
    BY <1>6, <1>8, <2>2
  <2>7. PICK want : want = expected'
    OBVIOUS
  <2>8. Completes(packets, n, backup_file, want)
    BY <2>4, <2>5, <2>6, <2>7 DEF Completes
  <2>9. PushMoves(d, "send")
    BY <1>1, PushMoved
  <2>10. \A e \in Devices : e # d => ~Sending(e)'
    BY <1>7, <2>4, <2>9 DEF Sending, PushMoves
  <2>11. QED
    BY <1>1, <1>3, <1>7, <2>4, <2>7, <2>8, <2>9, <2>10 DEF Pushing, PushMoves
<1>11. QED
  BY <1>1, <1>7, <1>8, <1>9, <1>10, PushFrame

LEMMA SendKeeps ==
  ASSUME IInv, NEW d \in Devices, SendToBackup(d)
  PROVE  IInv'
<1>1. PushStep(d, "send", "send") /\ rest[d] # << >> /\ UNCHANGED expected
  BY DEF SendToBackup
<1>2. watcher[d].pc = "send"
  BY <1>1 DEF PushStep, At
<1>3. PICK n \in Names : n = watcher[d].name
  BY <1>2, WatcherKnows
<1>4. PICK s \in Seq(FilePackets) : s = rest[d]
  BY WatcherKnows
<1>5. PICK p : p = Head(s)
  OBVIOUS
<1>6. p \in NamingPackets /\ Tail(s) \in Seq(FilePackets)
  <2>1. p \in FilePackets /\ Tail(s) \in Seq(FilePackets)
    BY <1>1, <1>4, <1>5, HeadTailProperties
  <2>2. QED
    BY <2>1 DEF FilePackets, NamingPackets
<1>7. SendsBackup(d, p) /\ rest' = [rest EXCEPT ![d] = Tail(s)]
  BY <1>4, <1>5 DEF SendToBackup
<1>8. BackupTakes(p) /\ mixed' \in BOOLEAN
  BY <1>7 DEF SendsBackup, IInv, TypeOK
<1>9. /\ building' \in Names \cup {Absent} /\ backup_file' \in [Names -> Files]
      /\ building # Absent /\ p.type = "DATA" =>
           /\ building' = building
           /\ backup_file' = [backup_file EXCEPT
                ![building] = writeFile(backup_file[building], p.text)]
      /\ building # Absent /\ p.type = "END_OF_FILE" =>
           building' = Absent /\ backup_file' = backup_file
  BY <1>6, <1>8, TakesPacket
<1>10. /\ rest' \in [Devices -> Seq(FilePackets)] /\ rest'[d] = Tail(s)
       /\ \A e \in Devices : e # d => rest'[e] = rest[e]
  <2>1. rest \in [Devices -> Seq(Packets)]
    BY DEF IInv, TypeOK
  <2>2. \A e \in Devices : rest[e] \in Seq(FilePackets)
    BY WatcherKnows
  <2>3. QED
    BY <1>6, <1>7, <2>1, <2>2
<1>11. /\ backup_file \in [Names -> Files] /\ expected \in [Names -> Files]
       /\ expected' = expected
  BY <1>1 DEF IInv, TypeOK
<1>12. BackupFollows'
  <2>1. SUFFICES ASSUME ~mixed'
                 PROVE  NobodyPushes' \/ Pushing(d)'
    BY DEF BackupFollows
  <2>2. ~mixed /\ \A e \in Devices : e # d => ~Sending(e)
    BY <1>7, <2>1, SentAlone
  <2>3. Pushing(d)
    BY <1>1, <2>2, PushingIs DEF Sending
  <2>4. building = n /\ building # Absent /\ Completes(s, n, backup_file, expected)
    BY <1>2, <1>3, <1>4, <2>3, FilesKnown DEF Pushing
  <2>5. PICK f \in Seq(Texts) :
          /\ s = Chunks(f)
          /\ expected[n] = Appended(backup_file[n], f)
          /\ \A m \in Names : m # n => expected[m] = backup_file[m]
    BY <2>4 DEF Completes
  <2>6. PushMoves(d, "send")
    BY <1>1, PushMoved
  <2>7. \A e \in Devices : e # d => ~Sending(e)'
    BY <1>10, <2>2, <2>6 DEF Sending, PushMoves
  <2>8. backup_file[n] \in Files
    BY <1>11
  <2>9. CASE f = << >>
    <3>1. p.type = "END_OF_FILE" /\ Tail(s) = << >>
      <4>1. p = Packet("END_OF_FILE", Filler) /\ Tail(s) = << >>
        BY <1>5, <2>5, <2>9, ChunksOf
      <4>2. QED
        BY <4>1 DEF Packet
    <3>2. building' = Absent /\ backup_file' = backup_file
      BY <1>9, <2>4, <3>1
    <3>3. expected[n] = backup_file[n]
      BY <2>5, <2>8, <2>9, AppendedIs
    <3>4. backup_file' = expected'
      BY <1>11, <2>5, <3>2, <3>3
    <3>5. ~Sending(d)'
      BY <1>10, <2>6, <3>1 DEF Sending, PushMoves
    <3>6. QED
      BY <2>7, <3>2, <3>4, <3>5 DEF NobodyPushes
  <2>10. CASE f # << >>
    <3>1. PICK g \in Seq(Texts) : g = Tail(f)
      BY <2>10, HeadTailProperties
    <3>2. p.type = "DATA" /\ p.text = Head(f) /\ Tail(s) = Chunks(g)
      BY <1>5, <2>5, <2>10, <3>1, ChunksOf DEF Packet
    <3>3. /\ building' = n
          /\ backup_file' = [backup_file EXCEPT ![n] =
                               writeFile(backup_file[n], Head(f))]
      BY <1>9, <2>4, <3>2
    <3>4. PICK have : have = backup_file'
      OBVIOUS
    <3>5. /\ have[n] = writeFile(backup_file[n], Head(f))
          /\ \A m \in Names : m # n => have[m] = backup_file[m]
      BY <1>11, <3>3, <3>4
    <3>6. expected[n] = Appended(have[n], g)
      BY <2>5, <2>8, <2>10, <3>1, <3>5, AppendedIs
    <3>7. Completes(Tail(s), n, have, expected)
      BY <2>5, <3>2, <3>5, <3>6 DEF Completes
    <3>8. QED
      BY <1>3, <1>10, <1>11, <2>6, <2>7, <3>3, <3>4, <3>7
      DEF Pushing, PushMoves
  <2>11. QED
    BY <2>9, <2>10
<1>13. expected' \in [Names -> Files]
  BY <1>11
<1>14. QED
  BY <1>1, <1>8, <1>9, <1>10, <1>12, <1>13, PushFrame

LEMMA FreesTwiceKeeps ==
  ASSUME IInv, NEW d \in Devices, FreesTwice(d)
  PROVE  IInv'
<1>1. /\ process' \in {"running", "aborted"}
      /\ UNCHANGED <<file, watcher, clients, download, backup, history>>
  BY DEF FreesTwice
<1> USE DEF clients, backup, history
<1>2. TypeOK'
  BY <1>1 DEF IInv, TypeOK
<1>3. NamesKnown' /\ AllUploaded'
  BY <1>1 DEF IInv, NamesKnown, AllUploaded, Uploaded
<1>4. MissingFollows' /\ DownloadFollows' /\ FoundIsAnswered'
  BY <1>1 DEF IInv, MissingFollows, DownloadFollows, FoundIsAnswered
<1>5. BackupFollows'
  <2>1. \A e \in Devices : (Sending(e)' <=> Sending(e)) /\ (Pushing(e)' <=> Pushing(e))
    BY <1>1 DEF Sending, Pushing
  <2>2. QED
    BY <1>1, <2>1 DEF IInv, BackupFollows, NobodyPushes
<1>6. QED
  BY <1>2, <1>3, <1>4, <1>5 DEF IInv
-----------------------------------------------------------------------------
(* The invariant holds at the start and is kept by every step. *)

LEMMA Initially ==
  Init => IInv
<1> SUFFICES ASSUME Init
             PROVE  IInv
  OBVIOUS
<1>1. << >> \in Seq(Packets) /\ << >> \in Seq(NamingPackets)
      /\ << >> \in Seq(FilePackets)
  OBVIOUS
<1>2. "loop" \in WatcherPC
  BY PlacesAre
<1>3. watcher \in [Devices -> Watchers]
  BY <1>2, FilesKnown DEF Init, Watchers
<1>4. file \in [Entries -> Files]
  BY FilesAssumption DEF Init
<1>5. TypeOK
  <2>1. rest \in [Devices -> Seq(Packets)] /\ stream \in [Devices -> Seq(Packets)]
    BY <1>1 DEF Init
  <2>2. upload \in [Devices -> Seq(Texts)]
    BY FilesKnown DEF Init
  <2>3. backup_file \in [Names -> Files] /\ expected \in [Names -> Files]
    BY FilesKnown DEF Init
  <2>4. operations \in 0..MaxOperations /\ deleted \subseteq Names
    BY FilesAssumption DEF Init
  <2>5. download \in Downloads
    BY DEF Init, Downloads
  <2>6. QED
    BY <1>3, <1>4, <2>1, <2>2, <2>3, <2>4, <2>5 DEF Init, TypeOK
<1>6. NamesKnown
  BY <1>1 DEF Init, NamesKnown
<1>7. AllUploaded
  BY DEF Init, AllUploaded, Uploaded, UploadAt, Copied
<1>8. MissingFollows /\ DownloadFollows /\ FoundIsAnswered
  BY DEF Init, MissingFollows, DownloadFollows, FoundIsAnswered
<1>9. BackupFollows
  BY DEF Init, BackupFollows, NobodyPushes, Sending
<1>10. QED
  BY <1>5, <1>6, <1>7, <1>8, <1>9 DEF IInv

LEMMA Stutters ==
  ASSUME IInv, UNCHANGED vars
  PROVE  IInv'
<1> USE DEF vars, clients, backup, history
<1>1. TypeOK'
  BY DEF IInv, TypeOK
<1>2. NamesKnown' /\ AllUploaded'
  BY DEF IInv, NamesKnown, AllUploaded, Uploaded
<1>3. MissingFollows' /\ DownloadFollows' /\ FoundIsAnswered'
  BY DEF IInv, MissingFollows, DownloadFollows, FoundIsAnswered
<1>4. BackupFollows'
  <2>1. \A e \in Devices : (Sending(e)' <=> Sending(e)) /\ (Pushing(e)' <=> Pushing(e))
    BY DEF Sending, Pushing
  <2>2. QED
    BY <2>1 DEF IInv, BackupFollows, NobodyPushes
<1>5. QED
  BY <1>1, <1>2, <1>3, <1>4 DEF IInv

LEMMA WatcherKeeps ==
  ASSUME IInv, NEW d \in Devices, Watcher(d)
  PROVE  IInv'
<1>1. CASE ReceiveWrite(d)
  BY <1>1, BeginsKeeps DEF ReceiveWrite
<1>2. CASE ReceiveDelete(d)
  BY <1>2, BeginsKeeps DEF ReceiveDelete
<1>3. CASE ReceiveOther(d)
  BY <1>3, ReceiveOtherKeeps
<1>4. CASE ReceiveFails(d)
  BY <1>4, FailsKeeps
<1>5. CASE CreateFile(d) \/ CreateCopy(d)
  BY <1>5, CreateFileKeeps, CreateCopyKeeps
<1>6. CASE BuildWrites(d) \/ BuildEnds(d)
  BY <1>6, BuildWritesKeeps, BuildEndsKeeps
<1>7. CASE HashFile(d) \/ HashCopy(d)
  BY <1>7, HashFileKeeps, HashCopyKeeps
<1>8. CASE DeleteLooks(d) \/ DeleteRemoves(d)
  BY <1>8, DeleteLooksKeeps, DeleteRemovesKeeps
<1>9. CASE RenameCopy(d) \/ RenameFails(d)
  BY <1>9, RenameCopyKeeps, RenameFailsKeeps
<1>10. CASE ReadForBackup(d) \/ SendToBackup(d) \/ FreesTwice(d)
  BY <1>10, ReadKeeps, SendKeeps, FreesTwiceKeeps
<1>11. QED
  BY <1>1, <1>2, <1>3, <1>4, <1>5, <1>6, <1>7, <1>8, <1>9, <1>10 DEF Watcher

LEMMA Keeps ==
  IInv /\ [Next]_vars => IInv'
<1>1. ASSUME IInv, NEW d \in Devices,
             Client(d) \/ Watcher(d) \/ PushWrite(d) \/ PushDelete(d)
      PROVE  IInv'
  BY <1>1, ClientKeeps, WatcherKeeps, PushWriteKeeps, PushDeleteKeeps
<1>2. QED
  BY <1>1, DownloadKeeps, Stutters DEF Next

LEMMA Invariance ==
  Spec => []IInv
<1>1. QED
  BY Initially, Keeps, PTL DEF Spec
-----------------------------------------------------------------------------
(* The steps that end an upload *)

(* Another party's step does not move a watcher. *)
LEMMA WatcherStays ==
  ASSUME IInv, NEW d \in Devices, NEW e \in Devices, e # d,
         Client(e) \/ Watcher(e) \/ PushWrite(e) \/ PushDelete(e)
  PROVE  watcher'[d] = watcher[d]
<1>1. CASE Client(e)
  BY <1>1 DEF Client, ReportsWrite, ReportsDelete, Reports, ClientLeaves
<1>2. CASE PushWrite(e) \/ PushDelete(e)
  BY <1>2, DirectoryKnows DEF PushWrite, PushDelete, PushStep, Goes
<1>3. CASE \/ ReceiveWrite(e) \/ ReceiveDelete(e) \/ ReceiveOther(e)
           \/ ReceiveFails(e) \/ CreateFile(e) \/ CreateCopy(e)
  BY <1>3, DirectoryKnows
  DEF ReceiveWrite, ReceiveDelete, ReceiveOther, ReceiveFails, FailsAt,
      CreateFile, CreateCopy, CopyBecomes, Begins, Goes
<1>4. CASE BuildWrites(e) \/ BuildEnds(e) \/ HashFile(e) \/ HashCopy(e)
  BY <1>4, DirectoryKnows DEF BuildWrites, BuildEnds, HashFile, HashCopy, Goes
<1>5. CASE DeleteLooks(e)
  <2>1. PICK pc \in DOMAIN AfterDelete :
          watcher' = IF file[Target(e)] = Absent
                     THEN [watcher EXCEPT ![e].pc = AfterDelete[pc]]
                     ELSE [watcher EXCEPT ![e].found = TRUE]
    BY <1>5 DEF DeleteLooks
  <2>2. QED
    BY <2>1, DirectoryKnows
<1>6. CASE DeleteRemoves(e)
  <2>1. PICK pc \in DOMAIN AfterDelete :
          watcher' = [watcher EXCEPT ![e].found = FALSE, ![e].pc =
                        IF file[Target(e)] = Absent THEN "ended" ELSE AfterDelete[pc]]
    BY <1>6 DEF DeleteRemoves
  <2>2. QED
    BY <2>1, DirectoryKnows
<1>7. CASE RenameCopy(e) \/ RenameFails(e)
  BY <1>7, DirectoryKnows DEF RenameCopy, RenameFails, Goes
<1>8. CASE ReadForBackup(e) \/ SendToBackup(e) \/ FreesTwice(e)
  BY <1>8, DirectoryKnows
  DEF ReadForBackup, SendToBackup, FreesTwice, PushStep, Goes
<1>9. QED
  BY <1>1, <1>2, <1>3, <1>4, <1>5, <1>6, <1>7, <1>8 DEF Watcher

(* From there the watcher renames the copy or deletes it. *)
LEMMA UploadEnds ==
  ASSUME IInv, [Next]_vars, NEW d \in Devices,
         watcher[d].pc \in {"rename", "unchanged"},
         watcher'[d].pc \in {"push write", "loop"}
  PROVE  \/ RenameCopy(d)
         \/ watcher[d].pc = "unchanged" /\ (DeleteLooks(d) \/ DeleteRemoves(d))
<1>1. watcher' # watcher
  OBVIOUS
<1>2. Next /\ ~Download
  BY <1>1 DEF vars, Download, SendDownload, AnswerDownload, DownloadStep
<1>3. PICK e \in Devices :
        Client(e) \/ Watcher(e) \/ PushWrite(e) \/ PushDelete(e)
  BY <1>2 DEF Next
<1>4. e = d
  BY <1>3, WatcherStays
<1>5. ~Client(d)
  BY <1>1 DEF Client, ReportsWrite, ReportsDelete, Reports, ClientLeaves
<1>6. ~PushWrite(d) /\ ~PushDelete(d)
  BY DEF PushWrite, PushDelete, PushStep, At
<1>7. Watcher(d)
  BY <1>3, <1>4, <1>5, <1>6
<1>8. /\ ~ReceiveWrite(d) /\ ~ReceiveDelete(d) /\ ~ReceiveOther(d)
      /\ ~ReceiveFails(d) /\ ~CreateFile(d) /\ ~CreateCopy(d)
      /\ ~BuildWrites(d) /\ ~BuildEnds(d) /\ ~HashFile(d) /\ ~HashCopy(d)
  BY DEF ReceiveWrite, ReceiveDelete, ReceiveOther, ReceiveFails, FailsAt,
         CreateFile, CreateCopy, CopyBecomes, BuildWrites, BuildEnds,
         HashFile, HashCopy, Receives, At
<1>9. ~ReadForBackup(d) /\ ~SendToBackup(d) /\ ~FreesTwice(d)
  BY DEF ReadForBackup, SendToBackup, FreesTwice, PushStep, At
<1>10. ~RenameFails(d)
  <2>1. ASSUME RenameFails(d)
        PROVE  watcher'[d].pc = "ended"
    <3>1. "ended" \in WatcherPC /\ watcher[d] \in Watchers
      BY PlacesAre, WatcherKnows
    <3>2. watcher'[d] = [watcher[d] EXCEPT !.pc = "ended"]
      BY <2>1, DirectoryKnows DEF RenameFails, Goes
    <3>3. QED
      BY <3>1, <3>2, WatcherGoes
  <2>2. QED
    BY <2>1
<1>11. DeleteLooks(d) \/ DeleteRemoves(d) => watcher[d].pc = "unchanged"
  BY AfterDeleteIs DEF DeleteLooks, DeleteRemoves, At
<1>12. QED
  BY <1>7, <1>8, <1>9, <1>10, <1>11 DEF Watcher

LEMMA UploadStep ==
  ASSUME IInv, [Next]_vars, NEW d \in Devices,
         watcher[d].pc \in {"rename", "unchanged"},
         watcher'[d].pc \in {"push write", "loop"}, ~disturbed'[d]
  PROVE  file'[watcher[d].name] = upload[d]
<1>1. PICK n \in Names : n = watcher[d].name
  BY WatcherKnows
<1>2. /\ DirectoryStep(d)
      /\ file'[n] = IF watcher[d].pc = "rename" THEN file[copy_name[n]] ELSE file[n]
  <2>1. CASE RenameCopy(d)
    <3>1. PICK k \in Entries : k = copy_name[n] /\ k # n
      BY EntriesAre
    <3>2. /\ file' = [file EXCEPT ![n] = file[k], ![k] = Absent]
          /\ watcher[d].pc = "rename" /\ DirectoryStep(d)
      BY <1>1, <2>1, <3>1 DEF RenameCopy, At, copy
    <3>3. file'[n] = file[k]
      BY <3>1, <3>2, DirectoryKnows, EntriesAre
    <3>4. QED
      BY <3>1, <3>2, <3>3
  <2>2. CASE watcher[d].pc = "unchanged" /\ DeleteLooks(d)
    BY <2>2 DEF DeleteLooks
  <2>3. CASE watcher[d].pc = "unchanged" /\ DeleteRemoves(d)
    <3>1. PICK pc \in DOMAIN AfterDelete :
            /\ watcher[d].pc = pc /\ DirectoryStep(d)
            /\ file' = [file EXCEPT ![Target(d)] = Absent]
      BY <2>3 DEF DeleteRemoves, At
    <3>2. Target(d) = copy_name[n] /\ copy_name[n] # n
      BY <1>1, <2>3, EntriesAre DEF Target, copy
    <3>3. file'[n] = file[n]
      BY <3>1, <3>2, DirectoryKnows, EntriesAre
    <3>4. QED
      BY <2>3, <3>1, <3>3
  <2>4. QED
    BY <2>1, <2>2, <2>3, UploadEnds
<1>3. ~disturbed[d]
  BY <1>2, DisturbsOthers DEF DirectoryStep
<1>4. UploadAt(watcher[d], file[n], file[copy_name[n]], upload[d])
  BY <1>1, <1>3, WatcherKnows DEF Uploaded
<1>5. /\ file[copy_name[n]] = upload[d]
      /\ watcher[d].pc = "unchanged" => file[n] = file[copy_name[n]]
  BY <1>4 DEF UploadAt, Copied
<1>6. file'[n] = upload[d]
  BY <1>2, <1>5, DirectoryKnows
<1>7. QED
  BY <1>1, <1>6
-----------------------------------------------------------------------------
(* The theorems *)

(* Every variable keeps its type.  What the directory, the backup and the  *)
(* packets hold are files and packets, for any texts.                      *)
THEOREM TypeCorrect == Spec => []TypeOK
<1>1. IInv => TypeOK
  BY DEF IInv
<1>2. QED
  BY Invariance, <1>1, PTL

(* A file goes missing only by a client's wish or as the copy of another   *)
(* file, whatever the names; between deleteFile and renameFile, with what  *)
(* is to replace it whole; or because another device came in between.      *)
THEOREM MissingCorrect == Spec => []MissingOnlyWhenAsked
<1>1. ASSUME IInv
      PROVE  MissingOnlyWhenAsked
  <2> SUFFICES ASSUME NEW n \in Names \ deleted, file[n] = Absent
               PROVE  \E d \in Devices :
                        /\ watcher[d].name = n
                        /\ \/ /\ watcher[d].pc = "rename"
                              /\ file[copy(d)] = upload[d]
                           \/ /\ watcher[d].pc \in {"rename", "ended"}
                              /\ disturbed[d]
    BY DEF MissingOnlyWhenAsked
  <2>1. PICK d \in Devices :
          /\ watcher[d].name = n
          /\ \/ watcher[d].pc = "rename"
             \/ watcher[d].pc = "ended" /\ disturbed[d]
    BY <1>1 DEF IInv, MissingFollows
  <2>2. watcher[d].pc = "rename" /\ ~disturbed[d] => file[copy(d)] = upload[d]
    BY <1>1, WatcherKnows DEF Uploaded, UploadAt, Copied, copy
  <2>3. QED
    BY <2>1, <2>2
<1>2. QED
  BY Invariance, <1>1, PTL

(* A client told that the file is there waits for ever only if the file    *)
(* was missing for a moment after the test.                                *)
THEOREM FoundCorrect == Spec => []FoundIsAnswered
<1>1. IInv => FoundIsAnswered
  BY DEF IInv
<1>2. QED
  BY Invariance, <1>1, PTL

(* The backup has what was pushed to it, as long as no two pushes mixed.   *)
THEOREM BackupCorrect == Spec => []BackupHoldsPushes
<1>1. IInv => BackupHoldsPushes
  BY NobodyPushing DEF BackupHoldsPushes, NobodyPushes
<1>2. QED
  BY Invariance, <1>1, PTL

(* An upload that nobody disturbed becomes the file.                       *)
THEOREM UploadCorrect == Spec => UploadBecomesFile
<1> DEFINE Upload ==
      \A d \in Devices :
        /\ watcher[d].pc \in {"rename", "unchanged"}
        /\ watcher'[d].pc \in {"push write", "loop"}
        /\ ~disturbed'[d]
        => file'[watcher[d].name] = upload[d]
<1>1. IInv /\ [Next]_vars => Upload
  BY UploadStep
<1> HIDE DEF Upload
<1>2. Spec => [][Upload]_vars
  BY <1>1, Invariance, PTL DEF Spec
<1>3. QED
  BY <1>2 DEF UploadBecomesFile, Upload
=============================================================================
