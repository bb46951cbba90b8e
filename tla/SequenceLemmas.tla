--------------------------- MODULE SequenceLemmas ---------------------------
(***************************************************************************)
(* Facts about sequences that the proofs of several components need.       *)
(***************************************************************************)
EXTENDS Integers, SequencesExt, SequenceTheorems, TLAPS

(* Sequences of one element and of two. *)
LEMMA ShortSequences ==
  ASSUME NEW a, NEW b
  PROVE  /\ Append(<< >>, a) = <<a>>
         /\ Append(<<a>>, b) = <<a, b>>
         /\ <<a>> # << >> /\ Head(<<a>>) = a /\ Tail(<<a>>) = << >>
         /\ <<a, b>> # << >> /\ Head(<<a, b>>) = a /\ Tail(<<a, b>>) = <<b>>
<1>1. Append(<< >>, a) = <<a>>
  OBVIOUS
<1>2. Append(<<a>>, b) = <<a, b>>
  <2> DEFINE S == {a, b}
  <2>1. <<a>> \in Seq(S) /\ <<a, b>> \in Seq(S) /\ b \in S /\ Len(<<a>>) = 1
    OBVIOUS
  <2>2. /\ Append(<<a>>, b) \in Seq(S) /\ Len(Append(<<a>>, b)) = 2
        /\ Append(<<a>>, b)[1] = a /\ Append(<<a>>, b)[2] = b
    <3> HIDE DEF S
    <3>1. QED
      BY <2>1, AppendProperties
  <2>3. /\ Len(<<a, b>>) = Len(Append(<<a>>, b))
        /\ \A i \in 1..2 : Append(<<a>>, b)[i] = <<a, b>>[i]
    BY <2>2
  <2> HIDE DEF S
  <2>4. QED
    BY <2>1, <2>2, <2>3, SeqEqual
<1>3. <<a>> # << >>
  OBVIOUS
<1>4. <<a, b>> # << >>
  OBVIOUS
<1>5. Head(<<a>>) = a
  OBVIOUS
<1>6. Head(<<a, b>>) = a
  OBVIOUS
<1>7. Tail(<<a>>) = << >>
  OBVIOUS
<1>8. Tail(<<a, b>>) = <<b>>
  OBVIOUS
<1>9. QED
  BY <1>1, <1>2, <1>3, <1>4, <1>5, <1>6, <1>7, <1>8

(* The elements of a sequence, and of one that grows. *)
LEMMA ToSetElements ==
  ASSUME NEW S, NEW seq \in Seq(S)
  PROVE  /\ ToSet(seq) = {seq[i] : i \in 1..Len(seq)}
         /\ ToSet(seq) \subseteq S
         /\ \A e \in S : ToSet(Append(seq, e)) = ToSet(seq) \cup {e}
<1>1. ToSet(seq) = {seq[i] : i \in 1..Len(seq)}
  BY DEF ToSet
<1>2. ToSet(seq) \subseteq S
  BY <1>1, ElementOfSeq
<1>3. ASSUME NEW e \in S
      PROVE  ToSet(Append(seq, e)) = ToSet(seq) \cup {e}
  <2> DEFINE longer == Append(seq, e)
  <2>1. /\ longer \in Seq(S) /\ Len(longer) = Len(seq) + 1
        /\ \A i \in 1..Len(seq) : longer[i] = seq[i]
        /\ longer[Len(seq) + 1] = e
    BY AppendProperties
  <2>2. Len(seq) \in Nat
    OBVIOUS
  <2> HIDE DEF longer
  <2>3. ToSet(longer) = {longer[i] : i \in 1..(Len(seq) + 1)}
    BY <2>1 DEF ToSet
  <2>4. ASSUME NEW x \in ToSet(longer)
        PROVE  x \in ToSet(seq) \cup {e}
    BY <1>1, <2>1, <2>2, <2>3
  <2>5. ASSUME NEW x \in ToSet(seq) \cup {e}
        PROVE  x \in ToSet(longer)
    <3>1. CASE x = e
      BY <2>1, <2>2, <2>3, <3>1
    <3>2. CASE x \in ToSet(seq)
      <4>1. PICK i \in 1..Len(seq) : x = seq[i]
        BY <1>1, <3>2
      <4>2. i \in 1..(Len(seq) + 1) /\ longer[i] = x
        BY <2>1, <2>2, <4>1
      <4>3. QED
        BY <2>3, <4>2
    <3>3. QED
      BY <2>5, <3>1, <3>2
  <2>6. QED
    BY <2>4, <2>5 DEF longer
<1>4. QED
  BY <1>1, <1>2, <1>3
=============================================================================
