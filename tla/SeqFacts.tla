------------------------------ MODULE SeqFacts ------------------------------
(***************************************************************************)
(* Facts about concatenation that the proofs about logs and histories use. *)
(***************************************************************************)
EXTENDS Integers, Sequences, SequenceTheorems, TLAPS

\* The parts of a concatenation.
LEMMA ConcatParts ==
  ASSUME NEW S, NEW s1 \in Seq(S), NEW s2 \in Seq(S)
  PROVE  /\ s1 \o s2 \in Seq(S)
         /\ Len(s1 \o s2) = Len(s1) + Len(s2)
         /\ \A i \in 1..Len(s1) : (s1 \o s2)[i] = s1[i]
         /\ \A j \in 1..Len(s2) : (s1 \o s2)[Len(s1) + j] = s2[j]
<1>1. Len(s1) \in Nat /\ Len(s2) \in Nat
  BY LenProperties
<1>2. ASSUME NEW j \in 1..Len(s2)
      PROVE  (s1 \o s2)[Len(s1) + j] = s2[j]
  <2>1. /\ Len(s1) + j \in 1..(Len(s1) + Len(s2))
        /\ ~(Len(s1) + j <= Len(s1))
        /\ Len(s1) + j - Len(s1) = j
    BY <1>1
  <2> QED
    BY <2>1, ConcatProperties
<1> QED
  BY <1>1, <1>2, ConcatProperties

\* What a concatenation adds to its first part is its second part.
LEMMA ConcatGain ==
  ASSUME NEW S, NEW s1 \in Seq(S), NEW s2 \in Seq(S)
  PROVE  SubSeq(s1 \o s2, Len(s1) + 1, Len(s1 \o s2)) = s2
<1> DEFINE s == s1 \o s2
           gain == SubSeq(s, Len(s1) + 1, Len(s))
<1>1. /\ Len(s1) \in Nat
      /\ Len(s2) \in Nat
      /\ s \in Seq(S)
      /\ Len(s) = Len(s1) + Len(s2)
      /\ \A i \in 1..Len(s2) : s[Len(s1) + i] = s2[i]
  BY ConcatParts, LenProperties
<1> HIDE DEF s
<1>2. \A i \in (Len(s1) + 1)..Len(s) : s[i] \in S
  BY <1>1, ElementOfSeq
<1>3. /\ gain \in Seq(S)
      /\ Len(gain) = Len(s2)
      /\ \A i \in 1..Len(s2) : gain[i] = s[Len(s1) + i]
  BY <1>1, <1>2, SubSeqProperties
<1> QED
  BY <1>1, <1>3, SeqEqual DEF s

\* Concatenation and one more entry.
LEMMA ConcatAppend ==
  ASSUME NEW S, NEW s \in Seq(S), NEW t \in Seq(S), NEW e \in S
  PROVE  s \o Append(t, e) = Append(s \o t, e)
OBVIOUS

\* Adding a prefix of a sequence entry by entry.
LEMMA ConcatPrefix ==
  ASSUME NEW S, NEW s \in Seq(S), NEW b \in Seq(S), NEW i \in 1..Len(b)
  PROVE  /\ s \o SubSeq(b, 1, 0) = s
         /\ s \o SubSeq(b, 1, i - 1) \in Seq(S)
         /\ s \o SubSeq(b, 1, i) = Append(s \o SubSeq(b, 1, i - 1), b[i])
<1> DEFINE before == SubSeq(b, 1, i - 1)
<1>1. i \in Nat \ {0} /\ Len(b) \in Nat /\ i <= Len(b)
  BY LenProperties
<1>2. b[i] \in S /\ \A j \in 1..i : b[j] \in S
  BY <1>1, ElementOfSeq
<1>3. before \in Seq(S)
  BY <1>1, <1>2, SubSeqProperties
<1>4. SubSeq(b, 1, i) = Append(before, b[i])
  BY <1>1, <1>2, SubSeqRecursiveSecond
<1>5. s \o before \in Seq(S)
  BY <1>3, ConcatProperties
<1> HIDE DEF before
<1>6. s \o Append(before, b[i]) = Append(s \o before, b[i])
  BY <1>2, <1>3, ConcatAppend
<1>7. s \o SubSeq(b, 1, 0) = s
  BY SubSeqEmpty, ConcatEmptySeq
<1> QED
  BY <1>4, <1>5, <1>6, <1>7 DEF before
=============================================================================
