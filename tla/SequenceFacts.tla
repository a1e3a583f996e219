--------------------------- MODULE SequenceFacts ---------------------------
(***************************************************************************)
(* Facts about sequences that the proofs about the call stacks and queues  *)
(* of the models share.                                                    *)
(***************************************************************************)
EXTENDS Integers, Sequences, SequenceTheorems, TLAPS

\* Only the empty sequence has no elements.
LEMMA EmptyLen ==
  ASSUME NEW S, NEW s \in Seq(S)
  PROVE  Len(s) \in Nat /\ (s = <<>> <=> Len(s) = 0)
  BY EmptySeq, LenProperties

\* A sequence of one element.
LEMMA OneElement ==
  ASSUME NEW S, NEW e \in S
  PROVE  LET s == Append(<<>>, e)
         IN s \in Seq(S) /\ s # <<>> /\ Len(s) = 1 /\ s[1] = e
<1>1. <<>> \in Seq(S) /\ Len(<<>>) = 0
  BY EmptySeq
<1> QED BY <1>1, AppendProperties

\* A sequence without its last element.
LEMMA FrontProperties ==
  ASSUME NEW S, NEW s \in Seq(S), s # <<>>
  PROVE  LET t == SubSeq(s, 1, Len(s) - 1)
         IN /\ t \in Seq(S) /\ Len(t) = Len(s) - 1
            /\ t = <<>> <=> Len(s) = 1
            /\ \A i \in 1 .. Len(s) - 1 : t[i] = s[i]
<1>1. PICK n \in Nat : n = Len(s) /\ n > 0
  BY EmptyLen
<1> DEFINE t == SubSeq(s, 1, n - 1)
<1>2. \A i \in 1 .. n - 1 : s[i] \in S
  BY <1>1, ElementOfSeq
<1>3. /\ t \in Seq(S)
      /\ Len(t) = IF 1 <= n - 1 THEN (n - 1) - 1 + 1 ELSE 0
      /\ \A i \in 1 .. (n - 1) - 1 + 1 : t[i] = s[1 + i - 1]
  <2>1. n - 1 \in Int /\ 1 \in Int
    OBVIOUS
  <2> QED BY <1>2, <2>1, SubSeqProperties
<1> HIDE DEF t
<1>4. Len(t) = n - 1
  BY <1>1, <1>3
<1>5. \A i \in 1 .. n - 1 : t[i] = s[i]
  BY <1>3
<1>6. t = <<>> <=> Len(t) = 0
  BY <1>3, EmptyLen
<1> QED BY <1>1, <1>3, <1>4, <1>5, <1>6 DEF t

\* A sequence without its first element.
LEMMA TailProperties ==
  ASSUME NEW S, NEW s \in Seq(S), s # <<>>
  PROVE  /\ Tail(s) \in Seq(S) /\ Len(Tail(s)) = Len(s) - 1
         /\ Tail(s) = <<>> <=> Len(s) = 1
         /\ Head(s) = s[1]
         /\ \A i \in 1 .. Len(s) - 1 : Tail(s)[i] = s[i + 1]
<1>1. PICK n \in Nat : n = Len(s) /\ n > 0
  BY EmptyLen
<1>2. /\ Tail(s) \in Seq(S) /\ Len(Tail(s)) = n - 1
      /\ \A i \in 1 .. Len(Tail(s)) : Tail(s)[i] = s[i + 1]
  BY <1>1, HeadTailProperties
<1>3. Tail(s) = <<>> <=> Len(Tail(s)) = 0
  BY <1>2, EmptyLen
<1>4. Head(s) = s[1]
  OBVIOUS
<1> QED BY <1>1, <1>2, <1>3, <1>4

\* A sequence whose last element is replaced.
LEMMA ReplaceLast ==
  ASSUME NEW S, NEW s \in Seq(S), s # <<>>, NEW e \in S
  PROVE  LET t == Append(SubSeq(s, 1, Len(s) - 1), e)
         IN /\ t \in Seq(S) /\ t # <<>> /\ Len(t) = Len(s)
            /\ \A i \in 1 .. Len(s) - 1 : t[i] = s[i]
            /\ t[Len(s)] = e
<1> DEFINE u == SubSeq(s, 1, Len(s) - 1)
<1>1. PICK n \in Nat : n = Len(s) /\ n > 0
  BY EmptyLen
<1>2. u \in Seq(S) /\ Len(u) = n - 1 /\ \A i \in 1 .. n - 1 : u[i] = s[i]
  BY <1>1, FrontProperties
<1> HIDE DEF u
<1>3. /\ Append(u, e) \in Seq(S) /\ Append(u, e) # <<>> /\ Len(Append(u, e)) = n - 1 + 1
      /\ \A i \in 1 .. n - 1 : Append(u, e)[i] = u[i]
      /\ Append(u, e)[n - 1 + 1] = e
  BY <1>2, AppendProperties
<1> QED BY <1>1, <1>2, <1>3 DEF u

\* A sequence with one more element.
LEMMA AppendFacts ==
  ASSUME NEW S, NEW s \in Seq(S), NEW e \in S
  PROVE  LET t == Append(s, e)
         IN /\ t \in Seq(S) /\ t # <<>> /\ Len(t) = Len(s) + 1
            /\ \A i \in 1 .. Len(s) : t[i] = s[i]
            /\ t[Len(s) + 1] = e
  BY AppendProperties

\* Two sequences, one after the other.
LEMMA ConcatFacts ==
  ASSUME NEW S, NEW s \in Seq(S), NEW t \in Seq(S)
  PROVE  LET u == s \o t
         IN /\ u \in Seq(S) /\ Len(u) = Len(s) + Len(t)
            /\ \A i \in 1 .. Len(s) : u[i] = s[i]
            /\ \A i \in 1 .. Len(t) : u[Len(s) + i] = t[i]
<1>1. Len(s) \in Nat /\ Len(t) \in Nat
  BY EmptyLen
<1>2. /\ s \o t \in Seq(S) /\ Len(s \o t) = Len(s) + Len(t)
      /\ \A i \in 1 .. Len(s) + Len(t) : (s \o t)[i] =
           IF i <= Len(s) THEN s[i] ELSE t[i - Len(s)]
  BY ConcatProperties
<1>3. ASSUME NEW i \in 1 .. Len(s) PROVE (s \o t)[i] = s[i]
  BY <1>1, <1>2
<1>4. ASSUME NEW i \in 1 .. Len(t) PROVE (s \o t)[Len(s) + i] = t[i]
  <2>1. PICK j \in 1 .. Len(s) + Len(t) : j = Len(s) + i /\ ~(j <= Len(s)) /\ j - Len(s) = i
    BY <1>1
  <2> QED BY <1>2, <2>1
<1> QED BY <1>2, <1>3, <1>4

\* A function on 1 .. n as a sequence.
LEMMA FunctionSeq ==
  ASSUME NEW S, NEW n \in Nat, NEW f, f \in [1 .. n -> S]
  PROVE  f \in Seq(S) /\ Len(f) = n
  BY LenProperties
=============================================================================
