---------------------------- MODULE StackLemmas ----------------------------
(* Facts about sequences used as stacks: pushing with Append, popping with   *)
(* Front, looking at the Last element.                                       *)
EXTENDS Naturals, SequencesExt, SequenceTheorems, TLAPS

\* Popping a stack shortens it by one and keeps the elements below the top.
LEMMA PopProperties ==
    ASSUME NEW S, NEW s \in Seq(S), s # <<>>
    PROVE  /\ Front(s) \in Seq(S)
           /\ Last(s) \in S
           /\ Len(s) \in Nat /\ Len(s) > 0
           /\ Len(Front(s)) = Len(s) - 1
           /\ \A k \in 1 .. Len(s) - 1 : Front(s)[k] = s[k]
           /\ Last(s) = s[Len(s)]
  <1> DEFINE n == Len(s) - 1
  <1>1. n \in Nat /\ n < Len(s) /\ Len(s) \in Nat /\ Len(s) > 0
    OBVIOUS
  <1>2. \A i \in 1 .. n : s[i] \in S
    BY <1>1, ElementOfSeq, LenProperties
  <1>3. 1 \in Int /\ n \in Int
    BY <1>1
  <1> HIDE DEF n
  <1>4. Len(SubSeq(s, 1, n)) = IF 1 <= n THEN n - 1 + 1 ELSE 0
    BY <1>2, <1>3, SubSeqProperties
  <1>5. Len(SubSeq(s, 1, n)) = n
    BY <1>4, <1>1
  <1>6. SubSeq(s, 1, n) \in Seq(S)
    BY <1>2, <1>3, SubSeqProperties
  <1>7. \A k \in 1 .. n : SubSeq(s, 1, n)[k] = s[k]
    BY <1>1
  <1>8. QED
    BY <1>1, <1>5, <1>6, <1>7, ElementOfSeq DEF Front, Last, n

\* Popping an injective stack removes exactly its top from its set of elements.
LEMMA PopInjective ==
    ASSUME NEW S, NEW s \in Seq(S), s # <<>>, IsInjective(s)
    PROVE  /\ IsInjective(Front(s))
           /\ ToSet(Front(s)) = ToSet(s) \ {Last(s)}
  <1>1. /\ Front(s) \in Seq(S)
        /\ Len(s) \in Nat /\ Len(s) > 0
        /\ Len(Front(s)) = Len(s) - 1
        /\ \A k \in 1 .. Len(s) - 1 : Front(s)[k] = s[k]
        /\ Last(s) = s[Len(s)]
    BY PopProperties
  <1>2. /\ DOMAIN s = 1 .. Len(s)
        /\ DOMAIN Front(s) = 1 .. Len(s) - 1
    BY <1>1, LenProperties
  <1>3. IsInjective(Front(s))
    BY <1>1, <1>2 DEF IsInjective
  <1>4. ToSet(Front(s)) = ToSet(s) \ {Last(s)}
    BY <1>1, <1>2 DEF IsInjective, ToSet
  <1>5. QED BY <1>3, <1>4

\* Pushing a new element keeps a stack injective and adds it to the elements.
LEMMA PushInjective ==
    ASSUME NEW S, NEW s \in Seq(S), NEW e \in S
    PROVE  /\ Append(s, e) \in Seq(S)
           /\ ToSet(Append(s, e)) = ToSet(s) \cup {e}
           /\ IsInjective(s) /\ e \notin ToSet(s) => IsInjective(Append(s, e))
  <1>1. /\ Append(s, e) \in Seq(S)
        /\ Len(Append(s, e)) = Len(s) + 1
        /\ \A i \in 1 .. Len(s) : Append(s, e)[i] = s[i]
        /\ Append(s, e)[Len(s) + 1] = e
        /\ Len(s) \in Nat
    BY AppendProperties, LenProperties
  <1>2. /\ DOMAIN s = 1 .. Len(s)
        /\ DOMAIN Append(s, e) = 1 .. Len(s) + 1
    BY <1>1, LenProperties
  <1>3. ToSet(Append(s, e)) = ToSet(s) \cup {e}
    BY <1>1, <1>2 DEF ToSet
  <1>4. IsInjective(s) /\ e \notin ToSet(s) => IsInjective(Append(s, e))
    BY <1>1, <1>2 DEF IsInjective, ToSet
  <1>5. QED BY <1>1, <1>3, <1>4
=============================================================================
