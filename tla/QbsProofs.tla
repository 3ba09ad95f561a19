----------------------------- MODULE QbsProofs -----------------------------
(***************************************************************************)
(* Proofs about Qbs, for any number of strings, any lengths and any first  *)
(* sizes.  Each function of the heap takes a heap in which strings do not  *)
(* overlap and the two lists are exact (Sound) to one that is so again,    *)
(* though not each step of it: while a string has no place in qbs_list, or *)
(* in qbs_tmp_list, the rest must be sound without it (the u of ListSound, *)
(* TmpsSound).  What the recursive definitions compute is found by         *)
(* induction on the entries of a list, with sets in place of predicates.   *)
(***************************************************************************)
EXTENDS Qbs, StackLemmas, WellFoundedInduction

-----------------------------------------------------------------------------
(* Induction on the entries of a list.                                     *)

\* A set that has 0, and i with i - 1, has all numbers up to n.
LEMMA UpTo ==
    ASSUME NEW n \in Nat, NEW T, 0 \in T, \A i \in 1 .. n : i - 1 \in T => i \in T
    PROVE  0 .. n \subseteq T
  <1> DEFINE Missing == (0 .. n) \ T
             R == OpToRel(<, Nat)
  <1> SUFFICES ASSUME Missing # {} PROVE FALSE
    OBVIOUS
  <1>1. Missing \subseteq Nat
    OBVIOUS
  <1>2. IsWellFoundedOn(R, Nat)
    BY NatLessThanWellFounded
  <1> HIDE DEF Missing, R
  <1>3. \E x \in Missing : \A y \in Missing : <<y, x>> \notin R
    BY <1>1, <1>2, WFMin
  <1>4. PICK x \in Missing : \A y \in Missing : <<y, x>> \notin R
    BY <1>3
  <1>5. x \in 1 .. n /\ x \notin T
    BY DEF Missing
  <1>6. x - 1 \in 0 .. n /\ x - 1 \notin T
    BY <1>5
  <1>7. x - 1 \in Missing
    BY <1>6 DEF Missing
  <1>8. <<x - 1, x>> \in R
    BY <1>5 DEF R, OpToRel
  <1> QED BY <1>4, <1>7, <1>8

\* f begins with a and goes on by the steps of F.
Runs(f, n, S, a, F) ==
    f \in [0 .. n -> S] /\ f[0] = a /\ \A i \in 1 .. n : f[i] = F[i][f[i - 1]]

\* There is one.
LEMMA Recursion ==
    ASSUME NEW n \in Nat, NEW S, NEW a \in S, NEW F \in [1 .. n -> [S -> S]]
    PROVE  \E f : Runs(f, n, S, a, F)
  <1> DEFINE T == {m \in 0 .. n : \E f : Runs(f, m, S, a, F)}
  <1>1. 0 \in T
    <2> DEFINE f == [i \in 0 .. 0 |-> a]
    <2>1. f \in [0 .. 0 -> S] /\ f[0] = a /\ 1 .. 0 = {}
      OBVIOUS
    <2> HIDE DEF f
    <2>2. Runs(f, 0, S, a, F)
      BY <2>1 DEF Runs
    <2> QED BY <2>2
  <1>2. ASSUME NEW i \in 1 .. n, i - 1 \in T PROVE i \in T
    <2>1. PICK f : Runs(f, i - 1, S, a, F)
      BY <1>2
    <2>2. f \in [0 .. i - 1 -> S] /\ f[0] = a /\ \A j \in 1 .. i - 1 : f[j] = F[j][f[j - 1]]
      BY <2>1 DEF Runs
    <2> DEFINE g == [j \in 0 .. i |-> IF j = i THEN F[i][f[i - 1]] ELSE f[j]]
    <2>3. F[i][f[i - 1]] \in S
      BY <2>2
    <2>4. g \in [0 .. i -> S]
      BY <2>2, <2>3
    <2>5. \A j \in 1 .. i : g[j] = F[j][g[j - 1]]
      BY <2>2
    <2>6. g[0] = a
      BY <2>2
    <2> HIDE DEF g
    <2>7. Runs(g, i, S, a, F)
      BY <2>4, <2>5, <2>6 DEF Runs
    <2> QED BY <2>7
  <1> HIDE DEF T
  <1>3. \A i \in 1 .. n : i - 1 \in T => i \in T
    BY <1>2
  <1>4. n \in T
    <2>1. 0 .. n \subseteq T
      BY <1>1, <1>3, UpTo
    <2> QED BY <2>1
  <1> QED BY <1>4 DEF T

\* Finite sets of numbers have a least and a greatest element.
LEMMA MinIs ==
    ASSUME NEW n \in Nat, NEW A, A \subseteq 0 .. n, A # {}
    PROVE  Min(A) \in A /\ \A i \in A : Min(A) <= i
  <1> DEFINE T == {m \in 0 .. n : \/ \A i \in A : i > m
                                  \/ \E x \in A : \A i \in A : x <= i}
  <1>1. 0 \in T
    OBVIOUS
  <1>2. ASSUME NEW i \in 1 .. n, i - 1 \in T PROVE i \in T
    <2>1. CASE \A j \in A : j > i - 1
      BY <2>1
    <2>2. CASE \E x \in A : \A j \in A : x <= j
      BY <2>2
    <2> QED BY <1>2, <2>1, <2>2
  <1> HIDE DEF T
  <1>3. \A i \in 1 .. n : i - 1 \in T => i \in T
    BY <1>2
  <1>4. n \in T
    <2>1. 0 .. n \subseteq T
      BY <1>1, <1>3, UpTo
    <2> QED BY <2>1
  <1>5. PICK x \in A : TRUE
    OBVIOUS
  <1>6. x <= n /\ \A i \in A : i <= n
    OBVIOUS
  <1>7. \E y \in A : \A i \in A : y <= i
    BY <1>4, <1>5, <1>6 DEF T
  <1> QED BY <1>7 DEF Min

LEMMA MaxIs ==
    ASSUME NEW n \in Nat, NEW A, A \subseteq 0 .. n, A # {}
    PROVE  Max(A) \in A /\ \A i \in A : Max(A) >= i
  <1> DEFINE T == {m \in 0 .. n : \/ \A i \in A : i > m
                                  \/ \E x \in A : x <= m /\ \A i \in A : i <= m => i <= x}
  <1>1. 0 \in T
    OBVIOUS
  <1>2. ASSUME NEW i \in 1 .. n, i - 1 \in T PROVE i \in T
    <2>1. CASE i \in A
      BY <2>1
    <2>2. CASE i \notin A /\ \A j \in A : j > i - 1
      BY <2>2
    <2>3. CASE i \notin A /\ \E x \in A : x <= i - 1 /\ \A j \in A : j <= i - 1 => j <= x
      <3>1. PICK x \in A : x <= i - 1 /\ \A j \in A : j <= i - 1 => j <= x
        BY <2>3
      <3>2. x <= i /\ \A j \in A : j <= i => j <= x
        BY <2>3, <3>1
      <3> QED BY <3>2
    <2> QED BY <1>2, <2>1, <2>2, <2>3
  <1> HIDE DEF T
  <1>3. \A i \in 1 .. n : i - 1 \in T => i \in T
    BY <1>2
  <1>4. n \in T
    <2>1. 0 .. n \subseteq T
      BY <1>1, <1>3, UpTo
    <2> QED BY <2>1
  <1>5. PICK x \in A : TRUE
    OBVIOUS
  <1>6. x <= n /\ \A i \in A : i <= n
    OBVIOUS
  <1>7. \E y \in A : \A i \in A : y >= i
    BY <1>4, <1>5, <1>6 DEF T
  <1> QED BY <1>7 DEF Max

-----------------------------------------------------------------------------
(* What a heap must be.                                                    *)

Descriptor == [live : BOOLEAN, heap : BOOLEAN, tmp : BOOLEAN, chr : Nat, len : Nat,
               listi : Nat, tmplisti : Nat]
Entry == Strings \cup {Hole}
Heap == [str : [Strings -> Descriptor], list : Seq(Entry), lasti : Nat, tmps : Seq(Entry),
         sp : Nat, size : Nat]

\* The strings listed lie in the order of the list, below e.
InOrder(h) ==
    \A i, j \in DOMAIN h.list :
        i < j /\ h.list[i] # Hole /\ h.list[j] # Hole =>
            End(h, h.list[i]) <= h.str[h.list[j]].chr
Below(h, e) == \A i \in DOMAIN h.list : h.list[i] # Hole => End(h, h.list[i]) <= e
OrderSound(h) == InOrder(h) /\ Below(h, h.sp) /\ h.sp <= h.size

\* qbs_list, while u has no place in it.
ListSound(h, u) ==
    /\ \A s \in Strings \ {u} : h.str[s].live /\ h.str[s].heap <=> Listed(h, s)
    /\ \A i \in DOMAIN h.list :
          h.list[i] # Hole => h.list[i] # u /\ h.str[h.list[i]].listi = i
    /\ Len(h.list) <= h.lasti + 1 /\ h.lasti >= 1

\* qbs_tmp_list, while u has no place in it.
TmpsSound(h, u) ==
    /\ \A s \in Strings \ {u} : h.str[s].live /\ h.str[s].tmp =>
          h.str[s].tmplisti \in DOMAIN h.tmps /\ h.tmps[h.str[s].tmplisti] = s
    /\ \A i \in DOMAIN h.tmps : h.tmps[i] # Hole =>
          /\ h.tmps[i] # u
          /\ h.str[h.tmps[i]].live /\ h.str[h.tmps[i]].tmp /\ h.str[h.tmps[i]].tmplisti = i

Sound(h) == h \in Heap /\ OrderSound(h) /\ ListSound(h, Hole) /\ TmpsSound(h, Hole)

-----------------------------------------------------------------------------
(* What the functions on lists return.                                     *)

LEMMA WithoutIs ==
    ASSUME NEW list \in Seq(Entry), NEW i
    PROVE  /\ Without(list, i) \in Seq(Entry)
           /\ DOMAIN Without(list, i) = DOMAIN list /\ Len(Without(list, i)) = Len(list)
           /\ \A j \in DOMAIN list : Without(list, i)[j] = IF j = i THEN Hole ELSE list[j]
  <1>1. DOMAIN list = 1 .. Len(list) /\ Len(list) \in Nat
    OBVIOUS
  <1>2. Without(list, i) = [j \in 1 .. Len(list) |-> IF j = i THEN Hole ELSE list[j]]
    BY <1>1 DEF Without
  <1>3. \A j \in 1 .. Len(list) : (IF j = i THEN Hole ELSE list[j]) \in Entry
    BY DEF Entry
  <1> QED BY <1>1, <1>2, <1>3

\* A list without the holes at its end is a part of it, with all its strings.
LEMMA TrimIs ==
    ASSUME NEW list \in Seq(Entry)
    PROVE  /\ Trim(list) \in Seq(Entry)
           /\ Len(Trim(list)) <= Len(list)
           /\ \A j \in 1 .. Len(Trim(list)) : Trim(list)[j] = list[j]
           /\ \A j \in DOMAIN list : list[j] # Hole => j <= Len(Trim(list))
           /\ Len(Trim(list)) # 0 => Trim(list)[Len(Trim(list))] # Hole
  <1> DEFINE A == {0} \cup {j \in DOMAIN list : list[j] # Hole}
             m == Max(A)
  <1>1. Len(list) \in Nat /\ DOMAIN list = 1 .. Len(list)
    OBVIOUS
  <1>2. A \subseteq 0 .. Len(list) /\ A # {}
    BY <1>1
  <1> HIDE DEF A
  <1>3. m \in A /\ \A i \in A : m >= i
    BY <1>1, <1>2, MaxIs
  <1>4. m \in 0 .. Len(list) /\ 1 \in Int
    <2> HIDE DEF m
    <2> QED BY <1>2, <1>3
  <1> HIDE DEF m
  <1>5. \A i \in 1 .. m : list[i] \in Entry
    BY <1>1, <1>4, ElementOfSeq
  <1>6. Trim(list) = SubSeq(list, 1, m)
    BY DEF Trim, m, A
  <1>7. /\ SubSeq(list, 1, m) \in Seq(Entry)
        /\ Len(SubSeq(list, 1, m)) = IF 1 <= m THEN m - 1 + 1 ELSE 0
        /\ \A i \in 1 .. m - 1 + 1 : SubSeq(list, 1, m)[i] = list[1 + i - 1]
    BY <1>4, <1>5, SubSeqProperties
  <1>8. Len(Trim(list)) = m /\ \A i \in 1 .. m : Trim(list)[i] = list[i]
    BY <1>4, <1>6, <1>7
  <1>9. \A j \in DOMAIN list : list[j] # Hole => j <= m
    BY <1>3 DEF A
  <1>10. m # 0 => list[m] # Hole
    BY <1>3 DEF A
  <1> QED BY <1>1, <1>4, <1>6, <1>7, <1>8, <1>9, <1>10

LEMMA FrontIs ==
    ASSUME NEW list \in Seq(Entry), Len(list) > 0
    PROVE  /\ Front(list) \in Seq(Entry) /\ Len(Front(list)) = Len(list) - 1
           /\ \A j \in 1 .. Len(list) - 1 : Front(list)[j] = list[j]
           /\ Last(list) = list[Len(list)]
  <1>1. list # <<>>
    OBVIOUS
  <1> QED BY <1>1, PopProperties

\* The list without holes has the strings in the same order: p tells where each one was.
Picks(p, list, kept, i) ==
    /\ p \in [1 .. Len(kept) -> 1 .. i]
    /\ \A j, k \in 1 .. Len(kept) : j < k => p[j] < p[k]
    /\ \A j \in 1 .. Len(kept) : kept[j] = list[p[j]] /\ list[p[j]] # Hole
    /\ \A m \in 1 .. i : list[m] # Hole => \E j \in 1 .. Len(kept) : p[j] = m

LEMMA PickNone ==
    ASSUME NEW list, NEW kept \in Seq(Entry), NEW i \in Nat \ {0}, NEW p,
           Picks(p, list, kept, i - 1), list[i] = Hole
    PROVE  Picks(p, list, kept, i)
  <1>1. p \in [1 .. Len(kept) -> 1 .. i]
    BY DEF Picks
  <1>2. \A m \in 1 .. i : list[m] # Hole => m \in 1 .. i - 1
    OBVIOUS
  <1> QED BY <1>1, <1>2 DEF Picks

LEMMA PickOne ==
    ASSUME NEW list, NEW kept \in Seq(Entry), NEW i \in Nat \ {0}, NEW p,
           Picks(p, list, kept, i - 1), list[i] \in Entry, list[i] # Hole
    PROVE  \E q : Picks(q, list, Append(kept, list[i]), i)
  <1> DEFINE n == Len(kept)
             more == Append(kept, list[i])
             q == [j \in 1 .. n + 1 |-> IF j = n + 1 THEN i ELSE p[j]]
  <1>1. /\ n \in Nat /\ Len(more) = n + 1 /\ more[n + 1] = list[i]
        /\ \A j \in 1 .. n : more[j] = kept[j]
    BY AppendProperties, LenProperties
  <1>2. /\ p \in [1 .. n -> 1 .. i - 1]
        /\ \A j, k \in 1 .. n : j < k => p[j] < p[k]
        /\ \A j \in 1 .. n : kept[j] = list[p[j]] /\ list[p[j]] # Hole
        /\ \A m \in 1 .. i - 1 : list[m] # Hole => \E j \in 1 .. n : p[j] = m
    BY DEF Picks
  <1> HIDE DEF n, more
  <1>3. q \in [1 .. n + 1 -> 1 .. i]
    BY <1>1, <1>2
  <1>4. q[n + 1] = i /\ \A j \in 1 .. n : q[j] = p[j]
    BY <1>1
  <1> HIDE DEF q
  <1>5. \A j, k \in 1 .. n + 1 : j < k => q[j] < q[k]
    <2> TAKE j, k \in 1 .. n + 1
    <2> HAVE j < k
    <2>1. j \in 1 .. n /\ q[j] = p[j] /\ p[j] \in 1 .. i - 1
      BY <1>1, <1>2, <1>4
    <2>2. CASE k = n + 1
      BY <1>4, <2>1, <2>2
    <2>3. CASE k \in 1 .. n
      BY <1>2, <1>4, <2>1, <2>3
    <2> QED BY <1>1, <2>2, <2>3
  <1>6. \A j \in 1 .. n + 1 : more[j] = list[q[j]] /\ list[q[j]] # Hole
    BY <1>1, <1>2, <1>4
  <1>7. \A m \in 1 .. i : list[m] # Hole => \E j \in 1 .. n + 1 : q[j] = m
    <2> TAKE m \in 1 .. i
    <2>1. CASE m = i
      BY <1>1, <1>4, <2>1
    <2>2. CASE m \in 1 .. i - 1
      <3> HAVE list[m] # Hole
      <3>1. PICK j \in 1 .. n : p[j] = m
        BY <1>2, <2>2
      <3>2. j \in 1 .. n + 1 /\ q[j] = m
        BY <1>1, <1>4, <3>1
      <3> QED BY <3>2
    <2> QED BY <2>1, <2>2
  <1>8. Picks(q, list, more, i)
    BY <1>1, <1>3, <1>5, <1>6, <1>7 DEF Picks
  <1> QED BY <1>8 DEF more

LEMMA WithoutHolesIs ==
    ASSUME NEW list \in Seq(Entry)
    PROVE  /\ WithoutHoles(list) \in Seq(Entry) /\ Len(WithoutHoles(list)) <= Len(list)
           /\ \E p : Picks(p, list, WithoutHoles(list), Len(list))
  <1> DEFINE n == Len(list)
             S == Seq(Entry)
             Step(i, k) == IF list[i] = Hole THEN k ELSE Append(k, list[i])
             Run(f) == f = [i \in 0 .. n |-> IF i = 0 THEN <<>> ELSE Step(i, f[i - 1])]
             kept == CHOOSE f : Run(f)
             F == [i \in 1 .. n |-> [k \in S |-> Step(i, k)]]
  <1>1. n \in Nat /\ \A i \in 1 .. n : list[i] \in Entry
    BY ElementOfSeq
  <1>2. WithoutHoles(list) = kept[n]
    BY DEF WithoutHoles
  <1>3. \A i \in 1 .. n : \A k \in S : Step(i, k) \in S
    BY <1>1, AppendProperties
  <1>4. <<>> \in S
    OBVIOUS
  <1>20. n \in Nat /\ n = Len(list)
    BY <1>1
  <1> HIDE DEF Step, S, n
  <1>5. F \in [1 .. n -> [S -> S]]
    BY <1>3
  <1>6. \E f : Runs(f, n, S, <<>>, F)
    <2> DEFINE a == <<>>
    <2>1. a \in S
      BY <1>4
    <2> HIDE DEF F, a
    <2>2. \E f : Runs(f, n, S, a, F)
      BY <1>1, <1>5, <2>1, Recursion
    <2> QED BY <2>2 DEF a
  <1>7. PICK f : Runs(f, n, S, <<>>, F)
    BY <1>6
  <1>8. f \in [0 .. n -> S] /\ f[0] = <<>> /\ \A i \in 1 .. n : f[i] = Step(i, f[i - 1])
    <2>1. f \in [0 .. n -> S] /\ f[0] = <<>> /\ \A i \in 1 .. n : f[i] = F[i][f[i - 1]]
      BY <1>7 DEF Runs
    <2>2. \A i \in 1 .. n : f[i - 1] \in S
      BY <1>1, <2>1
    <2>3. \A i \in 1 .. n : F[i][f[i - 1]] = Step(i, f[i - 1])
      BY <2>2
    <2> HIDE DEF F
    <2> QED BY <2>1, <2>3
  <1>9. Run(f)
    <2>1. \A i \in 0 .. n : i = 0 \/ i \in 1 .. n
      BY <1>1
    <2> QED BY <1>8, <2>1
  <1>10. Run(kept)
    <2> HIDE DEF Run
    <2> QED BY <1>9
  <1> HIDE DEF kept
  <1>11. kept[0] = <<>> /\ \A i \in 1 .. n : kept[i] = Step(i, kept[i - 1])
    <2>1. 0 \in 0 .. n /\ 1 .. n \subseteq 0 .. n /\ \A i \in 1 .. n : i # 0
      BY <1>1
    <2>2. \A i \in 0 .. n : kept[i] = IF i = 0 THEN <<>> ELSE Step(i, kept[i - 1])
      BY <1>10
    <2> QED BY <2>1, <2>2
  <1> HIDE DEF Run
  <1> DEFINE T == {i \in 0 .. n : /\ kept[i] \in Seq(Entry) /\ Len(kept[i]) <= i
                                  /\ \E p : Picks(p, list, kept[i], i)}
  <1>13. 0 \in T
    <2>1. Picks(<<>>, list, <<>>, 0)
      BY DEF Picks
    <2>2. kept[0] \in Seq(Entry) /\ Len(kept[0]) <= 0 /\ Picks(<<>>, list, kept[0], 0)
      BY <2>1, <1>11
    <2> QED BY <2>2, <1>1
  <1>14. ASSUME NEW i \in 1 .. n, i - 1 \in T PROVE i \in T
    <2>1. PICK p : Picks(p, list, kept[i - 1], i - 1)
      BY <1>14
    <2>2. kept[i - 1] \in Seq(Entry) /\ Len(kept[i - 1]) <= i - 1 /\ i \in Nat \ {0}
      BY <1>14
    <2>3. CASE list[i] = Hole
      <3>1. kept[i] = kept[i - 1]
        BY <1>11, <2>3 DEF Step
      <3>2. Picks(p, list, kept[i], i)
        BY <2>1, <2>2, <2>3, <3>1, PickNone
      <3> QED BY <2>2, <3>1, <3>2
    <2>4. CASE list[i] # Hole
      <3>1. kept[i] = Append(kept[i - 1], list[i])
        BY <1>11, <2>4 DEF Step
      <3>2. \E q : Picks(q, list, kept[i], i)
        BY <1>1, <2>1, <2>2, <2>4, <3>1, PickOne
      <3>3. kept[i] \in Seq(Entry) /\ Len(kept[i]) = Len(kept[i - 1]) + 1
        BY <1>1, <2>2, <3>1, AppendProperties
      <3> QED BY <2>2, <3>2, <3>3
    <2> QED BY <2>3, <2>4
  <1> HIDE DEF T
  <1>15. \A i \in 1 .. n : i - 1 \in T => i \in T
    BY <1>14
  <1>16. n \in T
    <2>1. 0 .. n \subseteq T
      BY <1>20, <1>13, <1>15, UpTo
    <2> QED BY <2>1, <1>20
  <1> QED BY <1>2, <1>16, <1>20 DEF T

-----------------------------------------------------------------------------
(* qbs_concat().                                                           *)

\* The lists, and what strings know of them, are the same.
ListAlike(g, h) ==
    /\ g.list = h.list /\ g.lasti = h.lasti
    /\ \A s \in Strings : /\ g.str[s].live = h.str[s].live /\ g.str[s].heap = h.str[s].heap
                          /\ g.str[s].listi = h.str[s].listi
TmpsAlike(g, h) ==
    /\ g.tmps = h.tmps
    /\ \A s \in Strings : /\ g.str[s].live = h.str[s].live /\ g.str[s].tmp = h.str[s].tmp
                          /\ g.str[s].tmplisti = h.str[s].tmplisti

LEMMA EntriesAreStrings ==
    ASSUME NEW list \in Seq(Entry), NEW i \in DOMAIN list, list[i] # Hole
    PROVE  list[i] \in Strings
  BY DEF Entry

LEMMA HeapFields ==
    ASSUME NEW h \in Heap
    PROVE  /\ h.str \in [Strings -> Descriptor] /\ h.list \in Seq(Entry) /\ h.tmps \in Seq(Entry)
           /\ h.lasti \in Nat /\ h.sp \in Nat /\ h.size \in Nat
           /\ DOMAIN h.list = 1 .. Len(h.list) /\ Len(h.list) \in Nat
           /\ DOMAIN h.tmps = 1 .. Len(h.tmps) /\ Len(h.tmps) \in Nat
           /\ \A i \in 1 .. Len(h.list) : h.list[i] # Hole => h.list[i] \in Strings
           /\ \A i \in 1 .. Len(h.tmps) : h.tmps[i] # Hole => h.tmps[i] \in Strings
           /\ \A s \in Strings : /\ h.str[s] \in Descriptor
                                 /\ h.str[s].chr \in Nat /\ h.str[s].len \in Nat
                                 /\ h.str[s].listi \in Nat /\ h.str[s].tmplisti \in Nat
                                 /\ h.str[s].live \in BOOLEAN /\ h.str[s].heap \in BOOLEAN
                                 /\ h.str[s].tmp \in BOOLEAN
                                 /\ End(h, s) = h.str[s].chr + h.str[s].len
                                 /\ End(h, s) \in Nat
  <1>1. /\ h.str \in [Strings -> Descriptor] /\ h.list \in Seq(Entry) /\ h.tmps \in Seq(Entry)
        /\ h.lasti \in Nat /\ h.sp \in Nat /\ h.size \in Nat
    BY DEF Heap
  <1>2. /\ DOMAIN h.list = 1 .. Len(h.list) /\ Len(h.list) \in Nat
        /\ DOMAIN h.tmps = 1 .. Len(h.tmps) /\ Len(h.tmps) \in Nat
    BY <1>1
  <1>3. \A i \in 1 .. Len(h.list) : h.list[i] # Hole => h.list[i] \in Strings
    BY <1>1, <1>2, EntriesAreStrings
  <1>4. \A i \in 1 .. Len(h.tmps) : h.tmps[i] # Hole => h.tmps[i] \in Strings
    BY <1>1, <1>2, EntriesAreStrings
  <1>5. ASSUME NEW s \in Strings
        PROVE  /\ h.str[s] \in Descriptor
               /\ h.str[s].chr \in Nat /\ h.str[s].len \in Nat
               /\ h.str[s].listi \in Nat /\ h.str[s].tmplisti \in Nat
               /\ h.str[s].live \in BOOLEAN /\ h.str[s].heap \in BOOLEAN
               /\ h.str[s].tmp \in BOOLEAN
    BY <1>1 DEF Descriptor
  <1>6. \A s \in Strings : /\ End(h, s) = h.str[s].chr + h.str[s].len
                           /\ End(h, s) \in Nat
    BY <1>5 DEF End
  <1> QED BY <1>1, <1>2, <1>3, <1>4, <1>5, <1>6

LEMMA ListAlikeSound ==
    ASSUME NEW g \in Heap, NEW h \in Heap, NEW u, ListAlike(g, h), ListSound(h, u)
    PROVE  ListSound(g, u)
  <1>1. \A s \in Strings : Listed(g, s) <=> Listed(h, s)
    BY DEF ListAlike, Listed
  <1>2. \A i \in DOMAIN h.list : h.list[i] # Hole => h.list[i] \in Strings
    BY HeapFields
  <1> QED BY <1>1, <1>2 DEF ListAlike, ListSound

LEMMA TmpsAlikeSound ==
    ASSUME NEW g \in Heap, NEW h \in Heap, NEW u, TmpsAlike(g, h), TmpsSound(h, u)
    PROVE  TmpsSound(g, u)
  <1>1. \A i \in DOMAIN h.tmps : h.tmps[i] # Hole => h.tmps[i] \in Strings
    BY HeapFields
  <1> QED BY <1>1 DEF TmpsAlike, TmpsSound

\* Where the entries up to i end, given where those before i do.
EndAfter(h, i, v) ==
    IF h.list[i] = Hole THEN v
    ELSE IF h.str[h.list[i]].chr - v > Pad THEN v + h.str[h.list[i]].len
         ELSE End(h, h.list[i])

LEMMA EndAfterType ==
    ASSUME NEW h \in Heap, NEW i \in 1 .. Len(h.list), NEW v \in Int
    PROVE  EndAfter(h, i, v) \in Int
  <1>1. h.list[i] # Hole => h.list[i] \in Strings
    BY HeapFields
  <1>2. \A s \in Strings : /\ h.str[s].chr \in Nat /\ h.str[s].len \in Nat
                           /\ End(h, s) \in Nat
    BY HeapFields
  <1> QED BY <1>1, <1>2 DEF EndAfter

LEMMA PackedEndIs ==
    ASSUME NEW h \in Heap
    PROVE  /\ PackedEnd(h) \in [0 .. Len(h.list) -> Int]
           /\ PackedEnd(h)[0] = 0
           /\ \A i \in 1 .. Len(h.list) : PackedEnd(h)[i] = EndAfter(h, i, PackedEnd(h)[i - 1])
  <1> DEFINE n == Len(h.list)
             Run(f) == f = [i \in 0 .. n |-> IF i = 0 THEN 0 ELSE EndAfter(h, i, f[i - 1])]
             end == CHOOSE f : Run(f)
             F == [i \in 1 .. n |-> [v \in Int |-> EndAfter(h, i, v)]]
  <1>1. n \in Nat
    BY HeapFields
  <1>2. PackedEnd(h) = end
    BY DEF PackedEnd, EndAfter
  <1>3. \A i \in 1 .. n : \A v \in Int : EndAfter(h, i, v) \in Int
    BY EndAfterType
  <1> HIDE DEF n
  <1>4. F \in [1 .. n -> [Int -> Int]]
    BY <1>3
  <1>5. \E f : Runs(f, n, Int, 0, F)
    <2> DEFINE S == Int
               a == 0
    <2>1. a \in S /\ F \in [1 .. n -> [S -> S]]
      BY <1>4
    <2> HIDE DEF F, S, a
    <2>2. \E f : Runs(f, n, S, a, F)
      BY <1>1, <2>1, Recursion
    <2> QED BY <2>2 DEF S, a
  <1>6. PICK f : Runs(f, n, Int, 0, F)
    BY <1>5
  <1>7. f \in [0 .. n -> Int] /\ f[0] = 0 /\ \A i \in 1 .. n : f[i] = EndAfter(h, i, f[i - 1])
    <2>1. f \in [0 .. n -> Int] /\ f[0] = 0 /\ \A i \in 1 .. n : f[i] = F[i][f[i - 1]]
      BY <1>6 DEF Runs
    <2>2. \A i \in 1 .. n : f[i - 1] \in Int
      BY <1>1, <2>1
    <2>3. \A i \in 1 .. n : F[i][f[i - 1]] = EndAfter(h, i, f[i - 1])
      BY <2>2
    <2> HIDE DEF F
    <2> QED BY <2>1, <2>3
  <1>8. Run(f)
    <2>1. \A i \in 0 .. n : i = 0 \/ i \in 1 .. n
      BY <1>1
    <2> QED BY <1>7, <2>1
  <1>9. Run(end)
    <2> HIDE DEF Run
    <2> QED BY <1>8
  <1> HIDE DEF end
  <1>10. end[0] = 0 /\ \A i \in 1 .. n : end[i] = EndAfter(h, i, end[i - 1])
    <2>1. 0 \in 0 .. n /\ 1 .. n \subseteq 0 .. n /\ \A i \in 1 .. n : i # 0
      BY <1>1
    <2>2. \A i \in 0 .. n : end[i] = IF i = 0 THEN 0 ELSE EndAfter(h, i, end[i - 1])
      BY <1>9
    <2> QED BY <2>1, <2>2
  <1>11. DOMAIN end = 0 .. n /\ end = [i \in 0 .. n |-> end[i]]
    BY <1>9
  <1> HIDE DEF Run
  <1> DEFINE T == {i \in 0 .. n : end[i] \in Int}
  <1>12. 0 \in T
    BY <1>1, <1>10
  <1>13. \A i \in 1 .. n : i - 1 \in T => i \in T
    <2> TAKE i \in 1 .. n
    <2> HAVE i - 1 \in T
    <2>1. end[i - 1] \in Int
      OBVIOUS
    <2>2. EndAfter(h, i, end[i - 1]) \in Int
      BY <1>3, <2>1
    <2> QED BY <1>1, <1>10, <2>2
  <1> HIDE DEF T
  <1>14. 0 .. n \subseteq T
    BY <1>1, <1>12, <1>13, UpTo
  <1>15. end \in [0 .. n -> Int]
    BY <1>11, <1>14 DEF T
  <1> QED BY <1>2, <1>10, <1>15 DEF n

\* In a heap in order, what is packed ends nowhere above where it did, and below what follows.
LEMMA PackedIsLower ==
    ASSUME NEW h \in Heap, InOrder(h), Below(h, h.sp)
    PROVE  \A i \in 0 .. Len(h.list) :
              /\ 0 <= PackedEnd(h)[i] /\ PackedEnd(h)[i] <= h.sp
              /\ \A j \in i + 1 .. Len(h.list) :
                    h.list[j] # Hole => PackedEnd(h)[i] <= h.str[h.list[j]].chr
              /\ \A k \in 0 .. i : PackedEnd(h)[k] <= PackedEnd(h)[i]
              /\ i # 0 /\ h.list[i] # Hole =>
                    PackedEnd(h)[i - 1] <= PackedEnd(h)[i] - h.str[h.list[i]].len
  <1> DEFINE n == Len(h.list)
             end == PackedEnd(h)
             Good(i) == /\ 0 <= end[i] /\ end[i] <= h.sp
                        /\ \A j \in i + 1 .. n : h.list[j] # Hole => end[i] <= h.str[h.list[j]].chr
                        /\ \A k \in 0 .. i : end[k] <= end[i]
                        /\ i # 0 /\ h.list[i] # Hole => end[i - 1] <= end[i] - h.str[h.list[i]].len
             T == {i \in 0 .. n : Good(i)}
  <1>1. n \in Nat /\ h.sp \in Nat /\ Pad \in Nat
    BY HeapFields, QbsAssumption
  <1>2. /\ end \in [0 .. n -> Int] /\ end[0] = 0
        /\ \A i \in 1 .. n : end[i] = EndAfter(h, i, end[i - 1])
    BY PackedEndIs
  <1>3. \A i \in 1 .. n : h.list[i] # Hole =>
           /\ h.str[h.list[i]].chr \in Nat /\ h.str[h.list[i]].len \in Nat
           /\ End(h, h.list[i]) = h.str[h.list[i]].chr + h.str[h.list[i]].len
           /\ End(h, h.list[i]) <= h.sp
           /\ \A j \in i + 1 .. n : h.list[j] # Hole => End(h, h.list[i]) <= h.str[h.list[j]].chr
    <2> TAKE i \in 1 .. n
    <2> HAVE h.list[i] # Hole
    <2>1. h.list[i] \in Strings /\ DOMAIN h.list = 1 .. n
      BY HeapFields
    <2>2. /\ h.str[h.list[i]].chr \in Nat /\ h.str[h.list[i]].len \in Nat
          /\ End(h, h.list[i]) = h.str[h.list[i]].chr + h.str[h.list[i]].len
      BY <2>1, HeapFields
    <2>3. End(h, h.list[i]) <= h.sp
      BY <2>1 DEF Below
    <2>4. \A j \in i + 1 .. n : h.list[j] # Hole => End(h, h.list[i]) <= h.str[h.list[j]].chr
      BY <1>1, <2>1 DEF InOrder
    <2> QED BY <2>2, <2>3, <2>4
  <1> HIDE DEF n, end
  <1>4. 0 \in T
    <2>1. \A j \in 0 + 1 .. n : h.list[j] # Hole => end[0] <= h.str[h.list[j]].chr
      BY <1>1, <1>2, <1>3
    <2>2. \A k \in 0 .. 0 : end[k] <= end[0]
      BY <1>2
    <2> QED BY <1>1, <1>2, <2>1, <2>2
  <1>5. ASSUME NEW i \in 1 .. n, i - 1 \in T PROVE i \in T
    <2>1. /\ 0 <= end[i - 1] /\ end[i - 1] <= h.sp
          /\ \A j \in i .. n : h.list[j] # Hole => end[i - 1] <= h.str[h.list[j]].chr
          /\ \A k \in 0 .. i - 1 : end[k] <= end[i - 1]
      BY <1>1, <1>5
    <2>2. end[i] = EndAfter(h, i, end[i - 1]) /\ end[i] \in Int /\ end[i - 1] \in Int
      BY <1>1, <1>2
    <2>3. /\ end[i - 1] <= end[i] /\ 0 <= end[i] /\ end[i] <= h.sp
          /\ \A j \in i + 1 .. n : h.list[j] # Hole => end[i] <= h.str[h.list[j]].chr
          /\ h.list[i] # Hole => end[i - 1] <= end[i] - h.str[h.list[i]].len
      <3>1. CASE h.list[i] = Hole
        <4>1. end[i] = end[i - 1]
          BY <2>2, <3>1 DEF EndAfter
        <4>2. \A j \in i + 1 .. n : j \in i .. n
          OBVIOUS
        <4> QED BY <2>1, <2>2, <3>1, <4>1, <4>2
      <3>2. CASE h.list[i] # Hole
        <4> DEFINE c == h.str[h.list[i]].chr
                   l == h.str[h.list[i]].len
        <4>1. c \in Nat /\ l \in Nat /\ c + l <= h.sp
          BY <1>3, <3>2
        <4>2. \A j \in i + 1 .. n : h.list[j] # Hole => c + l <= h.str[h.list[j]].chr
          BY <1>3, <3>2
        <4>3. end[i - 1] <= c
          BY <2>1, <3>2
        <4>4. end[i] = IF c - end[i - 1] > Pad THEN end[i - 1] + l ELSE c + l
          BY <1>3, <2>2, <3>2 DEF EndAfter
        <4>5. \A j \in i + 1 .. n : h.list[j] # Hole => h.str[h.list[j]].chr \in Nat
          BY <1>3
        <4> HIDE DEF c, l
        <4>6. end[i - 1] <= end[i] - l /\ end[i] <= c + l /\ 0 <= end[i] /\ end[i - 1] <= end[i]
          BY <1>1, <2>1, <2>2, <4>1, <4>3, <4>4
        <4>7. \A j \in i + 1 .. n : h.list[j] # Hole => end[i] <= h.str[h.list[j]].chr
          BY <2>2, <4>1, <4>2, <4>5, <4>6
        <4>8. end[i] <= h.sp
          BY <1>1, <2>2, <4>1, <4>6
        <4> QED BY <4>6, <4>7, <4>8 DEF l
      <3> QED BY <3>1, <3>2
    <2>4. \A k \in 0 .. i : end[k] <= end[i]
      <3> TAKE k \in 0 .. i
      <3>1. CASE k = i
        BY <2>2, <3>1
      <3>2. CASE k \in 0 .. i - 1
        <4>1. end[k] \in Int
          <5>1. k \in 0 .. n
            BY <1>1
          <5> QED BY <1>2, <5>1
        <4>3. end[k] <= end[i - 1]
          <5>1. \A j \in 0 .. i - 1 : end[j] <= end[i - 1]
            BY <2>1
          <5> QED BY <5>1, <3>2
        <4>2. end[i - 1] <= end[i]
          BY <2>3
        <4> HIDE DEF Good
        <4> QED BY <2>2, <4>1, <4>2, <4>3
      <3> QED BY <3>1, <3>2
    <2> QED BY <2>3, <2>4
  <1>6. \A i \in 1 .. n : i - 1 \in T => i \in T
    BY <1>5
  <1>7. 0 .. n \subseteq T
    <2> HIDE DEF T
    <2> QED BY <1>1, <1>4, <1>6, UpTo
  <1> QED BY <1>7 DEF n, end

LEMMA PackIs ==
    ASSUME NEW h \in Heap, OrderSound(h), NEW u, ListSound(h, u)
    PROVE  /\ Pack(h) \in Heap /\ OrderSound(Pack(h))
           /\ ListAlike(Pack(h), h) /\ TmpsAlike(Pack(h), h) /\ Pack(h).size = h.size
           /\ \A s \in Strings : Pack(h).str[s].len = h.str[s].len
  <1> DEFINE p == Pack(h)
             n == Len(h.list)
             end == PackedEnd(h)
             Moved(s) == [h.str[s] EXCEPT !.chr = end[h.str[s].listi] - h.str[s].len]
             strs == [s \in Strings |-> IF Listed(h, s) THEN Moved(s) ELSE h.str[s]]
             sp == IF h.list = <<>> THEN h.sp ELSE end[n]
  <1>1. /\ n \in Nat /\ DOMAIN h.list = 1 .. n /\ h.sp \in Nat /\ h.size \in Nat
        /\ h.str \in [Strings -> Descriptor]
        /\ \A i \in 1 .. n : h.list[i] # Hole => h.list[i] \in Strings
        /\ \A s \in Strings : h.str[s].chr \in Nat /\ h.str[s].len \in Nat
    BY HeapFields
  <1>2. end \in [0 .. n -> Int]
    BY PackedEndIs
  <1>3. \A i \in 0 .. n :
           /\ 0 <= end[i] /\ end[i] <= h.sp
           /\ \A k \in 0 .. i : end[k] <= end[i]
           /\ i # 0 /\ h.list[i] # Hole => end[i - 1] <= end[i] - h.str[h.list[i]].len
    BY PackedIsLower DEF OrderSound
  <1>4. p = [h EXCEPT !.str = strs, !.sp = sp]
    BY DEF Pack
  <1> HIDE DEF end, n
  <1>5. sp \in Nat /\ sp <= h.sp /\ sp <= h.size
    <2>1. n \in 0 .. n
      BY <1>1
    <2>2. h.list # <<>> => end[n] \in Int /\ 0 <= end[n] /\ end[n] <= h.sp
      BY <1>2, <1>3, <2>1
    <2>3. h.sp <= h.size
      BY DEF OrderSound
    <2> QED BY <1>1, <2>2, <2>3
  <1>6. \A i \in 1 .. n : h.list[i] # Hole =>
            Listed(h, h.list[i]) /\ h.str[h.list[i]].listi = i
    <2> TAKE i \in 1 .. n
    <2> HAVE h.list[i] # Hole
    <2>1. h.str[h.list[i]].listi = i
      BY <1>1 DEF ListSound
    <2> QED BY <1>1, <2>1 DEF Listed
  <1>7. \A s \in Strings : Listed(h, s) =>
            /\ h.str[s].listi \in 1 .. n /\ h.list[h.str[s].listi] = s
            /\ end[h.str[s].listi] - h.str[s].len \in Nat
    <2> TAKE s \in Strings
    <2> HAVE Listed(h, s)
    <2> DEFINE i == h.str[s].listi
    <2>1. i \in 1 .. n /\ h.list[i] = s /\ s # Hole
      BY <1>1, QbsAssumption DEF Listed
    <2> HIDE DEF i
    <2>2. i \in 0 .. n /\ i - 1 \in 0 .. n /\ i # 0
      BY <1>1, <2>1
    <2>3. 0 <= end[i - 1] /\ end[i - 1] <= end[i] - h.str[s].len
      BY <1>3, <2>1, <2>2
    <2>4. end[i - 1] \in Int /\ end[i] \in Int
      BY <1>2, <2>2
    <2>5. end[i] - h.str[s].len \in Nat
      BY <1>1, <2>3, <2>4
    <2> QED BY <2>1, <2>5 DEF i
  <1> HIDE DEF sp
  <1>8. \A s \in Strings : Listed(h, s) => Moved(s) \in Descriptor
    <2> TAKE s \in Strings
    <2> HAVE Listed(h, s)
    <2> DEFINE d == h.str[s]
               c == end[h.str[s].listi] - h.str[s].len
    <2>1. d \in Descriptor /\ c \in Nat
      BY <1>1, <1>7
    <2> HIDE DEF d, c
    <2>2. [d EXCEPT !.chr = c] \in Descriptor
      BY <2>1 DEF Descriptor
    <2> QED BY <2>2 DEF d, c
  <1>9. strs \in [Strings -> Descriptor]
    BY <1>1, <1>8
  <1>10. \A s \in Strings :
            /\ strs[s].live = h.str[s].live /\ strs[s].heap = h.str[s].heap
            /\ strs[s].tmp = h.str[s].tmp /\ strs[s].len = h.str[s].len
            /\ strs[s].listi = h.str[s].listi /\ strs[s].tmplisti = h.str[s].tmplisti
            /\ Listed(h, s) => strs[s].chr = end[h.str[s].listi] - h.str[s].len
    <2> TAKE s \in Strings
    <2>1. h.str[s] \in Descriptor
      BY <1>1
    <2>2. /\ Moved(s).live = h.str[s].live /\ Moved(s).heap = h.str[s].heap
          /\ Moved(s).tmp = h.str[s].tmp /\ Moved(s).len = h.str[s].len
          /\ Moved(s).listi = h.str[s].listi /\ Moved(s).tmplisti = h.str[s].tmplisti
          /\ Moved(s).chr = end[h.str[s].listi] - h.str[s].len
      BY <2>1 DEF Descriptor
    <2> HIDE DEF Moved
    <2>3. strs[s] = IF Listed(h, s) THEN Moved(s) ELSE h.str[s]
      OBVIOUS
    <2> QED BY <2>2, <2>3
  <1> HIDE DEF strs
  <1>11. /\ p.str = strs /\ p.sp = sp /\ p.list = h.list /\ p.lasti = h.lasti
         /\ p.tmps = h.tmps /\ p.size = h.size /\ p \in Heap
    BY <1>4, <1>5, <1>9 DEF Heap
  <1> HIDE DEF p
  <1>12. \A i \in 1 .. n : h.list[i] # Hole =>
            /\ p.str[h.list[i]].chr = end[i] - h.str[h.list[i]].len
            /\ End(p, h.list[i]) = end[i]
    <2> TAKE i \in 1 .. n
    <2> HAVE h.list[i] # Hole
    <2>1. p.str[h.list[i]].chr = end[i] - h.str[h.list[i]].len
      BY <1>1, <1>6, <1>10, <1>11
    <2>2. p.str[h.list[i]].len = h.str[h.list[i]].len /\ h.str[h.list[i]].len \in Nat
      BY <1>1, <1>10, <1>11
    <2>3. end[i] \in Int
      BY <1>1, <1>2
    <2> QED BY <2>1, <2>2, <2>3 DEF End
  <1>13. InOrder(p)
    <2> SUFFICES ASSUME NEW i \in 1 .. n, NEW j \in 1 .. n, i < j, h.list[i] # Hole,
                        h.list[j] # Hole
                 PROVE  end[i] <= end[j] - h.str[h.list[j]].len
      BY <1>1, <1>11, <1>12 DEF InOrder
    <2>1. i \in 0 .. j - 1 /\ j - 1 \in 0 .. n /\ j \in 0 .. n /\ j # 0 /\ i \in 0 .. n
      BY <1>1
    <2>2. end[i] <= end[j - 1]
      BY <1>3, <2>1
    <2>3. end[j - 1] <= end[j] - h.str[h.list[j]].len
      BY <1>3, <2>1
    <2>4. /\ end[i] \in Int /\ end[j - 1] \in Int /\ end[j] \in Int
          /\ h.str[h.list[j]].len \in Nat
      BY <1>1, <1>2, <2>1
    <2> QED BY <2>2, <2>3, <2>4
  <1>14. Below(p, p.sp)
    <2> SUFFICES ASSUME NEW i \in 1 .. n, h.list[i] # Hole PROVE end[i] <= sp
      BY <1>1, <1>11, <1>12 DEF Below
    <2>1. h.list # <<>>
      BY <1>1
    <2>2. i \in 0 .. n /\ n \in 0 .. n
      BY <1>1
    <2> QED BY <1>3, <2>1, <2>2 DEF sp
  <1>15. OrderSound(p)
    BY <1>5, <1>11, <1>13, <1>14 DEF OrderSound
  <1>16. ListAlike(p, h) /\ TmpsAlike(p, h)
    BY <1>10, <1>11 DEF ListAlike, TmpsAlike
  <1> QED BY <1>10, <1>11, <1>15, <1>16 DEF p

\* After qbs_concat() there is room for the bytes.
LEMMA ConcatIs ==
    ASSUME NEW h \in Heap, OrderSound(h), NEW u, ListSound(h, u), NEW bytes \in Nat
    PROVE  /\ Concat(h, bytes) \in Heap /\ OrderSound(Concat(h, bytes))
           /\ ListAlike(Concat(h, bytes), h) /\ TmpsAlike(Concat(h, bytes), h)
           /\ \A s \in Strings : Concat(h, bytes).str[s].len = h.str[s].len
           /\ Concat(h, bytes).sp + bytes <= Concat(h, bytes).size
  <1> DEFINE p == Pack(h)
             c == Concat(h, bytes)
  <1>1. /\ p \in Heap /\ OrderSound(p) /\ ListAlike(p, h) /\ TmpsAlike(p, h)
        /\ \A s \in Strings : p.str[s].len = h.str[s].len
    BY PackIs
  <1>2. c = IF 2 * p.sp + bytes + Pad >= p.size THEN [p EXCEPT !.size = 2 * @ + bytes] ELSE p
    BY DEF Concat
  <1> HIDE DEF p
  <1>3. p.sp \in Nat /\ p.size \in Nat /\ p.sp <= p.size /\ Pad \in Nat
    BY <1>1, HeapFields, QbsAssumption DEF OrderSound
  <1>4. CASE 2 * p.sp + bytes + Pad >= p.size
    <2>1. c = [p EXCEPT !.size = 2 * p.size + bytes]
      BY <1>2, <1>4
    <2>2. 2 * p.size + bytes \in Nat
      BY <1>3
    <2>3. /\ c \in Heap /\ c.str = p.str /\ c.list = p.list /\ c.lasti = p.lasti
          /\ c.tmps = p.tmps /\ c.sp = p.sp /\ c.size = 2 * p.size + bytes
      BY <1>1, <2>1, <2>2 DEF Heap
    <2> HIDE DEF c
    <2>4. c.sp <= c.size /\ c.sp + bytes <= c.size
      BY <1>3, <2>3
    <2>5. InOrder(c) /\ Below(c, c.sp)
      BY <1>1, <2>3 DEF OrderSound, InOrder, Below, End
    <2>6. ListAlike(c, h) /\ TmpsAlike(c, h)
      BY <1>1, <2>3 DEF ListAlike, TmpsAlike
    <2> QED BY <1>1, <2>3, <2>4, <2>5, <2>6 DEF c, OrderSound
  <1>5. CASE ~(2 * p.sp + bytes + Pad >= p.size)
    <2>1. c = p
      BY <1>2, <1>5
    <2>2. p.sp + bytes <= p.size
      BY <1>3, <1>5
    <2> QED BY <1>1, <2>1, <2>2
  <1> QED BY <1>4, <1>5

-----------------------------------------------------------------------------
(* qbs_concat_list(), and a new entry.                                     *)

\* The extents are the same, and each string has its place or not, as before.
LEMMA ConcatListIs ==
    ASSUME NEW h \in Heap, OrderSound(h), NEW u, ListSound(h, u)
    PROVE  LET c == ConcatList(h)
           IN  /\ c \in Heap /\ OrderSound(c) /\ ListSound(c, u) /\ TmpsAlike(c, h)
               /\ c.sp = h.sp /\ c.size = h.size /\ Len(c.list) <= c.lasti
               /\ \A s \in Strings : /\ c.str[s].chr = h.str[s].chr /\ c.str[s].len = h.str[s].len
                                     /\ c.str[s].heap = h.str[s].heap
                                     /\ ~Listed(h, s) => c.str[s] = h.str[s]
               /\ \A e \in Nat : Below(h, e) => Below(c, e)
  <1> DEFINE c == ConcatList(h)
             n == Len(h.list)
             k == WithoutHoles(h.list)
             m == Len(k)
             Place(s) == CHOOSE i \in DOMAIN k : k[i] = s
             Told(s) == [h.str[s] EXCEPT !.listi = Place(s)]
             lasti1 == IF m >= h.lasti \div 2 THEN 2 * h.lasti ELSE h.lasti
             strs == Renumber(h, k)
  <1>1. /\ n \in Nat /\ DOMAIN h.list = 1 .. n /\ h.str \in [Strings -> Descriptor]
        /\ \A i \in 1 .. n : h.list[i] # Hole => h.list[i] \in Strings
        /\ h.list \in Seq(Entry) /\ h.lasti \in Nat
    BY HeapFields
  <1>2. /\ n <= h.lasti + 1 /\ h.lasti >= 1
        /\ \A s \in Strings \ {u} : h.str[s].live /\ h.str[s].heap <=> Listed(h, s)
        /\ \A i \in 1 .. n : h.list[i] # Hole =>
              h.list[i] # u /\ h.str[h.list[i]].listi = i
    BY <1>1 DEF ListSound
  <1>3. k \in Seq(Entry) /\ m <= n /\ \E p : Picks(p, h.list, k, n)
    BY <1>1, WithoutHolesIs
  <1>4. m \in Nat /\ DOMAIN k = 1 .. m
    BY <1>3
  <1>5. PICK p : Picks(p, h.list, k, n)
    BY <1>3
  <1>6. c = [h EXCEPT !.list = k, !.str = strs, !.lasti = lasti1]
    BY DEF ConcatList
  <1>7. strs = [s \in Strings |-> IF Listed(h, s) THEN Told(s) ELSE h.str[s]]
    BY DEF Renumber
  <1> HIDE DEF k, m, n, c
  <1>8. /\ p \in [1 .. m -> 1 .. n] /\ \A i, j \in 1 .. m : i < j => p[i] < p[j]
        /\ \A i \in 1 .. m : k[i] = h.list[p[i]] /\ h.list[p[i]] # Hole
        /\ \A i \in 1 .. n : h.list[i] # Hole => \E j \in 1 .. m : p[j] = i
    BY <1>5 DEF Picks, m
  <1>9. \A i \in 1 .. m : /\ k[i] \in Strings /\ k[i] # Hole /\ k[i] # u
                          /\ h.str[k[i]].listi = p[i] /\ Listed(h, k[i])
    BY <1>1, <1>2, <1>8 DEF Listed
  <1>10. \A i, j \in 1 .. m : k[i] = k[j] => i = j
    <2> TAKE i, j \in 1 .. m
    <2> HAVE k[i] = k[j]
    <2>1. p[i] = p[j]
      BY <1>9
    <2>2. p[i] \in Int /\ p[j] \in Int /\ ~(i < j) /\ ~(j < i)
      BY <1>1, <1>4, <1>8, <2>1
    <2> QED BY <1>4, <2>2
  <1>11. \A s \in Strings : Listed(h, s) => Place(s) \in 1 .. m /\ k[Place(s)] = s
    <2> TAKE s \in Strings
    <2> HAVE Listed(h, s)
    <2>1. h.str[s].listi \in 1 .. n /\ h.list[h.str[s].listi] = s /\ s # Hole
      BY <1>1, QbsAssumption DEF Listed
    <2>2. PICK j \in 1 .. m : p[j] = h.str[s].listi
      BY <1>8, <2>1
    <2>3. k[j] = s
      BY <1>8, <2>1, <2>2
    <2> QED BY <1>4, <2>3
  <1>12. \A i \in 1 .. m : Place(k[i]) = i
    BY <1>9, <1>10, <1>11
  <1>13. lasti1 \in Nat /\ lasti1 >= 1 /\ m <= lasti1
    <2>1. CASE m >= h.lasti \div 2
      BY <1>1, <1>2, <1>3, <1>4, <2>1
    <2>2. CASE ~(m >= h.lasti \div 2)
      <3>1. h.lasti \div 2 \in Int /\ h.lasti \div 2 <= h.lasti
        BY <1>1
      <3> HIDE DEF m
      <3> QED BY <1>1, <1>2, <1>4, <2>2, <3>1
    <2> QED BY <2>1, <2>2
  <1> HIDE DEF Place, lasti1
  <1>14. \A s \in Strings : Listed(h, s) =>
            /\ Told(s) \in Descriptor /\ Told(s).listi = Place(s)
            /\ Told(s).live = h.str[s].live /\ Told(s).heap = h.str[s].heap
            /\ Told(s).tmp = h.str[s].tmp /\ Told(s).len = h.str[s].len
            /\ Told(s).chr = h.str[s].chr /\ Told(s).tmplisti = h.str[s].tmplisti
    <2> TAKE s \in Strings
    <2> HAVE Listed(h, s)
    <2>1. h.str[s] \in Descriptor /\ Place(s) \in Nat
      BY <1>1, <1>4, <1>11
    <2> QED BY <2>1 DEF Descriptor
  <1> HIDE DEF Told
  <1>15. strs \in [Strings -> Descriptor]
    BY <1>1, <1>7, <1>14
  <1>16. \A s \in Strings :
            /\ strs[s].live = h.str[s].live /\ strs[s].heap = h.str[s].heap
            /\ strs[s].tmp = h.str[s].tmp /\ strs[s].len = h.str[s].len
            /\ strs[s].chr = h.str[s].chr /\ strs[s].tmplisti = h.str[s].tmplisti
            /\ Listed(h, s) => strs[s].listi = Place(s)
            /\ ~Listed(h, s) => strs[s] = h.str[s]
    BY <1>7, <1>14
  <1> HIDE DEF strs
  <1>17. /\ c.str = strs /\ c.list = k /\ c.lasti = lasti1 /\ c.sp = h.sp
         /\ c.tmps = h.tmps /\ c.size = h.size /\ c \in Heap
    BY <1>3, <1>6, <1>13, <1>15 DEF Heap
  <1>18. \A i \in 1 .. m : /\ End(c, k[i]) = End(h, h.list[p[i]])
                           /\ c.str[k[i]].chr = h.str[h.list[p[i]]].chr
    BY <1>8, <1>9, <1>16, <1>17 DEF End
  <1>19. \A e \in Nat : Below(h, e) => Below(c, e)
    BY <1>1, <1>4, <1>8, <1>17, <1>18 DEF Below
  <1>20. InOrder(c)
    <2>1. InOrder(h)
      BY DEF OrderSound
    <2> SUFFICES ASSUME NEW i \in 1 .. m, NEW j \in 1 .. m, i < j
                 PROVE  End(h, h.list[p[i]]) <= h.str[h.list[p[j]]].chr
      BY <1>4, <1>17, <1>18 DEF InOrder
    <2> QED BY <1>1, <1>8, <2>1 DEF InOrder
  <1>21. OrderSound(c)
    <2>1. h.sp \in Nat /\ Below(h, h.sp) /\ h.sp <= h.size
      BY HeapFields DEF OrderSound
    <2> QED BY <1>17, <1>19, <1>20, <2>1 DEF OrderSound
  <1>22. \A s \in Strings : Listed(c, s) <=> Listed(h, s)
    <2> TAKE s \in Strings
    <2>1. CASE Listed(h, s)
      BY <1>4, <1>11, <1>16, <1>17, <2>1 DEF Listed
    <2>2. CASE ~Listed(h, s)
      <3> SUFFICES ASSUME Listed(c, s) PROVE FALSE
        BY <2>2
      <3>1. PICK i \in 1 .. m : k[i] = s
        BY <1>4, <1>17 DEF Listed
      <3> QED BY <1>9, <2>2, <3>1
    <2> QED BY <2>1, <2>2
  <1>23. \A i \in 1 .. m : k[i] # u /\ c.str[k[i]].listi = i
    BY <1>9, <1>12, <1>16, <1>17
  <1>24. ListSound(c, u)
    <2>1. Len(c.list) = m /\ m <= lasti1 + 1
      BY <1>4, <1>13, <1>17 DEF m
    <2> QED BY <1>2, <1>4, <1>13, <1>16, <1>17, <1>22, <1>23, <2>1 DEF ListSound
  <1>25. TmpsAlike(c, h)
    BY <1>16, <1>17 DEF TmpsAlike
  <1>26. Len(c.list) <= c.lasti
    BY <1>13, <1>17 DEF m
  <1> QED BY <1>16, <1>17, <1>19, <1>21, <1>24, <1>25, <1>26 DEF c

\* The heap in which Enlist adds the string.
Roomy(h) == IF Len(h.list) > h.lasti THEN ConcatList(h) ELSE h

LEMMA RoomyIs ==
    ASSUME NEW h \in Heap, OrderSound(h), NEW u, ListSound(h, u)
    PROVE  LET g == Roomy(h)
           IN  /\ g \in Heap /\ OrderSound(g) /\ ListSound(g, u) /\ TmpsAlike(g, h)
               /\ g.sp = h.sp /\ g.size = h.size /\ Len(g.list) <= g.lasti
               /\ \A s \in Strings : /\ g.str[s].chr = h.str[s].chr /\ g.str[s].len = h.str[s].len
                                     /\ g.str[s].heap = h.str[s].heap
                                     /\ ~Listed(h, s) => g.str[s] = h.str[s]
               /\ \A e \in Nat : Below(h, e) => Below(g, e)
  <1>1. CASE Len(h.list) > h.lasti
    BY <1>1, ConcatListIs DEF Roomy
  <1>2. CASE ~(Len(h.list) > h.lasti)
    <2>1. Roomy(h) = h
      BY <1>2 DEF Roomy
    <2>2. Len(h.list) <= h.lasti
      BY <1>2, HeapFields
    <2>3. TmpsAlike(h, h)
      BY DEF TmpsAlike
    <2> QED BY <2>1, <2>2, <2>3
  <1> QED BY <1>1, <1>2

\* u, which had no place, is put at the end of the list and above the others.
LEMMA PlacedIs ==
    ASSUME NEW g \in Heap, OrderSound(g), NEW u \in Strings, ListSound(g, u),
           Len(g.list) <= g.lasti,
           NEW k \in Heap, k.list = Append(g.list, u), k.lasti = g.lasti,
           \A s \in Strings \ {u} : k.str[s] = g.str[s],
           k.str[u].live, k.str[u].heap, k.str[u].listi = Len(g.list) + 1,
           Below(g, k.str[u].chr), End(k, u) <= k.sp, k.sp <= k.size
    PROVE  OrderSound(k) /\ ListSound(k, Hole)
  <1> DEFINE n == Len(g.list)
  <1>1. /\ n \in Nat /\ DOMAIN g.list = 1 .. n /\ g.list \in Seq(Entry) /\ u \in Entry
        /\ \A i \in 1 .. n : g.list[i] # Hole => g.list[i] \in Strings
        /\ g.lasti \in Nat /\ k.sp \in Nat /\ u # Hole
    BY HeapFields, QbsAssumption DEF Entry
  <1>2. /\ Len(k.list) = n + 1 /\ k.list[n + 1] = u /\ DOMAIN k.list = 1 .. n + 1
        /\ \A i \in 1 .. n : k.list[i] = g.list[i]
    <2>1. k.list \in Seq(Entry)
      BY HeapFields
    <2> QED BY <1>1, <2>1, AppendProperties
  <1> HIDE DEF n
  <1>3. /\ \A s \in Strings \ {u} : g.str[s].live /\ g.str[s].heap <=> Listed(g, s)
        /\ \A i \in 1 .. n : g.list[i] # Hole =>
              g.list[i] # u /\ g.str[g.list[i]].listi = i
        /\ g.lasti >= 1 /\ n <= g.lasti
    BY <1>1 DEF ListSound, n
  <1>4. \A i \in 1 .. n : g.list[i] # Hole =>
           /\ k.str[g.list[i]] = g.str[g.list[i]] /\ End(k, g.list[i]) = End(g, g.list[i])
    BY <1>1, <1>3 DEF End
  <1>5. \A s \in Strings : k.str[s].live /\ k.str[s].heap <=> Listed(k, s)
    <2> TAKE s \in Strings
    <2>1. CASE s = u
      <3>1. k.str[s].listi = n + 1 /\ n + 1 \in 1 .. n + 1
        BY <1>1, <2>1 DEF n
      <3> QED BY <1>2, <2>1, <3>1 DEF Listed
    <2>2. CASE s # u
      <3>1. k.str[s] = g.str[s] /\ (g.str[s].live /\ g.str[s].heap <=> Listed(g, s))
        BY <1>3, <2>2
      <3>2. g.str[s].listi \in Nat
        BY HeapFields
      <3>3. Listed(k, s) <=> Listed(g, s)
        BY <1>1, <1>2, <2>2, <3>1, <3>2 DEF Listed
      <3> QED BY <3>1, <3>3
    <2> QED BY <2>1, <2>2
  <1>6. \A i \in 1 .. n + 1 : k.list[i] # Hole => k.str[k.list[i]].listi = i
    <2> TAKE i \in 1 .. n + 1
    <2>1. CASE i = n + 1
      BY <1>2, <2>1 DEF n
    <2>2. CASE i \in 1 .. n
      BY <1>2, <1>3, <1>4, <2>2
    <2> QED BY <1>1, <2>1, <2>2
  <1>7. ListSound(k, Hole)
    <2>1. n + 1 <= k.lasti + 1 /\ k.lasti >= 1
      BY <1>1, <1>3
    <2> QED BY <1>2, <1>5, <1>6, <2>1 DEF ListSound
  <1>8. \A i \in 1 .. n : g.list[i] # Hole => End(g, g.list[i]) <= k.str[u].chr
    BY <1>1 DEF Below
  <1>9. InOrder(k)
    <2> SUFFICES ASSUME NEW i \in 1 .. n + 1, NEW j \in 1 .. n + 1, i < j,
                        k.list[i] # Hole, k.list[j] # Hole
                 PROVE  End(k, k.list[i]) <= k.str[k.list[j]].chr
      BY <1>2 DEF InOrder
    <2>1. i \in 1 .. n
      BY <1>1
    <2>2. CASE j = n + 1
      BY <1>2, <1>4, <1>8, <2>1, <2>2
    <2>3. CASE j \in 1 .. n
      <3>1. End(g, g.list[i]) <= g.str[g.list[j]].chr
        BY <1>1, <1>2, <2>1, <2>3 DEF OrderSound, InOrder
      <3> QED BY <1>2, <1>4, <2>1, <2>3, <3>1
    <2> QED BY <1>1, <2>2, <2>3
  <1>10. Below(k, k.sp)
    <2> SUFFICES ASSUME NEW i \in 1 .. n + 1, k.list[i] # Hole
                 PROVE  End(k, k.list[i]) <= k.sp
      BY <1>2 DEF Below
    <2>1. CASE i = n + 1
      BY <1>2, <2>1
    <2>2. CASE i \in 1 .. n
      <3>1. End(k, k.list[i]) <= k.str[u].chr
        BY <1>2, <1>4, <1>8, <2>2
      <3>2. k.str[u].chr <= End(k, u) /\ k.str[u].chr \in Nat /\ End(k, u) \in Nat
        <4>1. /\ k.str[u].chr \in Nat /\ k.str[u].len \in Nat
              /\ End(k, u) = k.str[u].chr + k.str[u].len
          BY HeapFields
        <4> QED BY <4>1
      <3>3. End(k, k.list[i]) \in Nat
        <4>1. k.list[i] \in Strings
          BY <1>1, <1>2, <2>2
        <4> QED BY <4>1, HeapFields
      <3> QED BY <1>1, <3>1, <3>2, <3>3
    <2> QED BY <1>1, <2>1, <2>2
  <1> QED BY <1>7, <1>9, <1>10 DEF OrderSound

\* Strings that lie within the extents of those in the same places are in order too.
LEMMA OrderFrom ==
    ASSUME NEW h \in Heap, NEW g \in Heap, InOrder(h), Len(g.list) <= Len(h.list),
           \A i \in 1 .. Len(g.list) : g.list[i] # Hole =>
              /\ h.list[i] # Hole
              /\ h.str[h.list[i]].chr <= g.str[g.list[i]].chr
              /\ End(g, g.list[i]) <= End(h, h.list[i])
    PROVE  InOrder(g) /\ \A e \in Int : Below(h, e) => Below(g, e)
  <1> DEFINE n == Len(h.list)
             m == Len(g.list)
  <1>1. /\ n \in Nat /\ m \in Nat /\ DOMAIN h.list = 1 .. n /\ DOMAIN g.list = 1 .. m
        /\ \A i \in 1 .. m : g.list[i] # Hole => g.list[i] \in Strings
        /\ \A i \in 1 .. n : h.list[i] # Hole => h.list[i] \in Strings
        /\ \A s \in Strings : h.str[s].chr \in Nat /\ End(h, s) \in Nat
        /\ \A s \in Strings : g.str[s].chr \in Nat /\ End(g, s) \in Nat
    BY HeapFields
  <1>2. m <= n /\ \A i \in 1 .. m : g.list[i] # Hole =>
              /\ h.list[i] # Hole
              /\ h.str[h.list[i]].chr <= g.str[g.list[i]].chr
              /\ End(g, g.list[i]) <= End(h, h.list[i])
    OBVIOUS
  <1> HIDE DEF n, m
  <1>3. InOrder(g)
    <2> SUFFICES ASSUME NEW i \in 1 .. m, NEW j \in 1 .. m, i < j,
                        g.list[i] # Hole, g.list[j] # Hole
                 PROVE  End(g, g.list[i]) <= g.str[g.list[j]].chr
      BY <1>1 DEF InOrder
    <2>1. i \in 1 .. n /\ j \in 1 .. n /\ h.list[i] # Hole /\ h.list[j] # Hole
      BY <1>1, <1>2
    <2>2. End(h, h.list[i]) <= h.str[h.list[j]].chr
      BY <1>1, <2>1 DEF InOrder
    <2>3. /\ g.list[i] \in Strings /\ g.list[j] \in Strings
          /\ h.list[i] \in Strings /\ h.list[j] \in Strings
      BY <1>1, <2>1
    <2>4. /\ End(g, g.list[i]) \in Nat /\ g.str[g.list[j]].chr \in Nat
          /\ End(h, h.list[i]) \in Nat /\ h.str[h.list[j]].chr \in Nat
      BY <1>1, <2>3
    <2>5. /\ End(g, g.list[i]) <= End(h, h.list[i])
          /\ h.str[h.list[j]].chr <= g.str[g.list[j]].chr
      BY <1>2
    <2> QED BY <2>2, <2>4, <2>5
  <1>4. ASSUME NEW e \in Int, Below(h, e) PROVE Below(g, e)
    <2> SUFFICES ASSUME NEW i \in 1 .. m, g.list[i] # Hole
                 PROVE  End(g, g.list[i]) <= e
      BY <1>1 DEF Below
    <2>1. /\ i \in 1 .. n /\ h.list[i] # Hole /\ h.list[i] \in Strings
          /\ g.list[i] \in Strings
      BY <1>1, <1>2
    <2>2. End(h, h.list[i]) <= e
      BY <1>1, <1>4, <2>1 DEF Below
    <2> QED BY <1>1, <1>2, <2>1, <2>2
  <1> QED BY <1>3, <1>4

\* So strings that leave the list, or shrink where they are, leave the rest in order.
LEMMA ThinOrder ==
    ASSUME NEW h \in Heap, NEW g \in Heap, InOrder(h), Len(g.list) <= Len(h.list),
           \A i \in 1 .. Len(g.list) : g.list[i] # Hole =>
              /\ g.list[i] = h.list[i]
              /\ h.str[g.list[i]].chr <= g.str[g.list[i]].chr
              /\ End(g, g.list[i]) <= End(h, g.list[i])
    PROVE  InOrder(g) /\ \A e \in Int : Below(h, e) => Below(g, e)
  BY OrderFrom

\* The list without s, or without some of its holes at the end.
Thin(g, h, s) ==
    /\ Len(g) <= Len(h)
    /\ \A i \in 1 .. Len(g) : g[i] = IF h[i] = s THEN Hole ELSE h[i]
    /\ \A i \in 1 .. Len(h) : h[i] # Hole /\ h[i] # s => i <= Len(g)

LEMMA ThinList ==
    ASSUME NEW h \in Heap, NEW g \in Heap, NEW s \in Entry, NEW u \in {Hole, s}, ListSound(h, u),
           Thin(g.list, h.list, s), g.lasti = h.lasti,
           \A t \in Strings \ {s} :
              /\ g.str[t].live = h.str[t].live
              /\ g.str[t].heap = h.str[t].heap
              /\ g.str[t].listi = h.str[t].listi
    PROVE  ListSound(g, s)
  <1> DEFINE n == Len(h.list)
             m == Len(g.list)
  <1>1. /\ n \in Nat /\ m \in Nat /\ DOMAIN h.list = 1 .. n /\ DOMAIN g.list = 1 .. m
        /\ \A i \in 1 .. m : g.list[i] # Hole => g.list[i] \in Strings
        /\ h.lasti \in Nat
    BY HeapFields
  <1>2. /\ m <= n /\ \A i \in 1 .. m : g.list[i] = IF h.list[i] = s THEN Hole ELSE h.list[i]
        /\ \A i \in 1 .. n : h.list[i] # Hole /\ h.list[i] # s => i <= m
    BY DEF Thin
  <1>3. /\ \A t \in Strings \ {u} : h.str[t].live /\ h.str[t].heap <=> Listed(h, t)
        /\ \A i \in 1 .. n : h.list[i] # Hole => h.str[h.list[i]].listi = i
        /\ n <= h.lasti + 1 /\ h.lasti >= 1
    BY <1>1 DEF ListSound
  <1> HIDE DEF n, m
  <1>4. \A t \in Strings \ {s} : Listed(g, t) <=> Listed(h, t)
    <2> TAKE t \in Strings \ {s}
    <2>1. t # Hole /\ g.str[t].listi = h.str[t].listi
      BY QbsAssumption
    <2>2. Listed(g, t) => Listed(h, t)
      BY <1>1, <1>2, <2>1 DEF Listed
    <2>3. Listed(h, t) => Listed(g, t)
      BY <1>1, <1>2, <2>1 DEF Listed
    <2> QED BY <2>2, <2>3
  <1>5. \A t \in Strings \ {s} : g.str[t].live /\ g.str[t].heap <=> Listed(g, t)
    <2> TAKE t \in Strings \ {s}
    <2>1. t \in Strings \ {u}
      BY QbsAssumption
    <2> QED BY <1>3, <1>4, <2>1
  <1>6. \A i \in 1 .. m : g.list[i] # Hole => g.list[i] # s /\ g.str[g.list[i]].listi = i
    <2> TAKE i \in 1 .. m
    <2> HAVE g.list[i] # Hole
    <2>1. i \in 1 .. n /\ g.list[i] = h.list[i] /\ g.list[i] # s
      BY <1>1, <1>2
    <2> QED BY <1>1, <1>3, <2>1
  <1>7. m <= g.lasti + 1 /\ g.lasti >= 1
    BY <1>1, <1>2, <1>3
  <1> QED BY <1>1, <1>5, <1>6, <1>7 DEF ListSound, m

LEMMA ThinTmps ==
    ASSUME NEW h \in Heap, NEW g \in Heap, NEW s \in Entry, NEW u \in {Hole, s}, TmpsSound(h, u),
           Thin(g.tmps, h.tmps, s),
           \A t \in Strings \ {s} : /\ g.str[t].live = h.str[t].live /\ g.str[t].tmp = h.str[t].tmp
                                    /\ g.str[t].tmplisti = h.str[t].tmplisti
    PROVE  TmpsSound(g, s)
  <1> DEFINE n == Len(h.tmps)
             m == Len(g.tmps)
  <1>1. /\ n \in Nat /\ m \in Nat /\ DOMAIN h.tmps = 1 .. n /\ DOMAIN g.tmps = 1 .. m
        /\ \A i \in 1 .. m : g.tmps[i] # Hole => g.tmps[i] \in Strings
    BY HeapFields
  <1>2. /\ m <= n /\ \A i \in 1 .. m : g.tmps[i] = IF h.tmps[i] = s THEN Hole ELSE h.tmps[i]
        /\ \A i \in 1 .. n : h.tmps[i] # Hole /\ h.tmps[i] # s => i <= m
    BY DEF Thin
  <1>3. /\ \A t \in Strings \ {u} : h.str[t].live /\ h.str[t].tmp =>
              h.str[t].tmplisti \in 1 .. n /\ h.tmps[h.str[t].tmplisti] = t
        /\ \A i \in 1 .. n : h.tmps[i] # Hole =>
              h.str[h.tmps[i]].live /\ h.str[h.tmps[i]].tmp /\ h.str[h.tmps[i]].tmplisti = i
    BY <1>1 DEF TmpsSound
  <1> HIDE DEF n, m
  <1>4. \A t \in Strings \ {s} : g.str[t].live /\ g.str[t].tmp =>
           g.str[t].tmplisti \in 1 .. m /\ g.tmps[g.str[t].tmplisti] = t
    <2> TAKE t \in Strings \ {s}
    <2> HAVE g.str[t].live /\ g.str[t].tmp
    <2>1. t # Hole /\ t \in Strings \ {u}
      BY QbsAssumption
    <2>2. g.str[t].tmplisti \in 1 .. n /\ h.tmps[g.str[t].tmplisti] = t
      BY <1>3, <2>1
    <2> QED BY <1>1, <1>2, <2>1, <2>2
  <1>5. \A i \in 1 .. m : g.tmps[i] # Hole =>
           /\ g.tmps[i] # s
           /\ g.str[g.tmps[i]].live /\ g.str[g.tmps[i]].tmp /\ g.str[g.tmps[i]].tmplisti = i
    <2> TAKE i \in 1 .. m
    <2> HAVE g.tmps[i] # Hole
    <2>1. i \in 1 .. n /\ g.tmps[i] = h.tmps[i] /\ g.tmps[i] # s
      BY <1>1, <1>2
    <2> QED BY <1>1, <1>3, <2>1
  <1> QED BY <1>1, <1>4, <1>5 DEF TmpsSound

\* A string that is not in use needs no place in the lists.
LEMMA GoneIs ==
    ASSUME NEW g, NEW s \in Strings
    PROVE  /\ ListSound(g, s) /\ ~(g.str[s].live /\ g.str[s].heap) => ListSound(g, Hole)
           /\ TmpsSound(g, s) /\ ~(g.str[s].live /\ g.str[s].tmp) => TmpsSound(g, Hole)
  <1>1. s # Hole
    BY QbsAssumption
  <1>2. ASSUME ListSound(g, s), ~(g.str[s].live /\ g.str[s].heap) PROVE ListSound(g, Hole)
    <2>1. ~Listed(g, s)
      BY <1>1, <1>2 DEF ListSound, Listed
    <2> QED BY <1>1, <1>2, <2>1 DEF ListSound
  <1>3. ASSUME TmpsSound(g, s), ~(g.str[s].live /\ g.str[s].tmp) PROVE TmpsSound(g, Hole)
    BY <1>1, <1>3 DEF TmpsSound
  <1> QED BY <1>2, <1>3

\* The records that the functions change.
LEMMA PlaceFields ==
    ASSUME NEW d \in Descriptor, NEW i \in Nat
    PROVE  LET e == [d EXCEPT !.listi = i]
           IN  /\ e \in Descriptor /\ e.live = d.live /\ e.heap = d.heap /\ e.tmp = d.tmp
               /\ e.chr = d.chr /\ e.len = d.len /\ e.listi = i /\ e.tmplisti = d.tmplisti
  BY DEF Descriptor

LEMMA LengthFields ==
    ASSUME NEW d \in Descriptor, NEW l \in Nat
    PROVE  LET e == [d EXCEPT !.len = l]
           IN  /\ e \in Descriptor /\ e.live = d.live /\ e.heap = d.heap /\ e.tmp = d.tmp
               /\ e.chr = d.chr /\ e.len = l /\ e.listi = d.listi /\ e.tmplisti = d.tmplisti
  BY DEF Descriptor

WithExtent(d, c, l) == [d EXCEPT !.chr = c, !.len = l]

HasExtent(e, d, c, l) ==
    /\ e \in Descriptor /\ e.live = d.live /\ e.heap = d.heap /\ e.tmp = d.tmp
    /\ e.chr = c /\ e.len = l /\ e.listi = d.listi /\ e.tmplisti = d.tmplisti

LEMMA ExtentFields ==
    ASSUME NEW d \in Descriptor, NEW c \in Nat, NEW l \in Nat
    PROVE  HasExtent(WithExtent(d, c, l), d, c, l)
  BY DEF Descriptor, WithExtent, HasExtent

LEMMA TmpFields ==
    ASSUME NEW d \in Descriptor, NEW i \in Nat
    PROVE  LET e == [d EXCEPT !.tmp = TRUE, !.tmplisti = i]
           IN  /\ e \in Descriptor /\ e.live = d.live /\ e.heap = d.heap /\ e.tmp
               /\ e.chr = d.chr /\ e.len = d.len /\ e.listi = d.listi /\ e.tmplisti = i
  BY DEF Descriptor

LEMMA NoStringIs ==
    /\ NoString \in Descriptor
    /\ ~NoString.live /\ ~NoString.heap /\ ~NoString.tmp
  BY DEF NoString, Descriptor

LEMMA NewFields ==
    ASSUME NEW c \in Nat, NEW l \in Nat
    PROVE  LET d == [NoString EXCEPT !.live = TRUE, !.heap = TRUE, !.chr = c, !.len = l]
           IN  d \in Descriptor /\ d.live /\ d.heap /\ ~d.tmp /\ d.chr = c /\ d.len = l
  BY DEF NoString, Descriptor

LEMMA OutsideFields ==
    ASSUME NEW l \in Nat
    PROVE  LET d == [NoString EXCEPT !.live = TRUE, !.len = l]
           IN  d \in Descriptor /\ d.live /\ ~d.heap /\ ~d.tmp
  BY DEF NoString, Descriptor

-----------------------------------------------------------------------------
(* New strings, and temporaries.                                           *)

\* A string that is not in use is in neither list.
LEMMA NotListed ==
    ASSUME NEW h \in Heap, NEW u, ListSound(h, u), NEW s \in Strings, ~Listed(h, s)
    PROVE  \A i \in DOMAIN h.list : h.list[i] # s
  BY QbsAssumption DEF ListSound, Listed

\* A new string that is not a temporary leaves the list of temporaries as it is.
LEMMA TmpsWithNew ==
    ASSUME NEW g \in Heap, TmpsSound(g, Hole), NEW s \in Strings, ~g.str[s].live,
           NEW k \in Heap, k.tmps = g.tmps, ~k.str[s].tmp,
           \A t \in Strings \ {s} : /\ k.str[t].live = g.str[t].live /\ k.str[t].tmp = g.str[t].tmp
                                    /\ k.str[t].tmplisti = g.str[t].tmplisti
    PROVE  TmpsSound(k, Hole)
  <1>1. \A i \in DOMAIN g.tmps : g.tmps[i] # Hole => g.tmps[i] \in Strings /\ g.tmps[i] # s
    BY HeapFields DEF TmpsSound
  <1>2. \A t \in Strings : t # Hole
    BY QbsAssumption
  <1> QED BY <1>1, <1>2 DEF TmpsSound

LEMMA ExceptHeap ==
    ASSUME NEW h \in Heap, NEW s \in Strings, NEW d \in Descriptor
    PROVE  LET g == [h EXCEPT !.str[s] = d]
           IN  /\ g \in Heap /\ g.list = h.list /\ g.lasti = h.lasti /\ g.tmps = h.tmps
               /\ g.sp = h.sp /\ g.size = h.size
               /\ g.str[s] = d /\ \A t \in Strings \ {s} : g.str[t] = h.str[t]
  BY HeapFields DEF Heap

\* A heap with the same list, and the same extents.
LEMMA AlikeOrder ==
    ASSUME NEW h \in Heap, OrderSound(h), NEW g \in Heap, g.list = h.list, g.sp = h.sp,
           g.size = h.size,
           \A s \in Strings : g.str[s].chr = h.str[s].chr /\ g.str[s].len = h.str[s].len
    PROVE  OrderSound(g)
  <1>1. \A i \in 1 .. Len(g.list) : g.list[i] # Hole => g.list[i] \in Strings
    BY HeapFields
  <1>2. \A s \in Strings : /\ h.str[s].chr \in Nat /\ End(h, s) \in Nat
                           /\ End(g, s) = End(h, s)
    BY HeapFields DEF End
  <1>3. Len(g.list) \in Nat /\ h.sp \in Int
    BY HeapFields
  <1>4. \A i \in 1 .. Len(g.list) : g.list[i] # Hole =>
           /\ g.list[i] = h.list[i]
           /\ h.str[g.list[i]].chr <= g.str[g.list[i]].chr
           /\ End(g, g.list[i]) <= End(h, g.list[i])
    BY <1>1, <1>2
  <1>5. InOrder(g) /\ \A e \in Int : Below(h, e) => Below(g, e)
    BY <1>3, <1>4, ThinOrder DEF OrderSound
  <1> QED BY <1>3, <1>5 DEF OrderSound

LEMMA OutsideIs ==
    ASSUME NEW h, Sound(h), NEW s \in Strings, ~h.str[s].live, NEW len \in Nat
    PROVE  LET k == Outside(h, s, len)
           IN  /\ Sound(k) /\ k.str[s].live /\ ~k.str[s].heap /\ ~k.str[s].tmp
               /\ \A t \in Strings \ {s} : k.str[t] = h.str[t]
  <1> DEFINE d == [NoString EXCEPT !.live = TRUE, !.len = len]
             k == Outside(h, s, len)
  <1>1. h \in Heap /\ OrderSound(h) /\ ListSound(h, Hole) /\ TmpsSound(h, Hole)
    BY DEF Sound
  <1>2. d \in Descriptor /\ d.live /\ ~d.heap /\ ~d.tmp
    BY OutsideFields
  <1>3. k = [h EXCEPT !.str[s] = d]
    BY DEF Outside
  <1> HIDE DEF k, d
  <1>4. /\ k \in Heap /\ k.list = h.list /\ k.lasti = h.lasti /\ k.tmps = h.tmps
        /\ k.sp = h.sp /\ k.size = h.size
        /\ k.str[s] = d /\ \A t \in Strings \ {s} : k.str[t] = h.str[t]
    BY <1>1, <1>2, <1>3, ExceptHeap
  <1>5. ~Listed(h, s)
    BY <1>1, QbsAssumption DEF ListSound
  <1>6. \A i \in DOMAIN h.list : h.list[i] # Hole =>
            h.list[i] \in Strings \ {s} /\ k.str[h.list[i]] = h.str[h.list[i]]
    BY <1>1, <1>4, <1>5, NotListed, HeapFields
  <1>7. OrderSound(k)
    BY <1>1, <1>4, <1>6 DEF OrderSound, InOrder, Below, End
  <1>8. ListSound(k, Hole)
    <2>1. ~Listed(k, s)
      BY <1>1, <1>4, <1>5, NotListed DEF Listed
    <2>2. \A t \in Strings \ {s} : Listed(k, t) <=> Listed(h, t)
      BY <1>4 DEF Listed
    <2> QED BY <1>1, <1>2, <1>4, <1>6, <2>1, <2>2 DEF ListSound
  <1>9. TmpsSound(k, Hole)
    BY <1>1, <1>2, <1>4, TmpsWithNew
  <1> QED BY <1>2, <1>4, <1>7, <1>8, <1>9 DEF Sound, k

LEMMA MakeTmpIs ==
    ASSUME NEW h, Sound(h), NEW s \in Strings, h.str[s].live, ~h.str[s].tmp
    PROVE  LET k == MakeTmp(h, s)
           IN  /\ Sound(k) /\ k.str[s].live
               /\ \A t \in Strings \ {s} : k.str[t] = h.str[t]
  <1> DEFINE k == MakeTmp(h, s)
             n == Len(h.tmps)
             d == [h.str[s] EXCEPT !.tmp = TRUE, !.tmplisti = n + 1]
  <1>1. h \in Heap /\ OrderSound(h) /\ ListSound(h, Hole) /\ TmpsSound(h, Hole)
    BY DEF Sound
  <1>2. /\ h.str[s] \in Descriptor /\ n \in Nat /\ h.tmps \in Seq(Entry) /\ DOMAIN h.tmps = 1 .. n
        /\ \A i \in 1 .. n : h.tmps[i] # Hole => h.tmps[i] \in Strings
    BY <1>1, HeapFields
  <1>3. /\ d \in Descriptor /\ d.tmp /\ d.tmplisti = n + 1 /\ d.live = h.str[s].live
        /\ d.heap = h.str[s].heap /\ d.listi = h.str[s].listi
        /\ d.chr = h.str[s].chr /\ d.len = h.str[s].len
    <2>1. n + 1 \in Nat
      BY <1>2
    <2> HIDE DEF n
    <2> QED BY <1>2, <2>1, TmpFields
  <1>4. s \in Entry /\ s # Hole
    BY QbsAssumption DEF Entry
  <1>5. /\ Append(h.tmps, s) \in Seq(Entry) /\ Len(Append(h.tmps, s)) = n + 1
        /\ DOMAIN Append(h.tmps, s) = 1 .. n + 1
        /\ Append(h.tmps, s)[n + 1] = s /\ \A i \in 1 .. n : Append(h.tmps, s)[i] = h.tmps[i]
    BY <1>2, <1>4, AppendProperties
  <1>6. k = [[h EXCEPT !.str[s] = d] EXCEPT !.tmps = Append(h.tmps, s)]
    BY <1>1 DEF MakeTmp, Heap
  <1> HIDE DEF k, d, n
  <1>7. /\ k \in Heap /\ k.list = h.list /\ k.lasti = h.lasti /\ k.tmps = Append(h.tmps, s)
        /\ k.sp = h.sp /\ k.size = h.size
        /\ k.str[s] = d /\ \A t \in Strings \ {s} : k.str[t] = h.str[t]
    <2> DEFINE g == [h EXCEPT !.str[s] = d]
    <2>1. /\ g \in Heap /\ g.list = h.list /\ g.lasti = h.lasti /\ g.tmps = h.tmps
          /\ g.sp = h.sp /\ g.size = h.size
          /\ g.str[s] = d /\ \A t \in Strings \ {s} : g.str[t] = h.str[t]
      BY <1>1, <1>3, ExceptHeap
    <2> HIDE DEF g
    <2>2. k = [g EXCEPT !.tmps = Append(h.tmps, s)]
      BY <1>6 DEF g
    <2> QED BY <1>5, <2>1, <2>2 DEF Heap
  <1>8. \A t \in Strings : /\ k.str[t].live = h.str[t].live /\ k.str[t].heap = h.str[t].heap
                           /\ k.str[t].listi = h.str[t].listi
                           /\ k.str[t].chr = h.str[t].chr /\ k.str[t].len = h.str[t].len
    BY <1>3, <1>7
  <1>9. ListSound(k, Hole)
    BY <1>1, <1>7, <1>8, ListAlikeSound DEF ListAlike
  <1>10. OrderSound(k)
    BY <1>1, <1>7, <1>8, AlikeOrder
  <1>11. TmpsSound(k, Hole)
    <2>1. \A i \in 1 .. n : h.tmps[i] # Hole => h.tmps[i] # s
      BY <1>1, <1>2 DEF TmpsSound
    <2>2. \A t \in Strings : k.str[t].live /\ k.str[t].tmp =>
             k.str[t].tmplisti \in 1 .. n + 1 /\ k.tmps[k.str[t].tmplisti] = t
      <3> TAKE t \in Strings
      <3> HAVE k.str[t].live /\ k.str[t].tmp
      <3>1. CASE t = s
        BY <1>2, <1>3, <1>5, <1>7, <3>1
      <3>2. CASE t # s
        <4>1. t \in Strings \ {Hole} /\ k.str[t] = h.str[t]
          BY <1>7, <3>2, QbsAssumption
        <4>2. h.str[t].tmplisti \in 1 .. n /\ h.tmps[h.str[t].tmplisti] = t
          BY <1>1, <1>2, <4>1 DEF TmpsSound
        <4> QED BY <1>2, <1>5, <1>7, <4>1, <4>2
      <3> QED BY <3>1, <3>2
    <2>3. \A i \in 1 .. n + 1 : k.tmps[i] # Hole =>
             k.str[k.tmps[i]].live /\ k.str[k.tmps[i]].tmp /\ k.str[k.tmps[i]].tmplisti = i
      <3> TAKE i \in 1 .. n + 1
      <3> HAVE k.tmps[i] # Hole
      <3>1. CASE i = n + 1
        BY <1>3, <1>5, <1>7, <3>1
      <3>2. CASE i \in 1 .. n
        <4>1. k.tmps[i] = h.tmps[i] /\ h.tmps[i] \in Strings \ {s}
          BY <1>2, <1>5, <1>7, <2>1, <3>2
        <4> QED BY <1>1, <1>2, <1>7, <3>2, <4>1 DEF TmpsSound
      <3> QED BY <1>2, <3>1, <3>2
    <2> QED BY <1>5, <1>7, <2>2, <2>3 DEF TmpsSound
  <1> QED BY <1>7, <1>8, <1>9, <1>10, <1>11 DEF Sound, k

-----------------------------------------------------------------------------
(* qbs_free().                                                             *)

\* The list of h without its entry i, if that is s, and without the holes at the end.
LEMMA TrimmedIs ==
    ASSUME NEW list \in Seq(Entry), NEW s \in Strings, NEW i,
           \A j \in 1 .. Len(list) : list[j] = s <=> j = i
    PROVE  /\ Trim(Without(list, i)) \in Seq(Entry)
           /\ Thin(Trim(Without(list, i)), list, s)
           /\ LET t == Trim(Without(list, i)) IN Len(t) # 0 => t[Len(t)] # Hole
  <1> DEFINE w == Without(list, i)
             t == Trim(w)
  <1>1. /\ w \in Seq(Entry) /\ DOMAIN w = 1 .. Len(list) /\ Len(w) = Len(list)
        /\ \A j \in 1 .. Len(list) : w[j] = IF j = i THEN Hole ELSE list[j]
    <2>1. DOMAIN list = 1 .. Len(list)
      OBVIOUS
    <2> QED BY <2>1, WithoutIs
  <1> HIDE DEF w
  <1>2. /\ t \in Seq(Entry) /\ Len(t) <= Len(w) /\ \A j \in 1 .. Len(t) : t[j] = w[j]
        /\ \A j \in DOMAIN w : w[j] # Hole => j <= Len(t)
        /\ Len(t) # 0 => t[Len(t)] # Hole
    BY <1>1, TrimIs
  <1> HIDE DEF t
  <1>3. Len(t) \in Nat /\ Len(list) \in Nat
    BY <1>2
  <1>4. \A j \in 1 .. Len(t) : t[j] = IF list[j] = s THEN Hole ELSE list[j]
    BY <1>1, <1>2, <1>3
  <1>5. \A j \in 1 .. Len(list) : list[j] # Hole /\ list[j] # s => j <= Len(t)
    BY <1>1, <1>2
  <1>6. Thin(t, list, s)
    BY <1>1, <1>2, <1>4, <1>5 DEF Thin
  <1> QED BY <1>2, <1>6 DEF t, w

LEMMA SameIsThin ==
    ASSUME NEW list \in Seq(Entry), NEW s, \A j \in 1 .. Len(list) : list[j] = s => s = Hole
    PROVE  Thin(list, list, s)
  BY DEF Thin

\* The lesser of two numbers.
LEMMA MinOfTwo ==
    ASSUME NEW a \in Nat, NEW b \in Nat
    PROVE  Min({a, b}) \in {a, b} /\ Min({a, b}) <= a /\ Min({a, b}) <= b
  <1> DEFINE A == {a, b}
  <1>1. a + b \in Nat /\ A \subseteq 0 .. a + b /\ A # {} /\ a \in A /\ b \in A
    OBVIOUS
  <1> HIDE DEF A
  <1>2. Min(A) \in A /\ \A i \in A : Min(A) <= i
    BY <1>1, MinIs
  <1> QED BY <1>1, <1>2 DEF A

\* qbs_sp after a string was freed is above the others.
LEMMA TopAfterIs ==
    ASSUME NEW h \in Heap, OrderSound(h), NEW g \in Heap, InOrder(g),
           Len(g.list) # 0 => g.list[Len(g.list)] # Hole,
           \A e \in Int : Below(h, e) => Below(g, e),
           \A i \in 1 .. Len(g.list) : g.list[i] # Hole => End(h, g.list[i]) = End(g, g.list[i]),
           NEW s
    PROVE  LET v == TopAfter(h, s, g.list)
           IN  v \in Nat /\ v <= h.size /\ Below(g, v)
  <1> DEFINE n == Len(g.list)
             v == TopAfter(h, s, g.list)
  <1>1. /\ n \in Nat /\ DOMAIN g.list = 1 .. n /\ h.sp \in Nat /\ h.size \in Nat /\ Pad \in Nat
        /\ \A i \in 1 .. n : g.list[i] # Hole => g.list[i] \in Strings
        /\ \A t \in Strings : g.str[t].chr \in Nat /\ g.str[t].len \in Nat /\ End(g, t) \in Nat
                             /\ End(g, t) = g.str[t].chr + g.str[t].len
        /\ g.list \in Seq(Entry)
    BY HeapFields, QbsAssumption
  <1>2. CASE g.list = <<>>
    <2>1. v = 0 /\ n = 0
      BY <1>2 DEF TopAfter
    <2>2. Below(g, v)
      BY <1>1, <2>1 DEF Below
    <2> QED BY <1>1, <2>1, <2>2
  <1>3. CASE g.list # <<>>
    <2>1. n # 0
      BY <1>1, <1>3
    <2>2. g.list[n] # Hole
      BY <2>1
    <2>3. g.list[n] \in Strings /\ n \in 1 .. n
      BY <1>1, <2>1, <2>2
    <2> DEFINE e == End(g, g.list[n])
    <2>4. v = Min({e + Pad, h.size}) /\ e \in Nat
      BY <1>1, <1>3, <2>2, <2>3 DEF TopAfter
    <2>5. \A i \in 1 .. n : g.list[i] # Hole => End(g, g.list[i]) <= e
      <3> TAKE i \in 1 .. n
      <3> HAVE g.list[i] # Hole
      <3>1. CASE i = n
        BY <2>4, <3>1
      <3>2. CASE i < n
        <4>1. End(g, g.list[i]) <= g.str[g.list[n]].chr
          BY <1>1, <2>2, <2>3, <3>2 DEF InOrder
        <4>2. g.list[i] \in Strings
          BY <1>1
        <4> QED BY <1>1, <2>3, <4>1, <4>2
      <3> QED BY <1>1, <3>1, <3>2
    <2> HIDE DEF e, n, v
    <2>6. v \in {e + Pad, h.size} /\ v <= e + Pad /\ v <= h.size
      <3>1. e + Pad \in Nat
        BY <1>1, <2>4
      <3> QED BY <1>1, <2>4, <3>1, MinOfTwo
    <2>7. Below(g, h.sp) /\ h.sp <= h.size
      BY <1>1 DEF OrderSound
    <2>8. \A i \in 1 .. n : g.list[i] # Hole => End(g, g.list[i]) <= v
      <3> TAKE i \in 1 .. n
      <3> HAVE g.list[i] # Hole
      <3>1. End(g, g.list[i]) <= h.sp /\ End(g, g.list[i]) \in Nat
        BY <1>1, <2>7 DEF Below
      <3> QED BY <1>1, <2>4, <2>5, <2>6, <2>7, <3>1
    <2>9. v \in Nat
      BY <1>1, <2>4, <2>6
    <2>10. Below(g, v)
      BY <1>1, <2>8 DEF Below
    <2> QED BY <2>6, <2>9, <2>10 DEF v
  <1> QED BY <1>2, <1>3

\* The temporaries after s was freed.  In qbs_cleanup() it was popped before (u = s).
LEMMA TmpsAfterFree ==
    ASSUME NEW h \in Heap, NEW s \in Strings, NEW u \in {Hole, s}, TmpsSound(h, u), h.str[s].live,
           u = s => h.str[s].tmplisti \notin DOMAIN h.tmps
    PROVE  LET tmps == IF h.str[s].tmp THEN Trim(Without(h.tmps, h.str[s].tmplisti)) ELSE h.tmps
           IN  tmps \in Seq(Entry) /\ Thin(tmps, h.tmps, s)
  <1>1. h.tmps \in Seq(Entry) /\ DOMAIN h.tmps = 1 .. Len(h.tmps) /\ s # Hole
    BY HeapFields, QbsAssumption
  <1>2. CASE h.str[s].tmp
    <2>1. \A j \in 1 .. Len(h.tmps) : h.tmps[j] = s <=> j = h.str[s].tmplisti
      <3>1. CASE u = s
        BY <1>1, <3>1 DEF TmpsSound
      <3>2. CASE u = Hole
        BY <1>1, <1>2, <3>2 DEF TmpsSound
      <3> QED BY <3>1, <3>2
    <2> QED BY <1>1, <1>2, <2>1, TrimmedIs
  <1>3. CASE ~h.str[s].tmp
    <2>1. \A j \in 1 .. Len(h.tmps) : h.tmps[j] # s
      BY <1>1, <1>3 DEF TmpsSound
    <2> QED BY <1>1, <1>3, <2>1, SameIsThin
  <1> QED BY <1>2, <1>3

LEMMA FreeIs ==
    ASSUME NEW h \in Heap, OrderSound(h), ListSound(h, Hole), NEW s \in Strings, h.str[s].live,
           NEW u \in {Hole, s}, TmpsSound(h, u),
           u = s => h.str[s].tmplisti \notin DOMAIN h.tmps
    PROVE  /\ Sound(Free(h, s))
           /\ \A t \in Strings \ {s} : Free(h, s).str[t] = h.str[t]
  <1> DEFINE tmps == IF h.str[s].tmp THEN Trim(Without(h.tmps, h.str[s].tmplisti)) ELSE h.tmps
             list == Trim(Without(h.list, h.str[s].listi))
             b == [h EXCEPT !.str[s] = NoString]
             g == [h EXCEPT !.tmps = tmps, !.str[s] = NoString]
             top == TopAfter(h, s, list)
             k == Free(h, s)
  <1>1. /\ h.list \in Seq(Entry) /\ DOMAIN h.list = 1 .. Len(h.list) /\ s # Hole /\ s \in Entry
        /\ h.lasti \in Nat /\ h.sp \in Nat /\ h.size \in Nat /\ Len(h.list) \in Nat
        /\ \A t \in Strings : h.str[t].chr \in Nat /\ End(h, t) \in Nat
    BY HeapFields, QbsAssumption DEF Entry
  <1>2. tmps \in Seq(Entry) /\ Thin(tmps, h.tmps, s)
    BY TmpsAfterFree
  <1>3. k = IF h.str[s].heap THEN [g EXCEPT !.list = list, !.sp = top] ELSE g
    BY DEF Free
  <1>4. NoString \in Descriptor /\ ~NoString.live
    BY NoStringIs
  <1>5. /\ b \in Heap /\ b.list = h.list /\ b.lasti = h.lasti /\ b.tmps = h.tmps
        /\ b.sp = h.sp /\ b.size = h.size
        /\ b.str[s] = NoString /\ \A t \in Strings \ {s} : b.str[t] = h.str[t]
    BY <1>4, ExceptHeap
  <1>6. g = [b EXCEPT !.tmps = tmps]
    BY DEF Heap
  <1> HIDE DEF tmps, b, g
  <1>7. /\ g \in Heap /\ g.list = h.list /\ g.lasti = h.lasti /\ g.tmps = tmps
        /\ g.sp = h.sp /\ g.size = h.size
        /\ g.str[s] = NoString /\ \A t \in Strings \ {s} : g.str[t] = h.str[t]
    BY <1>2, <1>5, <1>6 DEF Heap
  <1>8. InOrder(h) /\ Below(h, h.sp) /\ h.sp <= h.size
    BY DEF OrderSound
  \* Any heap with these strings and temporaries, and a list without s.
  <1>9. ASSUME NEW r \in Heap, Thin(r.list, h.list, s), r.lasti = h.lasti, r.str = g.str,
               r.tmps = tmps
        PROVE  /\ InOrder(r) /\ \A e \in Int : Below(h, e) => Below(r, e)
               /\ \A i \in 1 .. Len(r.list) : r.list[i] # Hole =>
                     End(h, r.list[i]) = End(r, r.list[i])
               /\ ListSound(r, Hole) /\ TmpsSound(r, Hole)
    <2>1. /\ Len(r.list) <= Len(h.list)
          /\ \A i \in 1 .. Len(r.list) : r.list[i] = IF h.list[i] = s THEN Hole ELSE h.list[i]
      BY <1>9 DEF Thin
    <2>2. \A i \in 1 .. Len(r.list) : r.list[i] # Hole => r.list[i] \in Strings
      BY HeapFields
    <2>3. \A i \in 1 .. Len(r.list) : r.list[i] # Hole =>
             /\ r.list[i] = h.list[i] /\ r.list[i] \in Strings \ {s}
             /\ r.str[r.list[i]] = h.str[r.list[i]]
      BY <1>7, <1>9, <2>1, <2>2
    <2>4. \A i \in 1 .. Len(r.list) : r.list[i] # Hole =>
             End(h, r.list[i]) = End(r, r.list[i])
      BY <2>3 DEF End
    <2>5. \A i \in 1 .. Len(r.list) : r.list[i] # Hole =>
             /\ r.list[i] = h.list[i]
             /\ h.str[r.list[i]].chr <= r.str[r.list[i]].chr
             /\ End(r, r.list[i]) <= End(h, r.list[i])
      BY <1>1, <2>3, <2>4
    <2>6. InOrder(r) /\ \A e \in Int : Below(h, e) => Below(r, e)
      BY <1>8, <2>1, <2>5, ThinOrder
    <2>7. \A t \in Strings \ {s} : r.str[t] = h.str[t]
      BY <1>7, <1>9
    <2>8. ListSound(r, s)
      BY <1>1, <1>9, <2>7, ThinList
    <2>9. TmpsSound(r, s)
      BY <1>1, <1>2, <1>9, <2>7, ThinTmps
    <2>10. ~r.str[s].live
      BY <1>4, <1>7, <1>9
    <2> QED BY <2>4, <2>6, <2>8, <2>9, <2>10, GoneIs
  <1>10. CASE h.str[s].heap
    <2> DEFINE r == [g EXCEPT !.list = list]
    <2>1. \A j \in 1 .. Len(h.list) : h.list[j] = s <=> j = h.str[s].listi
      BY <1>1, <1>10 DEF ListSound, Listed
    <2>2. /\ list \in Seq(Entry) /\ Thin(list, h.list, s)
          /\ Len(list) # 0 => list[Len(list)] # Hole
      BY <1>1, <2>1, TrimmedIs
    <2> HIDE DEF list, top
    <2>3. /\ r \in Heap /\ r.list = list /\ r.lasti = h.lasti /\ r.tmps = tmps /\ r.sp = h.sp
          /\ r.size = h.size /\ r.str = g.str
      BY <1>7, <2>2 DEF Heap
    <2>4. k = [r EXCEPT !.sp = top]
      BY <1>3, <1>7, <1>10 DEF Heap
    <2> HIDE DEF r, k
    <2>5. /\ InOrder(r) /\ \A e \in Int : Below(h, e) => Below(r, e)
          /\ \A i \in 1 .. Len(r.list) : r.list[i] # Hole =>
                End(h, r.list[i]) = End(r, r.list[i])
          /\ ListSound(r, Hole) /\ TmpsSound(r, Hole)
      BY <1>9, <2>2, <2>3
    <2>6. top \in Nat /\ top <= h.size /\ Below(r, top)
      <3> DEFINE v == TopAfter(h, s, r.list)
      <3>1. v = top
        BY <2>3 DEF top
      <3> HIDE DEF v
      <3>2. v \in Nat /\ v <= h.size /\ Below(r, v)
        BY <2>2, <2>3, <2>5, TopAfterIs DEF v
      <3> QED BY <3>1, <3>2
    <2>7. /\ k \in Heap /\ k.list = r.list /\ k.lasti = r.lasti /\ k.tmps = r.tmps /\ k.sp = top
          /\ k.size = h.size /\ k.str = g.str
      BY <2>3, <2>4, <2>6 DEF Heap
    <2>8. OrderSound(k)
      BY <2>3, <2>5, <2>6, <2>7 DEF OrderSound, InOrder, Below, End
    <2>9. ListSound(k, Hole) /\ TmpsSound(k, Hole)
      BY <2>3, <2>5, <2>7 DEF ListSound, Listed, TmpsSound
    <2>10. \A t \in Strings \ {s} : k.str[t] = h.str[t]
      BY <1>7, <2>7
    <2> QED BY <2>7, <2>8, <2>9, <2>10 DEF Sound, k
  <1>11. CASE ~h.str[s].heap
    <2>1. k = g
      BY <1>3, <1>11
    <2>2. \A j \in 1 .. Len(h.list) : h.list[j] # s
      BY <1>1, <1>11 DEF ListSound, Listed
    <2>3. Thin(g.list, h.list, s)
      BY <1>1, <1>7, <2>2, SameIsThin
    <2>4. /\ InOrder(g) /\ \A e \in Int : Below(h, e) => Below(g, e)
          /\ ListSound(g, Hole) /\ TmpsSound(g, Hole)
      BY <1>7, <1>9, <2>3
    <2>5. OrderSound(g)
      BY <1>1, <1>7, <1>8, <2>4 DEF OrderSound
    <2> QED BY <1>7, <2>1, <2>4, <2>5 DEF Sound
  <1> QED BY <1>10, <1>11

LEMMA FreeIfTmpIs ==
    ASSUME NEW h, Sound(h), NEW s \in Strings, h.str[s].live
    PROVE  /\ Sound(FreeIfTmp(h, s))
           /\ \A t \in Strings \ {s} : FreeIfTmp(h, s).str[t] = h.str[t]
           /\ ~h.str[s].tmp => FreeIfTmp(h, s) = h
  BY FreeIs, QbsAssumption DEF FreeIfTmp, Sound

-----------------------------------------------------------------------------
(* qbs_new().                                                              *)

\* Room for some bytes, as qbs_new() and qbs_set() make it.
Room(h, need, bytes) == IF h.sp + need > h.size THEN Concat(h, bytes) ELSE h

LEMMA RoomIs ==
    ASSUME NEW h \in Heap, OrderSound(h), NEW u, ListSound(h, u), NEW bytes \in Nat
    PROVE  LET g == Room(h, bytes, bytes)
           IN  /\ g \in Heap /\ OrderSound(g) /\ ListAlike(g, h) /\ TmpsAlike(g, h)
               /\ ListSound(g, u)
               /\ \A s \in Strings : g.str[s].len = h.str[s].len
               /\ g.sp + bytes <= g.size
  <1> DEFINE g == Room(h, bytes, bytes)
  <1>1. CASE h.sp + bytes > h.size
    <2>1. g = Concat(h, bytes)
      BY <1>1 DEF Room
    <2> HIDE DEF g
    <2>2. /\ g \in Heap /\ OrderSound(g) /\ ListAlike(g, h) /\ TmpsAlike(g, h)
          /\ \A s \in Strings : g.str[s].len = h.str[s].len
          /\ g.sp + bytes <= g.size
      BY <2>1, ConcatIs
    <2>3. ListSound(g, u)
      BY <2>2, ListAlikeSound
    <2> QED BY <2>2, <2>3 DEF g
  <1>2. CASE ~(h.sp + bytes > h.size)
    <2>1. g = h /\ h.sp \in Nat /\ h.size \in Nat
      BY <1>2, HeapFields DEF Room
    <2>2. ListAlike(h, h) /\ TmpsAlike(h, h) /\ h.sp + bytes <= h.size
      BY <1>2, <2>1 DEF ListAlike, TmpsAlike
    <2> QED BY <2>1, <2>2
  <1> QED BY <1>1, <1>2

LEMMA EnlistAs ==
    ASSUME NEW h \in Heap, NEW s \in Strings, Roomy(h) \in Heap
    PROVE  LET g == Roomy(h)
               e == Enlist(h, s)
           IN  /\ e \in Heap /\ e.list = Append(g.list, s) /\ e.lasti = g.lasti
               /\ e.tmps = g.tmps /\ e.sp = g.sp /\ e.size = g.size
               /\ \A t \in Strings \ {s} : e.str[t] = g.str[t]
               /\ e.str[s].live = g.str[s].live /\ e.str[s].heap = g.str[s].heap
               /\ e.str[s].tmp = g.str[s].tmp /\ e.str[s].chr = g.str[s].chr
               /\ e.str[s].len = g.str[s].len /\ e.str[s].listi = Len(g.list) + 1
               /\ e.str[s].tmplisti = g.str[s].tmplisti
  <1> DEFINE g == Roomy(h)
             i == Len(g.list) + 1
             e == Enlist(h, s)
             d == [g.str[s] EXCEPT !.listi = i]
             b == [g EXCEPT !.str[s] = d]
             list == Append(g.list, s)
  <1>1. e = [g EXCEPT !.list = list, !.str[s].listi = i]
    BY DEF Enlist, Roomy
  <1>2. g \in Heap
    OBVIOUS
  <1> HIDE DEF g, e
  <1>3. /\ g.str \in [Strings -> Descriptor] /\ g.str[s] \in Descriptor /\ i \in Nat
        /\ g.list \in Seq(Entry) /\ s \in Entry
    BY <1>2, HeapFields DEF Entry
  <1>4. list \in Seq(Entry)
    BY <1>3, AppendProperties
  <1> HIDE DEF i, list
  <1>5. /\ d \in Descriptor /\ d.live = g.str[s].live /\ d.heap = g.str[s].heap
        /\ d.tmp = g.str[s].tmp /\ d.chr = g.str[s].chr /\ d.len = g.str[s].len
        /\ d.listi = i /\ d.tmplisti = g.str[s].tmplisti
    BY <1>3, PlaceFields
  <1>6. e = [b EXCEPT !.list = list]
    BY <1>1, <1>2, <1>3 DEF Heap
  <1> HIDE DEF d
  <1>7. /\ b \in Heap /\ b.list = g.list /\ b.lasti = g.lasti /\ b.tmps = g.tmps
        /\ b.sp = g.sp /\ b.size = g.size
        /\ b.str[s] = d /\ \A t \in Strings \ {s} : b.str[t] = g.str[t]
    BY <1>2, <1>5, ExceptHeap
  <1> HIDE DEF b
  <1>8. /\ e \in Heap /\ e.list = list /\ e.lasti = g.lasti /\ e.tmps = g.tmps
        /\ e.sp = g.sp /\ e.size = g.size
        /\ e.str[s] = d /\ \A t \in Strings \ {s} : e.str[t] = g.str[t]
    BY <1>4, <1>6, <1>7 DEF Heap
  <1> QED BY <1>5, <1>8 DEF e, g, i, list

\* A string without a place gets one in the list, and an extent above the others.
LEMMA EnlistIs ==
    ASSUME NEW h \in Heap, OrderSound(h), NEW s \in Strings, ListSound(h, s),
           h.str[s].live, h.str[s].heap,
           NEW e, e = Enlist(h, s),
           NEW k \in Heap, k.list = e.list, k.lasti = e.lasti, k.tmps = e.tmps,
           \A t \in Strings \ {s} : k.str[t] = e.str[t],
           k.str[s].live = e.str[s].live, k.str[s].heap = e.str[s].heap,
           k.str[s].tmp = e.str[s].tmp, k.str[s].tmplisti = e.str[s].tmplisti,
           k.str[s].listi = e.str[s].listi,
           Below(h, k.str[s].chr), End(k, s) <= k.sp, k.sp <= k.size
    PROVE  /\ OrderSound(k) /\ ListSound(k, Hole) /\ TmpsAlike(k, h)
           /\ \A t \in Strings : k.str[t].heap = h.str[t].heap
           /\ \A t \in Strings \ {s} : k.str[t].len = h.str[t].len
  <1> DEFINE g == Roomy(h)
  <1>1. k.str[s].chr \in Nat
    BY HeapFields
  <1>2. /\ g \in Heap /\ OrderSound(g) /\ ListSound(g, s) /\ TmpsAlike(g, h)
        /\ Len(g.list) <= g.lasti
        /\ \A t \in Strings : /\ g.str[t].len = h.str[t].len
                              /\ g.str[t].heap = h.str[t].heap
        /\ Below(g, k.str[s].chr)
    BY <1>1, RoomyIs
  <1>3. /\ e.list = Append(g.list, s) /\ e.lasti = g.lasti /\ e.tmps = g.tmps
        /\ \A t \in Strings \ {s} : e.str[t] = g.str[t]
        /\ e.str[s].live = g.str[s].live /\ e.str[s].heap = g.str[s].heap
        /\ e.str[s].tmp = g.str[s].tmp /\ e.str[s].listi = Len(g.list) + 1
        /\ e.str[s].tmplisti = g.str[s].tmplisti
    BY <1>2, EnlistAs
  <1> HIDE DEF g
  <1>4. /\ k.list = Append(g.list, s) /\ k.lasti = g.lasti /\ k.tmps = g.tmps
        /\ \A t \in Strings \ {s} : k.str[t] = g.str[t]
        /\ k.str[s].live /\ k.str[s].heap /\ k.str[s].listi = Len(g.list) + 1
        /\ k.str[s].live = g.str[s].live /\ k.str[s].heap = g.str[s].heap
        /\ k.str[s].tmp = g.str[s].tmp /\ k.str[s].tmplisti = g.str[s].tmplisti
    BY <1>2, <1>3 DEF TmpsAlike
  <1>5. OrderSound(k) /\ ListSound(k, Hole)
    BY <1>2, <1>4, PlacedIs
  <1>6. TmpsAlike(k, h)
    BY <1>2, <1>4 DEF TmpsAlike
  <1>7. \A t \in Strings : k.str[t].heap = h.str[t].heap
    BY <1>2, <1>4
  <1>8. \A t \in Strings \ {s} : k.str[t].len = h.str[t].len
    BY <1>2, <1>4
  <1> QED BY <1>5, <1>6, <1>7, <1>8

LEMMA NewIs ==
    ASSUME NEW h, Sound(h), NEW s \in Strings, ~h.str[s].live, NEW len \in Nat
    PROVE  LET k == New(h, s, len)
           IN  /\ Sound(k) /\ k.str[s].live /\ ~k.str[s].tmp
               /\ \A t \in Strings \ {s} :
                     /\ k.str[t].live = h.str[t].live
                     /\ k.str[t].tmp = h.str[t].tmp
  <1> DEFINE bytes == len + Pad
             g == Room(h, bytes, bytes)
             d == [NoString EXCEPT !.live = TRUE, !.heap = TRUE, !.chr = g.sp, !.len = len]
             b == [g EXCEPT !.str[s] = d]
             a == [b EXCEPT !.sp = g.sp + bytes]
             e == Enlist(a, s)
             k == New(h, s, len)
  <1>1. h \in Heap /\ OrderSound(h) /\ ListSound(h, Hole) /\ TmpsSound(h, Hole)
    BY DEF Sound
  <1>2. bytes \in Nat /\ len <= bytes /\ Pad \in Nat
    BY QbsAssumption
  <1>3. k = Enlist([g EXCEPT !.str[s] = d, !.sp = g.sp + len + Pad], s)
    <2>1. h.sp + len + Pad = h.sp + bytes
      BY <1>1, <1>2, HeapFields
    <2> QED BY <2>1 DEF New, Room
  <1> HIDE DEF g, bytes, k
  <1>4. /\ g \in Heap /\ OrderSound(g) /\ ListAlike(g, h) /\ TmpsAlike(g, h)
        /\ ListSound(g, Hole) /\ g.sp + bytes <= g.size
    BY <1>1, <1>2, RoomIs DEF g
  <1>5. /\ g.sp \in Nat /\ g.size \in Nat /\ g.sp + len + Pad = g.sp + bytes
        /\ DOMAIN g.list = 1 .. Len(g.list)
        /\ \A i \in 1 .. Len(g.list) : g.list[i] # Hole => g.list[i] \in Strings
    BY <1>1, <1>2, <1>4, HeapFields DEF bytes
  <1>6. TmpsSound(g, Hole) /\ ~g.str[s].live
    BY <1>1, <1>4, TmpsAlikeSound DEF TmpsAlike
  <1>7. d \in Descriptor /\ d.live /\ d.heap /\ ~d.tmp /\ d.chr = g.sp /\ d.len = len
    BY <1>5, NewFields
  <1> HIDE DEF d
  <1>8. /\ b \in Heap /\ b.list = g.list /\ b.lasti = g.lasti /\ b.tmps = g.tmps
        /\ b.sp = g.sp /\ b.size = g.size
        /\ b.str[s] = d /\ \A t \in Strings \ {s} : b.str[t] = g.str[t]
    BY <1>4, <1>7, ExceptHeap
  <1>9. k = Enlist(a, s)
    BY <1>3, <1>4, <1>5 DEF Heap
  <1> HIDE DEF b
  <1>10. g.sp + bytes \in Nat
    BY <1>2, <1>5
  <1>11. /\ a \in Heap /\ a.list = g.list /\ a.lasti = g.lasti /\ a.tmps = g.tmps
         /\ a.sp = g.sp + bytes /\ a.size = g.size
         /\ a.str[s] = d /\ \A t \in Strings \ {s} : a.str[t] = g.str[t]
    BY <1>8, <1>10 DEF Heap
  <1> HIDE DEF a
  <1>12. \A i \in 1 .. Len(g.list) : g.list[i] # Hole => g.list[i] \in Strings \ {s}
    BY <1>4, <1>5, <1>6 DEF ListSound, Listed
  <1>13. \A i \in 1 .. Len(g.list) : g.list[i] # s
    BY <1>12, QbsAssumption
  <1>14. ListSound(a, s)
    <2>1. Thin(a.list, g.list, s)
      BY <1>4, <1>11, <1>13, SameIsThin, HeapFields
    <2>2. s \in Entry
      BY DEF Entry
    <2> QED BY <1>4, <1>11, <2>1, <2>2, ThinList
  <1>15. InOrder(a) /\ Below(a, g.sp)
    <2>1. \A i \in 1 .. Len(a.list) : a.list[i] # Hole =>
             a.list[i] \in Strings /\ a.list[i] = g.list[i] /\ a.str[a.list[i]] = g.str[a.list[i]]
      BY <1>11, <1>12
    <2>2. \A t \in Strings : g.str[t].chr \in Nat /\ End(g, t) \in Nat
      BY <1>4, HeapFields
    <2>3. \A i \in 1 .. Len(a.list) : a.list[i] # Hole =>
             /\ a.list[i] = g.list[i]
             /\ g.str[a.list[i]].chr <= a.str[a.list[i]].chr
             /\ End(a, a.list[i]) <= End(g, a.list[i])
      BY <2>1, <2>2 DEF End
    <2>4. InOrder(g) /\ Below(g, g.sp) /\ Len(a.list) <= Len(g.list)
      BY <1>4, <1>11, HeapFields DEF OrderSound
    <2>5. InOrder(a) /\ \A x \in Int : Below(g, x) => Below(a, x)
      BY <1>4, <1>11, <2>3, <2>4, ThinOrder
    <2> QED BY <1>5, <2>4, <2>5
  <1>16. OrderSound(a)
    <2>1. Below(a, a.sp)
      <3>1. \A i \in 1 .. Len(a.list) : a.list[i] # Hole => End(a, a.list[i]) \in Nat
        BY <1>11, HeapFields
      <3>2. g.sp <= a.sp /\ a.sp \in Nat /\ DOMAIN a.list = 1 .. Len(a.list)
        BY <1>2, <1>5, <1>10, <1>11
      <3> QED BY <1>5, <1>15, <3>1, <3>2 DEF Below
    <2> QED BY <1>4, <1>11, <1>15, <2>1 DEF OrderSound
  <1>17. TmpsSound(a, Hole)
    BY <1>4, <1>6, <1>7, <1>11, TmpsWithNew
  <1>18. /\ k \in Heap /\ k.sp = a.sp /\ k.size = a.size /\ k.str[s].chr = g.sp
         /\ k.str[s].len = len /\ k.str[s].live /\ ~k.str[s].tmp
    <2> DEFINE r == Roomy(a)
    <2>1. /\ r \in Heap /\ r.sp = a.sp /\ r.size = a.size
          /\ r.str[s].chr = a.str[s].chr /\ r.str[s].len = a.str[s].len
          /\ TmpsAlike(r, a)
      BY <1>11, <1>14, <1>16, RoomyIs
    <2>2. /\ k \in Heap /\ k.sp = r.sp /\ k.size = r.size /\ k.str[s].chr = r.str[s].chr
          /\ k.str[s].len = r.str[s].len /\ k.str[s].live = r.str[s].live
          /\ k.str[s].tmp = r.str[s].tmp
      BY <1>9, <1>11, <2>1, EnlistAs
    <2> HIDE DEF r
    <2> QED BY <1>7, <1>11, <2>1, <2>2 DEF TmpsAlike
  <1>19. OrderSound(k) /\ ListSound(k, Hole) /\ TmpsAlike(k, a)
    <2>1. End(k, s) <= k.sp /\ k.sp <= k.size
      BY <1>2, <1>4, <1>5, <1>11, <1>18 DEF End
    <2>2. Below(a, k.str[s].chr) /\ a.str[s].live /\ a.str[s].heap
      BY <1>7, <1>11, <1>15, <1>18
    <2> QED BY <1>9, <1>11, <1>14, <1>16, <1>18, <2>1, <2>2, EnlistIs
  <1>20. TmpsSound(k, Hole)
    BY <1>11, <1>17, <1>18, <1>19, TmpsAlikeSound
  <1>21. \A t \in Strings \ {s} : k.str[t].live = h.str[t].live /\ k.str[t].tmp = h.str[t].tmp
    BY <1>4, <1>11, <1>19 DEF TmpsAlike
  <1> QED BY <1>18, <1>19, <1>20, <1>21 DEF Sound, k

-----------------------------------------------------------------------------
(* qbs_set().                                                              *)

\* The heap with another extent for s.
Moved(h, s, c, l) == [h EXCEPT !.str[s].chr = c, !.str[s].len = l]
IsMoved(k, h, s, c, l) ==
    /\ k \in Heap /\ k.list = h.list /\ k.lasti = h.lasti /\ k.tmps = h.tmps
    /\ k.sp = h.sp /\ k.size = h.size
    /\ \A t \in Strings \ {s} : k.str[t] = h.str[t]
    /\ k.str[s].live = h.str[s].live /\ k.str[s].heap = h.str[s].heap
    /\ k.str[s].tmp = h.str[s].tmp /\ k.str[s].chr = c /\ k.str[s].len = l
    /\ k.str[s].listi = h.str[s].listi /\ k.str[s].tmplisti = h.str[s].tmplisti

\* A sound heap with the same strings in use, and the same temporaries.
SameUse(k, h) ==
    /\ Sound(k)
    /\ \A t \in Strings : k.str[t].live = h.str[t].live /\ k.str[t].tmp = h.str[t].tmp

LEMMA ExtentHeap ==
    ASSUME NEW h \in Heap, NEW s \in Strings, NEW c \in Nat, NEW l \in Nat
    PROVE  IsMoved(Moved(h, s, c, l), h, s, c, l)
  <1> DEFINE d == WithExtent(h.str[s], c, l)
             b == [h EXCEPT !.str[s] = d]
  <1>1. h.str \in [Strings -> Descriptor] /\ h.str[s] \in Descriptor
    BY HeapFields
  <1>2. /\ d \in Descriptor /\ d.live = h.str[s].live /\ d.heap = h.str[s].heap
        /\ d.tmp = h.str[s].tmp /\ d.chr = c /\ d.len = l /\ d.listi = h.str[s].listi
        /\ d.tmplisti = h.str[s].tmplisti
    BY <1>1, ExtentFields DEF HasExtent
  <1>3. Moved(h, s, c, l) = b
    BY <1>1 DEF Heap, Moved, WithExtent
  <1> HIDE DEF d
  <1>4. /\ b \in Heap /\ b.list = h.list /\ b.lasti = h.lasti /\ b.tmps = h.tmps
        /\ b.sp = h.sp /\ b.size = h.size
        /\ b.str[s] = d /\ \A t \in Strings \ {s} : b.str[t] = h.str[t]
    BY <1>2, ExceptHeap
  <1> HIDE DEF b
  <1> QED BY <1>2, <1>3, <1>4 DEF IsMoved

\* As it is when only the length is changed.
LEMMA LengthHeap ==
    ASSUME NEW h \in Heap, NEW s \in Strings, NEW l
    PROVE  [h EXCEPT !.str[s].len = l] = Moved(h, s, h.str[s].chr, l)
  <1> DEFINE d == h.str[s]
  <1>1. h.str \in [Strings -> Descriptor] /\ d \in Descriptor
    BY HeapFields
  <1>2. [d EXCEPT !.chr = d.chr] = d
    BY <1>1 DEF Descriptor
  <1>3. [h.str EXCEPT ![s] = d] = h.str
    BY <1>1
  <1> QED BY <1>1, <1>2, <1>3 DEF Heap, Moved

LEMMA ShrunkIs ==
    ASSUME NEW h, Sound(h), NEW s \in Strings, NEW c \in Nat, NEW l \in Nat,
           h.str[s].chr <= c, c + l <= End(h, s)
    PROVE  SameUse(Moved(h, s, c, l), h)
  <1> DEFINE k == Moved(h, s, c, l)
  <1>1. h \in Heap /\ OrderSound(h) /\ ListSound(h, Hole) /\ TmpsSound(h, Hole)
    BY DEF Sound
  <1>2. /\ k \in Heap /\ k.list = h.list /\ k.lasti = h.lasti /\ k.tmps = h.tmps
        /\ k.sp = h.sp /\ k.size = h.size
        /\ \A t \in Strings \ {s} : k.str[t] = h.str[t]
        /\ k.str[s].live = h.str[s].live /\ k.str[s].heap = h.str[s].heap
        /\ k.str[s].tmp = h.str[s].tmp /\ k.str[s].chr = c /\ k.str[s].len = l
        /\ k.str[s].listi = h.str[s].listi /\ k.str[s].tmplisti = h.str[s].tmplisti
    BY <1>1, ExtentHeap DEF IsMoved
  <1> HIDE DEF k
  <1>3. ListAlike(k, h) /\ TmpsAlike(k, h)
    BY <1>2 DEF ListAlike, TmpsAlike
  <1>4. ListSound(k, Hole) /\ TmpsSound(k, Hole)
    BY <1>1, <1>2, <1>3, ListAlikeSound, TmpsAlikeSound
  <1>5. /\ \A t \in Strings : h.str[t].chr \in Nat /\ End(h, t) \in Nat
        /\ \A i \in 1 .. Len(k.list) : k.list[i] # Hole => k.list[i] \in Strings
        /\ Len(k.list) \in Nat /\ h.sp \in Int
    <2>1. /\ \A t \in Strings : h.str[t].chr \in Nat /\ End(h, t) \in Nat
          /\ h.sp \in Nat
      BY <1>1, HeapFields
    <2>2. /\ \A i \in 1 .. Len(h.list) : h.list[i] # Hole => h.list[i] \in Strings
          /\ Len(h.list) \in Nat
      BY <1>1, HeapFields
    <2>3. k.list = h.list
      BY <1>2
    <2> QED BY <2>1, <2>2, <2>3
  <1>6. \A i \in 1 .. Len(k.list) : k.list[i] # Hole =>
           /\ k.list[i] = h.list[i]
           /\ h.str[k.list[i]].chr <= k.str[k.list[i]].chr
           /\ End(k, k.list[i]) <= End(h, k.list[i])
    <2> TAKE i \in 1 .. Len(k.list)
    <2> HAVE k.list[i] # Hole
    <2>1. CASE k.list[i] = s
      <3>1. End(k, s) = c + l
        BY <1>2 DEF End
      <3> QED BY <1>2, <2>1, <3>1
    <2>2. CASE k.list[i] # s
      <3>1. k.list[i] \in Strings \ {s}
        BY <1>5, <2>2
      <3>2. k.str[k.list[i]] = h.str[k.list[i]]
        BY <1>2, <3>1
      <3>3. End(k, k.list[i]) = End(h, k.list[i])
        BY <3>2 DEF End
      <3>4. h.str[k.list[i]].chr \in Nat /\ End(h, k.list[i]) \in Nat
        BY <1>5, <3>1
      <3> QED BY <1>2, <3>2, <3>3, <3>4
    <2> QED BY <2>1, <2>2
  <1>7. InOrder(k) /\ \A e \in Int : Below(h, e) => Below(k, e)
    <2>1. /\ k \in Heap /\ h \in Heap /\ InOrder(h)
          /\ Len(k.list) <= Len(h.list)
      BY <1>1, <1>2, <1>5 DEF OrderSound
    <2> QED BY <1>6, <2>1, ThinOrder
  <1>8. Sound(k)
    BY <1>1, <1>2, <1>4, <1>5, <1>7 DEF OrderSound, Sound
  <1> QED BY <1>3, <1>8 DEF SameUse, TmpsAlike, k

LEMMA ReallocIs ==
    ASSUME NEW h, Sound(h), NEW d \in Strings, h.str[d].live, h.str[d].heap, NEW len \in Nat
    PROVE  SameUse(Realloc(h, d, len), h)
  <1> DEFINE list == Without(h.list, h.str[d].listi)
             u == [h EXCEPT !.list = list]
             g == Room(u, len, len)
             e == Enlist(g, d)
             k == Realloc(h, d, len)
  <1>1. h \in Heap /\ OrderSound(h) /\ ListSound(h, Hole) /\ TmpsSound(h, Hole)
    BY DEF Sound
  <1>2. /\ h.list \in Seq(Entry) /\ DOMAIN h.list = 1 .. Len(h.list) /\ Len(h.list) \in Nat
        /\ d \in Entry /\ d # Hole /\ h.lasti \in Nat
        /\ \A i \in 1 .. Len(h.list) : h.list[i] # Hole => h.list[i] \in Strings
        /\ \A t \in Strings : h.str[t].chr \in Nat /\ End(h, t) \in Nat
    BY <1>1, HeapFields, QbsAssumption DEF Entry
  <1>3. k = [e EXCEPT !.str[d].chr = g.sp, !.str[d].len = len, !.sp = @ + len]
    BY DEF Realloc, Room
  <1> HIDE DEF g, e, k
  <1>4. \A j \in 1 .. Len(h.list) : h.list[j] = d <=> j = h.str[d].listi
    BY <1>1, <1>2 DEF ListSound, Listed
  <1>5. /\ list \in Seq(Entry) /\ Len(list) = Len(h.list)
        /\ \A j \in 1 .. Len(h.list) : list[j] = IF h.list[j] = d THEN Hole ELSE h.list[j]
    BY <1>2, <1>4, WithoutIs
  <1> HIDE DEF list
  <1>6. /\ u \in Heap /\ u.list = list /\ u.lasti = h.lasti /\ u.tmps = h.tmps
        /\ u.sp = h.sp /\ u.size = h.size /\ u.str = h.str
    BY <1>1, <1>5 DEF Heap
  <1> HIDE DEF u
  <1>7. ListSound(u, d)
    <2>1. Thin(u.list, h.list, d)
      BY <1>2, <1>5, <1>6 DEF Thin
    <2> QED BY <1>1, <1>2, <1>6, <2>1, ThinList
  <1>8. TmpsSound(u, Hole)
    <2>1. TmpsAlike(u, h)
      BY <1>6 DEF TmpsAlike
    <2> QED BY <1>1, <1>6, <2>1, TmpsAlikeSound
  <1>9. OrderSound(u)
    <2>1. \A i \in 1 .. Len(u.list) : u.list[i] # Hole =>
             /\ u.list[i] = h.list[i]
             /\ h.str[u.list[i]].chr <= u.str[u.list[i]].chr
             /\ End(u, u.list[i]) <= End(h, u.list[i])
      BY <1>2, <1>5, <1>6 DEF End
    <2>2. InOrder(u) /\ \A x \in Int : Below(h, x) => Below(u, x)
      BY <1>1, <1>2, <1>5, <1>6, <2>1, ThinOrder DEF OrderSound
    <2>3. h.sp \in Int
      BY <1>1, HeapFields
    <2> QED BY <1>1, <1>6, <2>2, <2>3 DEF OrderSound
  <1>10. /\ g \in Heap /\ OrderSound(g) /\ ListAlike(g, u) /\ TmpsAlike(g, u)
         /\ ListSound(g, d) /\ g.sp + len <= g.size
    BY <1>6, <1>7, <1>9, RoomIs DEF g
  <1>11. /\ Roomy(g) \in Heap /\ Roomy(g).sp = g.sp /\ Roomy(g).size = g.size
         /\ g.sp \in Nat /\ g.size \in Nat
    BY <1>10, RoomyIs, HeapFields
  <1>12. /\ e \in Heap /\ e.sp = g.sp /\ e.size = g.size
    BY <1>10, <1>11, EnlistAs DEF e
  <1> DEFINE c == g.sp
             b == Moved(e, d, c, len)
  <1>13. k = [b EXCEPT !.sp = c + len]
    BY <1>3, <1>12 DEF Heap, Moved
  <1>14. c \in Nat /\ c + len \in Nat
    BY <1>11
  <1> HIDE DEF c
  <1>15. /\ b \in Heap /\ b.list = e.list /\ b.lasti = e.lasti /\ b.tmps = e.tmps
         /\ b.size = e.size
         /\ \A t \in Strings \ {d} : b.str[t] = e.str[t]
         /\ b.str[d].live = e.str[d].live /\ b.str[d].heap = e.str[d].heap
         /\ b.str[d].tmp = e.str[d].tmp /\ b.str[d].chr = c /\ b.str[d].len = len
         /\ b.str[d].listi = e.str[d].listi /\ b.str[d].tmplisti = e.str[d].tmplisti
    <2>1. IsMoved(b, e, d, c, len)
      BY <1>12, <1>14, ExtentHeap
    <2> QED BY <2>1 DEF IsMoved
  <1> HIDE DEF b
  <1>16. /\ k \in Heap /\ k.list = e.list /\ k.lasti = e.lasti /\ k.tmps = e.tmps
         /\ k.size = e.size /\ k.sp = c + len /\ k.str = b.str
    BY <1>13, <1>14, <1>15 DEF Heap
  <1>17. /\ OrderSound(k) /\ ListSound(k, Hole) /\ TmpsAlike(k, g)
    <2>1. End(k, d) <= k.sp /\ k.sp <= k.size
      BY <1>10, <1>12, <1>14, <1>15, <1>16 DEF End, c
    <2>2. Below(g, k.str[d].chr)
      BY <1>10, <1>15, <1>16 DEF OrderSound, c
    <2>3. g.str[d].live /\ g.str[d].heap
      BY <1>6, <1>10 DEF ListAlike
    <2> QED BY <1>10, <1>15, <1>16, <2>1, <2>2, <2>3, EnlistIs DEF e
  <1>18. TmpsAlike(k, u)
    BY <1>10, <1>17 DEF TmpsAlike
  <1>19. TmpsSound(k, Hole)
    BY <1>6, <1>8, <1>16, <1>18, TmpsAlikeSound
  <1>20. \A t \in Strings : k.str[t].live = h.str[t].live /\ k.str[t].tmp = h.str[t].tmp
    BY <1>6, <1>18 DEF TmpsAlike
  <1> QED BY <1>16, <1>17, <1>19, <1>20 DEF SameUse, Sound, k

LEMMA TakenOverIs ==
    ASSUME NEW h \in Heap, TmpsSound(h, Hole), NEW s \in Strings, h.str[s].live, h.str[s].tmp
    PROVE  LET tmps == TakenOver(h.tmps, h.str[s].tmplisti)
           IN  tmps \in Seq(Entry) /\ Thin(tmps, h.tmps, s)
  <1> DEFINE i == h.str[s].tmplisti
             n == Len(h.tmps)
             tmps == TakenOver(h.tmps, i)
  <1>1. /\ h.tmps \in Seq(Entry) /\ n \in Nat /\ DOMAIN h.tmps = 1 .. n /\ s # Hole
    BY HeapFields, QbsAssumption
  <1>2. i \in 1 .. n /\ \A j \in 1 .. n : h.tmps[j] = s <=> j = i
    BY <1>1 DEF TmpsSound
  <1> HIDE DEF i
  <1>3. CASE i = n
    <2>1. n > 0
      BY <1>1, <1>2
    <2>2. /\ Front(h.tmps) \in Seq(Entry) /\ Len(Front(h.tmps)) = n - 1
          /\ \A j \in 1 .. n - 1 : Front(h.tmps)[j] = h.tmps[j]
      BY <1>1, <2>1, FrontIs
    <2>3. tmps = Front(h.tmps)
      BY <1>3 DEF TakenOver
    <2> HIDE DEF tmps, n
    <2>4. \A j \in 1 .. n - 1 : h.tmps[j] # s
      BY <1>1, <1>2, <1>3
    <2>5. Thin(tmps, h.tmps, s)
      <3>1. Len(tmps) <= n
        BY <1>1, <2>2, <2>3
      <3>2. \A j \in 1 .. Len(tmps) : tmps[j] = IF h.tmps[j] = s THEN Hole ELSE h.tmps[j]
        BY <2>2, <2>3, <2>4
      <3>3. \A j \in 1 .. n : h.tmps[j] # Hole /\ h.tmps[j] # s => j <= Len(tmps)
        BY <1>1, <1>2, <1>3, <2>2, <2>3
      <3> QED BY <3>1, <3>2, <3>3 DEF Thin, n
    <2> QED BY <2>2, <2>3, <2>5 DEF tmps, i
  <1>4. CASE i # n
    <2>1. tmps = Without(h.tmps, i)
      BY <1>4 DEF TakenOver
    <2>2. /\ tmps \in Seq(Entry) /\ Len(tmps) = n
          /\ \A j \in 1 .. n : tmps[j] = IF j = i THEN Hole ELSE h.tmps[j]
      BY <1>1, <2>1, WithoutIs
    <2> HIDE DEF tmps
    <2>3. \A j \in 1 .. n : tmps[j] = IF h.tmps[j] = s THEN Hole ELSE h.tmps[j]
      BY <1>2, <2>2
    <2>4. Thin(tmps, h.tmps, s)
      BY <1>1, <2>2, <2>3 DEF Thin
    <2> QED BY <2>2, <2>4 DEF tmps, i
  <1> QED BY <1>3, <1>4

\* The variable takes the place of the temporary.
LEMMA AcquireIs ==
    ASSUME NEW h, Sound(h), NEW d \in Strings, NEW s \in Strings,
           h.str[d].live, h.str[d].heap, ~h.str[d].tmp,
           h.str[s].live, h.str[s].heap, h.str[s].tmp
    PROVE  Sound(Acquire(h, d, s))
  <1> DEFINE n == Len(h.list)
             di == h.str[d].listi
             si == h.str[s].listi
             list == [Without(h.list, di) EXCEPT ![si] = d]
             tmps == TakenOver(h.tmps, h.str[s].tmplisti)
             e == [h.str[d] EXCEPT !.listi = si, !.chr = h.str[s].chr, !.len = h.str[s].len]
             a == [h EXCEPT !.str[d] = e]
             b == [a EXCEPT !.str[s] = NoString]
             k == Acquire(h, d, s)
  <1>1. h \in Heap /\ OrderSound(h) /\ ListSound(h, Hole) /\ TmpsSound(h, Hole)
    BY DEF Sound
  <1>2. /\ h.list \in Seq(Entry) /\ n \in Nat /\ DOMAIN h.list = 1 .. n
        /\ h.tmps \in Seq(Entry) /\ DOMAIN h.tmps = 1 .. Len(h.tmps)
        /\ h.str \in [Strings -> Descriptor] /\ h.sp \in Int /\ Len(h.tmps) \in Nat
    BY <1>1, HeapFields
  <1>3. /\ d # s /\ d # Hole /\ s # Hole /\ d \in Entry /\ s \in Entry
    BY QbsAssumption DEF Entry
  <1>4. /\ \A j \in 1 .. n : h.list[j] = d <=> j = di
        /\ \A j \in 1 .. n : h.list[j] = s <=> j = si
        /\ di \in 1 .. n /\ si \in 1 .. n /\ di # si
    BY <1>1, <1>2, <1>3 DEF ListSound, Listed
  <1>5. k = [h EXCEPT !.list = list, !.tmps = tmps, !.str[d].listi = si,
                      !.str[d].chr = h.str[s].chr, !.str[d].len = h.str[s].len,
                      !.str[s] = NoString]
    BY DEF Acquire
  <1> HIDE DEF k
  <1>6. /\ list \in Seq(Entry) /\ Len(list) = n /\ DOMAIN list = 1 .. n
        /\ \A j \in 1 .. n : list[j] = IF j = si THEN d ELSE IF j = di THEN Hole ELSE h.list[j]
    <2> DEFINE w == Without(h.list, di)
    <2>1. /\ w \in Seq(Entry) /\ Len(w) = n /\ DOMAIN w = 1 .. n
          /\ \A j \in 1 .. n : w[j] = IF j = di THEN Hole ELSE h.list[j]
      BY <1>2, WithoutIs
    <2> HIDE DEF w, n, di, si
    <2>2. list = [w EXCEPT ![si] = d]
      BY DEF w
    <2> HIDE DEF list
    <2> QED BY <1>2, <1>3, <1>4, <2>1, <2>2
  <1>7. tmps \in Seq(Entry) /\ Thin(tmps, h.tmps, s)
    BY <1>1, TakenOverIs
  <1>8. /\ e \in Descriptor /\ e.live /\ e.heap /\ e.chr = h.str[s].chr
        /\ e.live = h.str[d].live /\ e.tmp = h.str[d].tmp
        /\ e.len = h.str[s].len /\ e.listi = si /\ e.tmplisti = h.str[d].tmplisti
    <2> DEFINE x == h.str[d]
               y == h.str[s]
    <2>1. x \in Descriptor /\ y \in Descriptor /\ x.live /\ x.heap
      BY <1>2
    <2>2. y.listi \in Nat /\ y.chr \in Nat /\ y.len \in Nat
      BY <2>1 DEF Descriptor
    <2> HIDE DEF x, y
    <2> DEFINE z == [x EXCEPT !.listi = y.listi, !.chr = y.chr, !.len = y.len]
    <2>3. /\ z \in Descriptor /\ z.live /\ z.heap /\ z.chr = y.chr
          /\ z.live = x.live /\ z.tmp = x.tmp
          /\ z.len = y.len /\ z.listi = y.listi /\ z.tmplisti = x.tmplisti
      BY <2>1, <2>2 DEF Descriptor
    <2> QED BY <2>3 DEF x, y
  <1>9. NoString \in Descriptor /\ ~NoString.live
    BY NoStringIs
  <1>10. k = [b EXCEPT !.list = list, !.tmps = tmps]
    <2> DEFINE c == h.str[s].chr
               l == h.str[s].len
               f == h.str
               f1 == [f EXCEPT ![d].listi = si]
               f2 == [f1 EXCEPT ![d].chr = c]
               f3 == [f2 EXCEPT ![d].len = l]
    <2>1. f3 = [f EXCEPT ![d] = e]
      <3> DEFINE x == f[d]
                 x1 == [x EXCEPT !.listi = si]
                 x2 == [x1 EXCEPT !.chr = c]
                 x3 == [x2 EXCEPT !.len = l]
      <3>1. e = x3
        OBVIOUS
      <3> HIDE DEF e, c, l, si
      <3>2. DOMAIN f = Strings
        BY <1>2
      <3> HIDE DEF f
      <3>3. f1 = [f EXCEPT ![d] = x1] /\ DOMAIN f1 = Strings /\ f1[d] = x1
        BY <3>2
      <3>4. f2 = [f EXCEPT ![d] = x2] /\ DOMAIN f2 = Strings /\ f2[d] = x2
        <4> HIDE DEF x, x1
        <4>1. f2 = [f1 EXCEPT ![d] = x2]
          BY <3>3
        <4> HIDE DEF x2, f1, f2
        <4> QED BY <3>2, <3>3, <4>1
      <3>5. f3 = [f EXCEPT ![d] = x3]
        <4> HIDE DEF x, x1, x2, f1, f2
        <4>1. f3 = [f2 EXCEPT ![d] = x3]
          BY <3>4
        <4> HIDE DEF x3, f3
        <4> QED BY <3>2, <3>4, <4>1
      <3> HIDE DEF f3, x3
      <3> QED BY <3>1, <3>5
    <2>2. k = [h EXCEPT !.list = list, !.tmps = tmps, !.str = [f3 EXCEPT ![s] = NoString]]
      <3> DEFINE h1 == [h EXCEPT !.list = list, !.tmps = tmps]
                 h2 == [h1 EXCEPT !.str[d].listi = si]
                 h3 == [h2 EXCEPT !.str[d].chr = c]
                 h4 == [h3 EXCEPT !.str[d].len = l]
                 Fields == {"str", "list", "lasti", "tmps", "sp", "size"}
      <3>1. k = [h4 EXCEPT !.str[s] = NoString]
        BY <1>5
      <3> HIDE DEF list, tmps, si, e, c, l
      <3>2. h1.str = f /\ DOMAIN h1 = Fields
        BY <1>1 DEF Heap
      <3>3. h2 = [h1 EXCEPT !.str = f1] /\ h2.str = f1 /\ DOMAIN h2 = Fields
        <4> HIDE DEF h1, f
        <4> QED BY <3>2
      <3>4. h3 = [h1 EXCEPT !.str = f2] /\ h3.str = f2 /\ DOMAIN h3 = Fields
        <4> HIDE DEF h1, h2, f1
        <4>1. h3 = [h2 EXCEPT !.str = f2] /\ h3.str = f2 /\ DOMAIN h3 = Fields
          BY <3>3
        <4> QED BY <3>2, <3>3, <4>1
      <3>5. h4 = [h1 EXCEPT !.str = f3] /\ h4.str = f3 /\ DOMAIN h4 = Fields
        <4> HIDE DEF h1, h3, f2
        <4>1. h4 = [h3 EXCEPT !.str = f3] /\ h4.str = f3 /\ DOMAIN h4 = Fields
          BY <3>4
        <4> QED BY <3>2, <3>4, <4>1
      <3>6. k = [h1 EXCEPT !.str = [f3 EXCEPT ![s] = NoString]]
        <4> HIDE DEF h1, h4, f3
        <4>1. k = [h4 EXCEPT !.str = [f3 EXCEPT ![s] = NoString]]
          BY <3>1, <3>5
        <4> QED BY <3>2, <3>5, <4>1
      <3> HIDE DEF f3
      <3> QED BY <3>6
    <2> HIDE DEF list, tmps, f3, e
    <2> QED BY <1>1, <2>1, <2>2 DEF Heap
  <1> HIDE DEF e, list, tmps
  <1>11. /\ a \in Heap /\ a.list = h.list /\ a.lasti = h.lasti /\ a.tmps = h.tmps
         /\ a.sp = h.sp /\ a.size = h.size
         /\ a.str[d] = e /\ \A t \in Strings \ {d} : a.str[t] = h.str[t]
    BY <1>1, <1>8, ExceptHeap
  <1> HIDE DEF a
  <1>12. /\ b \in Heap /\ b.list = h.list /\ b.lasti = h.lasti /\ b.tmps = h.tmps
         /\ b.sp = h.sp /\ b.size = h.size
         /\ b.str[s] = NoString /\ \A t \in Strings \ {s} : b.str[t] = a.str[t]
    BY <1>9, <1>11, ExceptHeap
  <1> HIDE DEF b
  <1>13. /\ k \in Heap /\ k.list = list /\ k.lasti = h.lasti /\ k.tmps = tmps
         /\ k.sp = h.sp /\ k.size = h.size
         /\ k.str[s] = NoString /\ k.str[d] = e
         /\ \A t \in Strings \ {s, d} : k.str[t] = h.str[t]
    BY <1>3, <1>6, <1>7, <1>10, <1>11, <1>12 DEF Heap
  <1>14. TmpsSound(k, Hole)
    <2>1. \A t \in Strings \ {s} : /\ k.str[t].live = h.str[t].live /\ k.str[t].tmp = h.str[t].tmp
                                   /\ k.str[t].tmplisti = h.str[t].tmplisti
      <3> TAKE t \in Strings \ {s}
      <3>1. CASE t = d
        BY <1>8, <1>13, <3>1
      <3>2. CASE t # d
        BY <1>13, <3>2
      <3> QED BY <3>1, <3>2
    <2>2. TmpsSound(k, s)
      BY <1>1, <1>3, <1>7, <1>13, <2>1, ThinTmps
    <2> QED BY <1>9, <1>13, <2>2, GoneIs
  <1> HIDE DEF n, di, si
  <1>15. /\ \A t \in Strings : h.str[t].live /\ h.str[t].heap <=> Listed(h, t)
         /\ \A i \in 1 .. n : h.list[i] # Hole => h.str[h.list[i]].listi = i
         /\ \A i \in 1 .. n : h.list[i] # Hole => h.list[i] \in Strings
         /\ n <= h.lasti + 1 /\ h.lasti >= 1
    <2>1. \A t \in Strings : t \in Strings \ {Hole}
      BY QbsAssumption
    <2> QED BY <1>1, <1>2, <2>1, HeapFields DEF ListSound, n
  <1>16. \A i \in 1 .. n : i # si /\ i # di /\ h.list[i] # Hole =>
            /\ h.list[i] \in Strings \ {s, d} /\ k.str[h.list[i]] = h.str[h.list[i]]
    BY <1>4, <1>13, <1>15
  <1>17. \A i \in 1 .. n : list[i] # Hole => k.str[list[i]].listi = i
    <2> TAKE i \in 1 .. n
    <2>1. CASE i = si
      BY <1>6, <1>8, <1>13, <2>1
    <2>2. CASE i # si
      BY <1>6, <1>15, <1>16, <2>2
    <2> QED BY <2>1, <2>2
  <1>18. \A t \in Strings : k.str[t].live /\ k.str[t].heap <=> Listed(k, t)
    <2> TAKE t \in Strings
    <2>1. CASE t = s
      <3>1. \A i \in 1 .. n : list[i] # s
        BY <1>3, <1>4, <1>6
      <3> QED BY <1>6, <1>9, <1>13, <2>1, <3>1 DEF Listed
    <2>2. CASE t = d
      BY <1>4, <1>6, <1>8, <1>13, <2>2 DEF Listed
    <2>3. CASE t # s /\ t # d
      <3>1. t \in Strings \ {s, d} /\ t # Hole
        BY <2>3, QbsAssumption
      <3>2. k.str[t] = h.str[t]
        BY <1>13, <3>1
      <3>3. \A i \in 1 .. n : list[i] = t <=> h.list[i] = t
        BY <1>4, <1>6, <2>3, <3>1
      <3>4. Listed(k, t) <=> Listed(h, t)
        BY <1>2, <1>6, <1>13, <3>2, <3>3 DEF Listed, n
      <3> QED BY <1>15, <3>2, <3>4
    <2> QED BY <2>1, <2>2, <2>3
  <1>19. ListSound(k, Hole)
    <2>1. Len(k.list) <= k.lasti + 1 /\ k.lasti >= 1
      BY <1>6, <1>13, <1>15
    <2> QED BY <1>6, <1>13, <1>17, <1>18, <2>1 DEF ListSound
  <1>20. \A i \in 1 .. n : list[i] # Hole =>
            /\ h.list[i] # Hole
            /\ h.str[h.list[i]].chr <= k.str[list[i]].chr
            /\ End(k, list[i]) <= End(h, h.list[i])
    <2>1. \A t \in Strings : h.str[t].chr \in Nat /\ End(h, t) \in Nat
      BY <1>1, HeapFields
    <2> TAKE i \in 1 .. n
    <2> HAVE list[i] # Hole
    <2>2. CASE i = si
      <3>1. list[i] = d /\ h.list[i] = s
        BY <1>4, <1>6, <2>2
      <3>2. End(k, d) = End(h, s) /\ k.str[d].chr = h.str[s].chr
        BY <1>8, <1>13 DEF End
      <3> QED BY <1>3, <2>1, <3>1, <3>2
    <2>3. CASE i # si
      <3>1. i # di /\ list[i] = h.list[i] /\ h.list[i] # Hole
        BY <1>6, <2>3
      <3>2. h.list[i] \in Strings /\ k.str[h.list[i]] = h.str[h.list[i]]
        BY <1>16, <2>3, <3>1
      <3>3. End(k, h.list[i]) = End(h, h.list[i])
        BY <3>2 DEF End
      <3> QED BY <2>1, <3>1, <3>2, <3>3
    <2> QED BY <2>2, <2>3
  <1>21. InOrder(k) /\ \A x \in Int : Below(h, x) => Below(k, x)
    <2>1. Len(k.list) = n /\ Len(h.list) = n
      BY <1>6, <1>13 DEF n
    <2>2. \A i \in 1 .. Len(k.list) : k.list[i] # Hole =>
            /\ h.list[i] # Hole
            /\ h.str[h.list[i]].chr <= k.str[k.list[i]].chr
            /\ End(k, k.list[i]) <= End(h, h.list[i])
      BY <1>13, <1>20, <2>1
    <2>3. Len(k.list) <= Len(h.list) /\ InOrder(h)
      BY <1>1, <1>2, <2>1 DEF OrderSound, n
    <2> QED BY <1>1, <1>13, <2>2, <2>3, OrderFrom
  <1>22. OrderSound(k)
    BY <1>1, <1>2, <1>13, <1>21 DEF OrderSound
  <1> QED BY <1>13, <1>14, <1>19, <1>22 DEF Sound, k

\* A temporary that is assigned is not listed if it lies elsewhere.
LEMMA RoomAfterIs ==
    ASSUME NEW h, Sound(h), NEW d \in Strings, NEW s \in Strings, ~(h.str[s].tmp /\ h.str[s].heap)
    PROVE  RoomAfter(h, d, s) = {i \in h.str[d].listi + 1 .. Len(h.list) : h.list[i] # Hole}
  <1>1. /\ ListSound(h, Hole) /\ h \in Heap /\ s # Hole /\ DOMAIN h.list = 1 .. Len(h.list)
        /\ h.str[d].listi \in Nat /\ Len(h.list) \in Nat
    BY HeapFields, QbsAssumption DEF Sound
  <1>2. \A i \in 1 .. Len(h.list) : h.list[i] = s => ~h.str[s].tmp
    BY <1>1 DEF ListSound, Listed
  <1> QED BY <1>1, <1>2 DEF RoomAfter

\* The strings stay in order when d grows up to the next.
LEMMA GrownOrder ==
    ASSUME NEW h \in Heap, NEW k \in Heap, InOrder(h), k.list = h.list, NEW d \in Strings,
           NEW di \in 1 .. Len(h.list), \A j \in 1 .. Len(h.list) : h.list[j] = d <=> j = di,
           \A t \in Strings \ {d} : k.str[t] = h.str[t], k.str[d].chr = h.str[d].chr,
           \A j \in di + 1 .. Len(h.list) : h.list[j] # Hole => End(k, d) <= h.str[h.list[j]].chr
    PROVE  InOrder(k)
  <1> DEFINE n == Len(h.list)
  <1>1. /\ n \in Nat /\ DOMAIN h.list = 1 .. n
        /\ \A i \in 1 .. n : h.list[i] # Hole => h.list[i] \in Strings
    BY HeapFields
  <1>2. di \in 1 .. n /\ \A j \in 1 .. n : h.list[j] = d <=> j = di
    OBVIOUS
  <1>3. \A j \in di + 1 .. n : h.list[j] # Hole => End(k, d) <= h.str[h.list[j]].chr
    OBVIOUS
  <1> HIDE DEF n
  <1>4. \A i \in 1 .. n : h.list[i] # Hole => k.str[h.list[i]].chr = h.str[h.list[i]].chr
    BY <1>1
  <1>5. \A i \in 1 .. n : h.list[i] # Hole /\ i # di => End(k, h.list[i]) = End(h, h.list[i])
    BY <1>1, <1>2 DEF End
  <1> SUFFICES ASSUME NEW i \in 1 .. n, NEW j \in 1 .. n, i < j,
                      h.list[i] # Hole, h.list[j] # Hole
               PROVE  End(k, h.list[i]) <= h.str[h.list[j]].chr
    BY <1>1, <1>4 DEF InOrder
  <1>6. CASE i = di
    <2>1. j \in di + 1 .. n
      BY <1>1, <1>6
    <2> QED BY <1>2, <1>3, <1>6, <2>1
  <1>7. CASE i # di
    BY <1>1, <1>5, <1>7 DEF InOrder
  <1> QED BY <1>6, <1>7

\* What is kept of the list when d is the last of it.
LEMMA LastIs ==
    ASSUME NEW h, Sound(h), NEW d \in Strings, Listed(h, d),
           \A j \in h.str[d].listi + 1 .. Len(h.list) : h.list[j] = Hole
    PROVE  LET k == [h EXCEPT !.list = SubSeq(@, 1, h.str[d].listi)]
           IN  /\ Sound(k) /\ k.str = h.str /\ k.lasti = h.lasti /\ k.tmps = h.tmps
               /\ k.sp = h.sp /\ k.size = h.size /\ Len(k.list) = h.str[d].listi
               /\ k.list = SubSeq(h.list, 1, h.str[d].listi)
  <1> DEFINE di == h.str[d].listi
             n == Len(h.list)
             list == SubSeq(h.list, 1, di)
             k == [h EXCEPT !.list = list]
  <1>1. h \in Heap /\ OrderSound(h) /\ ListSound(h, Hole) /\ TmpsSound(h, Hole)
    BY DEF Sound
  <1>2. /\ h.list \in Seq(Entry) /\ n \in Nat /\ DOMAIN h.list = 1 .. n
        /\ h.sp \in Int /\ h.lasti \in Nat /\ d # Hole
        /\ \A i \in 1 .. n : h.list[i] # Hole => h.list[i] \in Strings
        /\ \A t \in Strings : h.str[t].chr \in Nat /\ End(h, t) \in Nat
    BY <1>1, HeapFields, QbsAssumption
  <1>3. di \in 1 .. n /\ h.list[di] = d
    BY <1>2 DEF Listed
  <1>4. \A j \in di + 1 .. n : h.list[j] = Hole
    OBVIOUS
  <1> HIDE DEF di, n
  <1>5. /\ list \in Seq(Entry) /\ Len(list) = di /\ \A i \in 1 .. di : list[i] = h.list[i]
    <2>1. \A i \in 1 .. di : h.list[i] \in Entry
      BY <1>2, <1>3, ElementOfSeq DEF n
    <2>2. di \in Int /\ 1 \in Int /\ 1 <= di /\ di \in Nat
      BY <1>2, <1>3
    <2>3. /\ SubSeq(h.list, 1, di) \in Seq(Entry)
          /\ Len(SubSeq(h.list, 1, di)) = IF 1 <= di THEN di - 1 + 1 ELSE 0
          /\ \A i \in 1 .. di - 1 + 1 : SubSeq(h.list, 1, di)[i] = h.list[1 + i - 1]
      BY <2>1, <2>2, SubSeqProperties
    <2> QED BY <2>2, <2>3
  <1> HIDE DEF list
  <1>6. /\ k \in Heap /\ k.list = list /\ k.str = h.str /\ k.lasti = h.lasti /\ k.tmps = h.tmps
        /\ k.sp = h.sp /\ k.size = h.size
    BY <1>1, <1>5 DEF Heap
  <1> HIDE DEF k
  <1>7. ListSound(k, Hole)
    <2>1. Thin(k.list, h.list, Hole)
      <3>1. Len(k.list) = di /\ di <= n /\ di \in 1 .. n
        BY <1>2, <1>3, <1>5, <1>6
      <3>2. \A i \in 1 .. di : k.list[i] = IF h.list[i] = Hole THEN Hole ELSE h.list[i]
        BY <1>5, <1>6
      <3>3. \A i \in 1 .. n : h.list[i] # Hole => i <= di
        BY <1>2, <1>3, <1>4
      <3> QED BY <3>1, <3>2, <3>3 DEF Thin, n
    <2>2. Hole \in Entry
      BY DEF Entry
    <2> QED BY <1>1, <1>6, <2>1, <2>2, ThinList
  <1>8. TmpsSound(k, Hole)
    <2>1. TmpsAlike(k, h)
      BY <1>6 DEF TmpsAlike
    <2> QED BY <1>1, <1>6, <2>1, TmpsAlikeSound
  <1>9. OrderSound(k)
    <2>1. \A i \in 1 .. Len(k.list) : k.list[i] # Hole =>
             /\ k.list[i] = h.list[i]
             /\ h.str[k.list[i]].chr <= k.str[k.list[i]].chr
             /\ End(k, k.list[i]) <= End(h, k.list[i])
      <3> TAKE i \in 1 .. Len(k.list)
      <3> HAVE k.list[i] # Hole
      <3>1. k.list[i] = h.list[i] /\ i \in 1 .. n
        BY <1>2, <1>3, <1>5, <1>6
      <3>2. k.list[i] \in Strings /\ End(k, k.list[i]) = End(h, k.list[i])
        BY <1>2, <1>6, <3>1 DEF End
      <3> QED BY <1>2, <1>6, <3>1, <3>2
    <2>2. Len(k.list) <= Len(h.list) /\ InOrder(h)
      BY <1>1, <1>2, <1>3, <1>5, <1>6 DEF OrderSound, n
    <2>3. InOrder(k) /\ \A x \in Int : Below(h, x) => Below(k, x)
      BY <1>1, <1>6, <2>1, <2>2, ThinOrder
    <2> QED BY <1>1, <1>2, <1>6, <2>3 DEF OrderSound
  <1> QED BY <1>5, <1>6, <1>7, <1>8, <1>9 DEF Sound, k, di, list

\* A change of extents and of qbs_sp leaves the lists sound.
LEMMA SameLists ==
    ASSUME NEW h, Sound(h), NEW k \in Heap, NEW d \in Strings, k.list = h.list, k.lasti = h.lasti,
           k.tmps = h.tmps, \A t \in Strings \ {d} : k.str[t] = h.str[t],
           k.str[d].live = h.str[d].live, k.str[d].heap = h.str[d].heap,
           k.str[d].tmp = h.str[d].tmp, k.str[d].listi = h.str[d].listi,
           k.str[d].tmplisti = h.str[d].tmplisti
    PROVE  /\ ListSound(k, Hole) /\ TmpsSound(k, Hole)
           /\ \A t \in Strings : k.str[t].live = h.str[t].live /\ k.str[t].tmp = h.str[t].tmp
  <1>1. h \in Heap /\ ListSound(h, Hole) /\ TmpsSound(h, Hole)
    BY DEF Sound
  <1>2. ListAlike(k, h) /\ TmpsAlike(k, h)
    <2>1. \A t \in Strings : /\ k.str[t].live = h.str[t].live /\ k.str[t].heap = h.str[t].heap
                             /\ k.str[t].tmp = h.str[t].tmp /\ k.str[t].listi = h.str[t].listi
                             /\ k.str[t].tmplisti = h.str[t].tmplisti
      OBVIOUS
    <2> QED BY <2>1 DEF ListAlike, TmpsAlike
  <1>3. ListSound(k, Hole) /\ TmpsSound(k, Hole)
    BY <1>1, <1>2, ListAlikeSound, TmpsAlikeSound
  <1> QED BY <1>2, <1>3 DEF TmpsAlike

\* d grows before the next string.
LEMMA GrowBefore ==
    ASSUME NEW h, Sound(h), NEW d \in Strings, h.str[d].live, h.str[d].heap, NEW len \in Nat,
           NEW m \in h.str[d].listi + 1 .. Len(h.list), h.list[m] # Hole,
           \A j \in h.str[d].listi + 1 .. Len(h.list) : h.list[j] # Hole => m <= j,
           FitsBefore(h, d, len, h.list[m])
    PROVE  SameUse([h EXCEPT !.str[d].len = len], h)
  <1> DEFINE k == [h EXCEPT !.str[d].len = len]
             c == h.str[d].chr
             di == h.str[d].listi
             n == Len(h.list)
  <1>1. h \in Heap /\ OrderSound(h) /\ ListSound(h, Hole) /\ TmpsSound(h, Hole)
    BY DEF Sound
  <1>2. /\ n \in Nat /\ DOMAIN h.list = 1 .. n /\ h.sp \in Nat /\ c \in Nat
        /\ d # Hole
        /\ \A i \in 1 .. n : h.list[i] # Hole => h.list[i] \in Strings
        /\ \A t \in Strings : /\ h.str[t].chr \in Nat /\ h.str[t].len \in Nat
                             /\ End(h, t) = h.str[t].chr + h.str[t].len
                             /\ h.str[t].chr <= End(h, t) /\ End(h, t) \in Nat
    <2>1. \A t \in Strings : /\ h.str[t].chr \in Nat /\ h.str[t].len \in Nat
                             /\ End(h, t) = h.str[t].chr + h.str[t].len
      BY <1>1, HeapFields
    <2>2. \A t \in Strings : h.str[t].chr <= End(h, t) /\ End(h, t) \in Nat
      BY <2>1
    <2> QED BY <1>1, <2>1, <2>2, HeapFields, QbsAssumption
  <1>3. k = Moved(h, d, c, len)
    BY <1>1, LengthHeap
  <1> HIDE DEF k, c
  <1>4. /\ k \in Heap /\ k.list = h.list /\ k.lasti = h.lasti /\ k.tmps = h.tmps
        /\ k.sp = h.sp /\ k.size = h.size
        /\ \A t \in Strings \ {d} : k.str[t] = h.str[t]
        /\ k.str[d].live = h.str[d].live /\ k.str[d].heap = h.str[d].heap
        /\ k.str[d].tmp = h.str[d].tmp /\ k.str[d].chr = c /\ k.str[d].len = len
        /\ k.str[d].listi = h.str[d].listi /\ k.str[d].tmplisti = h.str[d].tmplisti
    <2>1. h \in Heap /\ c \in Nat
      BY <1>1, <1>2
    <2>2. IsMoved(k, h, d, c, len)
      BY <1>3, <2>1, ExtentHeap
    <2> QED BY <2>2 DEF IsMoved
  <1>5. di \in 1 .. n /\ \A j \in 1 .. n : h.list[j] = d <=> j = di
    BY <1>1, <1>2 DEF ListSound, Listed
  <1>6. End(k, d) = c + len
    BY <1>4 DEF End
  <1>7. /\ m \in 1 .. n /\ h.list[m] \in Strings /\ c + len <= h.str[h.list[m]].chr
        /\ m \in di + 1 .. n /\ \A j \in di + 1 .. n : h.list[j] # Hole => m <= j
    <2>1. m \in 1 .. n
      BY <1>2, <1>5
    <2>2. c + len <= h.str[h.list[m]].chr
      BY DEF FitsBefore, c
    <2> QED BY <1>2, <2>1, <2>2
  <1> HIDE DEF di, n
  <1>8. \A j \in di + 1 .. n : h.list[j] # Hole => End(k, d) <= h.str[h.list[j]].chr
    <2> TAKE j \in di + 1 .. n
    <2> HAVE h.list[j] # Hole
    <2>1. j \in 1 .. n /\ h.list[j] \in Strings
      BY <1>2, <1>5
    <2>2. CASE j = m
      BY <1>6, <1>7, <2>2
    <2>3. CASE m < j
      <3>1. End(h, h.list[m]) <= h.str[h.list[j]].chr
        BY <1>1, <1>2, <1>7, <2>1, <2>3 DEF OrderSound, InOrder
      <3>2. /\ h.str[h.list[m]].chr \in Nat /\ End(h, h.list[m]) \in Nat
            /\ h.str[h.list[m]].chr <= End(h, h.list[m])
            /\ h.str[h.list[j]].chr \in Nat
        BY <1>2, <1>7, <2>1
      <3>3. End(k, d) <= h.str[h.list[m]].chr
        BY <1>6, <1>7
      <3>4. c + len \in Nat
        BY <1>2
      <3>5. End(k, d) \in Nat
        BY <1>6, <3>4
      <3> QED BY <3>1, <3>2, <3>3, <3>5
    <2>4. m <= j /\ m \in Int /\ j \in Int
      BY <1>2, <1>7, <2>1
    <2> QED BY <2>2, <2>3, <2>4
  <1>9. InOrder(k)
    <2>1. /\ di \in 1 .. Len(h.list) /\ \A j \in 1 .. Len(h.list) : h.list[j] = d <=> j = di
          /\ \A j \in di + 1 .. Len(h.list) : h.list[j] # Hole => End(k, d) <= h.str[h.list[j]].chr
      BY <1>5, <1>8 DEF n
    <2>2. k.str[d].chr = h.str[d].chr
      BY <1>4 DEF c
    <2> QED BY <1>1, <1>4, <2>1, <2>2, GrownOrder DEF OrderSound
  <1>10. Below(k, k.sp)
    <2> SUFFICES ASSUME NEW i \in 1 .. n, h.list[i] # Hole PROVE End(k, h.list[i]) <= h.sp
      BY <1>2, <1>4 DEF Below
    <2>1. \A j \in 1 .. n : h.list[j] # Hole => End(h, h.list[j]) <= h.sp
      BY <1>1, <1>2 DEF OrderSound, Below
    <2>2. CASE h.list[i] = d
      <3>1. End(h, h.list[m]) <= h.sp
        BY <1>7, <2>1
      <3>2. /\ h.str[h.list[m]].chr \in Nat /\ End(h, h.list[m]) \in Nat
            /\ h.str[h.list[m]].chr <= End(h, h.list[m])
        BY <1>2, <1>7
      <3>3. End(k, d) <= h.str[h.list[m]].chr
        BY <1>6, <1>7
      <3>4. c + len \in Nat
        BY <1>2
      <3>5. End(k, d) \in Nat /\ h.sp \in Nat
        BY <1>2, <1>6, <3>4
      <3>6. End(k, d) <= h.sp
        BY <3>1, <3>2, <3>3, <3>5
      <3> QED BY <2>2, <3>6
    <2>3. CASE h.list[i] # d
      <3>1. k.str[h.list[i]] = h.str[h.list[i]]
        BY <1>2, <1>4, <2>3
      <3> QED BY <2>1, <3>1 DEF End
    <2> QED BY <2>2, <2>3
  <1>11. OrderSound(k)
    BY <1>1, <1>4, <1>9, <1>10 DEF OrderSound
  <1>12. /\ ListSound(k, Hole) /\ TmpsSound(k, Hole)
         /\ \A t \in Strings : k.str[t].live = h.str[t].live /\ k.str[t].tmp = h.str[t].tmp
    BY <1>4, SameLists
  <1> QED BY <1>4, <1>11, <1>12 DEF SameUse, Sound, k

\* d grows as the last of the list.
AtTop(h, d, len) == [Moved(h, d, h.str[d].chr, len) EXCEPT !.sp = h.str[d].chr + len]

LEMMA GrowLast ==
    ASSUME NEW h, Sound(h), NEW d \in Strings, Listed(h, d), NEW len \in Nat,
           h.str[d].listi = Len(h.list), h.str[d].chr + len <= h.size
    PROVE  SameUse(AtTop(h, d, len), h)
  <1> DEFINE c == h.str[d].chr
             b == Moved(h, d, c, len)
             k == [b EXCEPT !.sp = c + len]
             n == Len(h.list)
  <1>1. h \in Heap /\ OrderSound(h) /\ ListSound(h, Hole) /\ TmpsSound(h, Hole)
    BY DEF Sound
  <1>2. /\ n \in Nat /\ DOMAIN h.list = 1 .. n /\ c \in Nat /\ d # Hole
        /\ \A i \in 1 .. n : h.list[i] # Hole => h.list[i] \in Strings
        /\ \A t \in Strings : h.str[t].chr \in Nat /\ End(h, t) \in Nat
    BY <1>1, HeapFields, QbsAssumption
  <1>3. n \in 1 .. n /\ \A j \in 1 .. n : h.list[j] = d <=> j = n
    BY <1>1, <1>2 DEF ListSound, Listed
  <1>4. c + len <= h.size /\ c + len \in Nat
    BY <1>2
  <1> HIDE DEF c, b, k
  <1>5. /\ b \in Heap /\ b.list = h.list /\ b.lasti = h.lasti /\ b.tmps = h.tmps
        /\ b.sp = h.sp /\ b.size = h.size
        /\ \A t \in Strings \ {d} : b.str[t] = h.str[t]
        /\ b.str[d].live = h.str[d].live /\ b.str[d].heap = h.str[d].heap
        /\ b.str[d].tmp = h.str[d].tmp /\ b.str[d].chr = c /\ b.str[d].len = len
        /\ b.str[d].listi = h.str[d].listi /\ b.str[d].tmplisti = h.str[d].tmplisti
    <2>1. h \in Heap /\ c \in Nat /\ b = Moved(h, d, c, len)
      BY <1>1, <1>2 DEF b
    <2>2. IsMoved(b, h, d, c, len)
      BY <2>1, ExtentHeap
    <2> QED BY <2>2 DEF IsMoved
  <1>6. /\ k \in Heap /\ k.list = h.list /\ k.lasti = h.lasti /\ k.tmps = h.tmps
        /\ k.sp = c + len /\ k.size = h.size /\ k.str = b.str
    BY <1>4, <1>5 DEF Heap, k
  <1>7. End(k, d) = c + len
    BY <1>5, <1>6 DEF End
  <1>8. InOrder(k)
    <2>1. /\ \A t \in Strings \ {d} : k.str[t] = h.str[t]
          /\ k.str[d].chr = h.str[d].chr
      BY <1>5, <1>6 DEF c
    <2>2. \A j \in n + 1 .. n : FALSE
      BY <1>2
    <2> QED BY <1>1, <1>3, <1>6, <2>1, <2>2, GrownOrder DEF OrderSound
  <1> HIDE DEF n
  <1>9. Below(k, k.sp)
    <2> SUFFICES ASSUME NEW i \in 1 .. n, h.list[i] # Hole PROVE End(k, h.list[i]) <= c + len
      BY <1>2, <1>6 DEF Below
    <2>1. CASE i = n
      <3>1. h.list[i] = d
        BY <1>3, <2>1
      <3> QED BY <1>4, <1>7, <3>1
    <2>2. CASE i # n
      <3>1. h.list[i] # d /\ h.list[i] \in Strings /\ i < n /\ h.list[n] = d
        BY <1>2, <1>3, <2>2
      <3>2. End(h, h.list[i]) <= h.str[h.list[n]].chr
        BY <1>1, <1>2, <1>3, <3>1 DEF OrderSound, InOrder
      <3>3. End(h, h.list[i]) <= c
        BY <3>1, <3>2 DEF c
      <3>4. End(k, h.list[i]) = End(h, h.list[i])
        BY <1>5, <1>6, <3>1 DEF End
      <3> QED BY <1>2, <3>1, <3>3, <3>4
    <2> QED BY <2>1, <2>2
  <1>10. OrderSound(k)
    BY <1>4, <1>6, <1>8, <1>9 DEF OrderSound
  <1>11. /\ ListSound(k, Hole) /\ TmpsSound(k, Hole)
         /\ \A t \in Strings : k.str[t].live = h.str[t].live /\ k.str[t].tmp = h.str[t].tmp
    BY <1>5, <1>6, SameLists
  <1> QED BY <1>6, <1>10, <1>11 DEF SameUse, AtTop, Sound, k, b, c

LEMMA GrowIs ==
    ASSUME NEW h, Sound(h), NEW d \in Strings, NEW s \in Strings, h.str[d].live, h.str[d].heap,
           ~(h.str[s].tmp /\ h.str[s].heap)
    PROVE  SameUse(GrowInPlace(h, d, s), h)
  <1> DEFINE len == h.str[s].len
             c == h.str[d].chr
             di == h.str[d].listi
             n == Len(h.list)
             after == RoomAfter(h, d, s)
             last == [h EXCEPT !.list = SubSeq(@, 1, di)]
             longer == [h EXCEPT !.str[d].len = len]
             top == [longer EXCEPT !.list = last.list, !.sp = c + len]
             k == GrowInPlace(h, d, s)
  <1>1. k = IF after # {}
            THEN IF FitsBefore(h, d, len, h.list[Min(after)]) THEN longer ELSE Realloc(h, d, len)
            ELSE IF c + len <= h.size THEN top ELSE Realloc(last, d, len)
    BY DEF GrowInPlace
  <1>2. h \in Heap /\ ListSound(h, Hole) /\ len \in Nat /\ c \in Nat /\ di \in Nat /\ n \in Nat
    BY HeapFields DEF Sound
  <1>3. after = {i \in di + 1 .. n : h.list[i] # Hole}
    BY RoomAfterIs
  <1>4. SameUse(Realloc(h, d, len), h)
    BY <1>2, ReallocIs
  <1>5. CASE after # {}
    <2> DEFINE m == Min(after)
    <2>1. after \subseteq 0 .. n
      BY <1>2, <1>3
    <2>2. m \in after /\ \A i \in after : m <= i
      <3> HIDE DEF after, n
      <3> QED BY <1>2, <1>5, <2>1, MinIs
    <2>3. m \in di + 1 .. n /\ h.list[m] # Hole /\ \A j \in di + 1 .. n : h.list[j] # Hole => m <= j
      <3> HIDE DEF m
      <3> QED BY <1>3, <2>2
    <2>4. CASE FitsBefore(h, d, len, h.list[m])
      <3> HIDE DEF m
      <3>1. SameUse(longer, h)
        BY <1>2, <2>3, <2>4, GrowBefore
      <3>2. k = longer
        BY <1>1, <1>5, <2>4 DEF m
      <3> QED BY <3>1, <3>2
    <2>5. CASE ~FitsBefore(h, d, len, h.list[m])
      <3>1. k = Realloc(h, d, len)
        BY <1>1, <1>5, <2>5
      <3> QED BY <1>4, <3>1
    <2> QED BY <2>4, <2>5
  <1>6. CASE after = {}
    <2>1. Listed(h, d) /\ \A j \in di + 1 .. n : h.list[j] = Hole
      BY <1>2, <1>3, <1>6, QbsAssumption DEF ListSound
    <2>2. /\ Sound(last) /\ last.str = h.str /\ last.lasti = h.lasti /\ last.tmps = h.tmps
          /\ last.sp = h.sp /\ last.size = h.size /\ Len(last.list) = di
          /\ last.list = SubSeq(h.list, 1, di)
      BY <2>1, LastIs
    <2>3. CASE c + len <= h.size
      <3>1. k = top
        BY <1>1, <1>6, <2>3
      <3>2. top = [Moved(last, d, c, len) EXCEPT !.sp = c + len]
        <4> DEFINE list == SubSeq(h.list, 1, di)
                   f == [h.str EXCEPT ![d].chr = c, ![d].len = len]
                   r == [h EXCEPT !.list = list, !.str = f, !.sp = c + len]
        <4>1. longer = Moved(h, d, c, len)
          BY <1>2, LengthHeap
        <4>2. Moved(h, d, c, len) = [h EXCEPT !.str = f]
          BY <1>2 DEF Moved, Heap
        <4>3. last = [h EXCEPT !.list = list]
          OBVIOUS
        <4> HIDE DEF f, list, longer
        <4>4. top = r
          BY <1>2, <4>1, <4>2, <4>3 DEF Heap
        <4>5. Moved(last, d, c, len) = [last EXCEPT !.str = f]
          BY <1>2, <4>3 DEF Moved, Heap, f
        <4>6. [Moved(last, d, c, len) EXCEPT !.sp = c + len] = r
          BY <1>2, <4>3, <4>5 DEF Heap
        <4> QED BY <4>4, <4>6
      <3>3. Listed(last, d)
        <4>1. di \in 1 .. n /\ h.list[di] = d
          BY <1>2, <2>1 DEF Listed
        <4>2. last.list[di] = d /\ DOMAIN last.list = 1 .. di
          <5> HIDE DEF last
          <5>1. last \in Heap /\ last.list \in Seq(Entry)
            BY <2>2, HeapFields DEF Sound
          <5>2. \A i \in 1 .. di : h.list[i] \in Entry
            BY <1>2, <4>1, HeapFields, ElementOfSeq
          <5>3. \A i \in 1 .. di - 1 + 1 : SubSeq(h.list, 1, di)[i] = h.list[1 + i - 1]
            BY <1>2, <5>2, SubSeqProperties
          <5> QED BY <1>2, <2>2, <4>1, <5>1, <5>3
        <4> HIDE DEF last
        <4> QED BY <2>2, <4>1, <4>2 DEF Listed
      <3>4. SameUse(AtTop(last, d, len), last)
        <4>1. /\ Sound(last) /\ last.str[d].listi = Len(last.list)
              /\ last.str[d].chr + len <= last.size
          <5> HIDE DEF last
          <5> QED BY <2>2, <2>3
        <4> HIDE DEF last, len
        <4> QED BY <1>2, <3>3, <4>1, GrowLast
      <3>5. AtTop(last, d, len) = top
        <4>1. last.str[d].chr = c
          BY <2>2
        <4> HIDE DEF last, top
        <4> QED BY <3>2, <4>1 DEF AtTop
      <3> HIDE DEF k, last, top
      <3>6. SameUse(top, last)
        BY <3>4, <3>5
      <3>7. SameUse(top, h)
        BY <2>2, <3>6 DEF SameUse
      <3> QED BY <3>1, <3>7 DEF k
    <2>4. CASE ~(c + len <= h.size)
      <3>1. k = Realloc(last, d, len)
        BY <1>1, <1>6, <2>4
      <3> HIDE DEF k, last, len
      <3>2. last.str[d].live /\ last.str[d].heap
        BY <2>2
      <3>3. SameUse(Realloc(last, d, len), last)
        BY <1>2, <2>2, <3>2, ReallocIs
      <3>4. SameUse(Realloc(last, d, len), h)
        BY <2>2, <3>3 DEF SameUse
      <3> QED BY <3>1, <3>4 DEF k
    <2> QED BY <2>3, <2>4
  <1> QED BY <1>5, <1>6

LEMMA SetIs ==
    ASSUME NEW h, Sound(h), NEW d \in Strings, NEW s \in Strings,
           h.str[d].live, ~h.str[d].tmp, h.str[s].live
    PROVE  Sound(Set(h, d, s))
  <1> DEFINE shorter == [h EXCEPT !.str[d].len = h.str[s].len]
             grown == GrowInPlace(h, d, s)
  <1>1. CASE ~h.str[d].heap
    BY <1>1, FreeIfTmpIs DEF Set
  <1>2. CASE h.str[d].heap /\ h.str[s].tmp /\ h.str[s].heap
    BY <1>2, AcquireIs DEF Set
  <1>3. CASE h.str[d].heap /\ ~(h.str[s].tmp /\ h.str[s].heap) /\ h.str[s].len <= h.str[d].len
    <2> DEFINE c == h.str[d].chr
               l == h.str[s].len
    <2>1. h \in Heap /\ c \in Nat /\ l \in Nat /\ h.str[d].len \in Nat /\ l <= h.str[d].len
      BY <1>3, HeapFields DEF Sound
    <2>2. c <= c /\ c + l <= End(h, d)
      BY <2>1 DEF End
    <2>3. shorter = Moved(h, d, c, l)
      BY <2>1, LengthHeap
    <2> HIDE DEF c, l
    <2>4. SameUse(shorter, h)
      <3>1. h.str[d].chr <= c
        BY <2>2 DEF c
      <3>2. SameUse(Moved(h, d, c, l), h)
        BY <2>1, <2>2, <3>1, ShrunkIs
      <3> QED BY <2>3, <3>2
    <2> HIDE DEF shorter
    <2>5. Sound(shorter) /\ shorter.str[s].live
      BY <2>4 DEF SameUse
    <2>6. Sound(FreeIfTmp(shorter, s))
      BY <2>5, FreeIfTmpIs
    <2> QED BY <1>3, <2>6 DEF Set, shorter
  <1>4. CASE h.str[d].heap /\ ~(h.str[s].tmp /\ h.str[s].heap) /\ ~(h.str[s].len <= h.str[d].len)
    <2>1. SameUse(grown, h)
      BY <1>4, GrowIs
    <2> HIDE DEF grown
    <2>2. Sound(grown) /\ grown.str[s].live
      BY <2>1 DEF SameUse
    <2>3. Sound(FreeIfTmp(grown, s))
      BY <2>1, <2>2, FreeIfTmpIs
    <2> QED BY <1>4, <2>3 DEF Set, grown
  <1> QED BY <1>1, <1>2, <1>3, <1>4

-----------------------------------------------------------------------------
(* New temporaries, and parts of strings.                                  *)

LEMMA NewTmpIs ==
    ASSUME NEW h, Sound(h), NEW s \in Strings, ~h.str[s].live, NEW len \in Nat
    PROVE  LET k == MakeTmp(New(h, s, len), s)
           IN  /\ Sound(k)
               /\ \A t \in Strings \ {s} :
                     /\ k.str[t].live = h.str[t].live
                     /\ k.str[t].tmp = h.str[t].tmp
  <1> DEFINE g == New(h, s, len)
             k == MakeTmp(g, s)
  <1>1. /\ Sound(g) /\ g.str[s].live /\ ~g.str[s].tmp
        /\ \A t \in Strings \ {s} : g.str[t].live = h.str[t].live /\ g.str[t].tmp = h.str[t].tmp
    BY NewIs
  <1> HIDE DEF g
  <1>2. Sound(k) /\ \A t \in Strings \ {s} : k.str[t] = g.str[t]
    BY <1>1, MakeTmpIs
  <1> HIDE DEF k
  <1>3. \A t \in Strings \ {s} : k.str[t].live = h.str[t].live /\ k.str[t].tmp = h.str[t].tmp
    BY <1>1, <1>2
  <1> QED BY <1>2, <1>3 DEF k, g

LEMMA PartIs ==
    ASSUME NEW h, Sound(h), NEW s \in Strings, NEW t \in Strings, h.str[s].live, ~h.str[t].live,
           NEW from \in Nat, NEW len \in Nat, from + len <= h.str[s].len
    PROVE  Sound(Part(h, s, t, from, len))
  <1>1. CASE len = h.str[s].len
    BY <1>1 DEF Part
  <1>2. CASE len # h.str[s].len /\ h.str[s].tmp /\ h.str[s].heap
    <2> DEFINE c == h.str[s].chr + from
               k == Moved(h, s, c, len)
    <2>1. h \in Heap /\ h.str[s].chr \in Nat /\ h.str[s].len \in Nat
      BY HeapFields DEF Sound
    <2>2. c \in Nat /\ h.str[s].chr <= c /\ c + len <= End(h, s)
      BY <2>1 DEF End
    <2>3. Part(h, s, t, from, len) = k
      BY <1>2 DEF Part, Moved
    <2> HIDE DEF c
    <2>4. Sound(k)
      <3>1. SameUse(Moved(h, s, c, len), h)
        BY <2>2, ShrunkIs
      <3> QED BY <3>1 DEF SameUse
    <2> QED BY <2>3, <2>4
  <1>3. CASE len # h.str[s].len /\ ~(h.str[s].tmp /\ h.str[s].heap)
    <2> DEFINE g == MakeTmp(New(h, t, len), t)
    <2>1. Sound(g) /\ \A x \in Strings \ {t} : g.str[x].live = h.str[x].live
      BY NewTmpIs
    <2>2. Part(h, s, t, from, len) = FreeIfTmp(g, s)
      BY <1>3 DEF Part
    <2> HIDE DEF g
    <2>3. s # t
      OBVIOUS
    <2>4. g.str[s].live
      BY <2>1, <2>3
    <2>5. Sound(FreeIfTmp(g, s))
      BY <2>1, <2>4, FreeIfTmpIs
    <2> QED BY <2>2, <2>5
  <1> QED BY <1>1, <1>2, <1>3

-----------------------------------------------------------------------------
(* qbs_cleanup().                                                          *)

LEMMA CleanupEntryIs ==
    ASSUME NEW h, Sound(h), NEW i \in Nat \ {0}
    PROVE  Sound(CleanupEntry(h, i))
  <1> DEFINE n == Len(h.tmps)
             p == [h EXCEPT !.tmps = Front(@)]
             s == Last(h.tmps)
  <1>1. h \in Heap /\ OrderSound(h) /\ ListSound(h, Hole) /\ TmpsSound(h, Hole)
    BY DEF Sound
  <1>2. CASE n < i
    BY <1>2 DEF CleanupEntry
  <1>3. CASE ~(n < i)
    <2>1. n \in Nat /\ n > 0 /\ h.tmps \in Seq(Entry) /\ DOMAIN h.tmps = 1 .. n
      BY <1>1, <1>3, HeapFields
    <2>2. /\ Front(h.tmps) \in Seq(Entry) /\ Len(Front(h.tmps)) = n - 1
          /\ \A j \in 1 .. n - 1 : Front(h.tmps)[j] = h.tmps[j]
          /\ s = h.tmps[n]
      BY <2>1, FrontIs
    <2> HIDE DEF s
    <2>3. /\ p \in Heap /\ p.str = h.str /\ p.list = h.list /\ p.lasti = h.lasti
          /\ p.tmps = Front(h.tmps) /\ p.sp = h.sp /\ p.size = h.size
      BY <1>1, <2>2 DEF Heap
    <2>4. CleanupEntry(h, i) = IF s = Hole THEN p ELSE Free(p, s)
      BY <1>3 DEF CleanupEntry, s
    <2> HIDE DEF p, n
    <2>5. OrderSound(p)
      BY <1>1, <2>3, AlikeOrder
    <2>6. ListSound(p, Hole)
      <3>1. ListAlike(p, h)
        BY <2>3 DEF ListAlike
      <3> QED BY <1>1, <2>3, <3>1, ListAlikeSound
    <2>7. s \in Entry /\ n \in 1 .. n
      BY <2>1, <2>2, ElementOfSeq DEF n
    <2>8. s # Hole => /\ s \in Strings /\ h.str[s].live /\ h.str[s].tmplisti = n
                      /\ \A j \in 1 .. n - 1 : h.tmps[j] # s
      <3> HAVE s # Hole
      <3>1. s \in Strings
        BY <2>7 DEF Entry
      <3>2. \A j \in 1 .. n : h.tmps[j] = s => h.str[s].tmplisti = j /\ h.str[s].live
        BY <1>1, <2>1 DEF TmpsSound
      <3>3. h.str[s].live /\ h.str[s].tmplisti = n
        BY <2>2, <2>7, <3>2
      <3>4. \A j \in 1 .. n - 1 : h.tmps[j] # s
        BY <2>1, <3>2, <3>3
      <3> QED BY <3>1, <3>3, <3>4
    <2>9. Thin(p.tmps, h.tmps, s)
      <3>1. Len(p.tmps) = n - 1 /\ n - 1 <= n
        BY <2>1, <2>2, <2>3
      <3>2. \A j \in 1 .. n - 1 : h.tmps[j] = s => s = Hole
        BY <2>8
      <3>3. \A j \in 1 .. n - 1 : p.tmps[j] = IF h.tmps[j] = s THEN Hole ELSE h.tmps[j]
        BY <2>2, <2>3, <3>2
      <3>4. \A j \in 1 .. n : h.tmps[j] # Hole /\ h.tmps[j] # s => j <= n - 1
        BY <2>1, <2>2
      <3> QED BY <3>1, <3>3, <3>4 DEF Thin, n
    <2>10. TmpsSound(p, s)
      BY <1>1, <2>3, <2>7, <2>9, ThinTmps
    <2>11. CASE s = Hole
      BY <2>3, <2>4, <2>5, <2>6, <2>10, <2>11 DEF Sound
    <2>12. CASE s # Hole
      <3>1. p.str[s].live /\ p.str[s].tmplisti \notin DOMAIN p.tmps
        <4>1. DOMAIN p.tmps = 1 .. n - 1
          BY <2>2, <2>3
        <4> QED BY <2>1, <2>3, <2>8, <2>12, <4>1
      <3>2. Sound(Free(p, s))
        BY <2>3, <2>5, <2>6, <2>8, <2>10, <2>12, <3>1, FreeIs
      <3> QED BY <2>4, <2>12, <3>2
    <2> QED BY <2>11, <2>12
  <1> QED BY <1>2, <1>3

LEMMA CleanupIs ==
    ASSUME NEW h, Sound(h), NEW base \in 1 .. Len(h.tmps)
    PROVE  Sound(Cleanup(h, base))
  <1> DEFINE n == Len(h.tmps)
             S == {g \in Heap : Sound(g)}
             Step(i, g) == CleanupEntry(g, n - i + 1)
             Run(f) == f = [i \in 0 .. n |-> IF i = 0 THEN h ELSE Step(i, f[i - 1])]
             after == CHOOSE f : Run(f)
             F == [i \in 1 .. n |-> [g \in S |-> Step(i, g)]]
  <1>1. n \in Nat /\ base \in 1 .. n /\ h \in S
    BY HeapFields DEF Sound
  <1>2. Cleanup(h, base) = after[n - base + 1]
    BY DEF Cleanup
  <1> HIDE DEF n
  <1>3. \A i \in 1 .. n : \A g \in S : Step(i, g) \in S
    <2> TAKE i \in 1 .. n
    <2> TAKE g \in S
    <2>1. n - i + 1 \in Nat \ {0}
      BY <1>1
    <2>2. Sound(Step(i, g))
      BY <2>1, CleanupEntryIs
    <2> HIDE DEF Step
    <2> QED BY <2>2 DEF Sound
  <1>4. \A g \in S : Sound(g)
    OBVIOUS
  <1> HIDE DEF Step, S
  <1>5. F \in [1 .. n -> [S -> S]]
    BY <1>3
  <1>6. \E f : Runs(f, n, S, h, F)
    <2> HIDE DEF F
    <2> QED BY <1>1, <1>5, Recursion
  <1>7. PICK f : Runs(f, n, S, h, F)
    BY <1>6
  <1>8. f \in [0 .. n -> S] /\ f[0] = h /\ \A i \in 1 .. n : f[i] = Step(i, f[i - 1])
    <2>1. f \in [0 .. n -> S] /\ f[0] = h /\ \A i \in 1 .. n : f[i] = F[i][f[i - 1]]
      BY <1>7 DEF Runs
    <2>2. \A i \in 1 .. n : f[i - 1] \in S
      BY <1>1, <2>1
    <2>3. \A i \in 1 .. n : F[i][f[i - 1]] = Step(i, f[i - 1])
      BY <2>2
    <2> HIDE DEF F
    <2> QED BY <2>1, <2>3
  <1>9. Run(f)
    <2>1. \A i \in 0 .. n : i = 0 \/ i \in 1 .. n
      BY <1>1
    <2> QED BY <1>8, <2>1
  <1>10. Run(after)
    <2> HIDE DEF Run
    <2> QED BY <1>9
  <1> HIDE DEF after
  <1>11. after[0] = h /\ \A i \in 1 .. n : after[i] = Step(i, after[i - 1])
    <2>1. 0 \in 0 .. n /\ 1 .. n \subseteq 0 .. n /\ \A i \in 1 .. n : i # 0
      BY <1>1
    <2>2. \A i \in 0 .. n : after[i] = IF i = 0 THEN h ELSE Step(i, after[i - 1])
      BY <1>10
    <2> QED BY <2>1, <2>2
  <1> HIDE DEF Run
  <1> DEFINE T == {i \in 0 .. n : after[i] \in S}
  <1>12. 0 \in T
    BY <1>1, <1>11
  <1>13. \A i \in 1 .. n : i - 1 \in T => i \in T
    BY <1>3, <1>11
  <1> HIDE DEF T
  <1>14. 0 .. n \subseteq T
    BY <1>1, <1>12, <1>13, UpTo
  <1>15. n - base + 1 \in 0 .. n
    BY <1>1
  <1>16. after[n - base + 1] \in S
    BY <1>14, <1>15 DEF T
  <1> QED BY <1>2, <1>4, <1>16

-----------------------------------------------------------------------------
(* The program.                                                            *)

\* What State is after a step that becomes h.
LEMMA BecomeIs ==
    ASSUME NEW h, Sound(h), Become(h)
    PROVE  Sound(State)'
  <1>1. State' = h
    BY DEF Become, State, Sound, Heap
  <1>2. Sound(State')
    BY <1>1
  <1> QED BY <1>2

\* Frees what is a temporary of the strings that were added.
LEMMA AddIs ==
    ASSUME NEW h, Sound(h), NEW s \in Strings, NEW t \in Strings, h.str[s].live, h.str[t].live,
           s = t => ~h.str[s].tmp
    PROVE  Sound(FreeIfTmp(FreeIfTmp(h, s), t))
  <1> DEFINE g == FreeIfTmp(h, s)
  <1>1. /\ Sound(g) /\ \A x \in Strings \ {s} : g.str[x] = h.str[x]
        /\ ~h.str[s].tmp => g = h
    BY FreeIfTmpIs
  <1> HIDE DEF g
  <1>2. g.str[t].live
    BY <1>1
  <1>3. Sound(FreeIfTmp(g, t))
    BY <1>1, <1>2, FreeIfTmpIs
  <1> QED BY <1>3 DEF g

LEMMA InitSound == QbsInit => Sound(State)
  <1> SUFFICES ASSUME QbsInit PROVE Sound(State)
    OBVIOUS
  <1> DEFINE h == [str |-> [s \in Strings |-> NoString], list |-> <<>>, lasti |-> ListLast,
                   tmps |-> <<>>, sp |-> 0, size |-> DataSize]
  <1>1. State = h
    BY DEF State, QbsInit
  <1>2. NoString \in Descriptor /\ ~NoString.live
    BY NoStringIs
  <1>3. h \in Heap
    BY <1>2, QbsAssumption DEF Heap
  <1>4. OrderSound(h)
    BY QbsAssumption DEF OrderSound, InOrder, Below
  <1>5. ListSound(h, Hole)
    BY <1>2, QbsAssumption DEF ListSound, Listed
  <1>6. TmpsSound(h, Hole)
    BY <1>2 DEF TmpsSound
  <1> QED BY <1>1, <1>3, <1>4, <1>5, <1>6 DEF Sound

LEMMA ClipIs ==
    ASSUME NEW l \in Int, NEW len \in Nat
    PROVE  Clip(l, len) \in Nat /\ Clip(l, len) <= len
  BY DEF Clip

\* Each step of the program, with all that its functions do.
LEMMA StepSound == Sound(State) /\ [QbsNext]_qbsVars => Sound(State)'
  <1> SUFFICES ASSUME Sound(State), [QbsNext]_qbsVars PROVE Sound(State)'
    OBVIOUS
  <1> DEFINE h == State
  <1>1. Sound(h) /\ h.str = str /\ h.tmps = tmp_list
    BY DEF State
  <1>2. \A s \in Strings : h.str[s].len \in Nat /\ h.str[s].tmp \in BOOLEAN
    BY <1>1, HeapFields DEF Sound
  <1>3. MaxLen \in Nat
    BY QbsAssumption
  <1>4. ASSUME NEW f \in Strings \ Live, NEW l \in 0 .. MaxLen
        PROVE  /\ NewVariable(f, l) => Sound(State)'
               /\ NewFixed(f, l) => Sound(State)'
               /\ NewTmp(f, l) => Sound(State)'
               /\ NewText(f, l) => Sound(State)'
    <2>1. f \in Strings /\ ~h.str[f].live /\ l \in Nat
      BY <1>1, <1>3 DEF Live
    <2> DEFINE o == Outside(h, f, l)
    <2>2. Sound(o) /\ o.str[f].live /\ ~o.str[f].tmp
      BY <1>1, <2>1, OutsideIs
    <2>3. Sound(MakeTmp(o, f))
      <3> HIDE DEF o
      <3> QED BY <2>1, <2>2, MakeTmpIs
    <2>4. Sound(New(h, f, l)) /\ Sound(MakeTmp(New(h, f, l), f))
      <3> HIDE DEF h
      <3> QED BY <1>1, <2>1, NewIs, NewTmpIs
    <2> HIDE DEF h
    <2>5. NewVariable(f, l) => Sound(State)'
      BY <2>4, BecomeIs DEF NewVariable, h
    <2>6. NewFixed(f, l) => Sound(State)'
      BY <2>2, BecomeIs DEF NewFixed, h
    <2>7. NewTmp(f, l) => Sound(State)'
      BY <2>4, BecomeIs DEF NewTmp, h
    <2>8. NewText(f, l) => Sound(State)'
      BY <2>3, BecomeIs DEF NewText, h
    <2> QED BY <2>5, <2>6, <2>7, <2>8
  <1>5. ASSUME NEW f \in Strings \ Live, NEW s \in Strings, Copy(f, s)
        PROVE  Sound(State)'
    <2> DEFINE l == str[s].len
               g == MakeTmp(New(h, f, l), f)
    <2>1. f \in Strings /\ ~h.str[f].live /\ h.str[s].live /\ s # f /\ l \in Nat
      BY <1>1, <1>2, <1>5 DEF Live, Copy
    <2>2. Sound(g) /\ g.str[s].live
      <3> HIDE DEF h, l
      <3> QED BY <1>1, <2>1, NewTmpIs
    <2>3. Sound(FreeIfTmp(g, s))
      <3> HIDE DEF g
      <3> QED BY <2>2, FreeIfTmpIs
    <2>4. Become(FreeIfTmp(g, s))
      BY <1>5 DEF Copy
    <2> HIDE DEF g
    <2> QED BY <2>3, <2>4, BecomeIs
  <1>6. ASSUME NEW f \in Strings \ Live, NEW s \in Strings, NEW t \in Strings, Add(f, s, t)
        PROVE  Sound(State)'
    <2> DEFINE l == str[s].len + str[t].len
               g == MakeTmp(New(h, f, l), f)
    <2>1. /\ f \in Strings /\ ~h.str[f].live /\ h.str[s].live /\ h.str[t].live
          /\ s # f /\ t # f /\ l \in Nat
      BY <1>1, <1>2, <1>6 DEF Live, Add
    <2>2. s = t => ~h.str[s].tmp
      BY <1>1, <1>6 DEF Add, Variables
    <2>3. Sound(g) /\ g.str[s].live /\ g.str[t].live /\ (s = t => ~g.str[s].tmp)
      <3> HIDE DEF h, l
      <3>1. /\ Sound(g)
            /\ \A x \in Strings \ {f} : g.str[x].live = h.str[x].live /\ g.str[x].tmp = h.str[x].tmp
        BY <1>1, <2>1, NewTmpIs
      <3> HIDE DEF g
      <3> QED BY <2>1, <2>2, <3>1
    <2>4. Sound(FreeIfTmp(FreeIfTmp(g, s), t))
      <3> HIDE DEF g
      <3> QED BY <2>3, AddIs
    <2>5. Become(FreeIfTmp(FreeIfTmp(g, s), t))
      BY <1>6 DEF Add
    <2> HIDE DEF g
    <2> QED BY <2>4, <2>5, BecomeIs
  <1>7. ASSUME NEW f \in Strings \ Live, NEW s \in Strings, s \in Live,
               NEW from \in Nat, NEW n \in Nat, from + n <= h.str[s].len,
               Become(Part(h, s, f, from, n))
        PROVE  Sound(State)'
    <2>1. f \in Strings /\ ~h.str[f].live /\ h.str[s].live
      BY <1>1, <1>7 DEF Live
    <2> HIDE DEF h
    <2>2. Sound(Part(h, s, f, from, n))
      BY <1>1, <1>7, <2>1, PartIs
    <2> QED BY <1>7, <2>2, BecomeIs
  <1>8. ASSUME NEW f \in Strings \ Live, NEW s \in Strings, NEW l \in -1 .. MaxLen + 1
        PROVE  /\ Left(f, s, l) => Sound(State)'
               /\ Right(f, s, l) => Sound(State)'
    <2> DEFINE len == h.str[s].len
               n == Clip(l, len)
    <2>1. len \in Nat /\ l \in Int
      BY <1>2, <1>3
    <2>2. n \in Nat /\ n <= len
      <3> HIDE DEF len
      <3> QED BY <2>1, ClipIs
    <2>3. ASSUME Left(f, s, l) PROVE Sound(State)'
      <3>1. s \in Live /\ Become(Part(h, s, f, 0, n))
        BY <1>1, <2>3 DEF Left
      <3> HIDE DEF n, h
      <3>2. 0 + n <= len
        <4> HIDE DEF len
        <4> QED BY <2>1, <2>2
      <3> QED BY <1>7, <2>2, <3>1, <3>2
    <2>4. ASSUME Right(f, s, l) PROVE Sound(State)'
      <3> DEFINE from == len - n
      <3>1. s \in Live /\ Become(Part(h, s, f, from, n))
        BY <1>1, <2>4 DEF Right
      <3> HIDE DEF n, h
      <3>2. from \in Nat /\ from + n <= len
        <4> HIDE DEF len
        <4> QED BY <2>1, <2>2
      <3> HIDE DEF from
      <3> QED BY <1>7, <2>2, <3>1, <3>2
    <2> QED BY <2>3, <2>4
  <1>9. ASSUME NEW f \in Strings \ Live, NEW s \in Strings, NEW start \in 1 .. MaxLen,
               NEW l \in 1 .. MaxLen, Mid(f, s, start, l)
        PROVE  Sound(State)'
    <2> DEFINE len == h.str[s].len
               n == IF start + l > len THEN len - start + 1 ELSE l
               from == start - 1
    <2>1. len \in Nat /\ l \in Nat /\ start \in 1 .. len
      BY <1>1, <1>2, <1>3, <1>9 DEF Mid
    <2>2. s \in Live /\ Become(Part(h, s, f, from, n))
      BY <1>1, <1>9 DEF Mid
    <2> HIDE DEF h
    <2>3. n \in Nat /\ from \in Nat /\ from + n <= len
      <3> HIDE DEF len
      <3> QED BY <2>1
    <2> HIDE DEF n, from
    <2> QED BY <1>7, <2>2, <2>3
  <1>10. ASSUME NEW s \in Strings, FreeVariable(s) PROVE Sound(State)'
    <2>1. h.str[s].live /\ Become(Free(h, s))
      BY <1>1, <1>10 DEF FreeVariable, Variables, Live
    <2> HIDE DEF h
    <2>2. Sound(Free(h, s))
      <3> DEFINE u == Hole
      <3>1. u \in {Hole, s} /\ u # s /\ TmpsSound(h, u)
        BY <1>1, QbsAssumption DEF Sound
      <3> HIDE DEF u
      <3> QED BY <1>1, <2>1, <3>1, FreeIs DEF Sound
    <2> QED BY <2>1, <2>2, BecomeIs
  <1>11. ASSUME NEW s \in Strings, Return(s) PROVE Sound(State)'
    <2>1. h.str[s].live /\ ~h.str[s].tmp /\ Become(MakeTmp(h, s))
      BY <1>1, <1>11 DEF Return, Variables, Live
    <2> HIDE DEF h
    <2>2. Sound(MakeTmp(h, s))
      BY <1>1, <2>1, MakeTmpIs
    <2> QED BY <2>1, <2>2, BecomeIs
  <1>12. ASSUME NEW d \in Strings, NEW s \in Strings, Assign(d, s) PROVE Sound(State)'
    <2>1. h.str[d].live /\ ~h.str[d].tmp /\ h.str[s].live /\ Become(Set(h, d, s))
      BY <1>1, <1>12 DEF Assign, Variables, Live
    <2> HIDE DEF h
    <2>2. Sound(Set(h, d, s))
      BY <1>1, <2>1, SetIs
    <2> QED BY <2>1, <2>2, BecomeIs
  <1>13. ASSUME NEW base \in 1 .. MaxTmps, CleanupFrom(base) PROVE Sound(State)'
    <2>1. base \in 1 .. Len(h.tmps) /\ Become(Cleanup(h, base))
      BY <1>1, <1>13 DEF CleanupFrom
    <2> HIDE DEF h
    <2>2. Sound(Cleanup(h, base))
      BY <1>1, <2>1, CleanupIs
    <2> QED BY <2>1, <2>2, BecomeIs
  <1>14. ASSUME UNCHANGED qbsVars PROVE Sound(State)'
    <2>1. State' = State
      BY <1>14 DEF State, qbsVars
    <2>2. Sound(State')
      BY <2>1
    <2> QED BY <2>2
  <1> HIDE DEF h
  <1> QED BY <1>4, <1>5, <1>6, <1>8, <1>9, <1>10, <1>11, <1>12, <1>13, <1>14 DEF QbsNext

\* In every state of every program the heap is sound.
LEMMA AlwaysSound == QbsSpec => []Sound(State)
  <1>1. QbsInit => Sound(State)
    BY InitSound
  <1>2. Sound(State) /\ [QbsNext]_qbsVars => Sound(State)'
    BY StepSound
  <1> QED BY <1>1, <1>2, PTL DEF QbsSpec

\* The descriptors and the lists hold what they should.
THEOREM QbsTypeCorrect == QbsSpec => []QbsTypeOK
  <1>1. Sound(State) => QbsTypeOK
    <2> SUFFICES ASSUME Sound(State) PROVE QbsTypeOK
      OBVIOUS
    <2> DEFINE h == State
    <2>1. /\ h.str = str /\ h.list = qbs_list /\ h.lasti = lasti /\ h.tmps = tmp_list
          /\ h.sp = qbs_sp /\ h.size = data_size
      BY DEF State
    <2>2. h \in Heap
      BY DEF Sound
    <2> HIDE DEF h
    <2>3. /\ str \in [Strings -> Descriptor] /\ qbs_list \in Seq(Entry) /\ tmp_list \in Seq(Entry)
          /\ lasti \in Nat /\ qbs_sp \in Nat /\ data_size \in Nat
      BY <2>1, <2>2, HeapFields
    <2> QED BY <2>3 DEF QbsTypeOK, Descriptor, Entry
  <1> QED BY <1>1, AlwaysSound, PTL

\* Strings do not overlap, whatever is freed, grown, moved or handed over: what qbs_set()
\* and the functions on strings copy never reaches into another string.
THEOREM StringsAreApart == QbsSpec => []Ordered
  <1>1. Sound(State) => Ordered
    <2> SUFFICES ASSUME Sound(State) PROVE Ordered
      OBVIOUS
    <2>1. OrderSound(State)
      BY DEF Sound
    <2>2. /\ State.str = str /\ State.list = qbs_list
          /\ State.sp = qbs_sp /\ State.size = data_size
      BY DEF State
    <2> QED BY <2>1, <2>2 DEF OrderSound, InOrder, Below, Ordered
  <1> QED BY <1>1, AlwaysSound, PTL

\* Each string in qbs_data has one entry of qbs_list, each temporary one of qbs_tmp_list,
\* and their descriptors know it: qbs_free() and qbs_cleanup() free what they should.
THEOREM ListsAreExact == QbsSpec => []ListsExact
  <1>1. Sound(State) => ListsExact
    <2> SUFFICES ASSUME Sound(State) PROVE ListsExact
      OBVIOUS
    <2>1. ListSound(State, Hole) /\ TmpsSound(State, Hole)
      BY DEF Sound
    <2>2. /\ State.str = str /\ State.list = qbs_list
          /\ State.tmps = tmp_list /\ State.lasti = lasti
      BY DEF State
    <2>3. \A s \in Strings : s \in Strings \ {Hole}
      BY QbsAssumption
    <2>4. ListExact
      BY <2>1, <2>2, <2>3 DEF ListSound, ListExact
    <2>5. TmpListExact
      BY <2>1, <2>2, <2>3 DEF TmpsSound, TmpListExact, Live
    <2> QED BY <2>4, <2>5 DEF ListsExact
  <1> QED BY <1>1, AlwaysSound, PTL
=============================================================================
