------------------------- MODULE EventDispatchProofs -------------------------
(***************************************************************************)
(* Proofs about EventDispatch, for any number of keys, buttons, timers,    *)
(* presses and GOSUBs.                                                     *)
(*                                                                         *)
(* The inductive invariant IInv says what the four parts of it owe each    *)
(* other: which slot events() works on (PlaceInv) is needed for the types  *)
(* and for the handler it enters not to run already; a handler that a      *)
(* RETURN through a 0 ends is there because the 0s never outnumber the     *)
(* handlers (MarkersMatch); that it is the only one of its kind            *)
(* (InProgressMatches) is why clearing the kind's flag is right.           *)
(***************************************************************************)
EXTENDS EventDispatch, StackLemmas, FiniteSetTheorems, TLAPS

\* Two places of the scan are for the same handler: one kind of counted events, one timer.
Same(m, n) == IF Scan[m].kind = "timer" THEN m = n ELSE Scan[m].kind = Scan[n].kind

\* A step of a statement or of events() works on a slot, and not on one whose handler runs;
\* only presses are counted.
PlaceInv ==
    /\ pc \in {"off", "count", "write", "call"} => cursor \in DOMAIN Scan
    /\ pc \in {"count", "write"} => Scan[cursor].kind # "timer"
    /\ pc \in {"count", "write", "call"} =>
          \A n \in DOMAIN frames : ~Same(cursor, frames[n].called)
    /\ in_pc # "idle" => in_slot \in Counted

\* The inductive invariant.
IInv == TypeOK /\ PlaceInv /\ MarkersMatch /\ InProgressMatches

\* A remainder, as uint8 arithmetic takes it, is below the modulus.
LEMMA ModuloRange ==
  ASSUME NEW a \in Int, NEW m \in Nat \ {0}
  PROVE  a % m \in 0 .. m - 1
  OBVIOUS

\* events() goes through the buttons, then the keys, then the timers (qbx.cpp:1518-1612).
LEMMA ScanElements ==
  /\ Scan \in Seq([kind : Kinds, i : Nat])
  /\ Len(Scan) = NStrigs + NKeys + NTimers
  /\ \A n \in 1 .. NStrigs : Scan[n] = Slot("strig", n)
  /\ \A n \in NStrigs + 1 .. NStrigs + NKeys : Scan[n] = Slot("key", n - NStrigs)
  /\ \A n \in NStrigs + NKeys + 1 .. Len(Scan) : Scan[n] = Slot("timer", n - NStrigs - NKeys)
<1> DEFINE S == [kind : Kinds, i : Nat]
           strigs == [n \in 1 .. NStrigs |-> Slot("strig", n)]
           keys == [n \in 1 .. NKeys |-> Slot("key", n)]
           both == strigs \o keys
           timers == [n \in 1 .. NTimers |-> Slot("timer", n)]
<1> USE EventDispatchAssumption DEF EventDispatchAssumption
<1>1. /\ strigs \in Seq(S) /\ Len(strigs) = NStrigs
      /\ \A n \in 1 .. NStrigs : strigs[n] = Slot("strig", n)
  BY DEF Slot, Kinds
<1>2. /\ keys \in Seq(S) /\ Len(keys) = NKeys
      /\ \A n \in 1 .. NKeys : keys[n] = Slot("key", n)
  BY DEF Slot, Kinds
<1>3. /\ timers \in Seq(S) /\ Len(timers) = NTimers
      /\ \A n \in 1 .. NTimers : timers[n] = Slot("timer", n)
  BY DEF Slot, Kinds
<1>4. /\ both \in Seq(S)
      /\ Len(both) = NStrigs + NKeys
      /\ \A n \in 1 .. NStrigs + NKeys :
            both[n] = IF n <= NStrigs THEN strigs[n] ELSE keys[n - NStrigs]
  BY <1>1, <1>2, ConcatProperties
<1>5. Scan = both \o timers
  BY DEF Scan
<1> HIDE DEF S, strigs, keys, both, timers
<1>6. /\ Scan \in Seq(S)
      /\ Len(Scan) = NStrigs + NKeys + NTimers
      /\ \A n \in 1 .. NStrigs + NKeys + NTimers :
            Scan[n] = IF n <= NStrigs + NKeys THEN both[n]
                                              ELSE timers[n - (NStrigs + NKeys)]
  <2>1. /\ both \o timers \in Seq(S)
        /\ Len(both \o timers) = Len(both) + Len(timers)
        /\ \A n \in 1 .. Len(both) + Len(timers) :
              (both \o timers)[n] = IF n <= Len(both) THEN both[n] ELSE timers[n - Len(both)]
    BY <1>3, <1>4, ConcatProperties, Zenon
  <2> QED
    BY <1>3, <1>4, <1>5, <2>1
<1>7. \A n \in 1 .. NStrigs : Scan[n] = Slot("strig", n)
  BY <1>1, <1>4, <1>6
<1>8. \A n \in NStrigs + 1 .. NStrigs + NKeys : Scan[n] = Slot("key", n - NStrigs)
  <2> SUFFICES ASSUME NEW n \in NStrigs + 1 .. NStrigs + NKeys
               PROVE  Scan[n] = Slot("key", n - NStrigs)
    OBVIOUS
  <2>1. n \in 1 .. NStrigs + NKeys /\ ~(n <= NStrigs) /\ n - NStrigs \in 1 .. NKeys
    OBVIOUS
  <2>2. Scan[n] = both[n]
    BY <1>6, <2>1
  <2>3. both[n] = keys[n - NStrigs]
    BY <1>4, <2>1
  <2> QED
    BY <1>2, <2>1, <2>2, <2>3
<1>9. \A n \in NStrigs + NKeys + 1 .. Len(Scan) : Scan[n] = Slot("timer", n - NStrigs - NKeys)
  <2> SUFFICES ASSUME NEW n \in NStrigs + NKeys + 1 .. Len(Scan)
               PROVE  Scan[n] = Slot("timer", n - NStrigs - NKeys)
    OBVIOUS
  <2>1. /\ n \in 1 .. NStrigs + NKeys + NTimers /\ ~(n <= NStrigs + NKeys)
        /\ n - (NStrigs + NKeys) \in 1 .. NTimers
        /\ n - NStrigs - NKeys = n - (NStrigs + NKeys)
    BY <1>6
  <2> QED
    BY <1>3, <1>6, <2>1
<1> QED
  BY <1>6, <1>7, <1>8, <1>9 DEF S

\* The scan names each slot once, and a handler's end restarts it at a place of it or past it.
LEMMA ScanFacts ==
  /\ Len(Scan) \in Nat /\ DOMAIN Scan = 1 .. Len(Scan)
  /\ \A n \in DOMAIN Scan : Scan[n] \in Slots /\ Scan[n].kind \in Kinds
  /\ \A s \in Slots : s.kind \in Kinds /\ \E n \in DOMAIN Scan : Scan[n] = s
  /\ \A m, n \in DOMAIN Scan : Scan[m] = Scan[n] => m = n
  /\ \A n \in DOMAIN Scan : After(n) \in 1 .. Len(Scan) + 1
<1> USE EventDispatchAssumption DEF EventDispatchAssumption
<1>1. /\ Scan \in Seq([kind : Kinds, i : Nat])
      /\ Len(Scan) = NStrigs + NKeys + NTimers
      /\ Len(Scan) \in Nat /\ DOMAIN Scan = 1 .. Len(Scan)
  BY ScanElements
<1>2. \A n \in DOMAIN Scan : \/ n \in 1 .. NStrigs
                             \/ n \in NStrigs + 1 .. NStrigs + NKeys
                             \/ n \in NStrigs + NKeys + 1 .. Len(Scan)
  BY <1>1
<1>3. \A n \in DOMAIN Scan : Scan[n] \in Slots
  BY DEF Slots, ToSet
<1>4. \A s \in Slots : \E n \in DOMAIN Scan : Scan[n] = s
  BY DEF Slots, ToSet
<1>d. \A kind, i : Slot(kind, i).kind = kind /\ Slot(kind, i).i = i
  BY DEF Slot
<1>a. \A n \in 1 .. NStrigs : Scan[n].kind = "strig" /\ Scan[n].i = n
  BY <1>d, ScanElements
<1>b. \A n \in NStrigs + 1 .. NStrigs + NKeys : Scan[n].kind = "key" /\ Scan[n].i = n - NStrigs
  BY <1>d, ScanElements
<1>c. \A n \in NStrigs + NKeys + 1 .. Len(Scan) :
         Scan[n].kind = "timer" /\ Scan[n].i = n - NStrigs - NKeys
  BY <1>d, ScanElements
<1>5. \A n \in DOMAIN Scan : Scan[n].kind \in Kinds
  BY <1>2, <1>a, <1>b, <1>c DEF Kinds
<1>6. \A m, n \in DOMAIN Scan : Scan[m] = Scan[n] => m = n
  <2> SUFFICES ASSUME NEW m \in DOMAIN Scan, NEW n \in DOMAIN Scan, Scan[m] = Scan[n]
               PROVE  m = n
    OBVIOUS
  <2>0. m \in Int /\ n \in Int
    BY <1>1
  <2>1. CASE Scan[m].kind = "strig"
    <3>1. m \in 1 .. NStrigs /\ n \in 1 .. NStrigs
      BY <1>2, <1>b, <1>c, <2>1
    <3> QED
      BY <1>a, <3>1
  <2>2. CASE Scan[m].kind = "key"
    <3>1. m \in NStrigs + 1 .. NStrigs + NKeys /\ n \in NStrigs + 1 .. NStrigs + NKeys
      BY <1>2, <1>a, <1>c, <2>2
    <3>2. m - NStrigs = n - NStrigs
      BY <1>b, <3>1
    <3> QED
      BY <2>0, <3>2
  <2>3. CASE Scan[m].kind = "timer"
    <3>1. /\ m \in NStrigs + NKeys + 1 .. Len(Scan)
          /\ n \in NStrigs + NKeys + 1 .. Len(Scan)
      BY <1>2, <1>a, <1>b, <2>3
    <3>2. m - NStrigs - NKeys = n - NStrigs - NKeys
      BY <1>c, <3>1
    <3> QED
      BY <2>0, <3>2
  <2> QED
    BY <1>5, <2>1, <2>2, <2>3 DEF Kinds
<1>7. \A n \in DOMAIN Scan : After(n) \in 1 .. Len(Scan) + 1
  <2> SUFFICES ASSUME NEW n \in DOMAIN Scan PROVE After(n) \in 1 .. Len(Scan) + 1
    OBVIOUS
  <2>1. CASE Scan[n].kind = "strig"
    BY <1>1, <2>1 DEF After
  <2>2. CASE Scan[n].kind = "key"
    BY <1>1, <2>2 DEF After
  <2>3. CASE Scan[n].kind = "timer"
    BY <1>1, <2>3 DEF After
  <2> QED
    BY <1>5, <2>1, <2>2, <2>3 DEF Kinds
<1>8. \A s \in Slots : s.kind \in Kinds
  BY <1>4, <1>5
<1> QED
  BY <1>1, <1>3, <1>4, <1>5, <1>6, <1>7, <1>8

\* The 0s among return points r.
ZerosIn(r) == {n \in DOMAIN r : r[n] = 0}

\* The 0s can be counted, and there is one where a 0 is on top.
LEMMA ZerosFinite ==
  ASSUME NEW r \in Seq({0, 1})
  PROVE  /\ IsFiniteSet(ZerosIn(r))
         /\ Cardinality(ZerosIn(r)) \in Nat
         /\ \A n \in DOMAIN r : r[n] = 0 => Cardinality(ZerosIn(r)) > 0
<1>1. Len(r) \in Nat /\ DOMAIN r = 1 .. Len(r)
  OBVIOUS
<1>2. IsFiniteSet(1 .. Len(r))
  BY <1>1, FS_Interval
<1>3. ZerosIn(r) \in SUBSET (1 .. Len(r))
  BY <1>1 DEF ZerosIn
<1>4. IsFiniteSet(ZerosIn(r))
  BY <1>2, <1>3, FS_Subset
<1>5. Cardinality(ZerosIn(r)) \in Nat
  BY <1>4, FS_CardinalityType
<1>6. \A n \in DOMAIN r : r[n] = 0 => ZerosIn(r) # {}
  BY DEF ZerosIn
<1>7. Cardinality(ZerosIn(r)) = 0 <=> ZerosIn(r) = {}
  BY <1>4, FS_EmptySet
<1> QED
  BY <1>4, <1>5, <1>6, <1>7

\* Entering a handler adds one 0, a GOSUB none.
LEMMA ZerosAppend ==
  ASSUME NEW r \in Seq({0, 1}), NEW x \in {0, 1}
  PROVE  Cardinality(ZerosIn(Append(r, x))) = Cardinality(ZerosIn(r)) + IF x = 0 THEN 1 ELSE 0
<1>1. /\ Len(r) \in Nat /\ DOMAIN r = 1 .. Len(r)
      /\ DOMAIN Append(r, x) = 1 .. Len(r) + 1
      /\ \A n \in 1 .. Len(r) : Append(r, x)[n] = r[n]
      /\ Append(r, x)[Len(r) + 1] = x
  OBVIOUS
<1>2. ZerosIn(Append(r, x)) = ZerosIn(r) \cup (IF x = 0 THEN {Len(r) + 1} ELSE {})
  BY <1>1 DEF ZerosIn
<1>3. Len(r) + 1 \notin ZerosIn(r)
  BY <1>1 DEF ZerosIn
<1>4. IsFiniteSet(ZerosIn(r)) /\ Cardinality(ZerosIn(r)) \in Nat
  BY ZerosFinite
<1>5. Cardinality(ZerosIn(r) \cup {Len(r) + 1}) = Cardinality(ZerosIn(r)) + 1
  BY <1>3, <1>4, FS_AddElement
<1>6. CASE x = 0
  BY <1>2, <1>5, <1>6
<1>7. CASE x # 0
  <2>1. ZerosIn(Append(r, x)) = ZerosIn(r)
    BY <1>2, <1>7
  <2> QED
    BY <1>4, <1>7, <2>1
<1> QED
  BY <1>6, <1>7

\* A RETURN takes one 0 away if it is on top.
LEMMA ZerosFront ==
  ASSUME NEW r \in Seq({0, 1}), r # <<>>
  PROVE  /\ Cardinality(ZerosIn(Front(r))) \in Nat
         /\ Cardinality(ZerosIn(Front(r)))
               = Cardinality(ZerosIn(r)) - IF Last(r) = 0 THEN 1 ELSE 0
<1>1. /\ Len(r) \in Nat /\ Len(r) > 0 /\ DOMAIN r = 1 .. Len(r)
      /\ Front(r) \in Seq({0, 1}) /\ DOMAIN Front(r) = 1 .. Len(r) - 1
      /\ \A n \in 1 .. Len(r) - 1 : Front(r)[n] = r[n]
      /\ Last(r) = r[Len(r)]
  BY PopProperties, LenProperties
<1>2. ZerosIn(Front(r)) = ZerosIn(r) \ {Len(r)}
  BY <1>1 DEF ZerosIn
<1>3. Len(r) \in ZerosIn(r) <=> Last(r) = 0
  BY <1>1 DEF ZerosIn
<1>4. IsFiniteSet(ZerosIn(r)) /\ Cardinality(ZerosIn(r)) \in Nat
  BY ZerosFinite
<1>5. Cardinality(ZerosIn(r) \ {Len(r)})
         = IF Len(r) \in ZerosIn(r) THEN Cardinality(ZerosIn(r)) - 1 ELSE Cardinality(ZerosIn(r))
  BY <1>4, FS_RemoveElement
<1>6. Cardinality(ZerosIn(Front(r))) \in Nat
  BY <1>1, ZerosFinite
<1> QED
  BY <1>2, <1>3, <1>4, <1>5, <1>6

\* QBMAIN finds a kind that is noted when one is (qbx.cpp:1698-1711).
LEMMA EntryKindIsNoted ==
  ASSUME NEW counts \in [Kinds -> Nat], NEW k \in Kinds, counts[k] > 0
  PROVE  EntryKind(counts) \in Kinds /\ counts[EntryKind(counts)] > 0
<1> DEFINE First(n) == /\ counts[EntryOrder[n]] > 0
                       /\ \A m \in 1 .. n - 1 : counts[EntryOrder[m]] = 0
<1>1. EntryOrder[1] = "timer" /\ EntryOrder[2] = "key" /\ EntryOrder[3] = "strig"
  BY DEF EntryOrder
<1>2. \E n \in 1 .. 3 : First(n)
  <2>1. CASE counts["timer"] > 0
    BY <1>1, <2>1
  <2>2. CASE counts["timer"] = 0 /\ counts["key"] > 0
    BY <1>1, <2>2
  <2>3. CASE counts["timer"] = 0 /\ counts["key"] = 0 /\ counts["strig"] > 0
    <3>1. \A m \in 1 .. 3 - 1 : m = 1 \/ m = 2
      OBVIOUS
    <3> QED
      BY <1>1, <2>3, <3>1
  <2> QED
    BY <2>1, <2>2, <2>3 DEF Kinds
<1>3. EntryKind(counts) = EntryOrder[CHOOSE n \in 1 .. 3 : First(n)]
  BY DEF EntryKind
<1>4. PICK n \in 1 .. 3 : EntryKind(counts) = EntryOrder[n] /\ First(n)
  BY <1>2, <1>3
<1> QED
  BY <1>1, <1>4 DEF Kinds

\* An update of a function with a value of its range.
LEMMA UpdatedType ==
  ASSUME NEW S, NEW T, NEW f \in [S -> T], NEW x, NEW y \in T
  PROVE  [f EXCEPT ![x] = y] \in [S -> T]
  OBVIOUS

\* The calls of QBMAIN, entry by entry.
LEMMA FrameFacts ==
  ASSUME TypeOK
  PROVE  /\ Len(frames) \in Nat /\ DOMAIN frames = 1 .. Len(frames)
         /\ \A n \in DOMAIN frames : /\ frames[n].called \in DOMAIN Scan
                                    /\ Scan[frames[n].called] \in Slots
                                    /\ Scan[frames[n].called].kind \in Kinds
<1>1. frames \in Seq([called : DOMAIN Scan, runs : Slots \cup {NoSlot}])
  BY DEF TypeOK
<1> DEFINE F == [called : DOMAIN Scan, runs : Slots \cup {NoSlot}]
<1>a. \A f \in F : f.called \in DOMAIN Scan
  OBVIOUS
<1> HIDE DEF F
<1>b. frames \in Seq(F)
  BY <1>1 DEF F
<1>2. /\ Len(frames) \in Nat /\ DOMAIN frames = 1 .. Len(frames)
      /\ \A n \in DOMAIN frames : frames[n] \in F
  BY <1>b
<1> QED
  BY <1>a, <1>2, ScanFacts

\* The handler that a RETURN through a 0 ends is there.
LEMMA HandlerIsThere ==
  ASSUME IInv, return_point # <<>>, Last(return_point) = 0
  PROVE  /\ frames # <<>> /\ Len(frames) \in Nat \ {0}
         /\ Last(frames).called \in DOMAIN Scan
         /\ Last(frames) = frames[Len(frames)]
         /\ Front(frames) \in Seq([called : DOMAIN Scan, runs : Slots \cup {NoSlot}])
         /\ Len(Front(frames)) = Len(frames) - 1
         /\ \A n \in 1 .. Len(frames) - 1 : Front(frames)[n] = frames[n]
<1> DEFINE F == [called : DOMAIN Scan, runs : Slots \cup {NoSlot}]
<1>1. return_point \in Seq({0, 1}) /\ frames \in Seq(F)
  BY DEF IInv, TypeOK
<1>2. Cardinality(ZerosIn(return_point)) > 0
  BY <1>1, ZerosFinite, PopProperties, LenProperties
<1>3. Cardinality(ZerosIn(return_point)) <= Len(frames)
  BY DEF IInv, MarkersMatch, Zeros, ZerosIn
<1>4. Len(frames) \in Nat /\ Cardinality(ZerosIn(return_point)) \in Nat
  BY <1>1, ZerosFinite, LenProperties
<1>5. frames # <<>> /\ Len(frames) > 0
  BY <1>1, <1>2, <1>3, <1>4
<1> HIDE DEF F
<1>6. /\ Front(frames) \in Seq(F) /\ Last(frames) \in F
      /\ Len(Front(frames)) = Len(frames) - 1
      /\ \A n \in 1 .. Len(frames) - 1 : Front(frames)[n] = frames[n]
      /\ Last(frames) = frames[Len(frames)]
  BY <1>1, <1>5, PopProperties
<1> QED
  BY <1>4, <1>5, <1>6 DEF F

\* Every step keeps the types.
LEMMA TypeStep == IInv /\ [Next]_vars => TypeOK'
<1> SUFFICES ASSUME IInv, [Next]_vars PROVE TypeOK'
  OBVIOUS
<1> USE EventDispatchAssumption, ScanFacts
    DEF EventDispatchAssumption, input, gosubs, history, place, IInv, PlaceInv, Counted
<1>1. ASSUME NEW s \in Counted, PressRead(s) PROVE TypeOK'
  <2>1. state[s] \in 0 .. StateModulus - 1
    BY DEF TypeOK
  <2>a. state[s] + 1 \in Int /\ StateModulus \in Nat \ {0}
    BY <2>1
  <2>2. (state[s] + 1) % StateModulus \in 0 .. StateModulus - 1
    BY <2>a, ModuloRange
  <2>3. in_value' \in 0 .. StateModulus - 1
    BY <1>1, <2>2 DEF PressRead
  <2>4. presses' \in 0 .. MaxPresses /\ in_slot' \in Slots
    BY <1>1 DEF PressRead, TypeOK
  <2> QED
    BY <1>1, <2>3, <2>4 DEF PressRead, TypeOK
<1>2. ASSUME NEW s \in Slots, TimerArms(s) PROVE TypeOK'
  <2>1. state' \in [Slots -> 0 .. StateModulus - 1]
    BY <1>2 DEF TimerArms, TypeOK
  <2>2. qbevent' \in BOOLEAN
    BY <1>2, Zenon DEF TimerArms
  <2> QED
    BY <1>2, <2>1, <2>2 DEF TimerArms, TypeOK
<1>3. CASE PressStore
  BY <1>3 DEF PressStore, TypeOK
<1>4. CASE PressRaise
  BY <1>4 DEF PressRaise, TypeOK
<1>5. CASE \E s \in Slots : TurnOn(s)
  BY <1>5 DEF TurnOn, TypeOK
<1>6. CASE \E s \in Slots : TurnOff(s)
  BY <1>6 DEF TurnOff, TypeOK
<1>7. CASE \E s \in Slots : TurnStop(s)
  BY <1>7 DEF TurnStop, TypeOK
<1>8. CASE OtherStatement
  BY <1>8 DEF OtherStatement, TypeOK
<1>9. CASE Gosub
  BY <1>9 DEF Gosub, TypeOK
<1>10. CASE GosubReturn
  <2>1. return_point # <<>> => Front(return_point) \in Seq({0, 1})
    BY PopProperties DEF TypeOK
  <2>2. return_point' \in Seq({0, 1})
    BY <1>10, <2>1 DEF GosubReturn, TypeOK
  <2> QED
    BY <1>10, <2>2 DEF GosubReturn, TypeOK
<1>11. CASE HandlerReturn
  <2>1. return_point' \in Seq({0, 1})
    BY <1>11, PopProperties DEF HandlerReturn, TypeOK
  <2>2. frames' \in Seq([called : DOMAIN Scan, runs : Slots \cup {NoSlot}])
    BY <1>11, HandlerIsThere DEF HandlerReturn
  <2>3. Last(frames).called \in DOMAIN Scan
    BY <1>11, HandlerIsThere DEF HandlerReturn
  <2>4. cursor' \in 1 .. Len(Scan) + 1
    BY <1>11, <2>3 DEF HandlerReturn
  <2> DEFINE s == Scan[Last(frames).called]
  <2>5. state' \in [Slots -> 0 .. StateModulus - 1]
    <3>1. \/ UNCHANGED state
          \/ state' = [state EXCEPT ![s] = 0]
      BY <1>11 DEF HandlerReturn
    <3>2. 0 \in 0 .. StateModulus - 1 /\ state \in [Slots -> 0 .. StateModulus - 1]
      BY DEF TypeOK
    <3>3. [state EXCEPT ![s] = 0] \in [Slots -> 0 .. StateModulus - 1]
      BY <3>2, UpdatedType
    <3> HIDE DEF s
    <3> QED
      BY <3>1, <3>2, <3>3
  <2>6. inprogress' \in [{"strig", "key"} -> BOOLEAN]
    <3>1. \/ UNCHANGED inprogress
          \/ inprogress' = [inprogress EXCEPT ![s.kind] = FALSE]
      BY <1>11 DEF HandlerReturn
    <3>2. inprogress \in [{"strig", "key"} -> BOOLEAN]
      BY DEF TypeOK
    <3>3. [inprogress EXCEPT ![s.kind] = FALSE] \in [{"strig", "key"} -> BOOLEAN]
      BY <3>2, UpdatedType
    <3> HIDE DEF s
    <3> QED
      BY <3>1, <3>2, <3>3
  <2> QED
    BY <1>11, <2>1, <2>2, <2>4, <2>5, <2>6 DEF HandlerReturn, TypeOK
<1>12. CASE ReturnLabel
  <2>1. return_point # <<>> => Front(return_point) \in Seq({0, 1})
    BY PopProperties DEF TypeOK
  <2>2. return_point' \in Seq({0, 1})
    BY <1>12, <2>1 DEF ReturnLabel, TypeOK
  <2>3. wrapped' \in BOOLEAN /\ jumped' \in BOOLEAN
    BY <1>12, Zenon DEF ReturnLabel, TypeOK
  <2> QED
    BY <1>12, <2>2, <2>3 DEF ReturnLabel, TypeOK
<1>13. CASE Clear
  <2>1. wrapped' \in BOOLEAN /\ jumped' \in BOOLEAN
    BY <1>13, Zenon DEF Clear
  <2>2. return_point' \in Seq({0, 1})
    BY <1>13 DEF Clear
  <2> QED
    BY <1>13, <2>1, <2>2 DEF Clear, TypeOK
<1>14. CASE TurnOffForget
  <2>1. Scan[cursor] \in Slots
    BY <1>14 DEF TurnOffForget
  <2>2. state' \in [Slots -> 0 .. StateModulus - 1]
    BY <1>14, <2>1 DEF TurnOffForget, TypeOK
  <2> QED
    BY <1>14, <2>2 DEF TurnOffForget, TypeOK
<1>15. CASE Poll
  <2>1. qbevent' \in BOOLEAN
    BY <1>15, Zenon DEF Poll
  <2> QED
    BY <1>15, <2>1 DEF Poll, TypeOK
<1>16. CASE EventsSkip
  BY <1>16 DEF EventsSkip, TypeOK
<1>17. CASE EventsDone
  BY <1>17 DEF EventsDone, TypeOK
<1>18. CASE EventsTake
  <2>1. cursor \in DOMAIN Scan
    BY <1>18 DEF EventsTake, TypeOK
  <2>2. CASE Scan[cursor].kind = "timer"
    <3>a. state' = [state EXCEPT ![Scan[cursor]] = 2]
      BY <1>18, <2>2 DEF EventsTake
    <3>b. 2 \in 0 .. StateModulus - 1
      OBVIOUS
    <3>1. state' \in [Slots -> 0 .. StateModulus - 1]
      BY <3>a, <3>b DEF TypeOK
    <3> QED
      BY <1>18, <2>2, <3>1 DEF EventsTake, TypeOK
  <2>3. CASE Scan[cursor].kind # "timer"
    <3>1. inprogress' = [inprogress EXCEPT ![Scan[cursor].kind] = TRUE]
      BY <1>18, <2>3 DEF EventsTake
    <3>2. inprogress' \in [{"strig", "key"} -> BOOLEAN]
      BY <3>1 DEF TypeOK
    <3> QED
      BY <1>18, <2>3, <3>2 DEF EventsTake, TypeOK
  <2> QED
    BY <2>2, <2>3
<1>19. CASE EventsCount
  <2>1. state[Scan[cursor]] \in 0 .. StateModulus - 1
    BY <1>19 DEF EventsCount, TypeOK
  <2>a. state[Scan[cursor]] + StateModulus - 1 \in Int /\ StateModulus \in Nat \ {0}
    BY <2>1
  <2>2. (state[Scan[cursor]] + StateModulus - 1) % StateModulus \in 0 .. StateModulus - 1
    BY <2>a, ModuloRange
  <2>3. value' \in 0 .. StateModulus - 1
    BY <1>19, <2>2 DEF EventsCount
  <2> QED
    BY <1>19, <2>3 DEF EventsCount, TypeOK
<1>20. CASE EventsWrite
  BY <1>20 DEF EventsWrite, TypeOK
<1>21. CASE EventsCall
  <2> DEFINE s == Scan[cursor]
             noted == [occurred EXCEPT ![s.kind] = @ + 2]
             kind == EntryKind(noted)
  <2>1. cursor \in DOMAIN Scan /\ s \in Slots /\ s.kind \in Kinds
    BY <1>21 DEF EventsCall
  <2>o. occurred \in [Kinds -> Nat]
    BY DEF TypeOK
  <2>a. occurred[s.kind] + 2 \in Nat /\ occurred[s.kind] + 2 > 0
    <3>1. occurred[s.kind] \in Nat
      BY <2>1, <2>o
    <3> QED
      BY <3>1
  <2>2. noted \in [Kinds -> Nat] /\ noted[s.kind] > 0
    <3>1. noted \in [Kinds -> Nat]
      BY <2>o, <2>a, UpdatedType
    <3>2. noted[s.kind] = occurred[s.kind] + 2
      BY <2>1, <2>o
    <3> QED
      BY <2>a, <3>1, <3>2
  <2>3. kind \in Kinds /\ noted[kind] > 0
    BY <2>1, <2>2, EntryKindIsNoted
  <2>4. Handler(s, kind) \in Slots \cup {NoSlot}
    BY <2>1, <2>3 DEF Handler, TypeOK
  <2>5. /\ return_point' = Append(return_point, 0)
        /\ event_id' = [event_id EXCEPT ![s.kind] = s]
        /\ occurred' = [noted EXCEPT ![kind] = @ - 1]
        /\ frames' = Append(frames, [called |-> cursor, runs |-> Handler(s, kind)])
    BY <1>21, Zenon DEF EventsCall
  <2> HIDE DEF noted, kind
  <2>6. occurred' \in [Kinds -> Nat]
    BY <2>2, <2>3, <2>5
  <2>7. return_point' \in Seq({0, 1}) /\ event_id' \in [Kinds -> Slots \cup {NoSlot}]
    BY <2>1, <2>5 DEF TypeOK
  <2>8. frames' \in Seq([called : DOMAIN Scan, runs : Slots \cup {NoSlot}])
    BY <2>1, <2>4, <2>5 DEF TypeOK
  <2> QED
    BY <1>21, <2>6, <2>7, <2>8 DEF EventsCall, TypeOK
<1>22. CASE UNCHANGED vars
  BY <1>22 DEF vars, TypeOK
<1> QED
  BY <1>1, <1>2, <1>3, <1>4, <1>5, <1>6, <1>7, <1>8, <1>9, <1>10, <1>11, <1>12, <1>13, <1>14,
     <1>15, <1>16, <1>17, <1>18, <1>19, <1>20, <1>21, <1>22
    DEF Next, InputThread, Statement, Dispatch

\* Every step keeps PlaceInv: an event is taken only when no handler of its kind runs.
LEMMA PlaceStep == IInv /\ [Next]_vars => PlaceInv'
<1> SUFFICES ASSUME IInv, [Next]_vars PROVE PlaceInv'
  OBVIOUS
<1> USE EventDispatchAssumption, ScanFacts
    DEF EventDispatchAssumption, input, gosubs, history, place, IInv, TypeOK, Counted
<1>1. CASE \E s \in Counted : PressRead(s)
  BY <1>1 DEF PressRead, PlaceInv, Same
<1>2. CASE \E s \in Slots : TimerArms(s)
  BY <1>2 DEF TimerArms, PlaceInv, Same
<1>3. CASE PressStore
  BY <1>3 DEF PressStore, PlaceInv, Same
<1>4. CASE PressRaise
  BY <1>4 DEF PressRaise, PlaceInv, Same
<1>5. CASE \E s \in Slots : TurnOn(s)
  BY <1>5 DEF TurnOn, PlaceInv, Same
<1>6. CASE \E s \in Slots : TurnOff(s)
  BY <1>6 DEF TurnOff, PlaceInv, Same
<1>7. CASE \E s \in Slots : TurnStop(s)
  BY <1>7 DEF TurnStop, PlaceInv, Same
<1>8. CASE OtherStatement
  BY <1>8 DEF OtherStatement, PlaceInv, Same
<1>9. CASE Gosub
  BY <1>9 DEF Gosub, PlaceInv, Same
<1>10. CASE GosubReturn
  BY <1>10 DEF GosubReturn, PlaceInv, Same
<1>11. CASE HandlerReturn
  BY <1>11 DEF HandlerReturn, PlaceInv, Same
<1>12. CASE ReturnLabel
  BY <1>12 DEF ReturnLabel, PlaceInv, Same
<1>13. CASE Clear
  BY <1>13 DEF Clear, PlaceInv, Same
<1>14. CASE TurnOffForget
  BY <1>14 DEF TurnOffForget, PlaceInv, Same
<1>15. CASE Poll
  BY <1>15 DEF Poll, PlaceInv, Same
<1>16. CASE EventsSkip
  BY <1>16 DEF EventsSkip, PlaceInv, Same
<1>17. CASE EventsDone
  BY <1>17 DEF EventsDone, PlaceInv, Same
<1>18. CASE EventsTake
  <2> DEFINE s == Scan[cursor]
  <2>0. cursor \in DOMAIN Scan
    BY <1>18 DEF EventsTake
  <2>1. cursor \in DOMAIN Scan /\ s \in Slots /\ s.kind \in Kinds /\ Ready(s)
    BY <1>18, <2>0 DEF EventsTake
  <2>2. ASSUME NEW n \in DOMAIN frames PROVE ~Same(cursor, frames[n].called)
    <3>1. frames[n].called \in DOMAIN Scan
      BY FrameFacts
    <3>2. CASE s.kind = "timer"
      <4>1. state[s] # 2 /\ s \notin Counted
        BY <2>1, <3>2 DEF Ready
      <4>2. ~Running(s)
        BY <2>1, <4>1 DEF InProgressMatches
      <4> QED
        BY <3>2, <4>2 DEF Running, Same
    <3>3. CASE s.kind # "timer"
      <4>1. ~inprogress[s.kind] /\ s.kind \in {"strig", "key"}
        BY <2>1, <3>3 DEF Ready, Kinds
      <4>2. \A t \in Slots : t.kind = s.kind => ~Running(t)
        BY <4>1 DEF InProgressMatches
      <4> QED
        BY <3>1, <3>3, <4>2 DEF Running, Same
    <3> QED
      BY <3>2, <3>3
  <2>3. /\ frames' = frames /\ cursor' = cursor /\ in_pc' = in_pc /\ in_slot' = in_slot
        /\ s.kind = "timer" => pc' = "call"
    BY <1>18 DEF EventsTake
  <2>4. pc' \in {"count", "call"}
    BY <1>18 DEF EventsTake
  <2> QED
    BY <2>1, <2>2, <2>3, <2>4 DEF PlaceInv, Same
<1>19. CASE EventsCount
  BY <1>19 DEF EventsCount, PlaceInv, Same
<1>20. CASE EventsWrite
  BY <1>20 DEF EventsWrite, PlaceInv, Same
<1>21. CASE EventsCall
  BY <1>21 DEF EventsCall, PlaceInv, Same
<1>22. CASE UNCHANGED vars
  BY <1>22 DEF vars, PlaceInv, Same
<1> QED
  BY <1>1, <1>2, <1>3, <1>4, <1>5, <1>6, <1>7, <1>8, <1>9, <1>10, <1>11, <1>12, <1>13, <1>14,
     <1>15, <1>16, <1>17, <1>18, <1>19, <1>20, <1>21, <1>22
    DEF Next, InputThread, Statement, Dispatch

\* The count of 0s, of a state and of the next one.
LEMMA MarkersStep == IInv /\ [Next]_vars => MarkersMatch'
<1> SUFFICES ASSUME IInv, [Next]_vars PROVE MarkersMatch'
  OBVIOUS
<1>t. /\ return_point \in Seq({0, 1}) /\ jumped \in BOOLEAN
      /\ frames \in Seq([called : DOMAIN Scan, runs : Slots \cup {NoSlot}])
  BY DEF IInv, TypeOK
<1>z. /\ Cardinality(ZerosIn(return_point)) <= Len(frames)
      /\ ~jumped => Cardinality(ZerosIn(return_point)) = Len(frames)
      /\ Cardinality(ZerosIn(return_point)) \in Nat /\ Len(frames) \in Nat
  <2>1. Zeros = ZerosIn(return_point)
    BY DEF Zeros, ZerosIn
  <2>2. Cardinality(ZerosIn(return_point)) \in Nat /\ Len(frames) \in Nat
    BY <1>t, ZerosFinite
  <2> QED
    BY <2>1, <2>2 DEF IInv, MarkersMatch
<1> SUFFICES /\ Cardinality(ZerosIn(return_point')) <= Len(frames')
             /\ ~jumped' => Cardinality(ZerosIn(return_point')) = Len(frames')
  BY DEF MarkersMatch, Zeros, ZerosIn
<1>1. CASE UNCHANGED <<return_point, frames, jumped>>
  BY <1>1, <1>z
<1>2. CASE Gosub
  <2>1. return_point' = Append(return_point, 1) /\ frames' = frames /\ jumped' = jumped
    BY <1>2 DEF Gosub, history
  <2>2. Cardinality(ZerosIn(Append(return_point, 1))) = Cardinality(ZerosIn(return_point))
    BY <1>t, <1>z, ZerosAppend
  <2> QED
    BY <1>z, <2>1, <2>2
<1>3. CASE GosubReturn
  <2>1. /\ return_point # <<>> /\ Last(return_point) = 1
        /\ return_point' = Front(return_point) /\ frames' = frames /\ jumped' = jumped
    BY <1>3 DEF GosubReturn, history
  <2>2. Cardinality(ZerosIn(Front(return_point))) = Cardinality(ZerosIn(return_point))
    BY <1>t, <1>z, <2>1, ZerosFront
  <2> QED
    BY <1>z, <2>1, <2>2
<1>4. CASE HandlerReturn
  <2>1. /\ return_point # <<>> /\ Last(return_point) = 0
        /\ return_point' = Front(return_point) /\ frames' = Front(frames) /\ jumped' = jumped
    BY <1>4 DEF HandlerReturn, history
  <2>2. Cardinality(ZerosIn(Front(return_point))) = Cardinality(ZerosIn(return_point)) - 1
    BY <1>t, <1>z, <2>1, ZerosFront
  <2>3. Len(Front(frames)) = Len(frames) - 1
    BY <2>1, HandlerIsThere
  <2> QED
    BY <1>z, <2>1, <2>2, <2>3
<1>5. CASE ReturnLabel
  <2>1. jumped' = TRUE /\ frames' = frames
    BY <1>5 DEF ReturnLabel
  <2>2. CASE return_point = <<>>
    BY <1>5, <1>z, <2>1, <2>2 DEF ReturnLabel
  <2>3. CASE return_point # <<>>
    <3>1. return_point' = Front(return_point)
      BY <1>5, <2>3 DEF ReturnLabel
    <3>2. /\ Cardinality(ZerosIn(Front(return_point))) \in Nat
          /\ \/ Cardinality(ZerosIn(Front(return_point))) = Cardinality(ZerosIn(return_point))
             \/ Cardinality(ZerosIn(Front(return_point))) = Cardinality(ZerosIn(return_point)) - 1
      BY <1>t, <1>z, <2>3, ZerosFront
    <3> QED
      BY <1>z, <2>1, <3>1, <3>2
  <2> QED
    BY <2>2, <2>3
<1>6. CASE Clear
  <2>1. jumped' = TRUE /\ frames' = frames /\ return_point' = <<>>
    BY <1>6 DEF Clear
  <2>2. ZerosIn(<<>>) = {}
    BY DEF ZerosIn
  <2>3. Cardinality(ZerosIn(<<>>)) = 0
    BY <2>2, FS_EmptySet
  <2> QED
    BY <1>z, <2>1, <2>3
<1>7. CASE EventsCall
  <2>1. PICK f : frames' = Append(frames, f)
    BY <1>7, Zenon DEF EventsCall
  <2>2. return_point' = Append(return_point, 0) /\ jumped' = jumped
    BY <1>7 DEF EventsCall, history
  <2>3. Cardinality(ZerosIn(Append(return_point, 0))) = Cardinality(ZerosIn(return_point)) + 1
    BY <1>t, <1>z, ZerosAppend
  <2>4. Len(frames') = Len(frames) + 1
    BY <1>t, <2>1
  <2> QED
    BY <1>z, <2>2, <2>3, <2>4
<1> QED
  <2>1. CASE \/ \E s \in Counted : PressRead(s)
             \/ \E s \in Slots : TimerArms(s)
             \/ \E s \in Slots : TurnOn(s) \/ TurnOff(s) \/ TurnStop(s)
             \/ PressStore \/ PressRaise \/ OtherStatement \/ TurnOffForget \/ Poll
    BY <1>1, <2>1 DEF PressRead, TimerArms, TurnOn, TurnOff, TurnStop, PressStore, PressRaise,
                      OtherStatement, TurnOffForget, Poll, gosubs, history
  <2>2. CASE EventsSkip \/ EventsDone \/ EventsTake \/ EventsCount \/ EventsWrite
    BY <1>1, <2>2 DEF EventsSkip, EventsDone, EventsTake, EventsCount, EventsWrite,
                      gosubs, history
  <2>3. CASE UNCHANGED vars
    BY <1>1, <2>3 DEF vars, gosubs, history
  <2> QED
    BY <1>2, <1>3, <1>4, <1>5, <1>6, <1>7, <2>1, <2>2, <2>3
      DEF Next, InputThread, Statement, Dispatch

\* The slots whose handler is taken or runs decide what is in progress.
Called(s) == Taken(s) \/ Running(s)

\* A step that changes neither the calls, nor what is taken, nor a flag, and moves the
\* state of a timer neither to 2 nor from 2, keeps InProgressMatches.
LEMMA InProgressKept ==
  ASSUME InProgressMatches, UNCHANGED <<inprogress, frames>>,
         \A s \in Slots : Taken(s)' = Taken(s),
         \A s \in Slots \ Counted : state'[s] = 2 <=> state[s] = 2
  PROVE  InProgressMatches'
<1>1. \A s \in Slots : (Taken(s) \/ Running(s))' <=> (Taken(s) \/ Running(s))
  BY DEF Running
<1>2. \A k \in {"strig", "key"} :
         inprogress'[k] <=> \E s \in Slots : s.kind = k /\ (Taken(s) \/ Running(s))'
  BY <1>1 DEF InProgressMatches
<1>3. \A s \in Slots \ Counted : state'[s] = 2 <=> (Taken(s) \/ Running(s))'
  BY <1>1 DEF InProgressMatches
<1>4. \A m, n \in DOMAIN frames' :
         LET a == Scan[frames'[m].called]  b == Scan[frames'[n].called]
         IN (IF a.kind = "timer" THEN a = b ELSE a.kind = b.kind) => m = n
  BY DEF InProgressMatches
<1> QED
  BY <1>2, <1>3, <1>4 DEF InProgressMatches

\* Taking an event puts its kind or its timer in progress.
LEMMA TakeStep == IInv /\ EventsTake => InProgressMatches'
<1> SUFFICES ASSUME IInv, EventsTake PROVE InProgressMatches'
  OBVIOUS
<1> DEFINE s == Scan[cursor]
<1>t. /\ InProgressMatches
      /\ state \in [Slots -> 0 .. StateModulus - 1]
      /\ inprogress \in [{"strig", "key"} -> BOOLEAN]
  BY DEF IInv, TypeOK
<1>1. cursor \in DOMAIN Scan
  BY ScanFacts DEF EventsTake, IInv, TypeOK
<1>2. s \in Slots /\ s.kind \in Kinds /\ Ready(s)
  BY <1>1, ScanFacts DEF EventsTake
<1>3. /\ pc = "events" /\ pc' \in {"count", "call"}
      /\ UNCHANGED <<cursor, frames>>
      /\ s.kind = "timer" => state' = [state EXCEPT ![s] = 2] /\ inprogress' = inprogress
      /\ s.kind # "timer" => state' = state /\ inprogress' = [inprogress EXCEPT ![s.kind] = TRUE]
  BY DEF EventsTake, gosubs
<1> HIDE DEF s
<1>4. \A u \in Slots : ~Taken(u) /\ (Taken(u)' <=> u = s) /\ (Running(u)' <=> Running(u))
  BY <1>3 DEF Taken, Running, s
<1>5. \A k \in {"strig", "key"} :
         inprogress'[k] <=> \E u \in Slots : u.kind = k /\ (Taken(u)' \/ Running(u)')
  <2> SUFFICES ASSUME NEW k \in {"strig", "key"}
               PROVE  inprogress'[k] <=> \E u \in Slots : u.kind = k /\ (Taken(u)' \/ Running(u)')
    OBVIOUS
  <2>1. inprogress[k] <=> \E u \in Slots : u.kind = k /\ Running(u)
    BY <1>t, <1>4 DEF InProgressMatches
  <2>2. CASE s.kind = k
    <3>1. inprogress'[k]
      BY <1>t, <1>3, <2>2
    <3> QED
      BY <1>2, <1>4, <2>2, <3>1
  <2>3. CASE s.kind # k
    <3>1. inprogress'[k] = inprogress[k]
      BY <1>t, <1>3, <2>3
    <3> QED
      BY <1>4, <2>1, <2>3, <3>1
  <2> QED
    BY <2>2, <2>3
<1>6. \A u \in Slots \ Counted : state'[u] = 2 <=> Taken(u)' \/ Running(u)'
  <2> SUFFICES ASSUME NEW u \in Slots \ Counted
               PROVE  state'[u] = 2 <=> Taken(u)' \/ Running(u)'
    OBVIOUS
  <2>1. state[u] = 2 <=> Running(u)
    BY <1>t, <1>4 DEF InProgressMatches
  <2>2. CASE u = s
    <3>1. s.kind = "timer"
      BY <2>2 DEF Counted
    <3>2. state'[u] = 2
      BY <1>t, <1>2, <1>3, <2>2, <3>1
    <3> QED
      BY <1>4, <2>2, <3>2
  <2>3. CASE u # s
    <3>1. state'[u] = state[u]
      BY <1>t, <1>3, <2>3
    <3> QED
      BY <1>4, <2>1, <2>3, <3>1
  <2> QED
    BY <2>2, <2>3
<1>7. \A m, n \in DOMAIN frames' :
         LET a == Scan[frames'[m].called]  b == Scan[frames'[n].called]
         IN (IF a.kind = "timer" THEN a = b ELSE a.kind = b.kind) => m = n
  BY <1>t, <1>3 DEF InProgressMatches
<1> QED
  BY <1>5, <1>6, <1>7 DEF InProgressMatches

\* The call makes a taken event a running handler; no other of its kind, or of its
\* timer, runs.
LEMMA CallStep == IInv /\ EventsCall => InProgressMatches'
<1> SUFFICES ASSUME IInv, EventsCall PROVE InProgressMatches'
  OBVIOUS
<1>t. TypeOK /\ PlaceInv /\ InProgressMatches
  BY DEF IInv
<1>1. /\ pc = "call" /\ pc' = "stmt" /\ UNCHANGED <<state, inprogress>>
      /\ cursor \in DOMAIN Scan
  BY <1>t DEF EventsCall, PlaceInv
<1>2. PICK r : frames' = Append(frames, [called |-> cursor, runs |-> r])
  BY Zenon DEF EventsCall
<1>3. /\ Len(frames) \in Nat /\ DOMAIN frames = 1 .. Len(frames)
      /\ DOMAIN frames' = 1 .. Len(frames) + 1
      /\ \A n \in 1 .. Len(frames) : frames'[n] = frames[n]
      /\ frames'[Len(frames) + 1].called = cursor
  <2>1. frames \in Seq([called : DOMAIN Scan, runs : Slots \cup {NoSlot}])
    BY <1>t DEF TypeOK
  <2>2. Len(frames) \in Nat /\ DOMAIN frames = 1 .. Len(frames)
    BY <2>1
  <2>3. /\ DOMAIN Append(frames, [called |-> cursor, runs |-> r]) = 1 .. Len(frames) + 1
        /\ \A n \in 1 .. Len(frames) :
              Append(frames, [called |-> cursor, runs |-> r])[n] = frames[n]
        /\ Append(frames, [called |-> cursor, runs |-> r])[Len(frames) + 1]
              = [called |-> cursor, runs |-> r]
    BY <2>1
  <2> QED
    BY <1>2, <2>2, <2>3
<1>4. DOMAIN frames' = DOMAIN frames \cup {Len(frames) + 1}
  BY <1>3
<1>5. \A u \in Slots : (Taken(u)' \/ Running(u)') <=> (Taken(u) \/ Running(u))
  <2> SUFFICES ASSUME NEW u \in Slots
               PROVE  (Taken(u)' \/ Running(u)') <=> (Taken(u) \/ Running(u))
    OBVIOUS
  <2>1. Taken(u) <=> Scan[cursor] = u
    BY <1>1 DEF Taken
  <2>2. ~Taken(u)'
    BY <1>1 DEF Taken
  <2>3. Running(u)' <=> Running(u) \/ Scan[cursor] = u
    BY <1>3, <1>4 DEF Running
  <2> QED
    BY <2>1, <2>2, <2>3
<1>6. \A k \in {"strig", "key"} :
         inprogress'[k] <=> \E u \in Slots : u.kind = k /\ (Taken(u)' \/ Running(u)')
  BY <1>t, <1>1, <1>5 DEF InProgressMatches
<1>7. \A u \in Slots \ Counted : state'[u] = 2 <=> Taken(u)' \/ Running(u)'
  BY <1>t, <1>1, <1>5 DEF InProgressMatches
<1>8. ASSUME NEW m \in DOMAIN frames', NEW n \in DOMAIN frames',
             LET a == Scan[frames'[m].called]  b == Scan[frames'[n].called]
             IN IF a.kind = "timer" THEN a = b ELSE a.kind = b.kind
      PROVE  m = n
  <2>1. \A j \in DOMAIN frames : /\ ~Same(cursor, frames[j].called)
                               /\ frames[j].called \in DOMAIN Scan
    BY <1>t, <1>1, FrameFacts DEF PlaceInv
  <2>2. \A j \in DOMAIN frames :
           LET a == Scan[cursor]  b == Scan[frames[j].called]
           IN ~(IF a.kind = "timer" THEN a = b ELSE a.kind = b.kind)
    BY <1>1, <2>1, ScanFacts DEF Same
  <2>3. CASE m \in DOMAIN frames /\ n \in DOMAIN frames
    BY <1>t, <1>3, <1>8, <2>3 DEF InProgressMatches
  <2>4. CASE m = Len(frames) + 1 /\ n \in DOMAIN frames
    BY <1>3, <1>8, <2>2, <2>4
  <2>5. CASE m \in DOMAIN frames /\ n = Len(frames) + 1
    BY <1>3, <1>8, <2>2, <2>5
  <2> QED
    BY <1>4, <2>3, <2>4, <2>5
<1> QED
  BY <1>6, <1>7, <1>8 DEF InProgressMatches

\* The end of the innermost handler ends the progress of its kind or timer only.
LEMMA ReturnStep == IInv /\ HandlerReturn => InProgressMatches'
<1> SUFFICES ASSUME IInv, HandlerReturn PROVE InProgressMatches'
  OBVIOUS
<1> DEFINE c == Last(frames).called
           s == Scan[c]
           L == Len(frames)
<1>t. /\ TypeOK /\ InProgressMatches
      /\ state \in [Slots -> 0 .. StateModulus - 1]
      /\ inprogress \in [{"strig", "key"} -> BOOLEAN]
  BY DEF IInv, TypeOK
<1>1. /\ L \in Nat \ {0} /\ DOMAIN frames = 1 .. L
      /\ c \in DOMAIN Scan /\ frames[L].called = c
      /\ frames' = Front(frames)
      /\ DOMAIN frames' = 1 .. L - 1
      /\ \A n \in 1 .. L - 1 : frames'[n] = frames[n]
  <2>1. /\ frames # <<>> /\ Len(frames) \in Nat \ {0}
        /\ Last(frames).called \in DOMAIN Scan
        /\ Last(frames) = frames[Len(frames)]
        /\ Front(frames) \in Seq([called : DOMAIN Scan, runs : Slots \cup {NoSlot}])
        /\ Len(Front(frames)) = Len(frames) - 1
        /\ \A n \in 1 .. Len(frames) - 1 : Front(frames)[n] = frames[n]
    BY HandlerIsThere DEF HandlerReturn
  <2>2. DOMAIN frames = 1 .. Len(frames)
    BY <1>t, FrameFacts
  <2>3. DOMAIN Front(frames) = 1 .. Len(frames) - 1
    BY <2>1
  <2>4. frames' = Front(frames)
    BY DEF HandlerReturn
  <2> QED
    BY <2>1, <2>2, <2>3, <2>4
<1>2. /\ pc = "stmt" /\ pc' = "events"
      /\ s.kind = "timer" => state' = [state EXCEPT ![s] = 0] /\ inprogress' = inprogress
      /\ s.kind # "timer" => state' = state /\ inprogress' = [inprogress EXCEPT ![s.kind] = FALSE]
  BY DEF HandlerReturn
<1>3. s \in Slots /\ s.kind \in Kinds
  BY <1>1, ScanFacts
<1> HIDE DEF c, s, L
<1>a. DOMAIN frames = DOMAIN frames' \cup {L} /\ L \notin DOMAIN frames'
  BY <1>1
<1>4. \A u \in Slots : ~Taken(u) /\ ~Taken(u)'
  BY <1>2 DEF Taken
\* No other handler is like the one that ends.
<1>5. \A n \in DOMAIN frames' :
         ~(IF s.kind = "timer" THEN s = Scan[frames[n].called]
                               ELSE s.kind = Scan[frames[n].called].kind)
  <2>1. \A n \in DOMAIN frames :
           (IF s.kind = "timer" THEN s = Scan[frames[n].called]
                                ELSE s.kind = Scan[frames[n].called].kind) => L = n
    BY <1>1, <1>a, <1>t DEF InProgressMatches, s
  <2> QED
    BY <1>a, <2>1
<1>6. \A u \in Slots : Running(u) <=> Running(u)' \/ u = s
  BY <1>1, <1>a DEF Running, s
<1>7. s.kind = "timer" => \A u \in Slots : u = s => ~Running(u)'
  BY <1>1, <1>5 DEF Running
<1>8. s.kind # "timer" => \A u \in Slots : u.kind = s.kind => ~Running(u)'
  BY <1>1, <1>5 DEF Running
<1>9. \A k \in {"strig", "key"} :
         inprogress'[k] <=> \E u \in Slots : u.kind = k /\ (Taken(u)' \/ Running(u)')
  <2> SUFFICES ASSUME NEW k \in {"strig", "key"}
               PROVE  inprogress'[k] <=> \E u \in Slots : u.kind = k /\ Running(u)'
    BY <1>4
  <2>1. inprogress[k] <=> \E u \in Slots : u.kind = k /\ Running(u)
    BY <1>t, <1>4 DEF InProgressMatches
  <2>2. CASE s.kind = k
    <3>1. ~inprogress'[k]
      BY <1>t, <1>2, <2>2
    <3> QED
      BY <1>8, <2>2, <3>1
  <2>3. CASE s.kind # k
    <3>1. inprogress'[k] = inprogress[k]
      BY <1>t, <1>2, <2>3
    <3> QED
      BY <1>6, <2>1, <2>3, <3>1
  <2> QED
    BY <2>2, <2>3
<1>10. \A u \in Slots \ Counted : state'[u] = 2 <=> Taken(u)' \/ Running(u)'
  <2> SUFFICES ASSUME NEW u \in Slots \ Counted PROVE state'[u] = 2 <=> Running(u)'
    BY <1>4
  <2>1. state[u] = 2 <=> Running(u)
    BY <1>t, <1>4 DEF InProgressMatches
  <2>2. CASE u = s
    <3>1. s.kind = "timer"
      BY <2>2 DEF Counted
    <3>2. state'[u] = 0
      BY <1>t, <1>2, <1>3, <2>2, <3>1
    <3> QED
      BY <1>7, <2>2, <3>1, <3>2
  <2>3. CASE u # s
    <3>1. state'[u] = state[u]
      BY <1>t, <1>2, <2>3
    <3> QED
      BY <1>6, <2>1, <2>3, <3>1
  <2> QED
    BY <2>2, <2>3
<1>11. \A m, n \in DOMAIN frames' :
         LET a == Scan[frames'[m].called]  b == Scan[frames'[n].called]
         IN (IF a.kind = "timer" THEN a = b ELSE a.kind = b.kind) => m = n
  BY <1>1, <1>a, <1>t DEF InProgressMatches
<1> QED
  BY <1>9, <1>10, <1>11 DEF InProgressMatches

\* Every step keeps InProgressMatches.
LEMMA InProgressStep == IInv /\ [Next]_vars => InProgressMatches'
<1> SUFFICES ASSUME IInv, [Next]_vars PROVE InProgressMatches'
  OBVIOUS
<1>t. /\ TypeOK /\ PlaceInv /\ InProgressMatches
      /\ state \in [Slots -> 0 .. StateModulus - 1]
      /\ inprogress \in [{"strig", "key"} -> BOOLEAN]
      /\ frames \in Seq([called : DOMAIN Scan, runs : Slots \cup {NoSlot}])
  BY DEF IInv, TypeOK
\* Steps that touch none of it.
<1>1. ASSUME UNCHANGED <<inprogress, frames, state>>,
             \/ UNCHANGED <<pc, cursor>>
             \/ /\ pc \notin {"count", "write", "call"}
                /\ pc' \notin {"count", "write", "call"}
             \/ pc = "count" /\ pc' = "write" /\ UNCHANGED cursor
      PROVE  InProgressMatches'
  <2>1. \A s \in Slots : Taken(s)' = Taken(s)
    BY <1>1 DEF Taken
  <2> QED
    BY <1>t, <1>1, <2>1, InProgressKept
\* Steps that write the state of one slot only, in place or away from a taken event.
<1>2. ASSUME NEW t \in Slots, NEW v, UNCHANGED <<inprogress, frames>>,
             state' = [state EXCEPT ![t] = v],
             t \in Counted \/ (state[t] = 2 <=> v = 2),
             \/ UNCHANGED <<pc, cursor>>
             \/ /\ pc \notin {"count", "write", "call"}
                /\ pc' \notin {"count", "write", "call"}
             \/ pc = "write" /\ pc' = "call" /\ UNCHANGED cursor
      PROVE  InProgressMatches'
  <2>1. \A s \in Slots : Taken(s)' = Taken(s)
    BY <1>2 DEF Taken
  <2>2. \A s \in Slots : state'[s] = IF s = t THEN v ELSE state[s]
    BY <1>t, <1>2
  <2>3. \A s \in Slots \ Counted : state'[s] = 2 <=> state[s] = 2
    BY <1>2, <2>2
  <2> QED
    BY <1>t, <1>2, <2>1, <2>3, InProgressKept
<1>3. ASSUME NEW s \in Counted, PressRead(s) PROVE InProgressMatches'
  BY <1>1, <1>3 DEF PressRead, gosubs, place
<1>4. ASSUME NEW s \in Slots, TimerArms(s) PROVE InProgressMatches'
  <2>1. /\ UNCHANGED <<inprogress, frames, pc, cursor>> /\ state[s] = 0
        /\ state' = [state EXCEPT ![s] = 1]
    BY <1>4 DEF TimerArms, gosubs, place
  <2>2. s \in Counted \/ (state[s] = 2 <=> 1 = 2)
    BY <2>1
  <2> QED
    BY <1>2, <2>1, <2>2
<1>5. CASE PressStore
  <2>1. in_slot \in Counted /\ in_slot \in Slots
    BY <1>5, <1>t DEF PressStore, PlaceInv, Counted
  <2>2. /\ UNCHANGED <<inprogress, frames, pc, cursor>>
        /\ state' = [state EXCEPT ![in_slot] = in_value]
    BY <1>5 DEF PressStore, gosubs, place
  <2> QED
    BY <1>2, <2>1, <2>2
<1>6. CASE PressRaise
  BY <1>1, <1>6 DEF PressRaise, gosubs, place
<1>7. ASSUME NEW s \in Slots, TurnOn(s) \/ TurnOff(s) PROVE InProgressMatches'
  BY <1>1, <1>7 DEF TurnOn, TurnOff, gosubs
<1>8. ASSUME NEW s \in Slots, TurnStop(s) PROVE InProgressMatches'
  <2>1. /\ UNCHANGED <<inprogress, frames>> /\ pc = "stmt" /\ pc' = "poll"
        /\ \/ UNCHANGED state
           \/ s \in Counted /\ state' = [state EXCEPT ![s] = 1]
    BY <1>8 DEF TurnStop, gosubs
  <2> QED
    BY <1>1, <1>2, <2>1
<1>9. CASE OtherStatement \/ Gosub \/ GosubReturn \/ ReturnLabel \/ Clear
  BY <1>1, <1>9 DEF OtherStatement, Gosub, GosubReturn, ReturnLabel, Clear, gosubs, place
<1>10. CASE TurnOffForget
  <2> DEFINE t == Scan[cursor]
             v == IF t.kind = "timer" /\ state[t] = 2 THEN 2 ELSE 0
  <2>1. t \in Slots
    BY <1>10, <1>t, ScanFacts DEF TurnOffForget, PlaceInv
  <2>2. /\ UNCHANGED <<inprogress, frames>> /\ pc = "off" /\ pc' = "poll"
        /\ state' = [state EXCEPT ![t] = v]
    BY <1>10 DEF TurnOffForget, gosubs
  <2>3. t \in Counted \/ (state[t] = 2 <=> v = 2)
    BY <2>1 DEF Counted
  <2> HIDE DEF t, v
  <2> QED
    BY <1>2, <2>1, <2>2, <2>3
<1>11. CASE Poll \/ EventsSkip \/ EventsDone \/ EventsCount
  BY <1>1, <1>11 DEF Poll, EventsSkip, EventsDone, EventsCount, gosubs
<1>12. CASE EventsWrite
  <2> DEFINE t == Scan[cursor]
  <2>1. t \in Slots /\ t \in Counted
    BY <1>12, <1>t, ScanFacts DEF EventsWrite, PlaceInv, Counted
  <2>2. /\ UNCHANGED <<inprogress, frames, cursor>> /\ pc = "write" /\ pc' = "call"
        /\ state' = [state EXCEPT ![t] = value]
    BY <1>12 DEF EventsWrite, gosubs
  <2> HIDE DEF t
  <2> QED
    BY <1>2, <2>1, <2>2
<1>13. CASE UNCHANGED vars
  BY <1>1, <1>13 DEF vars, gosubs, place
<1>14. CASE EventsTake
  BY <1>14, TakeStep
<1>15. CASE EventsCall
  BY <1>15, CallStep
<1>16. CASE HandlerReturn
  BY <1>16, ReturnStep
<1> QED
  BY <1>3, <1>4, <1>5, <1>6, <1>7, <1>8, <1>9, <1>10, <1>11, <1>12, <1>13, <1>14, <1>15, <1>16
    DEF Next, InputThread, Statement, Dispatch

\* The first state satisfies the invariant, every step keeps it, so it always holds.
LEMMA InitIsIInv == Init => IInv
<1> SUFFICES ASSUME Init PROVE IInv
  OBVIOUS
<1> USE EventDispatchAssumption, ScanFacts DEF EventDispatchAssumption
<1>1. TypeOK
  <2>1. 0 \in 0 .. StateModulus - 1
    OBVIOUS
  <2>2. /\ active \in [Slots -> {"OFF", "ON", "STOP"}]
        /\ state \in [Slots -> 0 .. StateModulus - 1]
        /\ inprogress \in [{"strig", "key"} -> BOOLEAN]
    BY <2>1 DEF Init
  <2>3. /\ occurred \in [Kinds -> Nat]
        /\ event_id \in [Kinds -> Slots \cup {NoSlot}]
    BY DEF Init
  <2>4. /\ return_point \in Seq({0, 1})
        /\ frames \in Seq([called : DOMAIN Scan, runs : Slots \cup {NoSlot}])
    BY DEF Init
  <2>5. cursor \in 1 .. Len(Scan) + 1 /\ presses \in 0 .. MaxPresses
    BY DEF Init
  <2>6. wrapped \in BOOLEAN /\ qbevent \in BOOLEAN /\ jumped \in BOOLEAN
    BY Zenon DEF Init
  <2> QED
    BY <2>1, <2>2, <2>3, <2>4, <2>5, <2>6 DEF Init, TypeOK
<1>2. PlaceInv
  BY DEF Init, PlaceInv
<1>3. MarkersMatch
  <2>1. Zeros = {} /\ frames = <<>>
    BY DEF Init, Zeros
  <2>2. Cardinality(Zeros) = 0
    BY <2>1, FS_EmptySet
  <2>3. Len(frames) = 0
    BY <2>1
  <2> QED
    BY <2>2, <2>3 DEF MarkersMatch
<1>4. InProgressMatches
  <2>1. DOMAIN frames = {} /\ pc = "stmt"
    BY DEF Init
  <2>2. \A s \in Slots : ~Taken(s) /\ ~Running(s)
    BY <2>1 DEF Taken, Running
  <2> QED
    BY <2>1, <2>2 DEF Init, InProgressMatches
<1> QED
  BY <1>1, <1>2, <1>3, <1>4 DEF IInv

LEMMA NextKeepsIInv == IInv /\ [Next]_vars => IInv'
BY TypeStep, PlaceStep, MarkersStep, InProgressStep DEF IInv

LEMMA SpecIInv == Spec => []IInv
BY InitIsIInv, NextKeepsIInv, PTL DEF Spec

\* Every variable keeps its type: the counts of presses wrap within their byte, the call
\* stack holds calls made for slots that exist.
THEOREM EventTypeCorrect == Spec => []TypeOK
<1>1. IInv => TypeOK
  BY DEF IInv
<1> QED
  BY SpecIInv, <1>1, PTL

\* A RETURN through a 0 ends the innermost handler: there are as many 0s as handlers until a
\* RETURN label or CLEAR, and never more (qb64pe.bas:3265-3267).
THEOREM MarkersAreExact == Spec => []MarkersMatch
<1>1. IInv => MarkersMatch
  BY DEF IInv
<1> QED
  BY SpecIInv, <1>1, PTL

\* No kind of counted event, and no timer, is entered while a handler of it runs, and none
\* stays in progress after its handler returned (qbx.cpp:1522-1584).
THEOREM HandlersRunOnce == Spec => []InProgressMatches
<1>1. IInv => InProgressMatches
  BY DEF IInv
<1> QED
  BY SpecIInv, <1>1, PTL

\* The events of the program are of one kind only.
OneKind == \A s, t \in Slots : s.kind = t.kind

\* A kind is counted as entered only if the program has events of it.
CountInv == \A k \in Kinds : occurred[k] > 0 => \E s \in Slots : s.kind = k

\* No handler runs, none is counted.
LEMMA InitIsOwn == Init => CountInv /\ HandlerIsOwn
<1> SUFFICES ASSUME Init PROVE CountInv /\ HandlerIsOwn
  OBVIOUS
<1>1. (\A k \in Kinds : occurred[k] = 0) /\ DOMAIN frames = {}
  BY DEF Init
<1> QED
  BY <1>1 DEF CountInv, HandlerIsOwn

\* QBMAIN finds only counts of kinds that the program has events of.
LEMMA NextKeepsOwn ==
  ASSUME OneKind, IInv, CountInv, HandlerIsOwn, [Next]_vars
  PROVE  CountInv' /\ HandlerIsOwn'
<1>t. occurred \in [Kinds -> Nat] /\ TypeOK /\ PlaceInv
  BY DEF IInv, TypeOK
<1>1. CASE UNCHANGED <<occurred, frames>>
  BY <1>1 DEF CountInv, HandlerIsOwn
<1>2. CASE HandlerReturn
  <2>1. /\ Len(frames) \in Nat \ {0} /\ Len(Front(frames)) = Len(frames) - 1
        /\ Front(frames) \in Seq([called : DOMAIN Scan, runs : Slots \cup {NoSlot}])
        /\ \A n \in 1 .. Len(frames) - 1 : Front(frames)[n] = frames[n]
    BY <1>2, HandlerIsThere DEF HandlerReturn
  <2>2. DOMAIN frames = 1 .. Len(frames) /\ DOMAIN Front(frames) = 1 .. Len(frames) - 1
    BY <1>t, <2>1, FrameFacts
  <2>3. frames' = Front(frames) /\ occurred' = occurred
    BY <1>2 DEF HandlerReturn
  <2>4. \A n \in DOMAIN frames' : n \in DOMAIN frames /\ frames'[n] = frames[n]
    BY <2>1, <2>2, <2>3
  <2> QED
    BY <2>3, <2>4 DEF CountInv, HandlerIsOwn
<1>3. CASE EventsCall
  <2> DEFINE s == Scan[cursor]
             noted == [occurred EXCEPT ![s.kind] = @ + 2]
             kind == EntryKind(noted)
  <2>1. cursor \in DOMAIN Scan /\ s \in Slots /\ s.kind \in Kinds
    BY <1>3, <1>t, ScanFacts DEF EventsCall, PlaceInv
  <2>2. occurred[s.kind] \in Nat
    BY <1>t, <2>1
  <2>3. /\ noted \in [Kinds -> Nat] /\ noted[s.kind] > 0
        /\ \A k \in Kinds : noted[k] > 0 => k = s.kind \/ occurred[k] > 0
    <3>1. occurred[s.kind] + 2 \in Nat /\ occurred[s.kind] + 2 > 0
      BY <2>2
    <3>2. noted \in [Kinds -> Nat]
      BY <1>t, <3>1, UpdatedType
    <3>3. noted[s.kind] = occurred[s.kind] + 2
      BY <1>t, <2>1
    <3>4. \A k \in Kinds : k # s.kind => noted[k] = occurred[k]
      BY <1>t
    <3> QED
      BY <3>1, <3>2, <3>3, <3>4
  <2>4. /\ occurred' = [noted EXCEPT ![kind] = @ - 1]
        /\ frames' = Append(frames, [called |-> cursor, runs |-> Handler(s, kind)])
    BY <1>3, Zenon DEF EventsCall
  <2> HIDE DEF s, noted, kind
  <2>5. kind \in Kinds /\ noted[kind] > 0
    BY <2>1, <2>3, EntryKindIsNoted DEF kind
  <2>6. \A k \in Kinds : noted[k] > 0 => \E t \in Slots : t.kind = k
    BY <2>1, <2>3 DEF CountInv
  <2>7. kind = s.kind
    BY <2>1, <2>5, <2>6 DEF OneKind
  <2>8. \A k \in Kinds : occurred'[k] > 0 => noted[k] > 0
    BY <2>3, <2>4, <2>5
  <2>9. CountInv'
    BY <2>6, <2>8 DEF CountInv
  <2>10. frames' = Append(frames, [called |-> cursor, runs |-> s])
    BY <2>4, <2>7 DEF Handler
  <2>11. HandlerIsOwn'
    <3>1. /\ Len(frames) \in Nat /\ DOMAIN frames = 1 .. Len(frames)
          /\ frames \in Seq([called : DOMAIN Scan, runs : Slots \cup {NoSlot}])
      BY <1>t, FrameFacts DEF TypeOK
    <3>2. /\ DOMAIN frames' = 1 .. Len(frames) + 1
          /\ \A n \in 1 .. Len(frames) : frames'[n] = frames[n]
          /\ frames'[Len(frames) + 1] = [called |-> cursor, runs |-> s]
      BY <2>10, <3>1
    <3>3. \A n \in 1 .. Len(frames) : Scan[frames'[n].called] = frames'[n].runs
      BY <3>1, <3>2 DEF HandlerIsOwn
    <3>4. Scan[frames'[Len(frames) + 1].called] = frames'[Len(frames) + 1].runs
      BY <3>2 DEF s
    <3>5. \A n \in DOMAIN frames' : n \in 1 .. Len(frames) \/ n = Len(frames) + 1
      BY <3>1, <3>2
    <3> QED
      BY <3>3, <3>4, <3>5 DEF HandlerIsOwn
  <2> QED
    BY <2>9, <2>11
<1> QED
  <2>1. CASE \/ \E s \in Counted : PressRead(s)
             \/ \E s \in Slots : TimerArms(s)
             \/ \E s \in Slots : TurnOn(s) \/ TurnOff(s) \/ TurnStop(s)
             \/ PressStore \/ PressRaise \/ OtherStatement \/ TurnOffForget \/ Poll
    BY <1>1, <2>1 DEF PressRead, TimerArms, TurnOn, TurnOff, TurnStop, PressStore, PressRaise,
                      OtherStatement, TurnOffForget, Poll, gosubs
  <2>2. CASE EventsSkip \/ EventsDone \/ EventsTake \/ EventsCount \/ EventsWrite
    BY <1>1, <2>2 DEF EventsSkip, EventsDone, EventsTake, EventsCount, EventsWrite, gosubs
  <2>3. CASE Gosub \/ GosubReturn \/ ReturnLabel \/ Clear
    BY <1>1, <2>3 DEF Gosub, GosubReturn, ReturnLabel, Clear
  <2>4. CASE UNCHANGED vars
    BY <1>1, <2>4 DEF vars, gosubs
  <2> QED
    BY <1>2, <1>3, <2>1, <2>2, <2>3, <2>4 DEF Next, InputThread, Statement, Dispatch

\* With one kind of events only, QBMAIN runs the handler of the event it was entered for
\* (qbx.cpp:1698-1711); with two kinds it does not, see the run events_mixed.
THEOREM OneKindIsOwn ==
  ASSUME OneKind
  PROVE  Spec => []HandlerIsOwn
<1>1. CountInv /\ HandlerIsOwn /\ IInv /\ [Next]_vars => (CountInv /\ HandlerIsOwn)'
  BY NextKeepsOwn
<1> QED
  BY InitIsOwn, SpecIInv, <1>1, PTL DEF Spec
=============================================================================
