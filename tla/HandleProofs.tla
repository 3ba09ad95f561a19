---------------------------- MODULE HandleProofs ----------------------------
(***************************************************************************)
(* Proofs about QbList, for any number of threads, handles and growths.    *)
(* Each handle is in one place (OwnedInv): given, on the stack once, or    *)
(* held by the thread that hands it out or takes it back; so the stack has *)
(* room (StackHasRoom).  list_get() has no lock; the index that it took is *)
(* as old as the index arrays made since (IndexInv), and it finds its      *)
(* handle there as no index forgets one.                                   *)
(*                                                                         *)
(* Proofs about MemBlocks, for any number of blocks, addresses, owners and *)
(* ids.  No two locks have one id, and those to be used again have none    *)
(* (TableInv, FreeInv), so a block whose lock has its id has the lock that *)
(* it was made with; what a lock in use stands for is there (OwnerInv,     *)
(* HeapInv).  Made, Freed and Moved say what happens to the locks.         *)
(*                                                                         *)
(* Proofs about Hardware, for any number of images, commands and frames,   *)
(* for the ways to run in which no frame is taken at a wrong moment        *)
(* (KeptApart).  Commands are linked in the order in which they were made, *)
(* whose frames do not go back (ListInv, OrderInv); removed is a beginning *)
(* of them, of frames before the one rendered last (RemoveInv).  Where the *)
(* window is in the list (PlaceInv) says what it has carried out (DoneInv, *)
(* DrawnInv); an image is freed once, after what uses it (ImageInv).       *)
(***************************************************************************)
EXTENDS QbList, MemBlocks, Hardware, StackLemmas, FiniteSetTheorems

-----------------------------------------------------------------------------
(* Handle lists.                                                           *)

\* Who adds has lock_add; who takes from the stack, or puts on it, lock_remove.
Adds(t) == l_pc[t] \in {"add", "reuse", "flag", "grow", "index", "added"}
Stacks(t) == l_pc[t] \in {"flag", "remove", "count"}

LockInv ==
    /\ \A t \in Threads : Adds(t) <=> lock_add = t
    /\ \A t \in Threads : Stacks(t) <=> lock_remove = t
    /\ \A t \in Threads : l_pc[t] = "add" => structures_freed # 0 \/ indexes < MaxHandles
    /\ \A t \in Threads : l_pc[t] = "reuse" => structures_freed # 0
    /\ \A t \in Threads : l_pc[t] = "grow" => indexes < MaxHandles

\* t is handing out or taking back the handle l_i[t].
Holds(t) == l_pc[t] \in {"flag", "index", "added", "remove", "count"}
Stacked(i) == \E n \in 1 .. structures_freed : structure_freed[n] = i

\* Each handle is in one place: given, on the stack once, or held by one thread.
GivenIn == given \in SUBSET (1 .. indexes)
StackIn == \A n \in 1 .. structures_freed : structure_freed[n] \in (1 .. indexes) \ given
StackOnce ==
    \A m, n \in 1 .. structures_freed : structure_freed[m] = structure_freed[n] => m = n
HeldIn ==
    \A t \in Threads : Holds(t) => l_i[t] \in (1 .. indexes) \ given /\ ~Stacked(l_i[t])
HeldOnce == \A t, u \in Threads : Holds(t) /\ Holds(u) /\ l_i[t] = l_i[u] => t = u
NoneLost ==
    \A i \in 1 .. indexes : \/ i \in given
                            \/ Stacked(i)
                            \/ \E t \in Threads : Holds(t) /\ l_i[t] = i
\* The handle taken back is stored where the count will include it.
CountReady ==
    \A t \in Threads : l_pc[t] = "count" =>
        /\ structures_freed < MaxHandles
        /\ structure_freed[structures_freed + 1] = l_i[t]

OwnedInv ==
    GivenIn /\ StackIn /\ StackOnce /\ HeldIn /\ HeldOnce /\ NoneLost /\ CountReady

\* The handles whose structure has its flag although they are not given.
Marks(t) == l_pc[t] \in {"index", "added", "remove"}

\* The structures with their flag are those of the handles given, and of those that are
\* being handed out or not yet taken back.
FlagInv ==
    \A i \in 1 .. MaxHandles :
        i \in flags <=> \/ i \in given
                        \/ \E t \in Threads : Marks(t) /\ l_i[t] = i

\* The last index knows all handles but a new one; an index in use is as old as the growths
\* since, knows the handle looked for, and those freed are older than the last two.
IndexInv ==
    /\ \A i \in 1 .. indexes : \/ i \in index[Len(index)]
                               \/ \E t \in Threads : l_pc[t] = "index" /\ l_i[t] = i
    /\ \A t \in Threads : Inside(t) => /\ l_index[t] \in 1 .. Len(index)
                                       /\ l_index[t] = Len(index) - l_growths[t]
                                       /\ l_i[t] \in index[l_index[t]]
    /\ \A t \in Threads : ~Inside(t) => l_growths[t] = 0
    /\ \A t \in Threads : l_growths[t] <= MaxGrowths
    /\ \A n \in index_freed : n <= Len(index) - 2

LInv == ListTypeOK /\ LockInv /\ OwnedInv /\ FlagInv /\ IndexInv

LEMMA StackHasRoom ==
  ASSUME LInv, NEW t \in Threads, Holds(t)
  PROVE  structures_freed < MaxHandles
<1> DEFINE S == 1 .. structures_freed
           T == (1 .. MaxHandles) \ {l_i[t]}
           f == [n \in S |-> structure_freed[n]]
<1>1. /\ structures_freed \in Nat /\ MaxHandles \in Nat /\ indexes \in 0 .. MaxHandles
      /\ l_i[t] \in 1 .. indexes /\ l_i[t] \in 1 .. MaxHandles
  BY ListAssumption DEF LInv, ListTypeOK, OwnedInv, HeldIn
<1>2. f \in [S -> T] /\ \A m, n \in S : f[m] = f[n] => m = n
  BY <1>1 DEF LInv, OwnedInv, StackIn, StackOnce, HeldIn, Stacked
<1>3. f \in Injection(S, T)
  BY <1>2 DEF Injection, IsInjective
<1>4. IsFiniteSet(1 .. MaxHandles) /\ Cardinality(1 .. MaxHandles) = MaxHandles
  BY <1>1, FS_Interval
<1>5. IsFiniteSet(T) /\ Cardinality(T) = MaxHandles - 1
  BY <1>1, <1>4, FS_RemoveElement
<1>6. Cardinality(S) <= Cardinality(T)
  BY <1>3, <1>5, FS_Injection
<1>7. Cardinality(S) = structures_freed
  BY <1>1, FS_Interval
<1> QED
  BY <1>1, <1>5, <1>6, <1>7

LEMMA LastIndex ==
  ASSUME ListTypeOK
  PROVE  /\ Len(index) \in Nat \ {0} /\ DOMAIN index = 1 .. Len(index)
         /\ \A n \in 1 .. Len(index) : index[n] \in SUBSET (1 .. MaxHandles)
BY DEF ListTypeOK

LEMMA OwnerKept ==
  ASSUME OwnedInv, UNCHANGED <<given, indexes, structure_freed, structures_freed>>,
         \A u \in Threads : /\ Holds(u)' <=> Holds(u)
                            /\ Holds(u) => l_i'[u] = l_i[u]
                            /\ l_pc'[u] = "count" => l_pc[u] = "count"
  PROVE  OwnedInv'
<1>0. \A u \in Threads : l_pc[u] = "count" => Holds(u)
  BY DEF Holds
<1>s. \A i : Stacked(i)' <=> Stacked(i)
  BY DEF Stacked
<1>1. GivenIn' /\ StackIn' /\ StackOnce'
  BY DEF OwnedInv, GivenIn, StackIn, StackOnce
<1>2. HeldIn'
  <2>1. \A t \in Threads : Holds(t) =>
            /\ l_i[t] \in (1 .. indexes) \ given
            /\ \A n \in 1 .. structures_freed : structure_freed[n] # l_i[t]
    BY DEF OwnedInv, HeldIn, Stacked
  <2>2. \A t \in Threads : Holds(t)' =>
            /\ l_i'[t] \in (1 .. indexes') \ given'
            /\ \A n \in 1 .. structures_freed' : structure_freed'[n] # l_i'[t]
    BY <2>1
  <2> QED
    BY <2>2 DEF HeldIn, Stacked
<1>3. HeldOnce'
  BY DEF OwnedInv, HeldOnce
<1>4. NoneLost'
  <2> SUFFICES ASSUME NEW i \in 1 .. indexes
               PROVE  i \in given \/ Stacked(i) \/ \E t \in Threads : Holds(t)' /\ l_i'[t] = i
    BY <1>s DEF NoneLost
  <2>1. i \in given \/ Stacked(i) \/ \E t \in Threads : Holds(t) /\ l_i[t] = i
    BY DEF OwnedInv, NoneLost
  <2> QED
    BY <2>1
<1>5. CountReady'
  BY <1>0 DEF OwnedInv, CountReady
<1> QED
  BY <1>1, <1>2, <1>3, <1>4, <1>5 DEF OwnedInv

LEMMA FlagKept ==
  ASSUME FlagInv, UNCHANGED <<flags, given>>,
         \A u \in Threads : /\ Marks(u)' <=> Marks(u)
                            /\ Marks(u) => l_i'[u] = l_i[u]
  PROVE  FlagInv'
<1> SUFFICES ASSUME NEW i \in 1 .. MaxHandles
             PROVE  i \in flags <=> i \in given \/ \E t \in Threads : Marks(t)' /\ l_i'[t] = i
  BY DEF FlagInv
<1>1. i \in flags <=> i \in given \/ \E t \in Threads : Marks(t) /\ l_i[t] = i
  BY DEF FlagInv
<1> QED
  BY <1>1

LEMMA IndexKept ==
  ASSUME IndexInv, UNCHANGED <<indexes, index, index_freed, l_growths>>,
         \A u \in Threads : /\ l_pc'[u] = "index" <=> l_pc[u] = "index"
                            /\ Inside(u)' <=> Inside(u)
                            /\ l_pc[u] = "index" => l_i'[u] = l_i[u]
                            /\ Inside(u) => l_i'[u] = l_i[u] /\ l_index'[u] = l_index[u]
  PROVE  IndexInv'
<1>1. \A i \in 1 .. indexes : \/ i \in index[Len(index)]
                              \/ \E t \in Threads : l_pc'[t] = "index" /\ l_i'[t] = i
  <2> SUFFICES ASSUME NEW i \in 1 .. indexes, i \notin index[Len(index)]
               PROVE  \E t \in Threads : l_pc'[t] = "index" /\ l_i'[t] = i
    OBVIOUS
  <2>1. PICK t \in Threads : l_pc[t] = "index" /\ l_i[t] = i
    BY DEF IndexInv
  <2> QED
    BY <2>1
<1>2. \A t \in Threads : Inside(t)' => /\ l_index'[t] \in 1 .. Len(index)
                                       /\ l_index'[t] = Len(index) - l_growths[t]
                                       /\ l_i'[t] \in index[l_index'[t]]
  BY DEF IndexInv
<1>3. /\ \A t \in Threads : ~Inside(t)' => l_growths[t] = 0
      /\ \A t \in Threads : l_growths[t] <= MaxGrowths
      /\ \A n \in index_freed : n <= Len(index) - 2
  BY DEF IndexInv
<1> QED
  BY <1>1, <1>2, <1>3 DEF IndexInv

LEMMA TypeStep == LInv /\ [ListNext]_listVars => ListTypeOK'
<1> SUFFICES ASSUME LInv, [ListNext]_listVars PROVE ListTypeOK'
  OBVIOUS
<1> USE ListAssumption DEF lists, arrays, stack, listLocks, LGoto, LInv, ListTypeOK
<1>1. ASSUME NEW t \in Threads, AddLocks(t) PROVE ListTypeOK'
  BY <1>1 DEF AddLocks
<1>2. ASSUME NEW t \in Threads, AddChooses(t) PROVE ListTypeOK'
  BY <1>2 DEF AddChooses
<1>3. ASSUME NEW t \in Threads, AddPops(t) PROVE ListTypeOK'
  <2>1. structures_freed \in 1 .. MaxHandles
    BY <1>3 DEF AddPops, LockInv
  <2>2. /\ structure_freed[structures_freed] \in 0 .. MaxHandles
        /\ structures_freed - 1 \in 0 .. MaxHandles
    BY <2>1
  <2>3. l_i' \in [Threads -> 0 .. MaxHandles]
    BY <1>3, <2>2 DEF AddPops
  <2> QED
    BY <1>3, <2>2, <2>3 DEF AddPops
<1>4. ASSUME NEW t \in Threads, AddFlags(t) PROVE ListTypeOK'
  <2>1. l_i[t] \in 1 .. MaxHandles
    BY <1>4 DEF AddFlags, OwnedInv, HeldIn, Holds
  <2> QED
    BY <1>4, <2>1 DEF AddFlags
<1>5. ASSUME NEW t \in Threads, AddCounts(t) PROVE ListTypeOK'
  <2>1. indexes + 1 \in 1 .. MaxHandles
    BY <1>5 DEF AddCounts, LockInv
  <2>2. l_i' = [l_i EXCEPT ![t] = indexes + 1] /\ flags' = flags \union {indexes + 1}
    BY <1>5 DEF AddCounts
  <2>3. l_i' \in [Threads -> 0 .. MaxHandles]
    BY <2>1, <2>2
  <2> QED
    BY <1>5, <2>1, <2>2, <2>3 DEF AddCounts
<1>6. ASSUME NEW t \in Threads, AddIndexes(t) PROVE ListTypeOK'
  <2> DEFINE known == index[Len(index)] \union {l_i[t]}
  <2>1. l_i[t] \in 1 .. MaxHandles /\ indexes \in 0 .. MaxHandles
    BY <1>6, ListAssumption DEF AddIndexes, OwnedInv, HeldIn, Holds
  <2>0. ListTypeOK
    BY DEF LInv
  <2> HIDE DEF LInv, ListTypeOK, lists, arrays, stack, listLocks, LGoto
  <2>2. known \in SUBSET (1 .. MaxHandles) /\ Len(index) \in Nat \ {0}
    <3>1. Len(index) \in Nat \ {0} /\ index[Len(index)] \in SUBSET (1 .. MaxHandles)
      BY <2>0, LastIndex
    <3> QED
      BY <2>1, <3>1
  <2>3. /\ l_pc[t] = "index" /\ l_pc' = [l_pc EXCEPT ![t] = "added"]
        /\ UNCHANGED <<indexes, flags, structure_freed, structures_freed, lock_add, lock_remove,
                       l_i, l_index, given>>
    BY <1>6, Zenon DEF AddIndexes, lists, arrays, stack, listLocks, LGoto
  <2>4. \/ /\ index' = Append(index, known)
           /\ \A u \in Threads : Inside(u) => l_growths[u] < MaxGrowths
           /\ index_freed' = index_freed \union ({Len(index) - 1} \ {0})
           /\ indexes_last' = 2 * indexes_last + 1
           /\ l_growths' = [u \in Threads |-> IF Inside(u) THEN l_growths[u] + 1 ELSE 0]
        \/ /\ index' = [index EXCEPT ![Len(index)] = known]
           /\ UNCHANGED <<index_freed, indexes_last, l_growths>>
    BY <1>6, Zenon DEF AddIndexes, NewIndex, lists, arrays, stack, listLocks, LGoto
  <2> HIDE DEF known
  <2>5. index' \in Seq(SUBSET (1 .. MaxHandles)) /\ index' # <<>>
    <3>1. index \in Seq(SUBSET (1 .. MaxHandles)) /\ Len(index) \in DOMAIN index
      BY <2>0, <2>2 DEF ListTypeOK
    <3>2. CASE index' = Append(index, known)
      BY <2>2, <3>1, <3>2
    <3>3. CASE index' = [index EXCEPT ![Len(index)] = known]
      <4>1. Len(index') = Len(index) /\ index' \in Seq(SUBSET (1 .. MaxHandles))
        BY <2>2, <3>1, <3>3
      <4> QED
        BY <2>2, <4>1
    <3> QED
      BY <2>4, <3>2, <3>3
  <2>o. indexes_last \in Nat /\ index_freed \in SUBSET Nat /\ l_growths \in [Threads -> Nat]
    BY <2>0 DEF ListTypeOK
  <2>6. index_freed' \in SUBSET Nat /\ indexes_last' \in Nat
    <3>1. Len(index) - 1 \in Nat /\ 2 * indexes_last + 1 \in Nat
      BY <2>2, <2>o
    <3>2. index_freed \union ({Len(index) - 1} \ {0}) \in SUBSET Nat
      BY <2>o, <3>1
    <3> QED
      BY <2>4, <2>o, <3>1, <3>2
  <2>7. l_growths' \in [Threads -> Nat]
    <3>1. CASE l_growths' = [u \in Threads |-> IF Inside(u) THEN l_growths[u] + 1 ELSE 0]
      BY <2>o, <3>1
    <3> QED
      BY <2>4, <2>o, <3>1
  <2>8. l_pc' \in [Threads -> {"idle", "add", "reuse", "flag", "grow", "index", "added",
                             "remove", "count", "get"}]
    BY <2>0, <2>3 DEF ListTypeOK
  <2> QED
    BY <2>0, <2>3, <2>5, <2>6, <2>7, <2>8 DEF ListTypeOK
<1>7. ASSUME NEW t \in Threads, AddReturns(t) PROVE ListTypeOK'
  <2>1. l_i[t] \in 1 .. MaxHandles
    BY <1>7 DEF AddReturns, OwnedInv, HeldIn, Holds
  <2>2. given' \in SUBSET (1 .. MaxHandles)
    BY <1>7, <2>1 DEF AddReturns
  <2>3. UNCHANGED <<indexes, indexes_last, index, index_freed, flags, structure_freed,
                    structures_freed, lock_remove, l_index, l_growths>> /\ lock_add' = "nobody"
    BY <1>7 DEF AddReturns
  <2>4. l_pc' = [l_pc EXCEPT ![t] = "idle"] /\ l_i' = [l_i EXCEPT ![t] = 0]
    BY <1>7 DEF AddReturns
  <2>0. ListTypeOK
    BY DEF LInv
  <2> HIDE DEF LInv, ListTypeOK, lists, arrays, stack, listLocks, LGoto
  <2>5. l_pc' \in [Threads -> {"idle", "add", "reuse", "flag", "grow", "index", "added",
                             "remove", "count", "get"}]
    BY <2>0, <2>4 DEF ListTypeOK
  <2>6. l_i' \in [Threads -> 0 .. MaxHandles]
    BY <2>0, <2>4, ListAssumption DEF ListTypeOK
  <2> QED
    BY <2>0, <2>2, <2>3, <2>5, <2>6 DEF ListTypeOK
<1>8. ASSUME NEW t \in Threads, RemoveStores(t) PROVE ListTypeOK'
  BY <1>8 DEF RemoveStores
<1>9. ASSUME NEW t \in Threads, RemoveCounts(t) PROVE ListTypeOK'
  <2>1. structures_freed + 1 \in 0 .. MaxHandles
    BY <1>9 DEF RemoveCounts, OwnedInv, CountReady
  <2> QED
    BY <1>9, <2>1 DEF RemoveCounts
<1>10. ASSUME NEW t \in Threads, GetReads(t) PROVE ListTypeOK'
  BY <1>10 DEF GetReads
<1>11. ASSUME NEW t \in Threads, NEW i \in 1 .. MaxHandles, RemoveLocks(t, i) PROVE ListTypeOK'
  BY <1>11 DEF RemoveLocks
<1>12. ASSUME NEW t \in Threads, NEW i \in 1 .. MaxHandles, GetTakes(t, i) PROVE ListTypeOK'
  BY <1>12 DEF GetTakes
<1>13. CASE UNCHANGED listVars
  BY <1>13 DEF listVars
<1> QED
  BY <1>1, <1>2, <1>3, <1>4, <1>5, <1>6, <1>7, <1>8, <1>9, <1>10, <1>11, <1>12, <1>13 DEF ListNext

LEMMA LockStep == LInv /\ [ListNext]_listVars => LockInv'
<1> SUFFICES ASSUME LInv, [ListNext]_listVars PROVE LockInv'
  OBVIOUS
<1> USE ListAssumption DEF lists, arrays, stack, listLocks, LGoto, LInv, ListTypeOK, LockInv,
   Adds, Stacks
<1>1. ASSUME NEW t \in Threads, AddLocks(t) PROVE LockInv'
  BY <1>1 DEF AddLocks
<1>2. ASSUME NEW t \in Threads, AddChooses(t) PROVE LockInv'
  BY <1>2 DEF AddChooses
<1>3. ASSUME NEW t \in Threads, AddPops(t) PROVE LockInv'
  BY <1>3 DEF AddPops
<1>4. ASSUME NEW t \in Threads, AddFlags(t) PROVE LockInv'
  BY <1>4 DEF AddFlags
<1>5. ASSUME NEW t \in Threads, AddCounts(t) PROVE LockInv'
  BY <1>5 DEF AddCounts
<1>6. ASSUME NEW t \in Threads, AddIndexes(t) PROVE LockInv'
  BY <1>6 DEF AddIndexes
<1>7. ASSUME NEW t \in Threads, AddReturns(t) PROVE LockInv'
  BY <1>7 DEF AddReturns
<1>8. ASSUME NEW t \in Threads, RemoveStores(t) PROVE LockInv'
  BY <1>8 DEF RemoveStores
<1>9. ASSUME NEW t \in Threads, RemoveCounts(t) PROVE LockInv'
  BY <1>9 DEF RemoveCounts
<1>10. ASSUME NEW t \in Threads, GetReads(t) PROVE LockInv'
  BY <1>10 DEF GetReads
<1>11. ASSUME NEW t \in Threads, NEW i \in 1 .. MaxHandles, RemoveLocks(t, i) PROVE LockInv'
  BY <1>11 DEF RemoveLocks
<1>12. ASSUME NEW t \in Threads, NEW i \in 1 .. MaxHandles, GetTakes(t, i) PROVE LockInv'
  BY <1>12 DEF GetTakes
<1>13. CASE UNCHANGED listVars
  BY <1>13 DEF listVars
<1> QED
  BY <1>1, <1>2, <1>3, <1>4, <1>5, <1>6, <1>7, <1>8, <1>9, <1>10, <1>11, <1>12, <1>13 DEF ListNext

LEMMA OwnerStep == LInv /\ [ListNext]_listVars => OwnedInv'
<1> SUFFICES ASSUME LInv, [ListNext]_listVars PROVE OwnedInv'
  OBVIOUS
<1> USE ListAssumption DEF lists, arrays, stack, listLocks, LGoto, LInv, ListTypeOK, LockInv,
   Adds, Stacks
<1>1. ASSUME NEW t \in Threads, AddLocks(t) PROVE OwnedInv'
  <2>1. UNCHANGED <<given, indexes, structure_freed, structures_freed>>
    BY <1>1 DEF AddLocks
  <2>2. \A u \in Threads : /\ Holds(u)' <=> Holds(u)
                           /\ Holds(u) => l_i'[u] = l_i[u]
                           /\ l_pc'[u] = "count" => l_pc[u] = "count"
    BY <1>1 DEF AddLocks, Holds
  <2> QED
    BY <2>1, <2>2, OwnerKept
<1>2. ASSUME NEW t \in Threads, AddChooses(t) PROVE OwnedInv'
  <2>1. UNCHANGED <<given, indexes, structure_freed, structures_freed>>
    BY <1>2 DEF AddChooses
  <2>2. \A u \in Threads : /\ Holds(u)' <=> Holds(u)
                           /\ Holds(u) => l_i'[u] = l_i[u]
                           /\ l_pc'[u] = "count" => l_pc[u] = "count"
    BY <1>2 DEF AddChooses, Holds
  <2> QED
    BY <2>1, <2>2, OwnerKept
<1>3. ASSUME NEW t \in Threads, AddPops(t) PROVE OwnedInv'
  <2>1. /\ l_pc[t] = "reuse"
        /\ UNCHANGED <<given, indexes, structure_freed>>
        /\ structures_freed' = structures_freed - 1 /\ structures_freed \in 1 .. MaxHandles
    BY <1>3 DEF AddPops, LockInv
  <2>2. \A u \in Threads : /\ l_pc'[u] = IF u = t THEN "flag" ELSE l_pc[u]
                           /\ l_i'[u] = IF u = t THEN structure_freed[structures_freed] ELSE l_i[u]
    BY <1>3 DEF AddPops
  <2>3. \A u \in Threads \ {t} : ~(Adds(u) /\ Adds(t)) /\ ~(Stacks(u) /\ Stacks(t))
    BY DEF LockInv
  <2>4. /\ structures_freed \in 0 .. MaxHandles /\ indexes \in 0 .. MaxHandles
        /\ given \in SUBSET (1 .. MaxHandles)
    OBVIOUS
  <2>c. \A u \in Threads : l_pc[u] # "count"
    BY <1>3 DEF AddPops
  <2> HIDE DEF LInv, ListTypeOK, LockInv, lists, arrays, stack, listLocks, LGoto
  <2>o. OwnedInv
    BY DEF LInv
  <2>5. GivenIn'
    BY <2>1, <2>2, <2>3, <2>4, <2>o DEF OwnedInv, GivenIn, HeldIn, Holds
  <2>6. StackIn'
    BY <2>1, <2>2, <2>3, <2>4, <2>o DEF OwnedInv, GivenIn, StackIn, HeldIn, CountReady,
       Holds, Stacked
  <2>7. StackOnce'
    BY <2>1, <2>2, <2>3, <2>4, <2>o DEF OwnedInv, StackOnce, HeldIn, CountReady, Holds, Stacked
  <2>8. HeldIn'
    BY <2>1, <2>2, <2>3, <2>4, <2>o DEF OwnedInv, GivenIn, StackIn, StackOnce, HeldIn,
       HeldOnce, CountReady, Holds, Stacked
  <2>9. HeldOnce'
    BY <2>1, <2>2, <2>3, <2>4, <2>o DEF OwnedInv, GivenIn, StackIn, HeldIn, HeldOnce,
       Holds, Stacked
  <2>10. NoneLost'
    BY <2>1, <2>2, <2>3, <2>4, <2>o DEF OwnedInv, StackIn, NoneLost, CountReady,
       Holds, Stacked
  <2>11. CountReady'
    BY <2>c, <2>1, <2>2, <2>3, <2>4, <2>o DEF OwnedInv, CountReady, Holds, Stacks
  <2> QED
    BY <2>5, <2>6, <2>7, <2>8, <2>9, <2>10, <2>11 DEF OwnedInv
<1>4. ASSUME NEW t \in Threads, AddFlags(t) PROVE OwnedInv'
  <2>1. UNCHANGED <<given, indexes, structure_freed, structures_freed>>
    BY <1>4 DEF AddFlags
  <2>2. \A u \in Threads : /\ Holds(u)' <=> Holds(u)
                           /\ Holds(u) => l_i'[u] = l_i[u]
                           /\ l_pc'[u] = "count" => l_pc[u] = "count"
    BY <1>4 DEF AddFlags, Holds
  <2> QED
    BY <2>1, <2>2, OwnerKept
<1>5. ASSUME NEW t \in Threads, AddCounts(t) PROVE OwnedInv'
  <2>1. /\ l_pc[t] = "grow"
        /\ UNCHANGED <<given, structure_freed, structures_freed>>
        /\ indexes' = indexes + 1 /\ indexes < MaxHandles
    BY <1>5 DEF AddCounts, LockInv
  <2>2. \A u \in Threads : /\ l_pc'[u] = IF u = t THEN "index" ELSE l_pc[u]
                           /\ l_i'[u] = IF u = t THEN indexes + 1 ELSE l_i[u]
    BY <1>5 DEF AddCounts
  <2>3. \A u \in Threads \ {t} : ~(Adds(u) /\ Adds(t)) /\ ~(Stacks(u) /\ Stacks(t))
    BY DEF LockInv
  <2>4. /\ structures_freed \in 0 .. MaxHandles /\ indexes \in 0 .. MaxHandles
        /\ given \in SUBSET (1 .. MaxHandles)
    OBVIOUS
  <2> HIDE DEF LInv, ListTypeOK, LockInv, lists, arrays, stack, listLocks, LGoto
  <2>o. OwnedInv
    BY DEF LInv
  <2>5. GivenIn'
    BY <2>1, <2>2, <2>3, <2>4, <2>o DEF OwnedInv, GivenIn, HeldIn, Holds
  <2>6. StackIn'
    BY <2>1, <2>2, <2>3, <2>4, <2>o DEF OwnedInv, GivenIn, StackIn, HeldIn, CountReady,
       Holds, Stacked
  <2>7. StackOnce'
    BY <2>1, <2>2, <2>3, <2>4, <2>o DEF OwnedInv, StackOnce, HeldIn, CountReady, Holds, Stacked
  <2>8. HeldIn'
    BY <2>1, <2>2, <2>3, <2>4, <2>o DEF OwnedInv, GivenIn, StackIn, StackOnce, HeldIn,
       HeldOnce, CountReady, Holds, Stacked
  <2>9. HeldOnce'
    BY <2>1, <2>2, <2>3, <2>4, <2>o DEF OwnedInv, GivenIn, StackIn, HeldIn, HeldOnce,
       Holds, Stacked
  <2>10. NoneLost'
    BY <2>1, <2>2, <2>3, <2>4, <2>o DEF OwnedInv, StackIn, NoneLost, CountReady,
       Holds, Stacked
  <2>11. CountReady'
    BY <2>1, <2>2, <2>3, <2>4, <2>o DEF OwnedInv, CountReady, Holds, Stacks
  <2> QED
    BY <2>5, <2>6, <2>7, <2>8, <2>9, <2>10, <2>11 DEF OwnedInv
<1>6. ASSUME NEW t \in Threads, AddIndexes(t) PROVE OwnedInv'
  <2>1. UNCHANGED <<given, indexes, structure_freed, structures_freed>>
    BY <1>6 DEF AddIndexes
  <2>2. \A u \in Threads : /\ Holds(u)' <=> Holds(u)
                           /\ Holds(u) => l_i'[u] = l_i[u]
                           /\ l_pc'[u] = "count" => l_pc[u] = "count"
    BY <1>6 DEF AddIndexes, Holds
  <2> QED
    BY <2>1, <2>2, OwnerKept
<1>7. ASSUME NEW t \in Threads, AddReturns(t) PROVE OwnedInv'
  <2>1. /\ l_pc[t] = "added"
        /\ UNCHANGED <<indexes, structure_freed, structures_freed>>
        /\ given' = given \union {l_i[t]}
    BY <1>7 DEF AddReturns
  <2>2. \A u \in Threads : /\ l_pc'[u] = IF u = t THEN "idle" ELSE l_pc[u]
                           /\ l_i'[u] = IF u = t THEN 0 ELSE l_i[u]
    BY <1>7 DEF AddReturns
  <2>3. \A u \in Threads \ {t} : ~(Adds(u) /\ Adds(t)) /\ ~(Stacks(u) /\ Stacks(t))
    BY DEF LockInv
  <2>4. /\ structures_freed \in 0 .. MaxHandles /\ indexes \in 0 .. MaxHandles
        /\ given \in SUBSET (1 .. MaxHandles)
    OBVIOUS
  <2> HIDE DEF LInv, ListTypeOK, LockInv, lists, arrays, stack, listLocks, LGoto
  <2>o. OwnedInv
    BY DEF LInv
  <2>5. GivenIn'
    BY <2>1, <2>2, <2>3, <2>4, <2>o DEF OwnedInv, GivenIn, HeldIn, Holds
  <2>6. StackIn'
    BY <2>1, <2>2, <2>3, <2>4, <2>o DEF OwnedInv, GivenIn, StackIn, HeldIn, CountReady,
       Holds, Stacked
  <2>7. StackOnce'
    BY <2>1, <2>2, <2>3, <2>4, <2>o DEF OwnedInv, StackOnce, HeldIn, CountReady, Holds, Stacked
  <2>8. HeldIn'
    BY <2>1, <2>2, <2>3, <2>4, <2>o DEF OwnedInv, GivenIn, StackIn, StackOnce, HeldIn,
       HeldOnce, CountReady, Holds, Stacked
  <2>9. HeldOnce'
    BY <2>1, <2>2, <2>3, <2>4, <2>o DEF OwnedInv, GivenIn, StackIn, HeldIn, HeldOnce,
       Holds, Stacked
  <2>10. NoneLost'
    BY <2>1, <2>2, <2>3, <2>4, <2>o DEF OwnedInv, StackIn, NoneLost, CountReady,
       Holds, Stacked
  <2>11. CountReady'
    BY <2>1, <2>2, <2>3, <2>4, <2>o DEF OwnedInv, CountReady, Holds, Stacks
  <2> QED
    BY <2>5, <2>6, <2>7, <2>8, <2>9, <2>10, <2>11 DEF OwnedInv
<1>8. ASSUME NEW t \in Threads, RemoveStores(t) PROVE OwnedInv'
  <2>1. /\ l_pc[t] = "remove"
        /\ UNCHANGED <<indexes, given, structures_freed>>
        /\ structures_freed < MaxHandles
        /\ \A n \in 1 .. MaxHandles :
              structure_freed'[n] = IF n = structures_freed + 1 THEN l_i[t] ELSE structure_freed[n]
    BY <1>8, StackHasRoom DEF RemoveStores, Holds
  <2>2. \A u \in Threads : /\ l_pc'[u] = IF u = t THEN "count" ELSE l_pc[u]
                           /\ l_i'[u] = l_i[u]
    BY <1>8 DEF RemoveStores
  <2>3. \A u \in Threads \ {t} : ~(Adds(u) /\ Adds(t)) /\ ~(Stacks(u) /\ Stacks(t))
    BY DEF LockInv
  <2>4. /\ structures_freed \in 0 .. MaxHandles /\ indexes \in 0 .. MaxHandles
        /\ given \in SUBSET (1 .. MaxHandles)
    OBVIOUS
  <2> HIDE DEF LInv, ListTypeOK, LockInv, lists, arrays, stack, listLocks, LGoto
  <2>o. OwnedInv
    BY DEF LInv
  <2>5. GivenIn'
    BY <2>1, <2>2, <2>3, <2>4, <2>o DEF OwnedInv, GivenIn, HeldIn, Holds
  <2>6. StackIn'
    BY <2>1, <2>2, <2>3, <2>4, <2>o DEF OwnedInv, GivenIn, StackIn, HeldIn, CountReady,
       Holds, Stacked
  <2>7. StackOnce'
    BY <2>1, <2>2, <2>3, <2>4, <2>o DEF OwnedInv, StackOnce, HeldIn, CountReady, Holds, Stacked
  <2>8. HeldIn'
    BY <2>1, <2>2, <2>3, <2>4, <2>o DEF OwnedInv, GivenIn, StackIn, StackOnce, HeldIn,
       HeldOnce, CountReady, Holds, Stacked
  <2>9. HeldOnce'
    BY <2>1, <2>2, <2>3, <2>4, <2>o DEF OwnedInv, GivenIn, StackIn, HeldIn, HeldOnce,
       Holds, Stacked
  <2>10. NoneLost'
    BY <2>1, <2>2, <2>3, <2>4, <2>o DEF OwnedInv, StackIn, NoneLost, CountReady,
       Holds, Stacked
  <2>11. CountReady'
    BY <2>1, <2>2, <2>3, <2>4, <2>o DEF OwnedInv, CountReady, Holds, Stacks
  <2> QED
    BY <2>5, <2>6, <2>7, <2>8, <2>9, <2>10, <2>11 DEF OwnedInv
<1>9. ASSUME NEW t \in Threads, RemoveCounts(t) PROVE OwnedInv'
  <2>1. /\ l_pc[t] = "count"
        /\ UNCHANGED <<indexes, given, structure_freed>>
        /\ structures_freed < MaxHandles
        /\ structures_freed' = structures_freed + 1
        /\ structure_freed[structures_freed + 1] = l_i[t]
    BY <1>9 DEF RemoveCounts, OwnedInv, CountReady
  <2>2. \A u \in Threads : /\ l_pc'[u] = IF u = t THEN "idle" ELSE l_pc[u]
                           /\ l_i'[u] = IF u = t THEN 0 ELSE l_i[u]
    BY <1>9 DEF RemoveCounts
  <2>3. \A u \in Threads \ {t} : ~(Adds(u) /\ Adds(t)) /\ ~(Stacks(u) /\ Stacks(t))
    BY DEF LockInv
  <2>4. /\ structures_freed \in 0 .. MaxHandles /\ indexes \in 0 .. MaxHandles
        /\ given \in SUBSET (1 .. MaxHandles)
    OBVIOUS
  <2> HIDE DEF LInv, ListTypeOK, LockInv, lists, arrays, stack, listLocks, LGoto
  <2>o. OwnedInv
    BY DEF LInv
  <2>5. GivenIn'
    BY <2>1, <2>2, <2>3, <2>4, <2>o DEF OwnedInv, GivenIn, HeldIn, Holds
  <2>6. StackIn'
    BY <2>1, <2>2, <2>3, <2>4, <2>o DEF OwnedInv, GivenIn, StackIn, HeldIn, CountReady,
       Holds, Stacked
  <2>7. StackOnce'
    BY <2>1, <2>2, <2>3, <2>4, <2>o DEF OwnedInv, StackOnce, HeldIn, CountReady, Holds, Stacked
  <2>8. HeldIn'
    BY <2>1, <2>2, <2>3, <2>4, <2>o DEF OwnedInv, GivenIn, StackIn, StackOnce, HeldIn,
       HeldOnce, CountReady, Holds, Stacked
  <2>9. HeldOnce'
    BY <2>1, <2>2, <2>3, <2>4, <2>o DEF OwnedInv, GivenIn, StackIn, HeldIn, HeldOnce,
       Holds, Stacked
  <2>10. NoneLost'
    BY <2>1, <2>2, <2>3, <2>4, <2>o DEF OwnedInv, StackIn, NoneLost, CountReady,
       Holds, Stacked
  <2>11. CountReady'
    BY <2>1, <2>2, <2>3, <2>4, <2>o DEF OwnedInv, CountReady, Holds, Stacks
  <2> QED
    BY <2>5, <2>6, <2>7, <2>8, <2>9, <2>10, <2>11 DEF OwnedInv
<1>10. ASSUME NEW t \in Threads, GetReads(t) PROVE OwnedInv'
  <2>1. UNCHANGED <<given, indexes, structure_freed, structures_freed>>
    BY <1>10 DEF GetReads
  <2>2. \A u \in Threads : /\ Holds(u)' <=> Holds(u)
                           /\ Holds(u) => l_i'[u] = l_i[u]
                           /\ l_pc'[u] = "count" => l_pc[u] = "count"
    BY <1>10 DEF GetReads, Holds
  <2> QED
    BY <2>1, <2>2, OwnerKept
<1>11. ASSUME NEW t \in Threads, NEW i \in 1 .. MaxHandles, RemoveLocks(t, i) PROVE OwnedInv'
  <2>1. /\ l_pc[t] = "idle"
        /\ UNCHANGED <<indexes, structure_freed, structures_freed>>
        /\ given' = given \ {i} /\ i \in given
    BY <1>11 DEF RemoveLocks
  <2>2. \A u \in Threads : /\ l_pc'[u] = IF u = t THEN "remove" ELSE l_pc[u]
                           /\ l_i'[u] = IF u = t THEN i ELSE l_i[u]
    BY <1>11 DEF RemoveLocks
  <2>3. \A u \in Threads \ {t} : ~(Adds(u) /\ Adds(t)) /\ ~(Stacks(u) /\ Stacks(t))
    BY DEF LockInv
  <2>4. /\ structures_freed \in 0 .. MaxHandles /\ indexes \in 0 .. MaxHandles
        /\ given \in SUBSET (1 .. MaxHandles)
    OBVIOUS
  <2> HIDE DEF LInv, ListTypeOK, LockInv, lists, arrays, stack, listLocks, LGoto
  <2>o. OwnedInv
    BY DEF LInv
  <2>5. GivenIn'
    BY <2>1, <2>2, <2>3, <2>4, <2>o DEF OwnedInv, GivenIn, HeldIn, Holds
  <2>6. StackIn'
    BY <2>1, <2>2, <2>3, <2>4, <2>o DEF OwnedInv, GivenIn, StackIn, HeldIn, CountReady,
       Holds, Stacked
  <2>7. StackOnce'
    BY <2>1, <2>2, <2>3, <2>4, <2>o DEF OwnedInv, StackOnce, HeldIn, CountReady, Holds, Stacked
  <2>8. HeldIn'
    BY <2>1, <2>2, <2>3, <2>4, <2>o DEF OwnedInv, GivenIn, StackIn, StackOnce, HeldIn,
       HeldOnce, CountReady, Holds, Stacked
  <2>9. HeldOnce'
    BY <2>1, <2>2, <2>3, <2>4, <2>o DEF OwnedInv, GivenIn, StackIn, HeldIn, HeldOnce,
       Holds, Stacked
  <2>10. NoneLost'
    BY <2>1, <2>2, <2>3, <2>4, <2>o DEF OwnedInv, StackIn, NoneLost, CountReady,
       Holds, Stacked
  <2>11. CountReady'
    BY <2>1, <2>2, <2>3, <2>4, <2>o DEF OwnedInv, CountReady, Holds, Stacks
  <2> QED
    BY <2>5, <2>6, <2>7, <2>8, <2>9, <2>10, <2>11 DEF OwnedInv
<1>12. ASSUME NEW t \in Threads, NEW i \in 1 .. MaxHandles, GetTakes(t, i) PROVE OwnedInv'
  <2>1. UNCHANGED <<given, indexes, structure_freed, structures_freed>>
    BY <1>12 DEF GetTakes
  <2>2. \A u \in Threads : /\ Holds(u)' <=> Holds(u)
                           /\ Holds(u) => l_i'[u] = l_i[u]
                           /\ l_pc'[u] = "count" => l_pc[u] = "count"
    BY <1>12 DEF GetTakes, Holds
  <2> QED
    BY <2>1, <2>2, OwnerKept
<1>13. CASE UNCHANGED listVars
  BY <1>13, OwnerKept DEF listVars, Holds
<1> QED
  BY <1>1, <1>2, <1>3, <1>4, <1>5, <1>6, <1>7, <1>8, <1>9, <1>10, <1>11, <1>12, <1>13 DEF ListNext

LEMMA FlagStep == LInv /\ [ListNext]_listVars => FlagInv'
<1> SUFFICES ASSUME LInv, [ListNext]_listVars PROVE FlagInv'
  OBVIOUS
<1> USE ListAssumption DEF lists, arrays, stack, listLocks, LGoto, LInv, ListTypeOK
<1>1. ASSUME NEW t \in Threads, AddLocks(t) PROVE FlagInv'
  <2>1. UNCHANGED <<flags, given>>
    BY <1>1 DEF AddLocks
  <2>2. \A u \in Threads : /\ Marks(u)' <=> Marks(u)
                           /\ Marks(u) => l_i'[u] = l_i[u]
    BY <1>1 DEF AddLocks, Marks
  <2> QED
    BY <2>1, <2>2, FlagKept
<1>2. ASSUME NEW t \in Threads, AddChooses(t) PROVE FlagInv'
  <2>1. UNCHANGED <<flags, given>>
    BY <1>2 DEF AddChooses
  <2>2. \A u \in Threads : /\ Marks(u)' <=> Marks(u)
                           /\ Marks(u) => l_i'[u] = l_i[u]
    BY <1>2 DEF AddChooses, Marks
  <2> QED
    BY <2>1, <2>2, FlagKept
<1>3. ASSUME NEW t \in Threads, AddPops(t) PROVE FlagInv'
  <2>1. UNCHANGED <<flags, given>>
    BY <1>3 DEF AddPops
  <2>2. \A u \in Threads : /\ Marks(u)' <=> Marks(u)
                           /\ Marks(u) => l_i'[u] = l_i[u]
    BY <1>3 DEF AddPops, Marks
  <2> QED
    BY <2>1, <2>2, FlagKept
<1>4. ASSUME NEW t \in Threads, AddFlags(t) PROVE FlagInv'
  <2> DEFINE h == l_i[t]
  <2>1. /\ l_pc[t] = "flag" /\ given' = given /\ flags' = flags \union {l_i[t]}
        /\ \A u \in Threads : /\ l_pc'[u] = IF u = t THEN "added" ELSE l_pc[u]
                              /\ l_i'[u] = l_i[u]
    BY <1>4 DEF AddFlags
  <2> HIDE DEF LInv, ListTypeOK, lists, arrays, stack, listLocks, LGoto
  <2> SUFFICES ASSUME NEW j \in 1 .. MaxHandles
               PROVE  j \in flags' <=> j \in given' \/ \E u \in Threads : Marks(u)' /\ l_i'[u] = j
    BY DEF FlagInv
  <2>2. j \in flags <=> j \in given \/ \E u \in Threads : Marks(u) /\ l_i[u] = j
    BY DEF FlagInv, LInv
  <2>3. ~Marks(t) /\ Marks(t)' /\ \A u \in Threads \ {t} : Marks(u)' <=> Marks(u)
    BY <2>1 DEF Marks
  <2>4. CASE j = h
    BY <2>1, <2>2, <2>3, <2>4
  <2>5. CASE j # h
    <3>1. (\E u \in Threads : Marks(u)' /\ l_i'[u] = j)
              <=> \E u \in Threads : Marks(u) /\ l_i[u] = j
      BY <2>1, <2>3, <2>5
    <3> QED
      BY <2>1, <2>2, <2>5, <3>1
  <2> QED
    BY <2>4, <2>5
<1>5. ASSUME NEW t \in Threads, AddCounts(t) PROVE FlagInv'
  <2> DEFINE h == indexes + 1
  <2>1. /\ l_pc[t] = "grow" /\ given' = given /\ flags' = flags \union {indexes + 1}
        /\ \A u \in Threads : /\ l_pc'[u] = IF u = t THEN "index" ELSE l_pc[u]
                              /\ l_i'[u] = IF u = t THEN indexes + 1 ELSE l_i[u]
    BY <1>5 DEF AddCounts
  <2> HIDE DEF LInv, ListTypeOK, lists, arrays, stack, listLocks, LGoto
  <2> SUFFICES ASSUME NEW j \in 1 .. MaxHandles
               PROVE  j \in flags' <=> j \in given' \/ \E u \in Threads : Marks(u)' /\ l_i'[u] = j
    BY DEF FlagInv
  <2>2. j \in flags <=> j \in given \/ \E u \in Threads : Marks(u) /\ l_i[u] = j
    BY DEF FlagInv, LInv
  <2>3. ~Marks(t) /\ Marks(t)' /\ \A u \in Threads \ {t} : Marks(u)' <=> Marks(u)
    BY <2>1 DEF Marks
  <2>4. CASE j = h
    BY <2>1, <2>2, <2>3, <2>4
  <2>5. CASE j # h
    <3>1. (\E u \in Threads : Marks(u)' /\ l_i'[u] = j)
              <=> \E u \in Threads : Marks(u) /\ l_i[u] = j
      BY <2>1, <2>3, <2>5
    <3> QED
      BY <2>1, <2>2, <2>5, <3>1
  <2> QED
    BY <2>4, <2>5
<1>6. ASSUME NEW t \in Threads, AddIndexes(t) PROVE FlagInv'
  <2>1. UNCHANGED <<flags, given>>
    BY <1>6 DEF AddIndexes
  <2>2. \A u \in Threads : /\ Marks(u)' <=> Marks(u)
                           /\ Marks(u) => l_i'[u] = l_i[u]
    <3>1. l_pc[t] = "index" /\ l_pc' = [l_pc EXCEPT ![t] = "added"] /\ l_i' = l_i
      BY <1>6, Zenon DEF AddIndexes
    <3> QED
      BY <3>1 DEF Marks
  <2> QED
    BY <2>1, <2>2, FlagKept
<1>7. ASSUME NEW t \in Threads, AddReturns(t) PROVE FlagInv'
  <2> DEFINE h == l_i[t]
  <2>1. /\ l_pc[t] = "added" /\ flags' = flags /\ given' = given \union {l_i[t]}
        /\ \A u \in Threads : /\ l_pc'[u] = IF u = t THEN "idle" ELSE l_pc[u]
                              /\ l_i'[u] = IF u = t THEN 0 ELSE l_i[u]
    BY <1>7 DEF AddReturns
  <2> HIDE DEF LInv, ListTypeOK, lists, arrays, stack, listLocks, LGoto
  <2> SUFFICES ASSUME NEW j \in 1 .. MaxHandles
               PROVE  j \in flags' <=> j \in given' \/ \E u \in Threads : Marks(u)' /\ l_i'[u] = j
    BY DEF FlagInv
  <2>2. j \in flags <=> j \in given \/ \E u \in Threads : Marks(u) /\ l_i[u] = j
    BY DEF FlagInv, LInv
  <2>3. Marks(t) /\ ~Marks(t)' /\ \A u \in Threads \ {t} : Marks(u)' <=> Marks(u)
    BY <2>1 DEF Marks
  <2>4. CASE j = h
    BY <2>1, <2>2, <2>3, <2>4
  <2>5. CASE j # h
    <3>1. (\E u \in Threads : Marks(u)' /\ l_i'[u] = j)
              <=> \E u \in Threads : Marks(u) /\ l_i[u] = j
      BY <2>1, <2>3, <2>5
    <3> QED
      BY <2>1, <2>2, <2>5, <3>1
  <2> QED
    BY <2>4, <2>5
<1>8. ASSUME NEW t \in Threads, RemoveStores(t) PROVE FlagInv'
  <2> DEFINE h == l_i[t]
  <2>1. /\ l_pc[t] = "remove" /\ given' = given /\ flags' = flags \ {l_i[t]}
        /\ \A u \in Threads : /\ l_pc'[u] = IF u = t THEN "count" ELSE l_pc[u]
                              /\ l_i'[u] = l_i[u]
    BY <1>8 DEF RemoveStores
  <2> HIDE DEF LInv, ListTypeOK, lists, arrays, stack, listLocks, LGoto
  <2> SUFFICES ASSUME NEW j \in 1 .. MaxHandles
               PROVE  j \in flags' <=> j \in given' \/ \E u \in Threads : Marks(u)' /\ l_i'[u] = j
    BY DEF FlagInv
  <2>2. j \in flags <=> j \in given \/ \E u \in Threads : Marks(u) /\ l_i[u] = j
    BY DEF FlagInv, LInv
  <2>3. Marks(t) /\ ~Marks(t)' /\ \A u \in Threads \ {t} : Marks(u)' <=> Marks(u)
    BY <2>1 DEF Marks
  <2>4. CASE j = h
    <3>1. Holds(t) /\ \A u \in Threads : Marks(u) => Holds(u)
      BY <2>1 DEF Holds, Marks
    <3>2. l_i[t] \notin given /\ \A u \in Threads \ {t} : Marks(u) => l_i[u] # l_i[t]
      BY <3>1 DEF LInv, OwnedInv, HeldIn, HeldOnce
    <3> QED
      BY <2>1, <2>3, <2>4, <3>2
  <2>5. CASE j # h
    <3>1. (\E u \in Threads : Marks(u)' /\ l_i'[u] = j)
              <=> \E u \in Threads : Marks(u) /\ l_i[u] = j
      BY <2>1, <2>3, <2>5
    <3> QED
      BY <2>1, <2>2, <2>5, <3>1
  <2> QED
    BY <2>4, <2>5
<1>9. ASSUME NEW t \in Threads, RemoveCounts(t) PROVE FlagInv'
  <2>1. UNCHANGED <<flags, given>>
    BY <1>9 DEF RemoveCounts
  <2>2. \A u \in Threads : /\ Marks(u)' <=> Marks(u)
                           /\ Marks(u) => l_i'[u] = l_i[u]
    BY <1>9 DEF RemoveCounts, Marks
  <2> QED
    BY <2>1, <2>2, FlagKept
<1>10. ASSUME NEW t \in Threads, GetReads(t) PROVE FlagInv'
  <2>1. UNCHANGED <<flags, given>>
    BY <1>10 DEF GetReads
  <2>2. \A u \in Threads : /\ Marks(u)' <=> Marks(u)
                           /\ Marks(u) => l_i'[u] = l_i[u]
    BY <1>10 DEF GetReads, Marks
  <2> QED
    BY <2>1, <2>2, FlagKept
<1>11. ASSUME NEW t \in Threads, NEW i \in 1 .. MaxHandles, RemoveLocks(t, i) PROVE FlagInv'
  <2> DEFINE h == i
  <2>1. /\ l_pc[t] = "idle" /\ i \in given /\ flags' = flags /\ given' = given \ {i}
        /\ \A u \in Threads : /\ l_pc'[u] = IF u = t THEN "remove" ELSE l_pc[u]
                              /\ l_i'[u] = IF u = t THEN i ELSE l_i[u]
    BY <1>11 DEF RemoveLocks
  <2> HIDE DEF LInv, ListTypeOK, lists, arrays, stack, listLocks, LGoto
  <2> SUFFICES ASSUME NEW j \in 1 .. MaxHandles
               PROVE  j \in flags' <=> j \in given' \/ \E u \in Threads : Marks(u)' /\ l_i'[u] = j
    BY DEF FlagInv
  <2>2. j \in flags <=> j \in given \/ \E u \in Threads : Marks(u) /\ l_i[u] = j
    BY DEF FlagInv, LInv
  <2>3. ~Marks(t) /\ Marks(t)' /\ \A u \in Threads \ {t} : Marks(u)' <=> Marks(u)
    BY <2>1 DEF Marks
  <2>4. CASE j = h
    BY <2>1, <2>2, <2>3, <2>4
  <2>5. CASE j # h
    <3>1. (\E u \in Threads : Marks(u)' /\ l_i'[u] = j)
              <=> \E u \in Threads : Marks(u) /\ l_i[u] = j
      BY <2>1, <2>3, <2>5
    <3> QED
      BY <2>1, <2>2, <2>5, <3>1
  <2> QED
    BY <2>4, <2>5
<1>12. ASSUME NEW t \in Threads, NEW i \in 1 .. MaxHandles, GetTakes(t, i) PROVE FlagInv'
  <2>1. UNCHANGED <<flags, given>>
    BY <1>12 DEF GetTakes
  <2>2. \A u \in Threads : /\ Marks(u)' <=> Marks(u)
                           /\ Marks(u) => l_i'[u] = l_i[u]
    BY <1>12 DEF GetTakes, Marks
  <2> QED
    BY <2>1, <2>2, FlagKept
<1>13. CASE UNCHANGED listVars
  BY <1>13, FlagKept DEF listVars, Marks
<1> QED
  BY <1>1, <1>2, <1>3, <1>4, <1>5, <1>6, <1>7, <1>8, <1>9, <1>10, <1>11, <1>12, <1>13 DEF ListNext

LEMMA IndexStep == LInv /\ [ListNext]_listVars => IndexInv'
<1> SUFFICES ASSUME LInv, [ListNext]_listVars PROVE IndexInv'
  OBVIOUS
<1> USE ListAssumption DEF lists, arrays, stack, listLocks, LGoto, LInv, ListTypeOK
<1>1. ASSUME NEW t \in Threads, AddLocks(t) PROVE IndexInv'
  <2>1. UNCHANGED <<indexes, index, index_freed, l_growths>>
    BY <1>1 DEF AddLocks
  <2>2. \A u \in Threads : /\ l_pc'[u] = "index" <=> l_pc[u] = "index"
                           /\ Inside(u)' <=> Inside(u)
                           /\ l_pc[u] = "index" => l_i'[u] = l_i[u]
                           /\ Inside(u) => l_i'[u] = l_i[u] /\ l_index'[u] = l_index[u]
    BY <1>1 DEF AddLocks, Inside
  <2> QED
    BY <2>1, <2>2, IndexKept DEF LInv
<1>2. ASSUME NEW t \in Threads, AddChooses(t) PROVE IndexInv'
  <2>1. UNCHANGED <<indexes, index, index_freed, l_growths>>
    BY <1>2 DEF AddChooses
  <2>2. \A u \in Threads : /\ l_pc'[u] = "index" <=> l_pc[u] = "index"
                           /\ Inside(u)' <=> Inside(u)
                           /\ l_pc[u] = "index" => l_i'[u] = l_i[u]
                           /\ Inside(u) => l_i'[u] = l_i[u] /\ l_index'[u] = l_index[u]
    BY <1>2 DEF AddChooses, Inside
  <2> QED
    BY <2>1, <2>2, IndexKept DEF LInv
<1>3. ASSUME NEW t \in Threads, AddPops(t) PROVE IndexInv'
  <2>1. UNCHANGED <<indexes, index, index_freed, l_growths>>
    BY <1>3 DEF AddPops
  <2>2. \A u \in Threads : /\ l_pc'[u] = "index" <=> l_pc[u] = "index"
                           /\ Inside(u)' <=> Inside(u)
                           /\ l_pc[u] = "index" => l_i'[u] = l_i[u]
                           /\ Inside(u) => l_i'[u] = l_i[u] /\ l_index'[u] = l_index[u]
    BY <1>3 DEF AddPops, Inside
  <2> QED
    BY <2>1, <2>2, IndexKept DEF LInv
<1>4. ASSUME NEW t \in Threads, AddFlags(t) PROVE IndexInv'
  <2>1. UNCHANGED <<indexes, index, index_freed, l_growths>>
    BY <1>4 DEF AddFlags
  <2>2. \A u \in Threads : /\ l_pc'[u] = "index" <=> l_pc[u] = "index"
                           /\ Inside(u)' <=> Inside(u)
                           /\ l_pc[u] = "index" => l_i'[u] = l_i[u]
                           /\ Inside(u) => l_i'[u] = l_i[u] /\ l_index'[u] = l_index[u]
    BY <1>4 DEF AddFlags, Inside
  <2> QED
    BY <2>1, <2>2, IndexKept DEF LInv
<1>5. ASSUME NEW t \in Threads, AddCounts(t) PROVE IndexInv'
  <2>1. /\ l_pc[t] = "grow" /\ indexes' = indexes + 1
        /\ UNCHANGED <<index, index_freed, l_growths, l_index>>
        /\ \A u \in Threads : /\ l_pc'[u] = IF u = t THEN "index" ELSE l_pc[u]
                              /\ l_i'[u] = IF u = t THEN indexes + 1 ELSE l_i[u]
    BY <1>5 DEF AddCounts
  <2>2. indexes \in Nat
    BY ListAssumption
  <2>i. IndexInv
    BY DEF LInv
  <2> HIDE DEF LInv, ListTypeOK, lists, arrays, stack, listLocks, LGoto
  <2>3. \A j \in 1 .. indexes' : \/ j \in index'[Len(index')]
                                \/ \E u \in Threads : l_pc'[u] = "index" /\ l_i'[u] = j
    <3> SUFFICES ASSUME NEW j \in 1 .. indexes', j \notin index[Len(index)]
                 PROVE  \E u \in Threads : l_pc'[u] = "index" /\ l_i'[u] = j
      BY <2>1
    <3>1. CASE j = indexes + 1
      BY <2>1, <3>1
    <3>2. CASE j \in 1 .. indexes
      <4>1. PICK u \in Threads : l_pc[u] = "index" /\ l_i[u] = j
        BY <2>i, <3>2 DEF IndexInv
      <4> QED
        BY <2>1, <4>1
    <3> QED
      BY <2>1, <2>2, <3>1, <3>2
  <2>4. \A u \in Threads : /\ Inside(u)' <=> Inside(u)
                           /\ Inside(u) => l_i'[u] = l_i[u]
    BY <2>1 DEF Inside
  <2>5. \A u \in Threads : Inside(u)' => /\ l_index'[u] \in 1 .. Len(index')
                                        /\ l_index'[u] = Len(index') - l_growths'[u]
                                        /\ l_i'[u] \in index'[l_index'[u]]
    BY <2>1, <2>4, <2>i DEF IndexInv
  <2>6. /\ \A u \in Threads : ~Inside(u)' => l_growths'[u] = 0
        /\ \A u \in Threads : l_growths'[u] <= MaxGrowths
        /\ \A n \in index_freed' : n <= Len(index') - 2
    BY <2>1, <2>4, <2>i DEF IndexInv
  <2> QED
    BY <2>3, <2>5, <2>6 DEF IndexInv
<1>6. ASSUME NEW t \in Threads, AddIndexes(t) PROVE IndexInv'
  <2> DEFINE known == index[Len(index)] \union {l_i[t]}
  <2>1. l_i[t] \in 1 .. MaxHandles /\ indexes \in 0 .. MaxHandles
    BY <1>6, ListAssumption DEF AddIndexes, OwnedInv, HeldIn, Holds
  <2>0. ListTypeOK
    BY DEF LInv
  <2> HIDE DEF LInv, ListTypeOK, lists, arrays, stack, listLocks, LGoto
  <2>2. known \in SUBSET (1 .. MaxHandles) /\ Len(index) \in Nat \ {0}
    <3>1. Len(index) \in Nat \ {0} /\ index[Len(index)] \in SUBSET (1 .. MaxHandles)
      BY <2>0, LastIndex
    <3> QED
      BY <2>1, <3>1
  <2>3. /\ l_pc[t] = "index" /\ l_pc' = [l_pc EXCEPT ![t] = "added"]
        /\ UNCHANGED <<indexes, flags, structure_freed, structures_freed, lock_add, lock_remove,
                       l_i, l_index, given>>
    BY <1>6, Zenon DEF AddIndexes, lists, arrays, stack, listLocks, LGoto
  <2>4. \/ /\ index' = Append(index, known)
           /\ \A u \in Threads : Inside(u) => l_growths[u] < MaxGrowths
           /\ index_freed' = index_freed \union ({Len(index) - 1} \ {0})
           /\ indexes_last' = 2 * indexes_last + 1
           /\ l_growths' = [u \in Threads |-> IF Inside(u) THEN l_growths[u] + 1 ELSE 0]
        \/ /\ index' = [index EXCEPT ![Len(index)] = known]
           /\ UNCHANGED <<index_freed, indexes_last, l_growths>>
    BY <1>6, Zenon DEF AddIndexes, NewIndex, lists, arrays, stack, listLocks, LGoto
  <2>a. \A u \in Threads : l_pc[u] = "index" => u = t
    BY <2>3 DEF LInv, LockInv, Adds
  <2>b. \A u \in Threads : l_pc'[u] = IF u = t THEN "added" ELSE l_pc[u]
    BY <2>0, <2>3 DEF ListTypeOK
  <2>c. /\ l_growths \in [Threads -> Nat] /\ index_freed \in SUBSET Nat
        /\ \A u \in Threads : l_index[u] \in Nat
    BY <2>0 DEF ListTypeOK
  <2>i. IndexInv
    BY DEF LInv
  <2>d. index \in Seq(SUBSET (1 .. MaxHandles)) /\ MaxGrowths \in Nat
    BY <2>0 DEF ListTypeOK
  <2>5. \A u \in Threads : Inside(u)' <=> Inside(u)
    BY <2>3, <2>b DEF Inside
  <2>6. \A j \in 1 .. indexes : j \in known
    BY <2>a, <2>i DEF IndexInv
  <2>k. index[Len(index)] \subseteq known
    OBVIOUS
  <2> HIDE DEF known
  <2>7. CASE /\ index' = Append(index, known)
             /\ \A u \in Threads : Inside(u) => l_growths[u] < MaxGrowths
             /\ index_freed' = index_freed \union ({Len(index) - 1} \ {0})
             /\ l_growths' = [u \in Threads |-> IF Inside(u) THEN l_growths[u] + 1 ELSE 0]
    <3>1. /\ Len(index') = Len(index) + 1 /\ index'[Len(index')] = known
          /\ \A n \in 1 .. Len(index) : index'[n] = index[n]
      BY <2>2, <2>7, <2>d
    <3>2. \A j \in 1 .. indexes' : j \in index'[Len(index')]
      BY <2>3, <2>6, <3>1
    <3>3. \A u \in Threads : Inside(u)' => /\ l_index'[u] \in 1 .. Len(index')
                                          /\ l_index'[u] = Len(index') - l_growths'[u]
                                          /\ l_i'[u] \in index'[l_index'[u]]
      <4> SUFFICES ASSUME NEW u \in Threads, Inside(u)
                   PROVE  /\ l_index[u] \in 1 .. Len(index')
                          /\ l_index[u] = Len(index') - l_growths'[u]
                          /\ l_i[u] \in index'[l_index[u]]
        BY <2>3, <2>5
      <4>1. /\ l_index[u] \in 1 .. Len(index) /\ l_index[u] = Len(index) - l_growths[u]
            /\ l_i[u] \in index[l_index[u]] /\ l_growths'[u] = l_growths[u] + 1
            /\ l_growths[u] \in Nat
        BY <2>7, <2>c, <2>i DEF IndexInv
      <4> QED
        BY <2>2, <3>1, <4>1
    <3>4. /\ \A u \in Threads : ~Inside(u)' => l_growths'[u] = 0
          /\ \A u \in Threads : l_growths'[u] <= MaxGrowths
      BY <2>5, <2>7, <2>c, <2>d DEF IndexInv
    <3>5. \A n \in index_freed' : n <= Len(index') - 2
      BY <2>2, <2>7, <2>c, <2>i, <3>1 DEF IndexInv
    <3> QED
      BY <3>2, <3>3, <3>4, <3>5 DEF IndexInv
  <2>8. CASE /\ index' = [index EXCEPT ![Len(index)] = known]
             /\ UNCHANGED <<index_freed, l_growths>>
    <3>1. /\ Len(index') = Len(index) /\ index'[Len(index')] = known
          /\ \A n \in 1 .. Len(index) : index[n] \subseteq index'[n]
      BY <2>2, <2>8, <2>d, <2>k
    <3>2. \A j \in 1 .. indexes' : j \in index'[Len(index')]
      BY <2>3, <2>6, <3>1
    <3>3. \A u \in Threads : Inside(u)' => /\ l_index'[u] \in 1 .. Len(index')
                                          /\ l_index'[u] = Len(index') - l_growths'[u]
                                          /\ l_i'[u] \in index'[l_index'[u]]
      BY <2>3, <2>5, <2>8, <2>i, <3>1 DEF IndexInv
    <3>4. /\ \A u \in Threads : ~Inside(u)' => l_growths'[u] = 0
          /\ \A u \in Threads : l_growths'[u] <= MaxGrowths
          /\ \A n \in index_freed' : n <= Len(index') - 2
      BY <2>5, <2>8, <2>i, <3>1 DEF IndexInv
    <3> QED
      BY <3>2, <3>3, <3>4 DEF IndexInv
  <2> QED
    BY <2>4, <2>7, <2>8
<1>7. ASSUME NEW t \in Threads, AddReturns(t) PROVE IndexInv'
  <2>1. UNCHANGED <<indexes, index, index_freed, l_growths>>
    BY <1>7 DEF AddReturns
  <2>2. \A u \in Threads : /\ l_pc'[u] = "index" <=> l_pc[u] = "index"
                           /\ Inside(u)' <=> Inside(u)
                           /\ l_pc[u] = "index" => l_i'[u] = l_i[u]
                           /\ Inside(u) => l_i'[u] = l_i[u] /\ l_index'[u] = l_index[u]
    BY <1>7 DEF AddReturns, Inside
  <2> QED
    BY <2>1, <2>2, IndexKept DEF LInv
<1>8. ASSUME NEW t \in Threads, RemoveStores(t) PROVE IndexInv'
  <2>1. /\ l_pc[t] = "remove" /\ UNCHANGED <<indexes, index, index_freed>>
        /\ \A u \in Threads : /\ l_pc'[u] = IF u = t THEN "count" ELSE l_pc[u]
                              /\ l_i'[u] = l_i[u]
                              /\ l_index'[u] = IF u = t THEN 0 ELSE l_index[u]
                              /\ l_growths'[u] = IF u = t THEN 0 ELSE l_growths[u]
    BY <1>8 DEF RemoveStores
  <2>i. IndexInv
    BY DEF LInv
  <2>m. MaxGrowths \in Nat
    BY ListAssumption
  <2> HIDE DEF LInv, ListTypeOK, lists, arrays, stack, listLocks, LGoto
  <2>4. ~Inside(t)' /\ \A u \in Threads \ {t} : Inside(u)' <=> Inside(u)
    BY <2>1 DEF Inside
  <2>3. \A j \in 1 .. indexes' : \/ j \in index'[Len(index')]
                                \/ \E u \in Threads : l_pc'[u] = "index" /\ l_i'[u] = j
    BY <2>1, <2>i DEF IndexInv
  <2>5. \A u \in Threads : Inside(u)' => /\ l_index'[u] \in 1 .. Len(index')
                                        /\ l_index'[u] = Len(index') - l_growths'[u]
                                        /\ l_i'[u] \in index'[l_index'[u]]
    BY <2>1, <2>4, <2>i DEF IndexInv
  <2>6. /\ \A u \in Threads : ~Inside(u)' => l_growths'[u] = 0
        /\ \A u \in Threads : l_growths'[u] <= MaxGrowths
        /\ \A n \in index_freed' : n <= Len(index') - 2
    BY <2>1, <2>4, <2>i, <2>m DEF IndexInv
  <2> QED
    BY <2>3, <2>5, <2>6 DEF IndexInv
<1>9. ASSUME NEW t \in Threads, RemoveCounts(t) PROVE IndexInv'
  <2>1. UNCHANGED <<indexes, index, index_freed, l_growths>>
    BY <1>9 DEF RemoveCounts
  <2>2. \A u \in Threads : /\ l_pc'[u] = "index" <=> l_pc[u] = "index"
                           /\ Inside(u)' <=> Inside(u)
                           /\ l_pc[u] = "index" => l_i'[u] = l_i[u]
                           /\ Inside(u) => l_i'[u] = l_i[u] /\ l_index'[u] = l_index[u]
    BY <1>9 DEF RemoveCounts, Inside
  <2> QED
    BY <2>1, <2>2, IndexKept DEF LInv
<1>10. ASSUME NEW t \in Threads, GetReads(t) PROVE IndexInv'
  <2>1. /\ l_pc[t] = "get" /\ UNCHANGED <<indexes, index, index_freed>>
        /\ \A u \in Threads : /\ l_pc'[u] = IF u = t THEN "idle" ELSE l_pc[u]
                              /\ l_i'[u] = IF u = t THEN 0 ELSE l_i[u]
                              /\ l_index'[u] = IF u = t THEN 0 ELSE l_index[u]
                              /\ l_growths'[u] = IF u = t THEN 0 ELSE l_growths[u]
    BY <1>10 DEF GetReads
  <2>i. IndexInv
    BY DEF LInv
  <2>m. MaxGrowths \in Nat
    BY ListAssumption
  <2> HIDE DEF LInv, ListTypeOK, lists, arrays, stack, listLocks, LGoto
  <2>4. ~Inside(t)' /\ \A u \in Threads \ {t} : Inside(u)' <=> Inside(u)
    BY <2>1 DEF Inside
  <2>3. \A j \in 1 .. indexes' : \/ j \in index'[Len(index')]
                                \/ \E u \in Threads : l_pc'[u] = "index" /\ l_i'[u] = j
    BY <2>1, <2>i DEF IndexInv
  <2>5. \A u \in Threads : Inside(u)' => /\ l_index'[u] \in 1 .. Len(index')
                                        /\ l_index'[u] = Len(index') - l_growths'[u]
                                        /\ l_i'[u] \in index'[l_index'[u]]
    BY <2>1, <2>4, <2>i DEF IndexInv
  <2>6. /\ \A u \in Threads : ~Inside(u)' => l_growths'[u] = 0
        /\ \A u \in Threads : l_growths'[u] <= MaxGrowths
        /\ \A n \in index_freed' : n <= Len(index') - 2
    BY <2>1, <2>4, <2>i, <2>m DEF IndexInv
  <2> QED
    BY <2>3, <2>5, <2>6 DEF IndexInv
<1>11. ASSUME NEW t \in Threads, NEW i \in 1 .. MaxHandles, RemoveLocks(t, i) PROVE IndexInv'
  <2>1. /\ l_pc[t] = "idle" /\ i \in given
        /\ UNCHANGED <<indexes, index, index_freed, l_growths>>
        /\ \A u \in Threads : /\ l_pc'[u] = IF u = t THEN "remove" ELSE l_pc[u]
                              /\ l_i'[u] = IF u = t THEN i ELSE l_i[u]
                              /\ l_index'[u] = IF u = t THEN Len(index) ELSE l_index[u]
    BY <1>11 DEF RemoveLocks
  <2>2. i \in 1 .. indexes /\ \A u \in Threads : l_pc[u] = "index" => l_i[u] # i
    BY <2>1 DEF LInv, OwnedInv, GivenIn, HeldIn, Holds
  <2>3. i \in index[Len(index)] /\ Len(index) \in Nat \ {0} /\ l_growths[t] = 0
    BY <2>1, <2>2, LastIndex DEF LInv, IndexInv, Inside
  <2>i. IndexInv
    BY DEF LInv
  <2> HIDE DEF LInv, ListTypeOK, lists, arrays, stack, listLocks, LGoto
  <2>4. \A j \in 1 .. indexes' : \/ j \in index'[Len(index')]
                                \/ \E u \in Threads : l_pc'[u] = "index" /\ l_i'[u] = j
    BY <2>1, <2>i DEF IndexInv
  <2>5. \A u \in Threads : Inside(u)' => /\ l_index'[u] \in 1 .. Len(index')
                                        /\ l_index'[u] = Len(index') - l_growths'[u]
                                        /\ l_i'[u] \in index'[l_index'[u]]
    BY <2>1, <2>3, <2>i DEF IndexInv, Inside
  <2>6. /\ \A u \in Threads : ~Inside(u)' => l_growths'[u] = 0
        /\ \A u \in Threads : l_growths'[u] <= MaxGrowths
        /\ \A n \in index_freed' : n <= Len(index') - 2
    BY <2>1, <2>i DEF IndexInv, Inside
  <2> QED
    BY <2>4, <2>5, <2>6 DEF IndexInv
<1>12. ASSUME NEW t \in Threads, NEW i \in 1 .. MaxHandles, GetTakes(t, i) PROVE IndexInv'
  <2>1. /\ l_pc[t] = "idle" /\ i \in given
        /\ UNCHANGED <<indexes, index, index_freed, l_growths>>
        /\ \A u \in Threads : /\ l_pc'[u] = IF u = t THEN "get" ELSE l_pc[u]
                              /\ l_i'[u] = IF u = t THEN i ELSE l_i[u]
                              /\ l_index'[u] = IF u = t THEN Len(index) ELSE l_index[u]
    BY <1>12 DEF GetTakes
  <2>2. i \in 1 .. indexes /\ \A u \in Threads : l_pc[u] = "index" => l_i[u] # i
    BY <2>1 DEF LInv, OwnedInv, GivenIn, HeldIn, Holds
  <2>3. i \in index[Len(index)] /\ Len(index) \in Nat \ {0} /\ l_growths[t] = 0
    BY <2>1, <2>2, LastIndex DEF LInv, IndexInv, Inside
  <2>i. IndexInv
    BY DEF LInv
  <2> HIDE DEF LInv, ListTypeOK, lists, arrays, stack, listLocks, LGoto
  <2>4. \A j \in 1 .. indexes' : \/ j \in index'[Len(index')]
                                \/ \E u \in Threads : l_pc'[u] = "index" /\ l_i'[u] = j
    BY <2>1, <2>i DEF IndexInv
  <2>5. \A u \in Threads : Inside(u)' => /\ l_index'[u] \in 1 .. Len(index')
                                        /\ l_index'[u] = Len(index') - l_growths'[u]
                                        /\ l_i'[u] \in index'[l_index'[u]]
    BY <2>1, <2>3, <2>i DEF IndexInv, Inside
  <2>6. /\ \A u \in Threads : ~Inside(u)' => l_growths'[u] = 0
        /\ \A u \in Threads : l_growths'[u] <= MaxGrowths
        /\ \A n \in index_freed' : n <= Len(index') - 2
    BY <2>1, <2>i DEF IndexInv, Inside
  <2> QED
    BY <2>4, <2>5, <2>6 DEF IndexInv
<1>13. CASE UNCHANGED listVars
  BY <1>13, IndexKept DEF listVars, Inside
<1> QED
  BY <1>1, <1>2, <1>3, <1>4, <1>5, <1>6, <1>7, <1>8, <1>9, <1>10, <1>11, <1>12, <1>13 DEF ListNext

-----------------------------------------------------------------------------

LEMMA InitIsLInv == ListInit => LInv
<1> SUFFICES ASSUME ListInit PROVE LInv
  OBVIOUS
<1> USE ListAssumption DEF ListInit
<1>1. ListTypeOK
  BY DEF ListTypeOK
<1>2. LockInv
  BY DEF LockInv, Adds, Stacks
<1>3. OwnedInv
  BY DEF OwnedInv, GivenIn, StackIn, StackOnce, HeldIn, HeldOnce, NoneLost, CountReady, Holds
<1>4. FlagInv
  BY DEF FlagInv, Marks
<1>5. IndexInv
  BY DEF IndexInv, Inside
<1> QED
  BY <1>1, <1>2, <1>3, <1>4, <1>5 DEF LInv

LEMMA ListInvariant == ListSpec => []LInv
<1>1. LInv /\ [ListNext]_listVars => LInv'
  BY TypeStep, LockStep, OwnerStep, FlagStep, IndexStep DEF LInv
<1> QED
  BY InitIsLInv, <1>1, PTL DEF ListSpec

\* All variables keep their types: the stack has room for each handle that is removed, and the
\* count of handles stays within the index.
THEOREM ListTypeCorrect == ListSpec => []ListTypeOK
<1>1. LInv => ListTypeOK
  BY DEF LInv
<1> QED
  BY ListInvariant, <1>1, PTL

LEMMA AddsAreNew == LInv => AddsNew
BY DEF LInv, OwnedInv, HeldIn, HeldOnce, Holds, AddsNew

LEMMA StackIsExact == LInv => StackExact
<1> DEFINE freed == SubSeq(structure_freed, 1, structures_freed)
           S == 1 .. structures_freed
<1> SUFFICES ASSUME LInv, \A t \in Threads : l_pc[t] \in {"idle", "get"}
             PROVE  /\ IsInjective(freed)
                    /\ Range(freed) = (1 .. indexes) \ given /\ given = flags
  BY Zenon DEF StackExact
<1>1. /\ \A n \in 1 .. structures_freed : structure_freed[n] \in 0 .. MaxHandles
      /\ structures_freed \in 0 .. MaxHandles /\ indexes \in 0 .. MaxHandles
      /\ given \in SUBSET (1 .. MaxHandles) /\ flags \in SUBSET (1 .. MaxHandles)
  BY ListAssumption DEF LInv, ListTypeOK
<1>2. DOMAIN freed = S /\ \A n \in S : freed[n] = structure_freed[n]
  <2>1. structures_freed \in Nat /\ MaxHandles \in Nat
    BY <1>1, ListAssumption
  <2>2. /\ freed \in Seq(0 .. MaxHandles) /\ Len(freed) = structures_freed
        /\ \A n \in 1 .. structures_freed : freed[n] = structure_freed[n]
    BY <1>1, <2>1, SubSeqProperties
  <2> QED
    BY <2>1, <2>2
<1>3. \A t \in Threads : ~Holds(t) /\ ~Marks(t)
  BY DEF Holds, Marks
<1> HIDE DEF freed, S
<1>4. IsInjective(freed)
  BY <1>2 DEF S, IsInjective, LInv, OwnedInv, StackOnce
<1>5. \A i \in 1 .. indexes : i \in given \/ \E n \in S : freed[n] = i
  BY <1>2, <1>3 DEF S, LInv, OwnedInv, NoneLost, Stacked
<1>6. \A n \in S : freed[n] \in (1 .. indexes) \ given
  BY <1>2 DEF S, LInv, OwnedInv, StackIn
<1>7. Range(freed) = (1 .. indexes) \ given
  BY <1>2, <1>5, <1>6 DEF Range
<1>8. given = flags
  BY <1>1, <1>3 DEF LInv, FlagInv
<1> QED
  BY <1>4, <1>7, <1>8

LEMMA HandlesAreFound ==
  ASSUME MaxGrowths <= 1, LInv
  PROVE  HandleFound
<1> SUFFICES ASSUME NEW t \in Threads, Inside(t), ~(l_pc[t] = "get" /\ l_i[t] \notin given)
             PROVE  /\ l_index[t] \notin index_freed
                    /\ l_i[t] \in index[l_index[t]] /\ l_i[t] \in flags
  BY DEF HandleFound
<1>1. /\ l_index[t] = Len(index) - l_growths[t] /\ l_growths[t] <= MaxGrowths
      /\ l_i[t] \in index[l_index[t]]
      /\ \A n \in index_freed : n <= Len(index) - 2
  BY DEF LInv, IndexInv
<1>2. Len(index) \in Nat /\ l_growths[t] \in Nat /\ l_i[t] \in 0 .. MaxHandles
  BY LastIndex DEF LInv, ListTypeOK
<1>3. l_index[t] \notin index_freed
  BY <1>1, <1>2, ListAssumption
<1>4. CASE l_pc[t] = "get"
  <2>1. l_i[t] \in given /\ given \in SUBSET (1 .. MaxHandles)
    BY <1>4 DEF LInv, ListTypeOK
  <2> QED
    BY <1>1, <1>3, <2>1 DEF LInv, FlagInv
<1>5. CASE l_pc[t] = "remove"
  <2>1. l_i[t] \in 1 .. MaxHandles
    BY <1>5, ListAssumption DEF LInv, ListTypeOK, OwnedInv, HeldIn, Holds
  <2> QED
    BY <1>1, <1>3, <1>5, <2>1 DEF LInv, FlagInv, Marks
<1> QED
  BY <1>4, <1>5 DEF Inside

\* list_add() returns no handle that another thread has or takes back, and no handle is lost
\* or twice on the stack, whatever two threads do at the same time and however often the
\* index grows (qblist.cpp:30-123).
THEOREM OneOwnerEach == ListSpec => [](AddsNew /\ StackExact)
<1>1. LInv => AddsNew /\ StackExact
  BY AddsAreNew, StackIsExact
<1> QED
  BY ListInvariant, <1>1, PTL

\* As long as the index does not grow twice while one list_get() runs, the two locks and the
\* late freeing of an index are enough for each handle to be found (qblist.cpp:63-77, 134-142).
THEOREM HandlesAreExact ==
  ASSUME MaxGrowths <= 1
  PROVE  ListSpec => []HandlesExact
<1>1. LInv => HandlesExact
  BY AddsAreNew, StackIsExact, HandlesAreFound DEF HandlesExact
<1> QED
  BY ListInvariant, <1>1, PTL

-----------------------------------------------------------------------------
(* Memory blocks.                                                          *)

Lock == [id : 0 .. MaxLockId, type : 0 .. 4, offset : Addresses \union {0}]

\* No two locks have one id, and an id given is not given again.
TableInv ==
    /\ Len(mem_lock) <= mem_lock_id
    /\ \A i \in DOMAIN mem_lock : mem_lock[i].id <= mem_lock_id
    /\ \A i, j \in DOMAIN mem_lock :
         mem_lock[i].id # 0 /\ mem_lock[i].id = mem_lock[j].id => i = j

\* The locks to be used again are there once, and no block has their id.
FreeInv ==
    /\ IsInjective(mem_lock_freed)
    /\ \A k \in DOMAIN mem_lock_freed : /\ mem_lock_freed[k] \in DOMAIN mem_lock
                                        /\ mem_lock[mem_lock_freed[k]].id = 0

BlockInv ==
    \A v \in MemVars : mem_var[v].lock_offset # 0 =>
        mem_var[v].lock_offset \in DOMAIN mem_lock /\ mem_var[v].lock_id # 0

\* What has a lock has one in use, of its type, and of its own.
OwnerInv ==
    \A o \in Owners :
        /\ owner_lock[o] = 0 <=> (owner_type[o] = 0 \/ (owner_type[o] = 2 /\ owner_id[o] = 0))
        /\ owner_type[o] # 2 => owner_id[o] = 0
        /\ owner_lock[o] # 0 =>
             /\ owner_lock[o] \in DOMAIN mem_lock
             /\ mem_lock[owner_lock[o]].id # 0
             /\ mem_lock[owner_lock[o]].type = owner_type[o]
             /\ \A p \in Owners : owner_lock[p] = owner_lock[o] => p = o

\* What a lock in use stands for: memory, or what has the lock.
HasMemory(l) ==
    l.id # 0 /\ l.type = 1 => l.offset \in Addresses /\ allocated[l.offset] = l.id

HasOwner(i) ==
    mem_lock[i].id # 0 /\ mem_lock[i].type \in {2, 3, 4} => \E o \in Owners : owner_lock[o] = i

HeapInv ==
    /\ ~twice
    /\ \A i \in DOMAIN mem_lock : HasMemory(mem_lock[i]) /\ HasOwner(i)

MInv == MemTypeOK /\ TableInv /\ FreeInv /\ BlockInv /\ OwnerInv

-----------------------------------------------------------------------------
(* What the operations do to the locks.                                    *)

\* Lock n is made, with a new id.
Made(n, l) ==
    /\ mem_lock_id' = mem_lock_id + 1 /\ mem_lock_id' <= MaxLockId
    /\ mem_lock' \in Seq(Lock)
    /\ n \in 1 .. MaxLockId
    /\ n \in DOMAIN mem_lock => mem_lock[n].id = 0
    /\ DOMAIN mem_lock' = DOMAIN mem_lock \union {n} /\ Len(mem_lock') <= mem_lock_id'
    /\ mem_lock'[n] = [l EXCEPT !.id = mem_lock_id']
    /\ \A i \in DOMAIN mem_lock : i # n => mem_lock'[i] = mem_lock[i]

\* Lock n is freed.
Freed(n) ==
    /\ mem_lock' \in Seq(Lock)
    /\ DOMAIN mem_lock' = DOMAIN mem_lock /\ Len(mem_lock') = Len(mem_lock)
    /\ mem_lock'[n] = [mem_lock[n] EXCEPT !.id = 0]
    /\ \A i \in DOMAIN mem_lock : i # n => mem_lock'[i] = mem_lock[i]

LEMMA Locks ==
  ASSUME MInv
  PROVE  /\ mem_lock \in Seq(Lock) /\ DOMAIN mem_lock = 1 .. Len(mem_lock) /\ Len(mem_lock) \in Nat
         /\ \A i \in DOMAIN mem_lock : mem_lock[i] \in Lock
         /\ mem_lock_id \in 0 .. MaxLockId /\ MaxLockId \in Nat
         /\ mem_lock_freed \in Seq(1 .. MaxLockId)
         /\ Len(mem_lock) <= MaxLockId
<1>1. mem_lock \in Seq(Lock) /\ mem_lock_id \in 0 .. MaxLockId /\ MaxLockId \in Nat
      /\ mem_lock_freed \in Seq(1 .. MaxLockId)
  BY MemAssumption DEF MInv, MemTypeOK, Lock
<1>2. /\ DOMAIN mem_lock = 1 .. Len(mem_lock) /\ Len(mem_lock) \in Nat
      /\ \A i \in DOMAIN mem_lock : mem_lock[i] \in Lock
  BY <1>1, LenProperties, ElementOfSeq
<1> QED
  BY <1>1, <1>2 DEF MInv, TableInv

\* A new lock keeps what its place had, or nothing.
LEMMA NewLockIs ==
  ASSUME MInv
  PROVE  /\ Kept \in Lock /\ Kept.id = 0
         /\ NewLock \in 1 .. Len(mem_lock) + 1
         /\ NewLock \in DOMAIN mem_lock => mem_lock[NewLock].id = 0
         /\ mem_lock_freed # <<>> => /\ NewLock \in DOMAIN mem_lock
                                     /\ NewLock = Last(mem_lock_freed)
<1>1. CASE mem_lock_freed = <<>>
  BY <1>1, Locks DEF Kept, NewLock, Lock
<1>2. CASE mem_lock_freed # <<>>
  <2>1. /\ Last(mem_lock_freed) = mem_lock_freed[Len(mem_lock_freed)]
        /\ Len(mem_lock_freed) \in Nat /\ Len(mem_lock_freed) > 0
    BY <1>2, Locks, PopProperties
  <2>2. Len(mem_lock_freed) \in DOMAIN mem_lock_freed
    BY <2>1, Locks, LenProperties
  <2> QED
    BY <1>2, <2>1, <2>2, Locks DEF Kept, NewLock, MInv, FreeInv
<1> QED
  BY <1>1, <1>2

LEMMA MakeLockMakes ==
  ASSUME MInv, NEW l \in Lock, MakeLock(l)
  PROVE  /\ Made(NewLock, l) /\ mem_lock_id' \in 1 .. MaxLockId
         /\ mem_lock_freed' \in Seq(1 .. MaxLockId)
         /\ FreeInv' /\ TableInv'
<1> DEFINE n == NewLock
           k == [l EXCEPT !.id = mem_lock_id']
<1>1. mem_lock_id' = mem_lock_id + 1 /\ mem_lock_id' \in 1 .. MaxLockId
  BY Locks DEF MakeLock
<1>2. k \in Lock /\ k.id = mem_lock_id'
  BY <1>1 DEF Lock
<1>3. n \in 1 .. Len(mem_lock) + 1 /\ n \in 1 .. MaxLockId
  BY NewLockIs, Locks, <1>1 DEF MInv, TableInv
<1>4. /\ mem_lock' \in Seq(Lock)
      /\ DOMAIN mem_lock' = DOMAIN mem_lock \union {n}
      /\ Len(mem_lock') <= mem_lock_id'
      /\ mem_lock'[n] = k
      /\ \A i \in DOMAIN mem_lock : i # n => mem_lock'[i] = mem_lock[i]
  <2>1. CASE n > Len(mem_lock)
    <3>1. mem_lock' = Append(mem_lock, k) /\ n = Len(mem_lock) + 1
      BY <2>1, <1>3, Locks DEF MakeLock
    <3>2. /\ Append(mem_lock, k) \in Seq(Lock)
          /\ Len(Append(mem_lock, k)) = Len(mem_lock) + 1
          /\ \A i \in 1 .. Len(mem_lock) : Append(mem_lock, k)[i] = mem_lock[i]
          /\ Append(mem_lock, k)[Len(mem_lock) + 1] = k
      BY <1>2, Locks, AppendProperties
    <3>3. DOMAIN mem_lock' = 1 .. Len(mem_lock')
      BY <3>1, <3>2, LenProperties
    <3> HIDE DEF k
    <3> QED
      BY <3>1, <3>2, <3>3, <1>1, Locks DEF MInv, TableInv
  <2>2. CASE ~(n > Len(mem_lock))
    <3>1. mem_lock' = [mem_lock EXCEPT ![n] = k] /\ n \in 1 .. Len(mem_lock)
      BY <2>2, <1>3, Locks DEF MakeLock
    <3>2. mem_lock' \in Seq(Lock) /\ Len(mem_lock') = Len(mem_lock)
      BY <3>1, <1>2, Locks, ExceptSeq
    <3>3. DOMAIN mem_lock' = DOMAIN mem_lock
      BY <3>1
    <3> HIDE DEF k
    <3> QED
      BY <3>1, <3>2, <3>3, <1>1, Locks DEF MInv, TableInv
  <2> QED
    BY <2>1, <2>2
<1>5. Made(n, l)
  BY <1>1, <1>3, <1>4, NewLockIs DEF Made
<1>6. /\ mem_lock_freed' \in Seq(1 .. MaxLockId)
      /\ IsInjective(mem_lock_freed')
      /\ \A j \in DOMAIN mem_lock_freed' :
           /\ mem_lock_freed'[j] # n /\ mem_lock_freed'[j] \in DOMAIN mem_lock
           /\ mem_lock[mem_lock_freed'[j]].id = 0
  <2>1. CASE mem_lock_freed = <<>>
    BY <2>1, Locks DEF MakeLock, IsInjective
  <2>2. CASE mem_lock_freed # <<>>
    <3>1. mem_lock_freed' = Front(mem_lock_freed) /\ n = Last(mem_lock_freed)
      BY <2>2, NewLockIs DEF MakeLock
    <3>2. /\ Front(mem_lock_freed) \in Seq(1 .. MaxLockId)
          /\ Len(mem_lock_freed) \in Nat /\ Len(mem_lock_freed) > 0
          /\ Len(Front(mem_lock_freed)) = Len(mem_lock_freed) - 1
          /\ \A j \in 1 .. Len(mem_lock_freed) - 1 : Front(mem_lock_freed)[j] = mem_lock_freed[j]
          /\ Last(mem_lock_freed) = mem_lock_freed[Len(mem_lock_freed)]
      BY <2>2, Locks, PopProperties
    <3>3. /\ DOMAIN mem_lock_freed = 1 .. Len(mem_lock_freed)
          /\ DOMAIN Front(mem_lock_freed) = 1 .. Len(mem_lock_freed) - 1
      BY <3>2, Locks, LenProperties
    <3>4. IsInjective(mem_lock_freed)
      BY DEF MInv, FreeInv
    <3>5. \A j \in DOMAIN mem_lock_freed : /\ mem_lock_freed[j] \in DOMAIN mem_lock
                                           /\ mem_lock[mem_lock_freed[j]].id = 0
      BY DEF MInv, FreeInv
    <3> QED
      BY <3>1, <3>2, <3>3, <3>4, <3>5 DEF IsInjective
  <2> QED
    BY <2>1, <2>2
<1>7. FreeInv'
  BY <1>4, <1>6 DEF FreeInv
<1>8. TableInv'
  <2>1. \A i \in DOMAIN mem_lock : mem_lock[i].id \in Nat /\ mem_lock[i].id <= mem_lock_id
    BY Locks DEF Lock, MInv, TableInv
  <2>2. \A i \in DOMAIN mem_lock' :
          /\ i = n => mem_lock'[i].id = mem_lock_id'
          /\ i # n => i \in DOMAIN mem_lock /\ mem_lock'[i].id = mem_lock[i].id
    BY <1>2, <1>4
  <2>3. \A i \in DOMAIN mem_lock' : mem_lock'[i].id <= mem_lock_id'
    BY <1>1, <2>1, <2>2, Locks
  <2>4. \A i, j \in DOMAIN mem_lock' :
          mem_lock'[i].id # 0 /\ mem_lock'[i].id = mem_lock'[j].id => i = j
    BY <1>1, <2>1, <2>2, Locks DEF MInv, TableInv
  <2> QED
    BY <1>4, <2>3, <2>4 DEF TableInv
<1> QED
  BY <1>1, <1>5, <1>6, <1>7, <1>8

LEMMA FreeLockFrees ==
  ASSUME MInv, NEW n \in DOMAIN mem_lock, mem_lock[n].id # 0, FreeLock(n)
  PROVE  /\ Freed(n)
         /\ mem_lock_freed' \in Seq(1 .. MaxLockId)
         /\ FreeInv' /\ TableInv'
<1> DEFINE k == [mem_lock[n] EXCEPT !.id = 0]
<1>1. k \in Lock /\ k.id = 0
  <2>1. mem_lock[n] \in Lock /\ 0 \in 0 .. MaxLockId
    BY Locks
  <2>2. \A r \in Lock : 0 \in 0 .. MaxLockId =>
          [r EXCEPT !.id = 0] \in Lock /\ [r EXCEPT !.id = 0].id = 0
    BY DEF Lock
  <2> QED
    BY <2>1, <2>2
<1>2. mem_lock' = [mem_lock EXCEPT ![n] = k]
  BY DEF FreeLock
<1>3. /\ mem_lock' \in Seq(Lock) /\ Len(mem_lock') = Len(mem_lock)
      /\ DOMAIN mem_lock' = DOMAIN mem_lock
      /\ mem_lock'[n] = k
      /\ \A i \in DOMAIN mem_lock : i # n => mem_lock'[i] = mem_lock[i]
  BY <1>1, <1>2, Locks, ExceptSeq
<1>4. Freed(n)
  BY <1>3 DEF Freed
<1>5. n \in 1 .. MaxLockId /\ n \notin ToSet(mem_lock_freed)
  BY Locks DEF MInv, FreeInv, ToSet
<1>6. mem_lock_freed' = Append(mem_lock_freed, n)
  BY DEF FreeLock
<1>7. /\ mem_lock_freed' \in Seq(1 .. MaxLockId)
      /\ ToSet(mem_lock_freed') = ToSet(mem_lock_freed) \cup {n}
      /\ IsInjective(mem_lock_freed')
  BY <1>5, <1>6, Locks, PushInjective DEF MInv, FreeInv
<1>8. FreeInv'
  <2>1. \A m \in ToSet(mem_lock_freed) : m \in DOMAIN mem_lock /\ mem_lock[m].id = 0
    BY DEF MInv, FreeInv, ToSet
  <2>2. \A m \in ToSet(mem_lock_freed') : m \in DOMAIN mem_lock' /\ mem_lock'[m].id = 0
    BY <2>1, <1>7, <1>3, <1>1
  <2>3. \A j \in DOMAIN mem_lock_freed' : mem_lock_freed'[j] \in ToSet(mem_lock_freed')
    BY DEF ToSet
  <2> QED
    BY <1>7, <2>2, <2>3 DEF FreeInv
<1>9. mem_lock_id' = mem_lock_id
  BY DEF FreeLock
<1>10. TableInv'
  <2>1. \A i \in DOMAIN mem_lock' :
          /\ i = n => mem_lock'[i].id = 0
          /\ i # n => mem_lock'[i].id = mem_lock[i].id
    BY <1>1, <1>3
  <2>2. \A i \in DOMAIN mem_lock' : mem_lock'[i].id <= mem_lock_id'
    BY <1>3, <1>9, <2>1, Locks DEF MInv, TableInv
  <2>3. \A i, j \in DOMAIN mem_lock' :
          mem_lock'[i].id # 0 /\ mem_lock'[i].id = mem_lock'[j].id => i = j
    BY <1>3, <2>1 DEF MInv, TableInv
  <2> QED
    BY <1>3, <1>9, <2>2, <2>3 DEF MInv, TableInv
<1> QED
  BY <1>4, <1>7, <1>8, <1>10

LEMMA ArrayMovesLock ==
  ASSUME MInv, NEW o \in Owners, ArrayMoves(o)
  PROVE  LET n == owner_lock[o]
         IN  /\ n \in DOMAIN mem_lock /\ mem_lock_id' \in 1 .. MaxLockId
             /\ mem_lock' \in Seq(Lock) /\ DOMAIN mem_lock' = DOMAIN mem_lock
             /\ mem_lock'[n] = [mem_lock[n] EXCEPT !.id = mem_lock_id']
             /\ mem_lock'[n] \in Lock /\ mem_lock'[n].id = mem_lock_id'
             /\ mem_lock'[n].type = mem_lock[n].type
             /\ mem_lock[n].type = 4 /\ mem_lock[n].id # 0
             /\ \A i \in DOMAIN mem_lock : i # n => mem_lock'[i] = mem_lock[i]
             /\ FreeInv' /\ TableInv'
<1> DEFINE n == owner_lock[o]
           k == [mem_lock[n] EXCEPT !.id = mem_lock_id']
<1>1. n \in DOMAIN mem_lock /\ mem_lock[n].id # 0 /\ mem_lock[n].type = 4
  BY DEF ArrayMoves, MInv, OwnerInv
<1>2. mem_lock_id' = mem_lock_id + 1 /\ mem_lock_id' \in 1 .. MaxLockId
  BY Locks DEF ArrayMoves
<1>3. k \in Lock /\ k.id = mem_lock_id' /\ k.type = mem_lock[n].type
  <2>1. mem_lock[n] \in Lock /\ mem_lock_id' \in 0 .. MaxLockId
    BY <1>1, <1>2, Locks
  <2>2. \A r \in Lock, i \in 0 .. MaxLockId :
          [r EXCEPT !.id = i] \in Lock /\ [r EXCEPT !.id = i].id = i
          /\ [r EXCEPT !.id = i].type = r.type
    BY DEF Lock
  <2> QED
    BY <2>1, <2>2
<1>4. mem_lock' = [mem_lock EXCEPT ![n] = k]
  BY DEF ArrayMoves
<1>5. /\ mem_lock' \in Seq(Lock) /\ Len(mem_lock') = Len(mem_lock)
      /\ DOMAIN mem_lock' = DOMAIN mem_lock
      /\ mem_lock'[n] = k
      /\ \A i \in DOMAIN mem_lock : i # n => mem_lock'[i] = mem_lock[i]
  BY <1>1, <1>3, <1>4, Locks, ExceptSeq
<1>6. FreeInv'
  BY <1>1, <1>5 DEF ArrayMoves, MInv, FreeInv
<1>7. TableInv'
  <2>1. \A i \in DOMAIN mem_lock : mem_lock[i].id \in Nat /\ mem_lock[i].id <= mem_lock_id
    BY Locks DEF Lock, MInv, TableInv
  <2>2. /\ mem_lock'[n].id = mem_lock_id'
        /\ \A i \in DOMAIN mem_lock : i # n => mem_lock'[i].id = mem_lock[i].id
        /\ mem_lock_id \in Nat /\ mem_lock_id' = mem_lock_id + 1
    BY <1>2, <1>3, <1>5, Locks
  <2>3. \A i \in DOMAIN mem_lock : mem_lock'[i].id <= mem_lock_id'
    BY <2>1, <2>2
  <2>4. \A i, j \in DOMAIN mem_lock :
          mem_lock'[i].id # 0 /\ mem_lock'[i].id = mem_lock'[j].id => i = j
    BY <2>1, <2>2 DEF MInv, TableInv
  <2> QED
    BY <1>2, <1>5, <2>3, <2>4, Locks DEF MInv, TableInv
<1> QED
  BY <1>1, <1>2, <1>3, <1>5, <1>6, <1>7

-----------------------------------------------------------------------------
(* Each step keeps the invariant.                                          *)

LEMMA ValidIsInUse ==
  ASSUME MInv, NEW v \in MemVars, Valid(mem_var[v])
  PROVE  /\ mem_var[v].lock_offset \in DOMAIN mem_lock
         /\ mem_lock[mem_var[v].lock_offset].id # 0
BY DEF Valid, MInv, BlockInv

LEMMA OwnersLock ==
  ASSUME MInv, NEW o \in Owners, owner_type[o] # 0, owner_type[o] # 2 \/ owner_id[o] # 0
  PROVE  /\ owner_lock[o] \in DOMAIN mem_lock /\ mem_lock[owner_lock[o]].id # 0
         /\ mem_lock[owner_lock[o]].type = owner_type[o]
BY DEF MInv, OwnerInv

\* What nobody makes, frees or moves stays a lock of its owner.
LEMMA OwnersKept ==
  ASSUME MInv, UNCHANGED owners, DOMAIN mem_lock \subseteq DOMAIN mem_lock',
         \A o \in Owners : owner_lock[o] # 0 =>
             /\ mem_lock'[owner_lock[o]].id # 0
             /\ mem_lock'[owner_lock[o]].type = mem_lock[owner_lock[o]].type
  PROVE  OwnerInv'
BY DEF MInv, OwnerInv, owners

LEMMA BlocksKept ==
  ASSUME MInv, DOMAIN mem_lock \subseteq DOMAIN mem_lock',
         \A v \in MemVars :
             \/ mem_var'[v] = mem_var[v]
             \/ mem_var'[v].lock_offset \in DOMAIN mem_lock' /\ mem_var'[v].lock_id # 0
             \/ mem_var'[v].lock_offset = mem_var[v].lock_offset /\ mem_var'[v].lock_id # 0
  PROVE  BlockInv'
BY DEF MInv, BlockInv

BlockSet == [lock_offset : 0 .. MaxLockId, lock_id : -1 .. MaxLockId]

LEMMA Types ==
  ASSUME MInv
  PROVE  /\ mem_var \in [MemVars -> BlockSet]
         /\ owner_lock \in [Owners -> 0 .. MaxLockId] /\ owner_type \in [Owners -> {0, 2, 3, 4}]
         /\ owner_id \in [Owners -> 0 .. MaxLockId]
         /\ allocated \in [Addresses -> 0 .. MaxLockId] /\ twice \in BOOLEAN
BY DEF MInv, MemTypeOK, BlockSet

LEMMA TypeBack ==
  ASSUME mem_lock' \in Seq(Lock), mem_lock_freed' \in Seq(1 .. MaxLockId),
         mem_lock_id' \in 0 .. MaxLockId, mem_var' \in [MemVars -> BlockSet],
         owner_lock' \in [Owners -> 0 .. MaxLockId], owner_type' \in [Owners -> {0, 2, 3, 4}],
         owner_id' \in [Owners -> 0 .. MaxLockId],
         allocated' \in [Addresses -> 0 .. MaxLockId], twice' \in BOOLEAN
  PROVE  MemTypeOK'
BY DEF MemTypeOK, BlockSet, Lock

\* A block is made for the new lock.
LEMMA BlockMade ==
  ASSUME MInv, NEW v \in MemVars, NEW l \in Lock, MakeLock(l), Block(v)
  PROVE  mem_var' \in [MemVars -> BlockSet] /\ BlockInv'
<1>1. /\ Made(NewLock, l) /\ mem_lock_id' \in 1 .. MaxLockId /\ NewLock \in 1 .. MaxLockId
      /\ DOMAIN mem_lock' = DOMAIN mem_lock \union {NewLock}
  BY MakeLockMakes DEF Made
<1>2. MaxLockId \in Nat
  BY Locks
<1>3. [lock_offset |-> NewLock, lock_id |-> mem_lock_id'] \in BlockSet
  BY <1>1, <1>2 DEF BlockSet
<1>4. mem_var' \in [MemVars -> BlockSet]
  BY <1>3, Types DEF Block
<1>5. \A w \in MemVars : \/ mem_var'[w] = mem_var[w]
                         \/ mem_var'[w] = [lock_offset |-> NewLock, lock_id |-> mem_lock_id']
  BY Types DEF Block
<1>6. \A w \in MemVars :
          \/ mem_var'[w] = mem_var[w]
          \/ mem_var'[w].lock_offset \in DOMAIN mem_lock' /\ mem_var'[w].lock_id # 0
  BY <1>1, <1>5
<1> QED
  BY <1>1, <1>4, <1>6, BlocksKept

\* Whoever has a lock keeps it when another is made.
LEMMA OthersKept ==
  ASSUME MInv, NEW n, NEW l, Made(n, l)
  PROVE  \A o \in Owners : owner_lock[o] # 0 =>
             owner_lock[o] # n /\ mem_lock'[owner_lock[o]] = mem_lock[owner_lock[o]]
BY DEF MInv, OwnerInv, Made

\* _MEMNEW and _MEM(offset, size): a lock and its block.
LEMMA NewBlock ==
  ASSUME MInv, NEW v \in MemVars, NEW l \in Lock, MakeLock(l), Block(v), UNCHANGED owners,
         allocated' \in [Addresses -> 0 .. MaxLockId], twice' \in BOOLEAN
  PROVE  MInv'
<1>1. /\ Made(NewLock, l) /\ mem_lock_id' \in 1 .. MaxLockId
      /\ mem_lock_freed' \in Seq(1 .. MaxLockId) /\ FreeInv' /\ TableInv'
  BY MakeLockMakes
<1>2. mem_var' \in [MemVars -> BlockSet] /\ BlockInv'
  BY BlockMade
<1>3. OwnerInv'
  BY <1>1, OthersKept, OwnersKept DEF Made, MInv, OwnerInv
<1>4. MemTypeOK'
  BY <1>1, <1>2, Types, TypeBack DEF owners, Made
<1> QED
  BY <1>1, <1>2, <1>3, <1>4 DEF MInv

LEMMA FreeLockHeap ==
  ASSUME MInv, NEW n, FreeLock(n)
  PROVE  allocated' \in [Addresses -> 0 .. MaxLockId] /\ twice' \in BOOLEAN
<1>1. 0 \in 0 .. MaxLockId
  BY Locks
<1>2. CASE mem_lock[n].type = 1
  BY <1>1, <1>2, Types DEF FreeLock
<1>3. CASE mem_lock[n].type # 1
  BY <1>3, Types DEF FreeLock
<1> QED
  BY <1>2, <1>3

LEMMA MemFreeKeeps ==
  ASSUME MInv, NEW v \in MemVars, MemFree(v)
  PROVE  MInv'
<1> DEFINE n == mem_var[v].lock_offset
<1>1. n \in DOMAIN mem_lock /\ mem_lock[n].id # 0
  BY ValidIsInUse DEF MemFree
<1>2. mem_var' \in [MemVars -> BlockSet]
      /\ \A w \in MemVars : \/ mem_var'[w] = mem_var[w]
                            \/ /\ mem_var'[w].lock_offset = mem_var[w].lock_offset
                               /\ mem_var'[w].lock_id # 0
  <2>1. mem_var' = [mem_var EXCEPT ![v] = [mem_var[v] EXCEPT !.lock_id = -1]]
    BY DEF MemFree
  <2>2. \A b \in BlockSet : MaxLockId \in Nat =>
          /\ [b EXCEPT !.lock_id = -1] \in BlockSet
          /\ [b EXCEPT !.lock_id = -1].lock_offset = b.lock_offset
          /\ [b EXCEPT !.lock_id = -1].lock_id = -1
    BY DEF BlockSet
  <2> QED
    BY <2>1, <2>2, Types, Locks
<1>3. CASE mem_lock[n].type \in {0, 1}
  <2>1. FreeLock(n) /\ UNCHANGED owners
    BY <1>3 DEF MemFree
  <2>2. Freed(n) /\ mem_lock_freed' \in Seq(1 .. MaxLockId) /\ FreeInv' /\ TableInv'
    BY <1>1, <2>1, FreeLockFrees
  <2>3. BlockInv'
    BY <1>2, <2>2, BlocksKept DEF Freed
  <2>4. OwnerInv'
    <3>1. \A o \in Owners : owner_lock[o] # 0 => /\ owner_lock[o] # n
                                                 /\ owner_lock[o] \in DOMAIN mem_lock
                                                 /\ mem_lock[owner_lock[o]].id # 0
      BY <1>3, Types DEF MInv, OwnerInv
    <3> QED
      BY <2>1, <2>2, <3>1, OwnersKept DEF Freed
  <2>5. MemTypeOK'
    <3>1. allocated' \in [Addresses -> 0 .. MaxLockId] /\ twice' \in BOOLEAN
      BY <2>1, FreeLockHeap
    <3> QED
      BY <1>2, <2>1, <2>2, <3>1, Types, Locks, TypeBack DEF owners, Freed, FreeLock
  <2> QED
    BY <2>2, <2>3, <2>4, <2>5 DEF MInv
<1>4. CASE mem_lock[n].type \notin {0, 1}
  <2>1. UNCHANGED <<locks, heap, owners>>
    BY <1>4 DEF MemFree
  <2>2. BlockInv'
    BY <1>2, <2>1, BlocksKept DEF locks
  <2>3. TableInv' /\ FreeInv' /\ OwnerInv'
    BY <2>1 DEF MInv, TableInv, FreeInv, OwnerInv, locks, owners
  <2>4. MemTypeOK'
    BY <1>2, <2>1, Types, Locks, TypeBack DEF locks, heap, owners
  <2> QED
    BY <2>2, <2>3, <2>4 DEF MInv
<1> QED
  BY <1>3, <1>4

\* A block is copied, or made of what is there.
LEMMA OnlyBlock ==
  ASSUME MInv, NEW v \in MemVars, NEW b \in BlockSet, UNCHANGED <<locks, owners, heap>>,
         mem_var' = [mem_var EXCEPT ![v] = b],
         b.lock_offset # 0 => b.lock_offset \in DOMAIN mem_lock /\ b.lock_id # 0
  PROVE  MInv'
<1>1. mem_var' \in [MemVars -> BlockSet]
      /\ \A w \in MemVars : mem_var'[w] = mem_var[w] \/ mem_var'[w] = b
  BY Types
<1>2. BlockInv'
  BY <1>1 DEF MInv, BlockInv, locks
<1>3. TableInv' /\ FreeInv' /\ OwnerInv'
  BY DEF MInv, TableInv, FreeInv, OwnerInv, locks, owners
<1>4. MemTypeOK'
  BY <1>1, Types, Locks, TypeBack DEF locks, heap, owners
<1> QED
  BY <1>2, <1>3, <1>4 DEF MInv

LEMMA OwnerBeginsKeeps ==
  ASSUME MInv, NEW o \in Owners, NEW type \in {3, 4}, OwnerBegins(o, type)
  PROVE  MInv'
<1> DEFINE l == [Kept EXCEPT !.type = type]
<1>1. l \in Lock /\ l.type = type
  BY NewLockIs DEF Lock
<1>2. /\ Made(NewLock, l) /\ mem_lock_id' \in 1 .. MaxLockId /\ NewLock \in 1 .. MaxLockId
      /\ mem_lock_freed' \in Seq(1 .. MaxLockId) /\ FreeInv' /\ TableInv'
  BY <1>1, MakeLockMakes DEF OwnerBegins, Made
<1>3. mem_lock'[NewLock].type = type /\ mem_lock'[NewLock].id # 0
  <2>1. \A r \in Lock, i \in Nat : [r EXCEPT !.id = i].type = r.type /\ [r EXCEPT !.id = i].id = i
    BY DEF Lock
  <2> HIDE DEF l
  <2> QED
    BY <1>1, <1>2, <2>1 DEF Made
<1>4. /\ owner_lock' \in [Owners -> 0 .. MaxLockId] /\ owner_type' \in [Owners -> {0, 2, 3, 4}]
      /\ owner_lock'[o] = NewLock /\ owner_type'[o] = type
      /\ \A p \in Owners : p # o => owner_lock'[p] = owner_lock[p] /\ owner_type'[p] = owner_type[p]
      /\ owner_id' = owner_id
  BY <1>2, Types, Locks DEF OwnerBegins
<1>5. OwnerInv'
  <2>1. \A p \in Owners : owner_lock[p] # 0 =>
          owner_lock[p] # NewLock /\ mem_lock'[owner_lock[p]] = mem_lock[owner_lock[p]]
    BY <1>2, OthersKept
  <2>2. NewLock # 0 /\ NewLock \in DOMAIN mem_lock' /\ DOMAIN mem_lock \subseteq DOMAIN mem_lock'
    BY <1>2 DEF Made
  <2>3. owner_id[o] = 0 /\ type # 0 /\ type # 2
    BY DEF OwnerBegins, MInv, OwnerInv
  <2> QED
    BY <1>3, <1>4, <2>1, <2>2, <2>3 DEF MInv, OwnerInv
<1>6. BlockInv'
  BY <1>2, BlocksKept DEF Made, OwnerBegins
<1>7. MemTypeOK'
  BY <1>2, <1>4, Types, TypeBack DEF Made, OwnerBegins, heap
<1> QED
  BY <1>2, <1>5, <1>6, <1>7 DEF MInv

LEMMA ImageBeginsKeeps ==
  ASSUME MInv, NEW o \in Owners, ImageBegins(o)
  PROVE  MInv'
<1>1. owner_type' \in [Owners -> {0, 2, 3, 4}]
      /\ owner_type'[o] = 2 /\ \A p \in Owners : p # o => owner_type'[p] = owner_type[p]
  BY Types DEF ImageBegins
<1>2. OwnerInv'
  <2>1. owner_lock[o] = 0 /\ owner_id[o] = 0
    BY DEF ImageBegins, MInv, OwnerInv
  <2>2. UNCHANGED <<mem_lock, owner_lock, owner_id>>
    BY DEF ImageBegins, locks
  <2> QED
    BY <1>1, <2>1, <2>2 DEF MInv, OwnerInv
<1>3. TableInv' /\ FreeInv' /\ BlockInv'
  BY DEF ImageBegins, MInv, TableInv, FreeInv, BlockInv, locks
<1>4. MemTypeOK'
  BY <1>1, Types, Locks, TypeBack DEF ImageBegins, locks, heap
<1> QED
  BY <1>2, <1>3, <1>4 DEF MInv

LEMMA MemImageKeeps ==
  ASSUME MInv, NEW v \in MemVars, NEW o \in Owners, MemImage(v, o)
  PROVE  MInv'
<1>1. CASE owner_id[o] # 0
  <2> DEFINE b == [lock_offset |-> owner_lock[o], lock_id |-> owner_id[o]]
  <2>1. owner_lock[o] \in 0 .. MaxLockId /\ owner_id[o] \in 0 .. MaxLockId /\ MaxLockId \in Nat
    BY Types, Locks
  <2>2. b \in BlockSet /\ b.lock_offset = owner_lock[o] /\ b.lock_id = owner_id[o]
    BY <2>1 DEF BlockSet
  <2>3. owner_lock[o] # 0 => owner_lock[o] \in DOMAIN mem_lock
    BY DEF MInv, OwnerInv
  <2>4. mem_var' = [mem_var EXCEPT ![v] = b] /\ UNCHANGED <<locks, owners, heap>>
    BY <1>1 DEF MemImage
  <2> HIDE DEF b
  <2> QED
    BY <1>1, <2>2, <2>3, <2>4, OnlyBlock
<1>2. CASE owner_id[o] = 0
  <2> DEFINE l == [Kept EXCEPT !.type = 2]
  <2>1. l \in Lock /\ l.type = 2
    BY NewLockIs DEF Lock
  <2>2. MakeLock(l) /\ Block(v)
    BY <1>2 DEF MemImage
  <2>3. /\ Made(NewLock, l) /\ mem_lock_id' \in 1 .. MaxLockId /\ NewLock \in 1 .. MaxLockId
        /\ mem_lock_freed' \in Seq(1 .. MaxLockId) /\ FreeInv' /\ TableInv'
    BY <2>1, <2>2, MakeLockMakes DEF Made
  <2>4. mem_lock'[NewLock].type = 2 /\ mem_lock'[NewLock].id # 0
    <3>1. \A r \in Lock, i \in Nat : [r EXCEPT !.id = i].type = r.type /\ [r EXCEPT !.id = i].id = i
      BY DEF Lock
    <3> HIDE DEF l
    <3> QED
      BY <2>1, <2>3, <3>1 DEF Made
  <2>5. /\ owner_lock' \in [Owners -> 0 .. MaxLockId] /\ owner_id' \in [Owners -> 0 .. MaxLockId]
        /\ owner_lock'[o] = NewLock /\ owner_id'[o] # 0
        /\ \A p \in Owners : p # o => owner_lock'[p] = owner_lock[p] /\ owner_id'[p] = owner_id[p]
        /\ owner_type' = owner_type /\ owner_type[o] = 2
    <3>1. /\ owner_lock' = [owner_lock EXCEPT ![o] = NewLock] /\ NewLock \in 0 .. MaxLockId
          /\ owner_id' = [owner_id EXCEPT ![o] = mem_lock_id']
          /\ owner_type' = owner_type /\ owner_type[o] = 2
          /\ mem_lock_id' \in 0 .. MaxLockId /\ mem_lock_id' # 0
      BY <1>2, <2>3, Locks DEF MemImage
    <3> QED
      BY <3>1, Types
  <2>6. OwnerInv'
    <3>1. \A p \in Owners : owner_lock[p] # 0 =>
            owner_lock[p] # NewLock /\ mem_lock'[owner_lock[p]] = mem_lock[owner_lock[p]]
      BY <2>3, OthersKept
    <3>2. NewLock # 0 /\ NewLock \in DOMAIN mem_lock' /\ DOMAIN mem_lock \subseteq DOMAIN mem_lock'
      BY <2>3 DEF Made
    <3> QED
      BY <2>4, <2>5, <3>1, <3>2 DEF MInv, OwnerInv
  <2>7. mem_var' \in [MemVars -> BlockSet] /\ BlockInv'
    BY <2>1, <2>2, BlockMade
  <2>8. MemTypeOK'
    BY <2>3, <2>5, <2>7, Types, TypeBack DEF Made, MemImage, heap
  <2> QED
    BY <2>3, <2>6, <2>7, <2>8 DEF MInv
<1> QED
  BY <1>1, <1>2

LEMMA ArrayMovesKeeps ==
  ASSUME MInv, NEW o \in Owners, ArrayMoves(o)
  PROVE  MInv'
<1> DEFINE n == owner_lock[o]
<1>1. UNCHANGED <<mem_lock_freed, mem_var, owners, heap>>
  BY DEF ArrayMoves
<1>m. /\ n \in DOMAIN mem_lock /\ mem_lock_id' \in 1 .. MaxLockId
      /\ mem_lock' \in Seq(Lock) /\ DOMAIN mem_lock' = DOMAIN mem_lock
      /\ mem_lock'[n].id = mem_lock_id' /\ mem_lock'[n].type = mem_lock[n].type
      /\ \A i \in DOMAIN mem_lock : i # n => mem_lock'[i] = mem_lock[i]
      /\ FreeInv' /\ TableInv'
  BY ArrayMovesLock
<1>2. BlockInv'
  BY <1>1, <1>m, BlocksKept
<1>3. OwnerInv'
  <2>1. \A p \in Owners : owner_lock[p] # 0 =>
          /\ mem_lock'[owner_lock[p]].id # 0
          /\ mem_lock'[owner_lock[p]].type = mem_lock[owner_lock[p]].type
    <3> SUFFICES ASSUME NEW p \in Owners, owner_lock[p] # 0
                 PROVE  /\ mem_lock'[owner_lock[p]].id # 0
                        /\ mem_lock'[owner_lock[p]].type = mem_lock[owner_lock[p]].type
      OBVIOUS
    <3>1. owner_lock[p] \in DOMAIN mem_lock /\ mem_lock[owner_lock[p]].id # 0
      BY DEF MInv, OwnerInv
    <3>2. CASE owner_lock[p] = n
      BY <1>m, <3>2
    <3>3. CASE owner_lock[p] # n
      BY <1>m, <3>1, <3>3
    <3> QED
      BY <3>2, <3>3
  <2> QED
    BY <1>1, <1>m, <2>1, OwnersKept
<1>4. MemTypeOK'
  <2>1. mem_lock_freed' \in Seq(1 .. MaxLockId) /\ mem_lock_id' \in 0 .. MaxLockId
    BY <1>1, <1>m, Locks
  <2>2. UNCHANGED <<mem_var, owner_lock, owner_type, owner_id, allocated, twice>>
    BY <1>1 DEF owners, heap
  <2> QED
    BY <1>m, <2>1, <2>2, Types, TypeBack
<1> QED
  BY <1>2, <1>3, <1>4, <1>m DEF MInv

LEMMA OwnerEndsKeeps ==
  ASSUME MInv, NEW o \in Owners, OwnerEnds(o)
  PROVE  MInv'
<1> DEFINE n == owner_lock[o]
<1>1. /\ owner_lock' \in [Owners -> 0 .. MaxLockId] /\ owner_id' \in [Owners -> 0 .. MaxLockId]
      /\ owner_type' \in [Owners -> {0, 2, 3, 4}]
      /\ owner_lock'[o] = 0 /\ owner_id'[o] = 0 /\ owner_type'[o] = 0
      /\ \A p \in Owners : p # o => /\ owner_lock'[p] = owner_lock[p]
                                    /\ owner_id'[p] = owner_id[p]
                                    /\ owner_type'[p] = owner_type[p]
      /\ mem_var' = mem_var
  BY Types, Locks DEF OwnerEnds
<1>2. CASE owner_type[o] # 2 \/ owner_id[o] # 0
  <2>1. FreeLock(n) /\ n \in DOMAIN mem_lock /\ mem_lock[n].id # 0
    BY <1>2, OwnersLock DEF OwnerEnds
  <2>2. Freed(n) /\ mem_lock_freed' \in Seq(1 .. MaxLockId) /\ FreeInv' /\ TableInv'
    BY <2>1, FreeLockFrees
  <2>3. BlockInv'
    BY <1>1, <2>2, BlocksKept DEF Freed
  <2>4. OwnerInv'
    <3>1. n # 0
      BY <2>1, Locks
    <3>2. \A p \in Owners : p # o /\ owner_lock[p] # 0 =>
            mem_lock'[owner_lock[p]] = mem_lock[owner_lock[p]]
      BY <2>2, <3>1 DEF MInv, OwnerInv, Freed
    <3>3. DOMAIN mem_lock' = DOMAIN mem_lock
      BY <2>2 DEF Freed
    <3>4. \A p \in Owners : p # o =>
            /\ owner_lock'[p] = 0 <=>
                  (owner_type'[p] = 0 \/ (owner_type'[p] = 2 /\ owner_id'[p] = 0))
            /\ owner_type'[p] # 2 => owner_id'[p] = 0
            /\ owner_lock'[p] # 0 =>
                 /\ owner_lock'[p] \in DOMAIN mem_lock'
                 /\ mem_lock'[owner_lock'[p]].id # 0
                 /\ mem_lock'[owner_lock'[p]].type = owner_type'[p]
                 /\ \A q \in Owners : owner_lock'[q] = owner_lock'[p] => q = p
      BY <1>1, <3>2, <3>3 DEF MInv, OwnerInv
    <3> QED
      BY <1>1, <3>4 DEF OwnerInv
  <2>5. MemTypeOK'
    BY <1>1, <2>1, <2>2, FreeLockHeap, Types, Locks, TypeBack DEF Freed, FreeLock
  <2> QED
    BY <2>2, <2>3, <2>4, <2>5 DEF MInv
<1>3. CASE ~(owner_type[o] # 2 \/ owner_id[o] # 0)
  <2>1. UNCHANGED <<locks, heap>>
    BY <1>3 DEF OwnerEnds
  <2>2. TableInv' /\ FreeInv' /\ BlockInv'
    BY <1>1, <2>1 DEF MInv, TableInv, FreeInv, BlockInv, locks
  <2>3. OwnerInv'
    BY <1>1, <2>1 DEF MInv, OwnerInv, locks
  <2>4. MemTypeOK'
    BY <1>1, <2>1, Types, Locks, TypeBack DEF locks, heap
  <2> QED
    BY <2>2, <2>3, <2>4 DEF MInv
<1> QED
  BY <1>2, <1>3

\* The lock of allocated memory.
LEMMA NewMemory ==
  ASSUME MInv, NEW a \in Addresses
  PROVE  LET l == [Kept EXCEPT !.type = 1, !.offset = a]
         IN  l \in Lock /\ l.type = 1 /\ l.offset = a
<1>1. Kept \in Lock
  BY NewLockIs
<1>2. /\ [Kept EXCEPT !.type = 1] \in Lock
      /\ [Kept EXCEPT !.type = 1, !.offset = a] =
            [[Kept EXCEPT !.type = 1] EXCEPT !.offset = a]
      /\ [Kept EXCEPT !.type = 1].type = 1
  BY <1>1 DEF Lock
<1>3. \A r \in Lock : /\ [r EXCEPT !.offset = a] \in Lock
                      /\ [r EXCEPT !.offset = a].type = r.type
                      /\ [r EXCEPT !.offset = a].offset = a
  BY DEF Lock
<1> QED
  BY <1>2, <1>3

LEMMA MInvStep ==
  ASSUME MInv, [MemNext]_memVars
  PROVE  MInv'
<1>1. Kept \in Lock /\ [Kept EXCEPT !.type = 0] \in Lock
  BY NewLockIs DEF Lock
<1>2. ASSUME NEW v \in MemVars, NEW a \in Addresses, MemNew(v, a)
      PROVE  MInv'
  <2>1. MakeLock([Kept EXCEPT !.type = 1, !.offset = a]) /\ Block(v) /\ UNCHANGED <<owners, twice>>
        /\ allocated' = [allocated EXCEPT ![a] = mem_lock_id']
    BY <1>2 DEF MemNew
  <2>2. [Kept EXCEPT !.type = 1, !.offset = a] \in Lock
    BY NewMemory
  <2>3. mem_lock_id' \in 0 .. MaxLockId
    BY <2>1, <2>2, MakeLockMakes
  <2>4. allocated' \in [Addresses -> 0 .. MaxLockId] /\ twice' \in BOOLEAN
    BY <2>1, <2>3, Types
  <2> QED
    BY <2>1, <2>2, <2>4, NewBlock
<1>3. ASSUME NEW v \in MemVars, MemUnsecured(v) \/ MemNewZero(v)
      PROVE  MInv'
  <2>1. UNCHANGED <<owners, heap>> /\ Block(v)
    BY <1>3 DEF MemUnsecured, MemNewZero
  <2>2. PICK l \in Lock : MakeLock(l)
    BY <1>1, <1>3 DEF MemUnsecured, MemNewZero
  <2> QED
    BY <2>1, <2>2, NewBlock, Types DEF heap
<1>4. ASSUME NEW v \in MemVars, NEW w \in MemVars, CopyBlock(v, w)
      PROVE  MInv'
  <2>1. mem_var[w] \in BlockSet
    BY Types
  <2>2. mem_var[w].lock_offset # 0 =>
          mem_var[w].lock_offset \in DOMAIN mem_lock /\ mem_var[w].lock_id # 0
    BY DEF MInv, BlockInv
  <2> QED
    BY <1>4, <2>1, <2>2, OnlyBlock DEF CopyBlock
<1>5. ASSUME NEW v \in MemVars, NEW o \in Owners, MemOf(v, o)
      PROVE  MInv'
  <2> DEFINE b == [lock_offset |-> owner_lock[o], lock_id |-> mem_lock[owner_lock[o]].id]
  <2>1. owner_lock[o] \in DOMAIN mem_lock /\ mem_lock[owner_lock[o]].id # 0
    BY <1>5, OwnersLock DEF MemOf
  <2>2. mem_lock[owner_lock[o]] \in Lock /\ owner_lock[o] \in 0 .. MaxLockId /\ MaxLockId \in Nat
    BY <2>1, Locks, Types
  <2>3. b \in BlockSet /\ b.lock_offset = owner_lock[o] /\ b.lock_id = mem_lock[owner_lock[o]].id
    BY <2>2 DEF BlockSet, Lock
  <2>4. mem_var' = [mem_var EXCEPT ![v] = b] /\ UNCHANGED <<locks, owners, heap>>
    BY <1>5 DEF MemOf
  <2> HIDE DEF b
  <2> QED
    BY <2>1, <2>3, <2>4, OnlyBlock
<1>6. CASE UNCHANGED memVars
  BY <1>6 DEF MInv, MemTypeOK, TableInv, FreeInv, BlockInv, OwnerInv, memVars, locks, owners, heap
<1> QED
  BY <1>2, <1>3, <1>4, <1>5, <1>6, MemFreeKeeps, MemImageKeeps, OwnerBeginsKeeps,
     ImageBeginsKeeps, ArrayMovesKeeps, OwnerEndsKeeps DEF MemNext

-----------------------------------------------------------------------------
(* What locks in use stand for is there, if _MEMNEW(0) gets no type.       *)

LEMMA HeapMade ==
  ASSUME MInv, HeapInv, NEW n, NEW l \in Lock, Made(n, l), twice' = twice,
         \A a \in Addresses : allocated[a] # 0 => allocated'[a] = allocated[a],
         \A o \in Owners : owner_lock[o] # 0 => owner_lock'[o] = owner_lock[o],
         l.type = 1 => l.offset \in Addresses /\ allocated'[l.offset] = mem_lock_id',
         l.type \in {2, 3, 4} => \E o \in Owners : owner_lock'[o] = n
  PROVE  HeapInv'
<1>1. SUFFICES ASSUME NEW i \in DOMAIN mem_lock', mem_lock'[i].id # 0
               PROVE  /\ mem_lock'[i].type = 1 =>
                           /\ mem_lock'[i].offset \in Addresses
                           /\ allocated'[mem_lock'[i].offset] = mem_lock'[i].id
                      /\ mem_lock'[i].type \in {2, 3, 4} => \E o \in Owners : owner_lock'[o] = i
  BY DEF HeapInv, HasMemory, HasOwner
<1>2. CASE i = n
  <2>1. \A r \in Lock, k \in Nat : LET q == [r EXCEPT !.id = k]
                                   IN  q.type = r.type /\ q.offset = r.offset /\ q.id = k
    BY DEF Lock
  <2>2. mem_lock_id' \in Nat /\ mem_lock'[i] = [l EXCEPT !.id = mem_lock_id']
    BY <1>2, Locks DEF Made
  <2>3. mem_lock'[i].type = l.type /\ mem_lock'[i].offset = l.offset
        /\ mem_lock'[i].id = mem_lock_id'
    BY <2>1, <2>2
  <2> QED
    BY <1>2, <2>3
<1>3. CASE i # n
  <2>1. i \in DOMAIN mem_lock /\ mem_lock'[i] = mem_lock[i] /\ i # 0
    BY <1>3, Locks DEF Made
  <2>2. HasMemory(mem_lock[i]) /\ HasOwner(i)
    BY <2>1 DEF HeapInv
  <2> QED
    BY <1>1, <2>1, <2>2 DEF HasMemory, HasOwner
<1> QED
  BY <1>2, <1>3

LEMMA HeapFreed ==
  ASSUME MInv, HeapInv, NEW n \in DOMAIN mem_lock, mem_lock[n].id # 0, FreeLock(n),
         \A o \in Owners : owner_lock[o] # n => owner_lock'[o] = owner_lock[o]
  PROVE  HeapInv'
<1>1. /\ DOMAIN mem_lock' = DOMAIN mem_lock
      /\ \A i \in DOMAIN mem_lock : i # n => mem_lock'[i] = mem_lock[i]
      /\ mem_lock'[n].id = 0
  <2>1. \A r \in Lock : [r EXCEPT !.id = 0].id = 0
    BY DEF Lock
  <2> QED
    BY <2>1, FreeLockFrees, Locks DEF Freed
<1>2. HasMemory(mem_lock[n])
  BY DEF HeapInv
<1>3. twice' = FALSE
  <2>1. twice = FALSE /\ MaxLockId \in Nat
    BY Types, Locks DEF HeapInv
  <2>2. CASE mem_lock[n].type = 1
    <3>1. ~(allocated[mem_lock[n].offset] # mem_lock[n].id)
      BY <1>2, <2>2 DEF HasMemory
    <3>2. twice' = (twice \/ allocated[mem_lock[n].offset] # mem_lock[n].id)
      BY <2>2 DEF FreeLock
    <3> QED
      BY <2>1, <3>1, <3>2, Zenon
  <2>3. CASE mem_lock[n].type # 1
    BY <2>1, <2>3 DEF FreeLock
  <2> QED
    BY <2>2, <2>3
<1>4. \A i \in DOMAIN mem_lock :
          i # n /\ mem_lock[i].id # 0 /\ mem_lock[i].type = 1 =>
              /\ mem_lock[i].offset \in Addresses
              /\ allocated'[mem_lock[i].offset] = mem_lock[i].id
  <2> SUFFICES ASSUME NEW i \in DOMAIN mem_lock, i # n, mem_lock[i].id # 0, mem_lock[i].type = 1
               PROVE  /\ mem_lock[i].offset \in Addresses
                      /\ allocated'[mem_lock[i].offset] = mem_lock[i].id
    OBVIOUS
  <2>1. mem_lock[i].offset \in Addresses /\ allocated[mem_lock[i].offset] = mem_lock[i].id
    BY DEF HeapInv, HasMemory
  <2>2. CASE mem_lock[n].type = 1
    <3>1. mem_lock[n].offset # mem_lock[i].offset
      BY <1>2, <2>1, <2>2 DEF HasMemory, MInv, TableInv
    <3>2. allocated' = [allocated EXCEPT ![mem_lock[n].offset] = 0]
      BY <2>2 DEF FreeLock
    <3> QED
      BY <2>1, <3>1, <3>2, Types
  <2>3. CASE mem_lock[n].type # 1
    BY <2>1, <2>3 DEF FreeLock
  <2> QED
    BY <2>2, <2>3
<1>5. \A i \in DOMAIN mem_lock : i # n /\ mem_lock[i].id # 0 /\ mem_lock[i].type \in {2, 3, 4} =>
          \E o \in Owners : owner_lock'[o] = i
  BY DEF HeapInv, HasOwner
<1> QED
  BY <1>1, <1>3, <1>4, <1>5 DEF HeapInv, HasMemory, HasOwner

LEMMA HeapStep ==
  ASSUME MInv, HeapInv, ~StaleTypes, [MemNext]_memVars
  PROVE  HeapInv'
<1>k. Kept \in Lock
  BY NewLockIs
<1>1. ASSUME NEW v \in MemVars, NEW a \in Addresses, MemNew(v, a)
      PROVE  HeapInv'
  <2> DEFINE l == [Kept EXCEPT !.type = 1, !.offset = a]
  <2>1. l \in Lock /\ l.type = 1 /\ l.offset = a
    BY NewMemory
  <2>2. /\ MakeLock(l) /\ UNCHANGED <<owners, twice>> /\ allocated[a] = 0
        /\ allocated' = [allocated EXCEPT ![a] = mem_lock_id']
    BY <1>1 DEF MemNew
  <2> HIDE DEF l
  <2>3. Made(NewLock, l)
    BY <2>1, <2>2, MakeLockMakes
  <2>4. allocated'[a] = mem_lock_id' /\ \A c \in Addresses : c # a => allocated'[c] = allocated[c]
    BY <2>2, Types
  <2> QED
    BY <2>1, <2>2, <2>3, <2>4, HeapMade DEF owners
<1>2. ASSUME NEW v \in MemVars, MemUnsecured(v) \/ MemNewZero(v)
      PROVE  HeapInv'
  <2>1. [Kept EXCEPT !.type = 0] \in Lock /\ [Kept EXCEPT !.type = 0].type = 0
    BY <1>k DEF Lock
  <2>2. PICK l \in Lock : MakeLock(l) /\ l.type = 0
    BY <1>2, <1>k, <2>1 DEF MemUnsecured, MemNewZero
  <2>3. Made(NewLock, l) /\ UNCHANGED <<owners, heap>>
    BY <1>2, <2>2, MakeLockMakes DEF MemUnsecured, MemNewZero
  <2> QED
    BY <2>2, <2>3, HeapMade DEF owners, heap
<1>3. ASSUME NEW v \in MemVars, MemFree(v)
      PROVE  HeapInv'
  <2> DEFINE n == mem_var[v].lock_offset
  <2>1. n \in DOMAIN mem_lock /\ mem_lock[n].id # 0
    BY <1>3, ValidIsInUse DEF MemFree
  <2>2. CASE mem_lock[n].type \in {0, 1}
    BY <1>3, <2>1, <2>2, HeapFreed DEF MemFree, owners
  <2>3. CASE mem_lock[n].type \notin {0, 1}
    BY <1>3, <2>3 DEF MemFree, HeapInv, HasMemory, HasOwner, owners, heap, locks
  <2> QED
    BY <2>2, <2>3
<1>4. ASSUME NEW v \in MemVars, NEW o \in Owners, MemImage(v, o)
      PROVE  HeapInv'
  <2>1. CASE owner_id[o] # 0
    BY <1>4, <2>1 DEF MemImage, HeapInv, HasMemory, HasOwner, owners, heap, locks
  <2>2. CASE owner_id[o] = 0
    <3> DEFINE l == [Kept EXCEPT !.type = 2]
    <3>1. l \in Lock /\ l.type = 2
      BY <1>k DEF Lock
    <3>2. MakeLock(l) /\ owner_lock' = [owner_lock EXCEPT ![o] = NewLock] /\ UNCHANGED heap
      BY <1>4, <2>2 DEF MemImage
    <3> HIDE DEF l
    <3>3. Made(NewLock, l)
      BY <3>1, <3>2, MakeLockMakes
    <3>4. owner_lock[o] = 0
      BY <1>4, <2>2 DEF MemImage, MInv, OwnerInv
    <3>5. owner_lock'[o] = NewLock /\ \A p \in Owners : p # o => owner_lock'[p] = owner_lock[p]
      BY <3>2, Types
    <3> QED
      BY <3>1, <3>2, <3>3, <3>4, <3>5, HeapMade DEF heap
  <2> QED
    BY <2>1, <2>2
<1>5. ASSUME NEW o \in Owners, NEW type \in {3, 4}, OwnerBegins(o, type)
      PROVE  HeapInv'
  <2> DEFINE l == [Kept EXCEPT !.type = type]
  <2>1. l \in Lock /\ l.type = type
    BY <1>k DEF Lock
  <2>2. MakeLock(l) /\ owner_lock' = [owner_lock EXCEPT ![o] = NewLock] /\ UNCHANGED heap
    BY <1>5 DEF OwnerBegins
  <2> HIDE DEF l
  <2>3. Made(NewLock, l)
    BY <2>1, <2>2, MakeLockMakes
  <2>4. owner_lock[o] = 0
    BY <1>5 DEF OwnerBegins, MInv, OwnerInv
  <2>5. owner_lock'[o] = NewLock /\ \A p \in Owners : p # o => owner_lock'[p] = owner_lock[p]
    BY <2>2, Types
  <2> QED
    BY <2>1, <2>2, <2>3, <2>4, <2>5, HeapMade DEF heap
<1>6. ASSUME NEW o \in Owners, ArrayMoves(o)
      PROVE  HeapInv'
  <2>1. \A i \in DOMAIN mem_lock' : mem_lock'[i].id # 0 /\ mem_lock'[i] # mem_lock[i] =>
            i = owner_lock[o] /\ mem_lock'[i].type = 4
    BY <1>6, ArrayMovesLock
  <2>2. DOMAIN mem_lock' = DOMAIN mem_lock /\ UNCHANGED <<owner_lock, allocated, twice>>
    BY <1>6, ArrayMovesLock DEF ArrayMoves, owners, heap
  <2> QED
    BY <2>1, <2>2 DEF HeapInv, HasMemory, HasOwner
<1>7. ASSUME NEW o \in Owners, OwnerEnds(o)
      PROVE  HeapInv'
  <2>1. owner_lock' = [owner_lock EXCEPT ![o] = 0]
    BY <1>7 DEF OwnerEnds
  <2>2. CASE owner_type[o] # 2 \/ owner_id[o] # 0
    <3>1. /\ FreeLock(owner_lock[o]) /\ owner_lock[o] \in DOMAIN mem_lock
          /\ mem_lock[owner_lock[o]].id # 0
      BY <1>7, <2>2, OwnersLock DEF OwnerEnds
    <3> QED
      BY <2>1, <3>1, Types, HeapFreed
  <2>3. CASE ~(owner_type[o] # 2 \/ owner_id[o] # 0)
    <3>1. UNCHANGED <<locks, heap>> /\ owner_lock[o] = 0
      BY <1>7, <2>3 DEF OwnerEnds, MInv, OwnerInv
    <3>2. owner_lock' = owner_lock
      BY <2>1, <3>1, Types
    <3> QED
      BY <3>1, <3>2 DEF HeapInv, HasMemory, HasOwner, locks, heap
  <2> QED
    BY <2>2, <2>3
<1>8. ASSUME NEW o \in Owners, ImageBegins(o)
      PROVE  HeapInv'
  BY <1>8 DEF ImageBegins, HeapInv, HasMemory, HasOwner, locks, heap
<1>9. CASE \/ UNCHANGED memVars
           \/ \E v \in MemVars : \/ \E w \in MemVars : CopyBlock(v, w)
                                 \/ \E o \in Owners : MemOf(v, o)
  <2>1. UNCHANGED <<mem_lock, owner_lock, allocated, twice>>
    BY <1>9 DEF CopyBlock, MemOf, memVars, locks, owners, heap
  <2> QED
    BY <2>1 DEF HeapInv, HasMemory, HasOwner
<1> QED
  BY <1>1, <1>2, <1>3, <1>4, <1>5, <1>6, <1>7, <1>8, <1>9 DEF MemNext

-----------------------------------------------------------------------------
(* Theorems.                                                               *)

LEMMA MInvFirst ==
  MemInit => MInv /\ HeapInv
<1> SUFFICES ASSUME MemInit
             PROVE  MInv /\ HeapInv
  OBVIOUS
<1>1. MaxLockId \in Nat
  BY MemAssumption
<1>2. MemTypeOK
  <2>1. mem_lock \in Seq([id : 0 .. MaxLockId, type : 0 .. 4, offset : Addresses \union {0}])
        /\ mem_lock_freed \in Seq(1 .. MaxLockId)
    BY EmptySeq DEF MemInit
  <2>2. mem_var \in [MemVars -> [lock_offset : 0 .. MaxLockId, lock_id : -1 .. MaxLockId]]
    BY <1>1 DEF MemInit, NoBlock
  <2>3. /\ owner_lock \in [Owners -> 0 .. MaxLockId] /\ owner_type \in [Owners -> {0, 2, 3, 4}]
        /\ owner_id \in [Owners -> 0 .. MaxLockId]
        /\ allocated \in [Addresses -> 0 .. MaxLockId] /\ mem_lock_id \in 0 .. MaxLockId
    BY <1>1 DEF MemInit
  <2>4. twice \in BOOLEAN
    BY DEF MemInit
  <2> QED
    BY <2>1, <2>2, <2>3, <2>4 DEF MemTypeOK
<1>3. TableInv /\ FreeInv /\ BlockInv /\ OwnerInv
  BY DEF MemInit, TableInv, FreeInv, BlockInv, OwnerInv, NoBlock, IsInjective
<1>4. HeapInv
  BY DEF MemInit, HeapInv
<1> QED
  BY <1>2, <1>3, <1>4 DEF MInv

LEMMA MInvAlways ==
  MemSpec => []MInv
BY MInvFirst, MInvStep, PTL DEF MemSpec

LEMMA LocksAre ==
  MInv => LocksExact
<1> SUFFICES ASSUME MInv
             PROVE  LocksExact
  OBVIOUS
<1>1. \A i \in DOMAIN mem_lock_freed : mem_lock[mem_lock_freed[i]].id = 0
  BY DEF MInv, FreeInv
<1>2. \A o \in Owners : owner_lock[o] # 0 => owner_lock[o] \notin Range(mem_lock_freed)
  BY DEF MInv, FreeInv, OwnerInv, Range
<1> QED
  BY <1>1, <1>2 DEF MInv, FreeInv, OwnerInv, LocksExact

LEMMA ValidAreThere ==
  MInv /\ HeapInv => ValidIsThere
<1> SUFFICES ASSUME MInv, HeapInv, NEW v \in MemVars, Valid(mem_var[v])
             PROVE  LET l == mem_var[v].lock_offset
                    IN  /\ mem_lock[l].type = 1 =>
                             allocated[mem_lock[l].offset] = mem_var[v].lock_id
                        /\ mem_lock[l].type \in {2, 3, 4} => \E o \in Owners : owner_lock[o] = l
  BY DEF ValidIsThere
<1> DEFINE l == mem_var[v].lock_offset
<1>1. l \in DOMAIN mem_lock /\ mem_lock[l].id # 0 /\ mem_lock[l].id = mem_var[v].lock_id
  BY ValidIsInUse DEF Valid
<1>2. HasMemory(mem_lock[l]) /\ HasOwner(l)
  BY <1>1 DEF HeapInv
<1> QED
  BY <1>1, <1>2 DEF HasMemory, HasOwner

\* The locks, blocks and owners keep their types (memblock.cpp).
THEOREM MemTypeCorrect ==
  MemSpec => []MemTypeOK
BY MInvAlways, PTL DEF MInv

\* new_mem_lock() and free_mem_lock() never give a lock to two users: those to be used again
\* are not valid, not in use, and there once.
THEOREM LocksAreExact ==
  MemSpec => []LocksExact
BY MInvAlways, LocksAre, PTL

\* free() is called once for what malloc() gave, and _MEMEXISTS says only of blocks whose
\* memory, SUB, image or array is there that they exist, if _MEMNEW(0) gets a lock of no type.
THEOREM BlocksAreExact ==
  ASSUME ~StaleTypes
  PROVE  MemSpec => []BlocksExact
<1>1. MInv /\ HeapInv /\ [MemNext]_memVars => MInv' /\ HeapInv'
  BY MInvStep, HeapStep
<1>2. MInv /\ HeapInv => BlocksExact
  BY LocksAre, ValidAreThere DEF BlocksExact, HeapInv, FreedOnce
<1> QED
  BY <1>1, <1>2, MInvFirst, PTL DEF MemSpec

-----------------------------------------------------------------------------
(* Hardware images.                                                        *)

\* A frame is taken neither between the reading of its order and the linking of a command, nor
\* during a rendering if there is a SUB _GL.
KeptApart == \A m \in Modes : ~m.late /\ ~(m.gl /\ m.overlaps)

Order(c) == commands[c].order

CommandType == [kind : {"put", "request", "free", "removed"}, src : Nat, dst : Int,
                order : Nat, next : Nat]
ImageType == [exists : BOOLEAN, valid : BOOLEAN]

\* The types, whatever the bounds.
ManyTypes ==
    /\ commands \in Seq(CommandType) /\ images \in Seq(ImageType)
    /\ first_command \in Nat /\ last_added \in Nat /\ last_rendered \in Nat
    /\ next_to_remove \in Nat /\ hp_last \in Nat
    /\ hg_cmd \in Nat /\ layer_first \in Nat /\ first_prev \in Nat
    /\ last_hw_order \in Nat /\ rendered_order \in Nat /\ disp_order \in Nat
    /\ hg_order \in Nat /\ display_order_next \in Nat
    /\ soft \in {"none", "ready", "shown"} /\ disp_pc \in {"out", "build", "publish"}
    /\ hp_pc \in {"stmt", "flush", "link"}
    /\ hp_cmd \in [kind : {"none", "put", "request"}, src : Nat, dst : Int]
    /\ hg_pc \in {"idle", "new", "same", "skip", "skip.next", "frame", "frame.next"}
    /\ hg_layer \in 1 .. 2 /\ rerender \in BOOLEAN /\ mode \in Modes

\* Commands are linked in the order in which they were made; one may not be linked yet.
ListInv ==
    /\ last_added = IF hp_pc = "link" THEN Len(commands) - 1 ELSE Len(commands)
    /\ first_command = IF last_added = 0 THEN 0 ELSE 1
    /\ \A c \in DOMAIN commands : commands[c].next = IF c < last_added THEN c + 1 ELSE 0

\* Their orders do not fall, and what the window may have chosen is complete.
OrderInv ==
    /\ \A c, d \in DOMAIN commands : c <= d => Order(c) <= Order(d)
    /\ \A c \in DOMAIN commands : Order(c) \in 1 .. display_order_next
    /\ hp_pc = "link" => Order(Len(commands)) = display_order_next
    /\ last_hw_order < display_order_next
    /\ disp_pc # "out" => disp_order = display_order_next - 1
    /\ disp_pc = "out" => disp_order = 0
    /\ hg_order <= last_hw_order /\ rendered_order <= last_hw_order
    /\ ~mode.overlaps /\ hg_pc # "idle" => hg_order = last_hw_order

\* Removed are the first commands, all of frames before the one rendered last.
RemoveInv ==
    /\ \A c \in DOMAIN commands : commands[c].kind = "removed" <=> c < next_to_remove
    /\ next_to_remove = 0 <=> last_rendered = 0
    /\ next_to_remove <= last_rendered
    /\ next_to_remove > 1 => Order(next_to_remove) < Order(last_rendered)
    /\ hp_last # 0 =>
          /\ hp_last \in DOMAIN commands /\ next_to_remove # 0 /\ next_to_remove <= hp_last
          /\ Order(hp_last) <= Order(last_rendered)
          /\ next_to_remove > 1 => Order(next_to_remove) < Order(hp_last)

\* What was rendered last ends at order o.
EndsAt(o) == \A b \in DOMAIN commands : Order(b) <= o <=> b <= last_rendered
Ends == EndsAt(hg_order)

\* c is the first command of order o.
FirstOf(c, o) ==
    /\ c \in DOMAIN commands /\ Order(c) = o
    /\ \A b \in DOMAIN commands : Order(b) = o => c <= b

\* Between renderings.
IdleInv ==
    /\ hg_cmd = 0 /\ hg_layer = 1 /\ ~rerender /\ drawn = {}
    /\ last_rendered # 0 => EndsAt(Order(last_rendered))
    /\ first_prev # 0 /\ ~mode.overlaps =>
          FirstOf(first_prev, rendered_order) /\ last_rendered # 0
          /\ Order(last_rendered) = rendered_order

\* While frames that were missed are skipped.
SkipInv ==
    /\ first_prev = 0 /\ hg_layer = 1 /\ drawn = {}
    /\ rerender => last_rendered = hg_cmd /\ FirstOf(hg_cmd, hg_order)
    /\ ~rerender =>
          /\ last_rendered = 0 \/ Order(last_rendered) < hg_order \/ Ends
          /\ IF hg_cmd = 0 THEN Ends ELSE hg_cmd = last_rendered + 1

SkipNextInv ==
    /\ first_prev = 0 /\ hg_layer = 1 /\ drawn = {} /\ ~rerender
    /\ hg_cmd # 0 /\ last_rendered = hg_cmd /\ Order(hg_cmd) < hg_order

\* While the commands of a frame are carried out, twice.
FrameInv ==
    /\ layer_first # 0 /\ Order(layer_first) = hg_order => FirstOf(layer_first, hg_order)
    /\ layer_first # 0 => Order(layer_first) >= hg_order
    /\ first_prev # 0 => first_prev = layer_first /\ Order(layer_first) = hg_order
                         /\ last_rendered # 0 /\ Order(last_rendered) = hg_order
    /\ first_prev = 0 => hg_cmd = layer_first
    /\ hg_cmd # 0 => Order(hg_cmd) >= hg_order
    /\ ~OfFrame => Ends
    /\ OfFrame => IF hg_layer = 1 /\ ~rerender THEN hg_cmd = last_rendered + 1
                  ELSE last_rendered # 0 /\ Order(last_rendered) = hg_order
    /\ rerender => FirstOf(layer_first, hg_order)

FrameNextInv ==
    /\ first_prev # 0 /\ first_prev = layer_first /\ FirstOf(layer_first, hg_order)
    /\ hg_cmd # 0 /\ last_rendered = hg_cmd /\ Order(hg_cmd) = hg_order

PlaceInv ==
    /\ {last_rendered, hg_cmd, layer_first, first_prev} \subseteq 0 .. last_added
    /\ last_rendered # 0 => Order(last_rendered) <= last_hw_order
    /\ last_rendered # 0 /\ hg_pc # "idle" => Order(last_rendered) <= hg_order
    /\ hg_pc \in {"idle", "new", "same"} => IdleInv
    /\ hg_pc = "skip" => SkipInv
    /\ hg_pc = "skip.next" => SkipNextInv
    /\ hg_pc = "frame" => FrameInv
    /\ hg_pc = "frame.next" => FrameNextInv
    /\ rerender => mode.gl

\* Lasting commands are carried out as they are passed, once.
Passed == IF hg_layer = 1 /\ ~rerender THEN {b \in DOMAIN commands : b <= last_rendered}
          ELSE {b \in DOMAIN commands : Order(b) <= hg_order}
DoneInv ==
    /\ done \subseteq Passed
    /\ \A c \in done : Lasting(c) \/ commands[c].kind = "removed"
    /\ \A b \in Passed : Lasting(b) => b \in done

Uses(c, i) == c.src = i \/ c.dst = i
Ending == {"request", "free"}

\* An image is freed once, after all that uses it.
UseInv ==
    /\ \A c \in DOMAIN commands : /\ commands[c].src \in DOMAIN images
                                  /\ commands[c].dst \in -1 .. Len(images)
                                  /\ commands[c].kind = "free" => commands[c].dst = 0
    /\ Len(images) <= MaxImages
    /\ \A i \in DOMAIN images : images[i].valid =>
          images[i].exists /\ \A c \in DOMAIN commands :
             commands[c].kind \in Ending => commands[c].src # i
    /\ \A c, d \in DOMAIN commands :
          /\ commands[c].kind = "put" /\ commands[d].kind = "request"
             /\ Uses(commands[c], commands[d].src) => Order(c) <= Order(d)
          /\ commands[c].kind = "put" /\ commands[d].kind = "free"
             /\ Uses(commands[c], commands[d].src) => Order(c) < Order(d)
          /\ commands[c].kind \in Ending /\ commands[d].kind \in Ending
             /\ commands[c].src = commands[d].src => c = d
    /\ hp_pc = "flush" =>
          /\ hp_cmd.kind \in {"put", "request"}
          /\ hp_cmd.src \in DOMAIN images /\ images[hp_cmd.src].valid
          /\ hp_cmd.dst \in -1 .. Len(images)
          /\ hp_cmd.dst > 0 => images[hp_cmd.dst].valid

\* What a freed image was used for is past.
GoneInv ==
    \A i \in DOMAIN images : ~images[i].exists =>
       /\ last_rendered # 0
       /\ \A c \in DOMAIN commands :
            /\ commands[c].kind = "put" /\ Uses(commands[c], i) => Order(c) < Order(last_rendered)
            /\ commands[c].kind = "request" => commands[c].src # i
            /\ commands[c].kind = "free" /\ commands[c].src = i => c \in done

ImageInv == UseInv /\ GoneInv

\* What of the frame has been drawn again.
Here(c) == hg_cmd = 0 \/ c < hg_cmd \/ (hg_pc = "frame.next" /\ c = hg_cmd)
DrawnInv ==
    rerender /\ hg_pc \in {"frame", "frame.next"} =>
        \A c \in DOMAIN commands :
            commands[c].kind = "put" /\ Order(c) = hg_order =>
               /\ commands[c].dst = 0 /\ (hg_layer = 2 \/ Here(c)) => c \in drawn
               /\ commands[c].dst = -1 /\ hg_layer = 2 /\ Here(c) => c \in drawn

\* What flush_old_hardware_commands() appends are at most as many as it removes.
BoundInv ==
    /\ Len(commands) <= 2 * MaxCommands
    /\ display_order_next <= MaxOrder + 1
    /\ hp_pc = "flush" =>
          IF hp_last = 0 THEN Len(commands) < MaxCommands
          ELSE hp_last < MaxCommands /\ Len(commands) < MaxCommands + next_to_remove
    /\ done \subseteq Nat /\ drawn \subseteq DOMAIN commands

HwInv == KeptApart /\ ManyTypes /\ ListInv /\ OrderInv /\ RemoveInv /\ PlaceInv /\ DoneInv
         /\ ImageInv /\ DrawnInv /\ BoundInv

-----------------------------------------------------------------------------
(* What the invariant says of types, and what the program's steps do to the list. *)

LEMMA CommandFacts ==
    ASSUME HwInv
    PROVE  /\ Len(commands) \in Nat /\ DOMAIN commands = 1 .. Len(commands)
           /\ \A c \in DOMAIN commands :
                 /\ commands[c] \in CommandType
                 /\ commands[c].kind \in {"put", "request", "free", "removed"}
                 /\ commands[c].src \in Nat /\ commands[c].dst \in Int
                 /\ commands[c].order \in Nat /\ commands[c].next \in Nat
           /\ last_added \in 0 .. Len(commands) /\ Len(commands) <= last_added + 1
           /\ last_rendered \in 0 .. last_added /\ hg_cmd \in 0 .. last_added
           /\ layer_first \in 0 .. last_added /\ first_prev \in 0 .. last_added
           /\ next_to_remove \in 0 .. last_rendered
  <1>1. commands \in Seq(CommandType)
    BY DEF HwInv, ManyTypes
  <1>2. Len(commands) \in Nat /\ DOMAIN commands = 1 .. Len(commands)
    BY <1>1
  <1>3. \A c \in DOMAIN commands : commands[c] \in CommandType
    BY <1>1
  <1>4. \A r \in CommandType : /\ r.kind \in {"put", "request", "free", "removed"}
                               /\ r.src \in Nat /\ r.dst \in Int
                               /\ r.order \in Nat /\ r.next \in Nat
    BY DEF CommandType
  <1>5. last_added \in 0 .. Len(commands) /\ Len(commands) <= last_added + 1
    <2>1. last_added \in Nat
      BY DEF HwInv, ManyTypes
    <2>2. last_added = IF hp_pc = "link" THEN Len(commands) - 1 ELSE Len(commands)
      BY DEF HwInv, ListInv
    <2>3. Len(commands) \in Nat
      BY <1>2
    <2>4. CASE hp_pc = "link"
      BY <2>1, <2>2, <2>3, <2>4
    <2>5. CASE hp_pc # "link"
      BY <2>1, <2>2, <2>3, <2>5
    <2> QED BY <2>4, <2>5
  <1>6. /\ last_rendered \in 0 .. last_added /\ hg_cmd \in 0 .. last_added
        /\ layer_first \in 0 .. last_added /\ first_prev \in 0 .. last_added
        /\ next_to_remove \in 0 .. last_rendered
    BY DEF HwInv, PlaceInv, RemoveInv, ManyTypes
  <1> QED BY <1>2, <1>3, <1>4, <1>5, <1>6

LEMMA ImageFacts ==
    ASSUME HwInv
    PROVE  /\ Len(images) \in Nat /\ DOMAIN images = 1 .. Len(images)
           /\ \A i \in DOMAIN images :
                 /\ images[i] \in ImageType
                 /\ images[i].exists \in BOOLEAN /\ images[i].valid \in BOOLEAN
  <1>1. images \in Seq(ImageType)
    BY DEF HwInv, ManyTypes
  <1>2. \A r \in ImageType : r.exists \in BOOLEAN /\ r.valid \in BOOLEAN
    BY DEF ImageType
  <1>3. Len(images) \in Nat /\ DOMAIN images = 1 .. Len(images)
    BY <1>1
  <1>4. \A i \in DOMAIN images : images[i] \in ImageType
    BY <1>1
  <1> QED BY <1>2, <1>3, <1>4

LEMMA RemovedRecord ==
    ASSUME NEW r \in CommandType
    PROVE  LET s == [r EXCEPT !.kind = "removed"]
           IN  /\ s \in CommandType /\ s.kind = "removed" /\ s.src = r.src /\ s.dst = r.dst
               /\ s.order = r.order /\ s.next = r.next
  BY DEF CommandType

LEMMA NextRecord ==
    ASSUME NEW r \in CommandType, NEW m \in Nat
    PROVE  LET s == [r EXCEPT !.next = m]
           IN  /\ s \in CommandType /\ s.kind = r.kind /\ s.src = r.src /\ s.dst = r.dst
               /\ s.order = r.order /\ s.next = m
  BY DEF CommandType

\* A new command, linked or not yet.
NewCommand(kind, src, dst) ==
    [kind |-> kind, src |-> src, dst |-> dst, order |-> display_order_next, next |-> 0]

LEMMA NewRecord ==
    ASSUME HwInv, NEW kind \in {"put", "request", "free"}, NEW src \in Nat, NEW dst \in Int
    PROVE  NewCommand(kind, src, dst) \in CommandType
  <1>1. display_order_next \in Nat
    BY DEF HwInv, ManyTypes
  <1> QED BY <1>1 DEF NewCommand, CommandType

LEMMA TakeOffIs ==
    ASSUME HwInv, TakeOff
    PROVE  LET n == Len(commands)
               k == next_to_remove
               more == commands[k].kind = "request"
           IN  /\ hp_pc = "flush" /\ hp_last # 0 /\ last_added = n
               /\ k \in 1 .. n - 1
               /\ commands[k + 1].order < commands[hp_last].order
               /\ next_to_remove' = k + 1
               /\ commands' \in Seq(CommandType)
               /\ Len(commands') = IF more THEN n + 1 ELSE n
               /\ last_added' = Len(commands') /\ first_command' = 1
               /\ \A c \in 1 .. n :
                     /\ commands'[c].kind = IF c = k THEN "removed" ELSE commands[c].kind
                     /\ commands'[c].src = commands[c].src
                     /\ commands'[c].dst = commands[c].dst
                     /\ commands'[c].order = commands[c].order
                     /\ commands'[c].next = IF c < Len(commands') THEN c + 1 ELSE 0
               /\ more => commands'[n + 1] = NewCommand("free", commands[k].src, 0)
  <1> DEFINE n == Len(commands)
             k == next_to_remove
             old == commands[k]
             cs == [commands EXCEPT ![k].kind = "removed"]
             new == Freeing(old.src)
             ds == Append(cs, new)
  <1>1. /\ hp_pc = "flush" /\ hp_last # 0 /\ old.next # 0
        /\ commands[old.next].order < commands[hp_last].order
        /\ next_to_remove' = old.next
        /\ IF old.kind = "request" THEN Link(ds, Len(cs) + 1)
           ELSE commands' = cs /\ UNCHANGED <<last_added, first_command>>
    BY DEF TakeOff, Removable
  <1>2. last_added = n /\ n \in Nat /\ DOMAIN commands = 1 .. n /\ k \in Nat
    BY <1>1, CommandFacts DEF HwInv, ListInv
  <1>3. k \in 1 .. n
    BY <1>1, <1>2, CommandFacts DEF HwInv, RemoveInv
  <1>4. \A c \in 1 .. n : commands[c].next = IF c < n THEN c + 1 ELSE 0
    BY <1>2 DEF HwInv, ListInv
  <1>5. k \in 1 .. n - 1 /\ old.next = k + 1
    BY <1>1, <1>2, <1>3, <1>4
  <1>6. first_command = 1
    BY <1>2, <1>3 DEF HwInv, ListInv
  <1>7. /\ cs \in Seq(CommandType) /\ Len(cs) = n
        /\ \A c \in 1 .. n : /\ cs[c] \in CommandType
                             /\ c # k => cs[c] = commands[c]
                             /\ cs[c].kind = IF c = k THEN "removed" ELSE commands[c].kind
                             /\ cs[c].src = commands[c].src /\ cs[c].dst = commands[c].dst
                             /\ cs[c].order = commands[c].order /\ cs[c].next = commands[c].next
    <2>1. commands \in Seq(CommandType) /\ old \in CommandType
      BY <1>2, <1>3, CommandFacts DEF HwInv, ManyTypes
    <2>2. [old EXCEPT !.kind = "removed"] \in CommandType
      BY <2>1, RemovedRecord
    <2>3. cs = [commands EXCEPT ![k] = [old EXCEPT !.kind = "removed"]]
      OBVIOUS
    <2> HIDE DEF cs
    <2>4. cs \in Seq(CommandType) /\ Len(cs) = n
      BY <1>2, <1>3, <2>1, <2>2, <2>3
    <2>5. \A c \in 1 .. n : cs[c] = IF c = k THEN [old EXCEPT !.kind = "removed"] ELSE commands[c]
      BY <1>2, <1>3, <2>3
    <2>6. \A c \in 1 .. n : cs[c] \in CommandType
      BY <2>4
    <2> DEFINE r == [old EXCEPT !.kind = "removed"]
    <2>7. /\ r.kind = "removed" /\ r.src = old.src /\ r.dst = old.dst
          /\ r.order = old.order /\ r.next = old.next
      BY <2>1, RemovedRecord
    <2>8. \A c \in 1 .. n : cs[c] = IF c = k THEN r ELSE commands[c]
      BY <2>5
    <2> HIDE DEF r
    <2> QED BY <2>4, <2>6, <2>7, <2>8
  <1> HIDE DEF cs
  <1>8. CASE old.kind # "request"
    <2>1. commands' = cs /\ last_added' = n /\ first_command' = 1
      BY <1>1, <1>2, <1>6, <1>8
    <2> QED BY <1>1, <1>2, <1>4, <1>5, <1>7, <1>8, <2>1
  <1>9. CASE old.kind = "request"
    <2>1. /\ commands' = [ds EXCEPT ![n].next = n + 1]
          /\ last_added' = n + 1 /\ first_command' = 1
      BY <1>1, <1>2, <1>3, <1>6, <1>7, <1>9 DEF Link
    <2>2. new \in CommandType /\ new = NewCommand("free", old.src, 0)
      <3>1. old.src \in Nat
        BY <1>2, <1>3, CommandFacts
      <3>2. new = NewCommand("free", old.src, 0)
        BY DEF Freeing, NewCommand
      <3> QED BY <3>1, <3>2, NewRecord
    <2> HIDE DEF new
    <2>3. /\ ds \in Seq(CommandType) /\ Len(ds) = n + 1 /\ ds[n + 1] = new
          /\ \A c \in 1 .. n : ds[c] = cs[c]
      BY <1>2, <1>7, <2>2
    <2> HIDE DEF ds
    <2> DEFINE r == [ds[n] EXCEPT !.next = n + 1]
    <2>4. commands' = [ds EXCEPT ![n] = r]
      BY <2>1
    <2>5. /\ r \in CommandType
          /\ r.kind = cs[n].kind /\ r.src = cs[n].src /\ r.dst = cs[n].dst
          /\ r.order = cs[n].order /\ r.next = n + 1
      <3>1. n \in 1 .. n /\ n + 1 \in Nat
        BY <1>2, <1>3
      <3>2. ds[n] \in CommandType /\ ds[n] = cs[n]
        BY <1>7, <2>3, <3>1
      <3> QED BY <3>1, <3>2, NextRecord
    <2> HIDE DEF r
    <2>6. commands' \in Seq(CommandType) /\ Len(commands') = n + 1
      BY <1>2, <1>3, <2>3, <2>4, <2>5
    <2>7. \A c \in 1 .. n + 1 : commands'[c] = IF c = n THEN r ELSE ds[c]
      BY <1>2, <1>3, <2>3, <2>4
    <2>8. \A c \in 1 .. n : /\ commands'[c].kind = cs[c].kind
                            /\ commands'[c].src = cs[c].src
                            /\ commands'[c].dst = cs[c].dst
                            /\ commands'[c].order = cs[c].order
                            /\ commands'[c].next = IF c = n THEN n + 1 ELSE cs[c].next
      BY <1>2, <2>3, <2>5, <2>7
    <2>9. commands'[n + 1] = NewCommand("free", old.src, 0)
      BY <1>2, <2>2, <2>3, <2>7
    <2>10. \A c \in 1 .. n : commands'[c].next = IF c < n + 1 THEN c + 1 ELSE 0
      BY <1>2, <1>4, <1>7, <2>8
    <2> QED BY <1>1, <1>2, <1>5, <1>7, <1>9, <2>1, <2>6, <2>8, <2>9, <2>10
  <1> QED BY <1>8, <1>9

LEMMA AddIs ==
    ASSUME HwInv, Add
    PROVE  LET n == Len(commands)
           IN  /\ hp_pc = "flush" /\ hp_pc' = "link" /\ last_added = n
               /\ hp_cmd.kind \in {"put", "request"}
               /\ commands' \in Seq(CommandType) /\ Len(commands') = n + 1
               /\ \A c \in 1 .. n : commands'[c] = commands[c]
               /\ commands'[n + 1] = NewCommand(hp_cmd.kind, hp_cmd.src, hp_cmd.dst)
  <1> DEFINE n == Len(commands)
             new == NewCommand(hp_cmd.kind, hp_cmd.src, hp_cmd.dst)
  <1>1. hp_pc = "flush" /\ hp_pc' = "link" /\ commands' = Append(commands, new)
    BY DEF Add, NewCommand
  <1>2. commands \in Seq(CommandType) /\ n \in Nat /\ last_added = n
    BY <1>1, CommandFacts DEF HwInv, ManyTypes, ListInv
  <1>3. hp_cmd.kind \in {"put", "request"} /\ new \in CommandType
    BY <1>1 DEF HwInv, ManyTypes, ImageInv, UseInv, CommandType, NewCommand
  <1> HIDE DEF new
  <1>4. /\ commands' \in Seq(CommandType) /\ Len(commands') = n + 1
        /\ \A c \in 1 .. n : commands'[c] = commands[c]
        /\ commands'[n + 1] = new
    BY <1>1, <1>2, <1>3
  <1> QED BY <1>1, <1>2, <1>3, <1>4 DEF new

LEMMA LinkAddedIs ==
    ASSUME HwInv, LinkAdded
    PROVE  LET n == Len(commands)
           IN  /\ hp_pc = "link" /\ hp_pc' = "stmt" /\ last_added = n - 1 /\ n \in Nat \ {0}
               /\ commands' \in Seq(CommandType) /\ Len(commands') = n
               /\ last_added' = n /\ first_command' = 1
               /\ \A c \in 1 .. n :
                     /\ commands'[c].kind = commands[c].kind
                     /\ commands'[c].src = commands[c].src
                     /\ commands'[c].dst = commands[c].dst
                     /\ commands'[c].order = commands[c].order
                     /\ commands'[c].next = IF c < n THEN c + 1 ELSE 0
  <1> DEFINE n == Len(commands)
  <1>1. /\ hp_pc = "link" /\ hp_pc' = "stmt" /\ Link(commands, n)
    BY DEF LinkAdded
  <1>2. commands \in Seq(CommandType) /\ n \in Nat /\ last_added = n - 1 /\ n # 0
        /\ DOMAIN commands = 1 .. n
    BY <1>1, CommandFacts DEF HwInv, ManyTypes, ListInv
  <1>3. last_added' = n /\ first_command' = 1
    BY <1>1, <1>2 DEF Link, HwInv, ListInv
  <1>4. \A c \in 1 .. n : commands[c].next = IF c < n - 1 THEN c + 1 ELSE 0
    BY <1>2 DEF HwInv, ListInv
  <1>5. CASE n = 1
    <2>1. commands' = commands
      BY <1>1, <1>2, <1>5 DEF Link
    <2> QED BY <1>1, <1>2, <1>3, <1>4, <1>5, <2>1
  <1>6. CASE n # 1
    <2> DEFINE m == last_added
               r == [commands[m] EXCEPT !.next = n]
    <2>1. m \in 1 .. n /\ m = n - 1
      BY <1>2, <1>6
    <2>2. commands' = [commands EXCEPT ![m] = r]
      <3>1. last_added # 0
        BY <1>2, <1>6
      <3> QED BY <1>1, <3>1 DEF Link
    <2>3. commands[m] \in CommandType
      BY <1>2, <2>1
    <2>4. /\ r \in CommandType /\ r.kind = commands[m].kind /\ r.src = commands[m].src
          /\ r.dst = commands[m].dst /\ r.order = commands[m].order /\ r.next = n
      BY <1>2, <2>3, NextRecord
    <2> HIDE DEF r
    <2>5. commands' \in Seq(CommandType) /\ Len(commands') = n
      BY <1>2, <2>1, <2>2, <2>4
    <2>6. \A c \in 1 .. n : commands'[c] = IF c = m THEN r ELSE commands[c]
      BY <1>2, <2>2
    <2>7. \A c \in 1 .. n : commands'[c].next = IF c < n THEN c + 1 ELSE 0
      BY <1>2, <1>4, <2>4, <2>6
    <2> QED BY <1>1, <1>2, <1>3, <2>4, <2>5, <2>6, <2>7
  <1> QED BY <1>5, <1>6

-----------------------------------------------------------------------------
(* The steps that leave the window alone: of display() and of the program. *)

\* Commands stay, some removed; those added are for a frame that was not published yet.
Grown ==
    /\ Len(commands') \in Nat /\ Len(commands') >= Len(commands)
    /\ DOMAIN commands' = 1 .. Len(commands')
    /\ last_added' \in Nat /\ last_added' >= last_added
    /\ \A c \in 1 .. Len(commands) :
          /\ commands'[c].kind = commands[c].kind \/ commands'[c].kind = "removed"
          /\ commands'[c].src = commands[c].src /\ commands'[c].dst = commands[c].dst
          /\ commands'[c].order = commands[c].order
    /\ \A c \in 1 .. Len(commands') :
          c > Len(commands) => commands'[c].order = display_order_next

StillWindow ==
    /\ hg_pc' = hg_pc /\ hg_cmd' = hg_cmd /\ hg_order' = hg_order /\ hg_layer' = hg_layer
    /\ rerender' = rerender /\ layer_first' = layer_first /\ first_prev' = first_prev
    /\ rendered_order' = rendered_order /\ drawn' = drawn /\ last_rendered' = last_rendered
    /\ mode' = mode /\ done' = done
    /\ last_hw_order' \in Nat /\ last_hw_order' >= last_hw_order

DisplaySteps == TakeOrder \/ ReadyFrame \/ PublishOrder
ProgramSteps == NewImage \/ Put \/ FreeImage \/ TakeOff \/ Add \/ LinkAdded

LEMMA DisplayIs ==
    ASSUME HwInv, DisplaySteps
    PROVE  /\ UNCHANGED <<list, last_rendered, images, imageProgram, renderer, mode, done>>
           /\ last_hw_order' \in Nat /\ last_hw_order' >= last_hw_order
           /\ display_order_next' \in Nat /\ display_order_next' >= display_order_next
           /\ last_hw_order' < display_order_next'
           /\ disp_pc' \in {"out", "build", "publish"} /\ disp_order' \in Nat
           /\ disp_pc' # "out" => disp_order' = display_order_next' - 1
           /\ disp_pc' = "out" => disp_order' = 0
           /\ soft' \in {"none", "ready", "shown"}
           /\ hp_pc = "link" => display_order_next' = display_order_next
           /\ display_order_next' <= MaxOrder + 1
           /\ ~mode.overlaps /\ hg_pc # "idle" => last_hw_order' = last_hw_order
  <1>1. /\ last_hw_order \in Nat /\ display_order_next \in Nat /\ disp_order \in Nat
        /\ disp_pc \in {"out", "build", "publish"} /\ soft \in {"none", "ready", "shown"}
        /\ last_hw_order < display_order_next /\ display_order_next <= MaxOrder + 1
        /\ disp_pc # "out" => disp_order = display_order_next - 1
        /\ disp_pc = "out" => disp_order = 0
        /\ mode \in Modes /\ MaxOrder \in Nat
    BY HardwareAssumption DEF HwInv, ManyTypes, OrderInv, BoundInv, HardwareAssumption
  <1>2. ~mode.late
    BY <1>1 DEF HwInv, KeptApart
  <1>3. CASE TakeOrder
    BY <1>1, <1>2, <1>3 DEF TakeOrder
  <1>4. CASE ReadyFrame
    BY <1>1, <1>4 DEF ReadyFrame
  <1>5. CASE PublishOrder
    BY <1>1, <1>5 DEF PublishOrder
  <1> QED BY <1>3, <1>4, <1>5 DEF DisplaySteps

LEMMA OtherIs ==
    ASSUME HwInv, DisplaySteps \/ ProgramSteps
    PROVE  Grown /\ StillWindow
  <1>1. /\ Len(commands) \in Nat /\ DOMAIN commands = 1 .. Len(commands)
        /\ last_added \in Nat /\ last_hw_order \in Nat
    BY CommandFacts DEF HwInv, ManyTypes
  <1>2. ASSUME commands' = commands, last_added' = last_added PROVE Grown
    BY <1>1, <1>2 DEF Grown
  <1>3. CASE DisplaySteps
    <2>1. commands' = commands /\ last_added' = last_added /\ StillWindow
      BY <1>1, <1>3, DisplayIs DEF list, renderer, StillWindow
    <2> QED BY <1>2, <2>1
  <1>4. CASE NewImage \/ Put \/ FreeImage
    <2>1. /\ commands' = commands /\ last_added' = last_added
          /\ UNCHANGED <<renderer, last_rendered, mode, done, orders>>
      BY <1>4 DEF NewImage, Put, FreeImage, Begin, list
    <2>2. StillWindow
      BY <1>1, <2>1 DEF renderer, orders, StillWindow
    <2> QED BY <1>2, <2>1, <2>2
  <1>5. CASE TakeOff \/ Add \/ LinkAdded
    <2>1. UNCHANGED <<renderer, last_rendered, mode, done, orders>>
      BY <1>5 DEF TakeOff, Add, LinkAdded
    <2>2. StillWindow
      BY <1>1, <2>1 DEF renderer, orders, StillWindow
    <2>3. \A s \in Seq(CommandType) : DOMAIN s = 1 .. Len(s)
      OBVIOUS
    <2>4. CASE TakeOff
      <3> DEFINE n == Len(commands)
                 more == commands[next_to_remove].kind = "request"
      <3>1. /\ commands' \in Seq(CommandType) /\ last_added = n
            /\ Len(commands') = IF more THEN n + 1 ELSE n
            /\ last_added' = Len(commands')
        BY <2>4, TakeOffIs
      <3>2. \A c \in 1 .. n :
               /\ commands'[c].kind = commands[c].kind \/ commands'[c].kind = "removed"
               /\ commands'[c].src = commands[c].src /\ commands'[c].dst = commands[c].dst
               /\ commands'[c].order = commands[c].order
        BY <2>4, TakeOffIs
      <3>3. more => commands'[n + 1].order = display_order_next
        BY <2>4, TakeOffIs DEF NewCommand
      <3>4. \A c \in 1 .. Len(commands') : c > n => more /\ c = n + 1
        BY <1>1, <3>1
      <3> HIDE DEF more
      <3>5. \A c \in 1 .. Len(commands') : c > n => commands'[c].order = display_order_next
        BY <3>3, <3>4
      <3>6. Len(commands') \in Nat /\ Len(commands') >= n
        BY <1>1, <3>1
      <3>7. DOMAIN commands' = 1 .. Len(commands')
        BY <2>3, <3>1
      <3>8. last_added' \in Nat /\ last_added' >= last_added
        BY <1>1, <3>1, <3>6
      <3> QED BY <2>2, <3>2, <3>5, <3>6, <3>7, <3>8 DEF Grown
    <2>5. CASE Add
      <3>1. last_added' = last_added
        BY <2>5 DEF Add
      <3> DEFINE n == Len(commands)
      <3>2. /\ commands' \in Seq(CommandType) /\ Len(commands') = n + 1
            /\ \A c \in 1 .. n : commands'[c] = commands[c]
        BY <2>5, AddIs
      <3>3. commands'[n + 1].order = display_order_next
        BY <2>5, AddIs DEF NewCommand
      <3>4. \A c \in 1 .. Len(commands') : c > n => c = n + 1
        BY <1>1, <3>2
      <3>5. \A c \in 1 .. Len(commands') : c > n => commands'[c].order = display_order_next
        BY <3>3, <3>4
      <3>6. Len(commands') \in Nat /\ Len(commands') >= n
        BY <1>1, <3>2
      <3>7. DOMAIN commands' = 1 .. Len(commands')
        BY <2>3, <3>2
      <3>8. last_added' \in Nat /\ last_added' >= last_added
        BY <1>1, <3>1
      <3>9. \A c \in 1 .. n :
               /\ commands'[c].kind = commands[c].kind \/ commands'[c].kind = "removed"
               /\ commands'[c].src = commands[c].src /\ commands'[c].dst = commands[c].dst
               /\ commands'[c].order = commands[c].order
        BY <3>2
      <3> QED BY <2>2, <3>5, <3>6, <3>7, <3>8, <3>9 DEF Grown
    <2>6. CASE LinkAdded
      <3> DEFINE n == Len(commands)
      <3>1. /\ commands' \in Seq(CommandType) /\ Len(commands') = n
            /\ last_added = n - 1 /\ last_added' = n
        BY <2>6, LinkAddedIs
      <3>2. \A c \in 1 .. n :
               /\ commands'[c].kind = commands[c].kind
               /\ commands'[c].src = commands[c].src /\ commands'[c].dst = commands[c].dst
               /\ commands'[c].order = commands[c].order
        BY <2>6, LinkAddedIs
      <3>6. Len(commands') \in Nat /\ Len(commands') >= n
        BY <1>1, <3>1
      <3>7. DOMAIN commands' = 1 .. Len(commands')
        BY <2>3, <3>1
      <3>8. last_added' \in Nat /\ last_added' >= last_added
        BY <1>1, <3>1
      <3>9. \A c \in 1 .. Len(commands') : ~(c > n)
        BY <1>1, <3>1
      <3> QED BY <2>2, <3>2, <3>6, <3>7, <3>8, <3>9 DEF Grown
    <2> QED BY <1>5, <2>2, <2>4, <2>5, <2>6
  <1> QED BY <1>3, <1>4, <1>5 DEF ProgramSteps

LEMMA OtherKeepsPlace ==
    ASSUME HwInv, Grown, StillWindow
    PROVE  PlaceInv'
  <1> DEFINE n == Len(commands)
             m == Len(commands')
  <1>1. /\ n \in Nat /\ m \in Nat /\ n <= m
        /\ DOMAIN commands = 1 .. n /\ DOMAIN commands' = 1 .. m
        /\ last_added \in 0 .. n
        /\ \A c \in 1 .. n : commands[c].order \in Nat /\ commands'[c].order = commands[c].order
        /\ \A c \in 1 .. m : c > n => commands'[c].order = display_order_next
    BY CommandFacts DEF Grown
  <1>2. /\ last_hw_order \in Nat /\ display_order_next \in Nat
        /\ hg_order \in Nat /\ rendered_order \in Nat
        /\ last_hw_order < display_order_next
        /\ hg_order <= last_hw_order /\ rendered_order <= last_hw_order
    BY DEF HwInv, ManyTypes, OrderInv
  <1>3. /\ last_rendered \in 0 .. last_added /\ hg_cmd \in 0 .. last_added
        /\ layer_first \in 0 .. last_added /\ first_prev \in 0 .. last_added
        /\ last_added' \in Nat /\ last_added' >= last_added
    BY CommandFacts DEF Grown
  <1>4. \A c \in 0 .. last_added : c # 0 =>
           c \in 1 .. n /\ c \in 1 .. m /\ commands'[c].order = commands[c].order
    BY <1>1
  <1>5. ASSUME NEW o \in Nat, o <= last_hw_order,
               \A b \in 1 .. n : commands[b].order <= o <=> b <= last_rendered
        PROVE  \A b \in 1 .. m : commands'[b].order <= o <=> b <= last_rendered
    BY <1>1, <1>2, <1>3, <1>5
  <1>6. ASSUME NEW o \in Nat, o <= last_hw_order, NEW c \in 1 .. n,
               \A b \in 1 .. n : commands[b].order = o => c <= b
        PROVE  \A b \in 1 .. m : commands'[b].order = o => c <= b
    BY <1>1, <1>2, <1>6
  <1>7. \A o \in Nat : o <= last_hw_order /\ EndsAt(o) =>
           \A b \in DOMAIN commands' : commands'[b].order <= o <=> b <= last_rendered'
    BY <1>1, <1>5 DEF EndsAt, Order, StillWindow
  <1>8. \A c, o \in Nat : o <= last_hw_order /\ FirstOf(c, o) =>
           /\ c \in DOMAIN commands' /\ commands'[c].order = o
           /\ \A b \in DOMAIN commands' : commands'[b].order = o => c <= b
    BY <1>1, <1>6 DEF FirstOf, Order
  <1>9. /\ last_rendered # 0 => Order(last_rendered) <= last_hw_order
        /\ last_rendered # 0 /\ hg_pc # "idle" => Order(last_rendered) <= hg_order
        /\ rerender => mode.gl
    BY DEF HwInv, PlaceInv
  <1>10. ({last_rendered, hg_cmd, layer_first, first_prev} \subseteq 0 .. last_added)'
    BY <1>1, <1>3 DEF StillWindow
  <1>11. /\ last_rendered' # 0 => commands'[last_rendered'].order <= last_hw_order'
         /\ last_rendered' # 0 /\ hg_pc' # "idle" =>
               commands'[last_rendered'].order <= hg_order'
         /\ rerender' => mode'.gl
    BY <1>1, <1>2, <1>3, <1>4, <1>9 DEF StillWindow, Order
  <1>12. (hg_pc \in {"idle", "new", "same"} => IdleInv)'
    <2> SUFFICES ASSUME hg_pc \in {"idle", "new", "same"} PROVE IdleInv'
      BY DEF StillWindow
    <2>1. IdleInv
      BY DEF HwInv, PlaceInv
    <2>2. hg_cmd' = 0 /\ hg_layer' = 1 /\ ~rerender' /\ drawn' = {}
      BY <2>1 DEF IdleInv, StillWindow
    <2>3. last_rendered' # 0 => (EndsAt(Order(last_rendered)))'
      <3> SUFFICES ASSUME last_rendered # 0
                   PROVE  \A b \in DOMAIN commands' :
                     commands'[b].order <= commands'[last_rendered'].order <=> b <= last_rendered'
        BY DEF EndsAt, Order, StillWindow
      <3>1. /\ commands[last_rendered].order \in Nat
            /\ commands[last_rendered].order <= last_hw_order
            /\ commands'[last_rendered'].order = commands[last_rendered].order
        BY <1>1, <1>3, <1>4, <1>9 DEF Order, StillWindow
      <3>2. EndsAt(commands[last_rendered].order)
        BY <2>1 DEF IdleInv, Order
      <3> QED BY <1>7, <3>1, <3>2
    <2>4. ASSUME first_prev' # 0, ~mode'.overlaps
          PROVE  /\ FirstOf(first_prev, rendered_order)'
                 /\ last_rendered' # 0 /\ Order(last_rendered)' = rendered_order'
      <3>1. /\ FirstOf(first_prev, rendered_order)
            /\ last_rendered # 0 /\ Order(last_rendered) = rendered_order
        BY <2>1, <2>4 DEF IdleInv, StillWindow
      <3>2. first_prev \in Nat
        BY <1>1, <1>3
      <3>3. FirstOf(first_prev, rendered_order)'
        BY <1>2, <1>8, <3>1, <3>2 DEF FirstOf, Order, StillWindow
      <3> QED BY <1>3, <1>4, <3>1, <3>3 DEF Order, StillWindow
    <2> QED BY <2>2, <2>3, <2>4 DEF IdleInv
  <1>13. (hg_pc = "skip" => SkipInv)'
    <2> SUFFICES ASSUME hg_pc = "skip" PROVE SkipInv'
      BY DEF StillWindow
    <2>1. SkipInv
      BY DEF HwInv, PlaceInv
    <2>2. Ends => Ends'
      BY <1>2, <1>7 DEF Ends, EndsAt, Order, StillWindow
    <2>3. rerender => FirstOf(hg_cmd, hg_order)'
      <3> SUFFICES ASSUME rerender PROVE FirstOf(hg_cmd, hg_order)'
        OBVIOUS
      <3>1. FirstOf(hg_cmd, hg_order) /\ hg_cmd \in Nat
        BY <1>1, <1>3, <2>1 DEF SkipInv
      <3>2. /\ hg_cmd \in DOMAIN commands' /\ commands'[hg_cmd].order = hg_order
            /\ \A b \in DOMAIN commands' : commands'[b].order = hg_order => hg_cmd <= b
        BY <1>2, <1>8, <3>1
      <3> QED BY <3>2 DEF FirstOf, Order, StillWindow
    <2>4. last_rendered = 0 \/ Order(last_rendered)' = Order(last_rendered)
      BY <1>3, <1>4 DEF Order, StillWindow
    <2> QED BY <2>1, <2>2, <2>3, <2>4 DEF SkipInv, StillWindow
  <1>14. (hg_pc = "skip.next" => SkipNextInv)'
    BY <1>3, <1>4 DEF HwInv, PlaceInv, SkipNextInv, Order, StillWindow
  <1>15. (hg_pc = "frame" => FrameInv)'
    <2> SUFFICES ASSUME hg_pc = "frame" PROVE FrameInv'
      BY DEF StillWindow
    <2>1. FrameInv
      BY DEF HwInv, PlaceInv
    <2>2. Ends => Ends'
      BY <1>2, <1>7 DEF Ends, EndsAt, Order, StillWindow
    <2>3. FirstOf(layer_first, hg_order) => FirstOf(layer_first, hg_order)'
      BY <1>1, <1>2, <1>3, <1>8 DEF FirstOf, Order, StillWindow
    <2>4. \A c \in {last_rendered, hg_cmd, layer_first, first_prev} :
             c # 0 => commands'[c].order = commands[c].order
      BY <1>3, <1>4
    <2>5. OfFrame' <=> OfFrame
      BY <2>4 DEF OfFrame, Command, StillWindow
    <2>6. /\ (layer_first # 0 /\ Order(layer_first) = hg_order => FirstOf(layer_first, hg_order))'
          /\ (layer_first # 0 => Order(layer_first) >= hg_order)'
          /\ (first_prev # 0 => first_prev = layer_first /\ Order(layer_first) = hg_order
                         /\ last_rendered # 0 /\ Order(last_rendered) = hg_order)'
          /\ (first_prev = 0 => hg_cmd = layer_first)'
          /\ (hg_cmd # 0 => Order(hg_cmd) >= hg_order)'
          /\ (rerender => FirstOf(layer_first, hg_order))'
      BY <2>1, <2>3, <2>4 DEF FrameInv, Order, StillWindow
    <2>7. (~OfFrame => Ends)'
      BY <2>1, <2>2, <2>5 DEF FrameInv
    <2>8. (OfFrame => IF hg_layer = 1 /\ ~rerender THEN hg_cmd = last_rendered + 1
                  ELSE last_rendered # 0 /\ Order(last_rendered) = hg_order)'
      BY <2>1, <2>4, <2>5 DEF FrameInv, Order, StillWindow
    <2> QED BY <2>6, <2>7, <2>8 DEF FrameInv
  <1>16. (hg_pc = "frame.next" => FrameNextInv)'
    <2> SUFFICES ASSUME hg_pc = "frame.next" PROVE FrameNextInv'
      BY DEF StillWindow
    <2>1. FrameNextInv
      BY DEF HwInv, PlaceInv
    <2>2. FirstOf(layer_first, hg_order)'
      BY <1>1, <1>2, <1>3, <1>8, <2>1 DEF FrameNextInv, FirstOf, Order, StillWindow
    <2> QED BY <1>3, <1>4, <2>1, <2>2 DEF FrameNextInv, Order, StillWindow
  <1> QED BY <1>10, <1>11, <1>12, <1>13, <1>14, <1>15, <1>16 DEF PlaceInv, Order

LEMMA OtherKeepsDone ==
    ASSUME HwInv, Grown, StillWindow
    PROVE  DoneInv' /\ DrawnInv'
  <1> DEFINE n == Len(commands)
             m == Len(commands')
  <1>1. /\ n \in Nat /\ m \in Nat /\ n <= m
        /\ DOMAIN commands = 1 .. n /\ DOMAIN commands' = 1 .. m
        /\ last_rendered \in 0 .. n
        /\ \A c \in 1 .. n :
              /\ commands'[c].kind = commands[c].kind \/ commands'[c].kind = "removed"
              /\ commands'[c].dst = commands[c].dst
              /\ commands[c].order \in Nat /\ commands'[c].order = commands[c].order
        /\ \A c \in 1 .. m : c > n => commands'[c].order = display_order_next
    BY CommandFacts DEF Grown
  <1>2. hg_order \in Nat /\ display_order_next \in Nat /\ hg_order < display_order_next
    BY DEF HwInv, ManyTypes, OrderInv
  <1>3. Passed' = Passed
    <2>1. {b \in 1 .. m : b <= last_rendered} = {b \in 1 .. n : b <= last_rendered}
      BY <1>1
    <2>2. \A b \in 1 .. m : commands'[b].order <= hg_order <=>
                             b \in 1 .. n /\ commands[b].order <= hg_order
      BY <1>1, <1>2
    <2>3. {b \in 1 .. m : commands'[b].order <= hg_order}
             = {b \in 1 .. n : commands[b].order <= hg_order}
      BY <1>1, <2>2
    <2> QED BY <1>1, <2>1, <2>3 DEF Passed, Order, StillWindow
  <1>4. Passed \subseteq 1 .. n
    BY <1>1 DEF Passed
  <1>5. DoneInv'
    <2>1. done' \subseteq Passed'
      BY <1>3 DEF HwInv, DoneInv, StillWindow
    <2>2. \A c \in done' : Lasting(c)' \/ commands'[c].kind = "removed"
      BY <1>1, <1>4 DEF HwInv, DoneInv, Lasting, StillWindow
    <2>3. \A b \in Passed' : Lasting(b)' => b \in done'
      BY <1>1, <1>3, <1>4 DEF HwInv, DoneInv, Lasting, StillWindow
    <2> QED BY <2>1, <2>2, <2>3 DEF DoneInv
  <1>6. DrawnInv'
    <2>1. \A c \in 1 .. m : commands'[c].kind = "put" /\ commands'[c].order = hg_order =>
             /\ c \in 1 .. n /\ commands[c].kind = "put" /\ commands[c].order = hg_order
             /\ commands'[c].dst = commands[c].dst
      BY <1>1, <1>2
    <2>2. ASSUME NEW c \in 1 .. m PROVE Here(c)' <=> Here(c)
      <3>1. hg_cmd' = hg_cmd /\ hg_pc' = hg_pc
        BY DEF StillWindow
      <3> QED BY <3>1 DEF Here
    <2> QED BY <1>1, <2>1, <2>2 DEF HwInv, DrawnInv, Order, StillWindow
  <1> QED BY <1>5, <1>6

-----------------------------------------------------------------------------
(* Where the window is in the list. *)

LEMMA Linked ==
    ASSUME HwInv
    PROVE  /\ \A c, d \in 1 .. Len(commands) : c <= d => Order(c) <= Order(d)
           /\ \A c \in 1 .. Len(commands) : Order(c) \in Nat
           /\ \A c \in 1 .. Len(commands) : c > last_added => Order(c) > last_hw_order
           /\ \A c \in 1 .. last_added : commands[c].next = IF c < last_added THEN c + 1 ELSE 0
           /\ first_command = IF last_added = 0 THEN 0 ELSE 1
           /\ last_hw_order \in Nat /\ hg_order \in Nat /\ rendered_order \in Nat
           /\ hg_order <= last_hw_order /\ rendered_order <= last_hw_order
           /\ mode \in Modes /\ ~(mode.gl /\ mode.overlaps)
           /\ ~mode.overlaps /\ hg_pc # "idle" => hg_order = last_hw_order
           /\ hg_layer \in 1 .. 2 /\ rerender \in BOOLEAN
  <1>1. /\ Len(commands) \in Nat /\ DOMAIN commands = 1 .. Len(commands)
        /\ last_added \in 0 .. Len(commands) /\ Len(commands) <= last_added + 1
        /\ \A c \in 1 .. Len(commands) : commands[c].order \in Nat
    BY CommandFacts
  <1>2. /\ \A c, d \in DOMAIN commands : c <= d => Order(c) <= Order(d)
        /\ hp_pc = "link" => Order(Len(commands)) = display_order_next
        /\ last_hw_order < display_order_next
        /\ hg_order <= last_hw_order /\ rendered_order <= last_hw_order
        /\ ~mode.overlaps /\ hg_pc # "idle" => hg_order = last_hw_order
    BY DEF HwInv, OrderInv
  <1>3. /\ last_hw_order \in Nat /\ hg_order \in Nat /\ rendered_order \in Nat
        /\ display_order_next \in Nat /\ mode \in Modes
        /\ hg_layer \in 1 .. 2 /\ rerender \in BOOLEAN
    BY DEF HwInv, ManyTypes
  <1>4. /\ last_added = IF hp_pc = "link" THEN Len(commands) - 1 ELSE Len(commands)
        /\ first_command = IF last_added = 0 THEN 0 ELSE 1
        /\ \A c \in DOMAIN commands : commands[c].next = IF c < last_added THEN c + 1 ELSE 0
    BY DEF HwInv, ListInv
  <1>5. \A c \in 1 .. Len(commands) : c > last_added => hp_pc = "link" /\ c = Len(commands)
    <2> DEFINE n == Len(commands)
    <2>1. n \in Nat /\ last_added \in Nat /\ last_added <= n /\ n <= last_added + 1
      BY <1>1
    <2>2. hp_pc # "link" => last_added = n
      BY <1>4
    <2> HIDE DEF n
    <2>3. \A c \in 1 .. n : c > last_added => last_added # n /\ c = n
      BY <2>1
    <2>4. \A c \in 1 .. n : c > last_added => hp_pc = "link" /\ c = n
      BY <2>2, <2>3
    <2> QED BY <2>4 DEF n
  <1>6. \A c \in 1 .. Len(commands) : c > last_added => Order(c) > last_hw_order
    BY <1>2, <1>3, <1>5
  <1>7. ~(mode.gl /\ mode.overlaps)
    BY <1>3 DEF HwInv, KeptApart
  <1>8. \A c \in 1 .. last_added : commands[c].next = IF c < last_added THEN c + 1 ELSE 0
    <2>1. \A c \in 1 .. last_added : c \in DOMAIN commands
      BY <1>1
    <2> QED BY <1>4, <2>1
  <1>9. \A c \in 1 .. Len(commands) : Order(c) \in Nat
    BY <1>1 DEF Order
  <1> QED BY Zenon, <1>1, <1>2, <1>3, <1>4, <1>6, <1>7, <1>8, <1>9

LEMMA EndsBy ==
    ASSUME HwInv, NEW k \in 0 .. last_added, NEW o \in Nat, o <= last_hw_order,
           k # 0 => Order(k) <= o, k < last_added => Order(k + 1) > o
    PROVE  \A b \in DOMAIN commands : Order(b) <= o <=> b <= k
  <1>1. /\ Len(commands) \in Nat /\ DOMAIN commands = 1 .. Len(commands)
        /\ last_added \in 0 .. Len(commands) /\ last_hw_order \in Nat
        /\ \A c \in 1 .. Len(commands) : Order(c) \in Nat
        /\ \A c, d \in 1 .. Len(commands) : c <= d => Order(c) <= Order(d)
        /\ \A c \in 1 .. Len(commands) : c > last_added => Order(c) > last_hw_order
    BY CommandFacts, Linked
  <1> SUFFICES ASSUME NEW b \in 1 .. Len(commands) PROVE Order(b) <= o <=> b <= k
    BY <1>1
  <1>2. CASE b <= k
    <2>1. k \in 1 .. Len(commands) /\ Order(b) <= Order(k)
      BY <1>1, <1>2
    <2> QED BY <1>1, <1>2, <2>1
  <1>3. CASE b > last_added
    BY <1>1, <1>3
  <1>4. CASE b > k /\ b <= last_added
    <2>1. k + 1 \in 1 .. Len(commands) /\ Order(k + 1) <= Order(b)
      BY <1>1, <1>4
    <2> QED BY <1>1, <1>4, <2>1
  <1> QED BY <1>1, <1>2, <1>3, <1>4

\* What follows a command that the window is at.
LEMMA NextIs ==
    ASSUME HwInv, NEW c \in 1 .. last_added
    PROVE  /\ commands[c].next \in 0 .. last_added
           /\ commands[c].next # 0 =>
                 commands[c].next = c + 1 /\ Order(c) <= Order(c + 1)
           /\ Order(c) <= hg_order =>
                 IF commands[c].next = 0
                 THEN \A b \in DOMAIN commands : Order(b) <= hg_order <=> b <= c
                 ELSE Order(c + 1) > hg_order =>
                         \A b \in DOMAIN commands : Order(b) <= hg_order <=> b <= c
  <1>1. /\ last_added \in Nat /\ last_added <= Len(commands) /\ Len(commands) \in Nat
        /\ commands[c].next = IF c < last_added THEN c + 1 ELSE 0
        /\ hg_order \in Nat /\ hg_order <= last_hw_order
        /\ \A a, d \in 1 .. Len(commands) : a <= d => Order(a) <= Order(d)
    BY CommandFacts, Linked
  <1>2. commands[c].next # 0 => Order(c) <= Order(c + 1)
    BY <1>1
  <1>3. ASSUME Order(c) <= hg_order, c < last_added => Order(c + 1) > hg_order
        PROVE  \A b \in DOMAIN commands : Order(b) <= hg_order <=> b <= c
    BY <1>1, <1>3, EndsBy
  <1> QED BY <1>1, <1>2, <1>3

StillList ==
    /\ commands' = commands /\ first_command' = first_command /\ last_added' = last_added
    /\ last_hw_order' = last_hw_order /\ display_order_next' = display_order_next
    /\ disp_pc' = disp_pc /\ disp_order' = disp_order
    /\ hp_pc' = hp_pc /\ hp_cmd' = hp_cmd /\ hp_last' = hp_last /\ mode' = mode

WindowSteps ==
    \/ Chosen \/ (\E resized \in BOOLEAN : Decide(resized))
    \/ Skip \/ Skipped \/ Frame \/ Follow \/ NextLayer \/ EndRendering

LEMMA WindowIs ==
    ASSUME WindowSteps
    PROVE  StillList
  BY DEF WindowSteps, Chosen, Decide, Skip, Skipped, Frame, Follow, NextLayer, EndRendering,
         StillList, list, orders, imageProgram

\* What the window sees of a command does not change with it.
LEMMA StillOrder ==
    ASSUME StillList
    PROVE  /\ \A c : commands'[c].order = Order(c)
           /\ DOMAIN commands' = DOMAIN commands
  BY DEF StillList, Order

LEMMA ChosenPlace ==
    ASSUME HwInv, Chosen
    PROVE  PlaceInv'
  <1>1. /\ hg_pc = "idle" /\ hg_pc' \in {"new", "same"} /\ hg_order' = last_hw_order
        /\ UNCHANGED <<last_rendered, hg_cmd, hg_layer, rerender, layer_first, first_prev,
                       rendered_order, drawn>>
    BY DEF Chosen
  <1>2. StillList
    BY WindowIs DEF WindowSteps
  <1>3. PlaceInv /\ IdleInv
    BY <1>1 DEF HwInv, PlaceInv
  <1>4. IdleInv'
    BY <1>1, <1>2, <1>3 DEF IdleInv, StillList, EndsAt, FirstOf, Order
  <1> QED BY <1>1, <1>2, <1>3, <1>4 DEF PlaceInv, StillList, Order

LEMMA DecidePlace ==
    ASSUME HwInv, NEW resized \in BOOLEAN, Decide(resized)
    PROVE  PlaceInv'
  <1>1. StillList
    BY WindowIs DEF WindowSteps
  <1>2. PlaceInv /\ IdleInv /\ hg_pc \in {"new", "same"}
    BY DEF HwInv, PlaceInv, Decide
  <1>3. UNCHANGED <<hg_layer, layer_first, rendered_order, drawn>>
    BY DEF Decide
  <1>4. CASE Known /\ ~resized /\ ~mode.gl
    <2>1. /\ hg_pc' = "idle" /\ hg_order' = 0
          /\ UNCHANGED <<last_rendered, rerender, first_prev, hg_cmd>>
      BY <1>4 DEF Decide
    <2>2. IdleInv'
      BY <1>1, <1>2, <1>3, <2>1 DEF IdleInv, StillList, EndsAt, FirstOf, Order
    <2> QED BY <1>1, <1>2, <1>3, <2>1, <2>2 DEF PlaceInv, StillList, Order
  <1>5. CASE ~(Known /\ ~resized /\ ~mode.gl)
    <2>1. /\ hg_pc' = "skip" /\ hg_order' = hg_order /\ first_prev' = 0
          /\ rerender' = (Known /\ ~resized /\ first_prev # 0)
          /\ last_rendered' = IF rerender' THEN first_prev ELSE last_rendered
          /\ hg_cmd' = StartAt(last_rendered', rerender')
      BY <1>5 DEF Decide
    <2>2. /\ last_added \in Nat /\ Len(commands) \in Nat /\ last_added <= Len(commands)
          /\ DOMAIN commands = 1 .. Len(commands)
          /\ last_rendered \in 0 .. last_added /\ first_prev \in 0 .. last_added
          /\ layer_first \in 0 .. last_added
      BY CommandFacts
    <2>3. last_rendered # 0 => Order(last_rendered) \in Nat /\ Order(last_rendered) <= hg_order
                               /\ Order(last_rendered) <= last_hw_order
      BY <1>2, <2>2, Linked DEF PlaceInv
    <2>4. CASE rerender'
      <3>1. Known /\ first_prev # 0 /\ mode.gl /\ ~mode.overlaps
        BY <1>5, <2>1, <2>4, Linked
      <3>2. /\ FirstOf(first_prev, rendered_order) /\ rendered_order = last_hw_order
            /\ hg_order = last_hw_order
        BY <1>2, <3>1, Linked DEF IdleInv, Known
      <3>3. last_rendered' = first_prev /\ hg_cmd' = first_prev
        BY <2>1, <2>4, <3>1 DEF StartAt
      <3>4. FirstOf(hg_cmd, hg_order)' /\ Order(last_rendered)' = hg_order'
        BY <1>1, <2>1, <3>2, <3>3 DEF FirstOf, StillList, Order
      <3>5. SkipInv'
        BY <1>2, <1>3, <2>1, <2>4, <3>3, <3>4 DEF IdleInv, SkipInv
      <3>6. Order(last_rendered)' <= last_hw_order' /\ Order(last_rendered)' <= hg_order'
        BY <1>1, <2>1, <3>2, <3>4, Linked DEF StillList
      <3>7. mode'.gl
        BY <1>1, <3>1 DEF StillList
      <3> QED BY <1>1, <1>3, <2>1, <2>2, <3>3, <3>5, <3>6, <3>7 DEF PlaceInv, StillList
    <2>5. CASE ~rerender'
      <3>1. /\ last_rendered' = last_rendered
            /\ hg_cmd' = IF last_rendered = 0 THEN first_command ELSE commands[last_rendered].next
        BY <2>1, <2>5 DEF StartAt
      <3>2. last_rendered = 0 \/ Order(last_rendered) < hg_order \/ Ends
        BY <1>2, <2>2, <2>3, Linked DEF IdleInv, Ends
      <3>3. hg_cmd' \in 0 .. last_added /\ IF hg_cmd' = 0 THEN Ends ELSE hg_cmd' = last_rendered + 1
        <4>1. CASE last_rendered = 0
          <5>1. hg_cmd' = IF last_added = 0 THEN 0 ELSE 1
            BY <3>1, <4>1, Linked
          <5>2. last_added = 0 => Ends
            BY <2>2, <4>1, Linked, EndsBy DEF Ends, EndsAt
          <5> QED BY <2>2, <4>1, <5>1, <5>2
        <4>2. CASE last_rendered # 0
          <5>1. last_rendered \in 1 .. last_added /\ Order(last_rendered) <= hg_order
            BY <2>2, <2>3, <4>2
          <5> QED BY <3>1, <4>2, <5>1, NextIs DEF Ends, EndsAt
        <4> QED BY <4>1, <4>2
      <3>4. Ends' <=> Ends
        BY <1>1, <2>1, <3>1 DEF Ends, EndsAt, Order, StillList
      <3>5. Order(last_rendered)' = Order(last_rendered)
        BY <1>1, <3>1 DEF Order, StillList
      <3>6. SkipInv'
        BY <1>2, <1>3, <2>1, <2>5, <3>1, <3>2, <3>3, <3>4, <3>5 DEF IdleInv, SkipInv
      <3> QED BY <1>1, <1>3, <2>1, <2>2, <2>3, <2>5, <3>1, <3>3, <3>5, <3>6 DEF PlaceInv, StillList
    <2>6. rerender' \in BOOLEAN
      BY <2>1
    <2> QED BY <2>4, <2>5
  <1> QED BY <1>4, <1>5

LEMMA SkipPlace ==
    ASSUME HwInv, Skip
    PROVE  /\ PlaceInv'
           /\ ~rerender /\ hg_layer = 1 /\ hg_cmd = last_rendered + 1 /\ hg_cmd \in 1 .. last_added
  <1>1. StillList
    BY WindowIs DEF WindowSteps
  <1>2. /\ hg_pc = "skip" /\ hg_cmd # 0 /\ Order(hg_cmd) < hg_order
        /\ hg_pc' = "skip.next" /\ last_rendered' = hg_cmd
        /\ drawn' = IF SkipDoes /\ rerender THEN drawn \union {hg_cmd} ELSE drawn
        /\ UNCHANGED <<hg_cmd, hg_order, hg_layer, rerender, layer_first, first_prev,
                       rendered_order>>
    BY DEF Skip, Carry, Older, Command, Order
  <1>3. PlaceInv /\ SkipInv
    BY <1>2 DEF HwInv, PlaceInv
  <1>4. hg_cmd \in 1 .. last_added /\ last_added <= Len(commands) /\ Len(commands) \in Nat
        /\ last_added \in Nat
    BY <1>2, CommandFacts
  <1>5. Order(hg_cmd) \in Nat /\ hg_order \in Nat /\ hg_order <= last_hw_order
        /\ last_hw_order \in Nat
    BY <1>4, Linked
  <1>6. ~rerender
    BY <1>2, <1>3, <1>5 DEF SkipInv, FirstOf
  <1>7. hg_cmd = last_rendered + 1
    BY <1>2, <1>3, <1>6 DEF SkipInv
  <1>8. Order(hg_cmd)' = Order(hg_cmd) /\ Order(last_rendered)' = Order(hg_cmd)
    BY <1>1, <1>2 DEF Order, StillList
  <1>9. SkipNextInv'
    BY <1>2, <1>3, <1>6, <1>8 DEF SkipInv, SkipNextInv
  <1>10. /\ (last_rendered # 0 => Order(last_rendered) <= last_hw_order)'
         /\ (last_rendered # 0 /\ hg_pc # "idle" => Order(last_rendered) <= hg_order)'
    BY <1>1, <1>2, <1>5, <1>8 DEF StillList
  <1>11. ({last_rendered, hg_cmd, layer_first, first_prev} \subseteq 0 .. last_added)'
    BY <1>1, <1>2, <1>3 DEF PlaceInv, StillList
  <1>12. PlaceInv'
    BY <1>2, <1>6, <1>9, <1>10, <1>11 DEF PlaceInv
  <1> QED BY <1>3, <1>4, <1>6, <1>7, <1>12 DEF SkipInv

LEMMA SkippedPlace ==
    ASSUME HwInv, Skipped
    PROVE  PlaceInv'
  <1>1. StillList
    BY WindowIs DEF WindowSteps
  <1>2. /\ hg_pc = "skip" /\ (hg_cmd # 0 => ~(Order(hg_cmd) < hg_order))
        /\ hg_pc' = "frame" /\ layer_first' = hg_cmd
        /\ UNCHANGED <<last_rendered, hg_cmd, hg_order, hg_layer, rerender, first_prev,
                       rendered_order, drawn>>
    BY DEF Skipped, Older, Command, Order
  <1>3. PlaceInv /\ SkipInv
    BY <1>2 DEF HwInv, PlaceInv
  <1>4. /\ hg_cmd \in 0 .. last_added /\ last_rendered \in 0 .. last_added
        /\ last_added \in Nat /\ last_added <= Len(commands) /\ Len(commands) \in Nat
        /\ DOMAIN commands = 1 .. Len(commands)
    BY CommandFacts
  <1>5. /\ hg_order \in Nat /\ hg_order <= last_hw_order
        /\ \A c \in 1 .. Len(commands) : Order(c) \in Nat
        /\ \A c, d \in 1 .. Len(commands) : c <= d => Order(c) <= Order(d)
    BY Linked
  <1>6. hg_cmd # 0 => hg_cmd \in 1 .. Len(commands) /\ Order(hg_cmd) >= hg_order
    BY <1>2, <1>4, <1>5
  <1>7. hg_cmd # 0 /\ Order(hg_cmd) = hg_order => FirstOf(hg_cmd, hg_order)
    <2> SUFFICES ASSUME hg_cmd # 0, Order(hg_cmd) = hg_order, ~rerender,
                        NEW b \in 1 .. Len(commands), Order(b) = hg_order, b < hg_cmd
                 PROVE  FALSE
      BY <1>3, <1>4, <1>6 DEF SkipInv, FirstOf
    <2>1. hg_cmd = last_rendered + 1 /\ b <= last_rendered /\ last_rendered \in 1 .. Len(commands)
      BY <1>3, <1>4 DEF SkipInv
    <2>2. hg_order <= Order(last_rendered)
      BY <1>5, <2>1
    <2>3. Ends
      BY <1>3, <1>5, <2>1, <2>2 DEF SkipInv
    <2>4. hg_cmd <= last_rendered
      BY <1>4, <1>5, <1>6, <2>3 DEF Ends, EndsAt
    <2> QED BY <2>1, <2>4
  <1>8. ASSUME ~(hg_cmd # 0 /\ Order(hg_cmd) = hg_order) PROVE Ends
    <2>1. CASE hg_cmd = 0
      BY <1>3, <1>4, <2>1 DEF SkipInv, FirstOf
    <2>2. CASE hg_cmd # 0
      <3>1. ~rerender /\ Order(hg_cmd) > hg_order
        BY <1>3, <1>5, <1>6, <1>8, <2>2 DEF SkipInv, FirstOf
      <3>2. hg_cmd = last_rendered + 1
        BY <1>3, <2>2, <3>1 DEF SkipInv
      <3>3. last_rendered # 0 => Order(last_rendered) <= hg_order
        BY <1>2, <1>3 DEF PlaceInv
      <3> QED BY <1>4, <1>5, <3>1, <3>2, <3>3, EndsBy DEF Ends, EndsAt
    <2> QED BY <2>1, <2>2
  <1>9. Ends' <=> Ends
    BY <1>1, <1>2 DEF Ends, EndsAt, Order, StillList
  <1>10. FirstOf(hg_cmd, hg_order)' <=> FirstOf(hg_cmd, hg_order)
    BY <1>1, <1>2 DEF FirstOf, Order, StillList
  <1>11. /\ Order(hg_cmd)' = Order(hg_cmd) /\ Order(last_rendered)' = Order(last_rendered)
         /\ Order(layer_first)' = Order(hg_cmd)
         /\ FirstOf(layer_first, hg_order)' <=> FirstOf(hg_cmd, hg_order)'
         /\ OfFrame' <=> (hg_cmd # 0 /\ Order(hg_cmd) = hg_order)
    BY <1>1, <1>2 DEF Order, FirstOf, StillList, OfFrame, Command
  <1>12. (OfFrame => IF hg_layer = 1 /\ ~rerender THEN hg_cmd = last_rendered + 1
                     ELSE last_rendered # 0 /\ Order(last_rendered) = hg_order)'
    BY <1>2, <1>3, <1>11 DEF SkipInv
  <1>13. FrameInv'
    <2>1. first_prev' = 0 /\ hg_cmd' = layer_first'
      BY <1>2, <1>3 DEF SkipInv
    <2>2. rerender' => FirstOf(layer_first, hg_order)'
      BY <1>2, <1>3, <1>10, <1>11 DEF SkipInv
    <2> QED BY <1>2, <1>6, <1>7, <1>8, <1>9, <1>10, <1>11, <1>12, <2>1, <2>2 DEF FrameInv
  <1> QED BY <1>1, <1>2, <1>3, <1>4, <1>11, <1>13 DEF PlaceInv, StillList

LEMMA FramePlace ==
    ASSUME HwInv, Frame
    PROVE  /\ PlaceInv'
           /\ hg_cmd \in 1 .. last_added /\ Order(hg_cmd) = hg_order
           /\ IF hg_layer = 1 /\ ~rerender THEN hg_cmd = last_rendered + 1
              ELSE last_rendered # 0 /\ Order(last_rendered) = hg_order
  <1>1. StillList
    BY WindowIs DEF WindowSteps
  <1>2. /\ hg_pc = "frame" /\ OfFrame /\ hg_cmd # 0 /\ Order(hg_cmd) = hg_order
        /\ hg_pc' = "frame.next" /\ last_rendered' = hg_cmd
        /\ first_prev' = IF first_prev = 0 THEN hg_cmd ELSE first_prev
        /\ UNCHANGED <<hg_cmd, hg_order, hg_layer, rerender, layer_first, rendered_order>>
    BY DEF Frame, Carry, OfFrame, Command, Order
  <1>3. PlaceInv /\ FrameInv
    BY <1>2 DEF HwInv, PlaceInv
  <1>4. hg_cmd \in 1 .. last_added
    BY <1>2, CommandFacts
  <1>5. hg_order \in Nat /\ last_hw_order \in Nat /\ hg_order <= last_hw_order
    BY Linked
  <1>6. first_prev' # 0 /\ first_prev' = layer_first /\ FirstOf(layer_first, hg_order)
    BY <1>2, <1>3 DEF FrameInv
  <1>7. FirstOf(layer_first, hg_order)'
    BY <1>1, <1>2, <1>6 DEF FirstOf, Order, StillList
  <1>8. Order(hg_cmd)' = hg_order /\ Order(last_rendered)' = hg_order
    BY <1>1, <1>2 DEF Order, StillList
  <1>9. FrameNextInv'
    BY <1>2, <1>6, <1>7, <1>8 DEF FrameNextInv
  <1>10. ({last_rendered, hg_cmd, layer_first, first_prev} \subseteq 0 .. last_added)'
    BY <1>1, <1>2, <1>3 DEF PlaceInv, StillList
  <1>11. /\ (last_rendered # 0 => Order(last_rendered) <= last_hw_order)'
         /\ (last_rendered # 0 /\ hg_pc # "idle" => Order(last_rendered) <= hg_order)'
         /\ (rerender => mode.gl)'
    BY <1>1, <1>2, <1>3, <1>5, <1>8 DEF PlaceInv, StillList
  <1>12. PlaceInv'
    BY <1>2, <1>9, <1>10, <1>11 DEF PlaceInv
  <1> QED BY <1>2, <1>3, <1>4, <1>12 DEF FrameInv

LEMMA FollowPlace ==
    ASSUME HwInv, Follow
    PROVE  PlaceInv'
  <1>1. StillList
    BY WindowIs DEF WindowSteps
  <1>2. /\ hg_pc \in {"skip.next", "frame.next"} /\ hg_cmd' = commands[hg_cmd].next
        /\ hg_pc' = IF hg_pc = "skip.next" THEN "skip" ELSE "frame"
        /\ UNCHANGED <<last_rendered, hg_order, hg_layer, rerender, layer_first, first_prev,
                       rendered_order, drawn>>
    BY DEF Follow, Command
  <1>3. PlaceInv
    BY DEF HwInv
  <1>4. /\ hg_cmd \in 1 .. last_added /\ last_rendered = hg_cmd
        /\ hg_order \in Nat /\ Order(hg_cmd) \in Nat /\ Order(hg_cmd) <= hg_order
        /\ last_added \in Nat /\ last_added <= Len(commands) /\ Len(commands) \in Nat
        /\ DOMAIN commands = 1 .. Len(commands)
    BY <1>2, <1>3, CommandFacts, Linked DEF PlaceInv, SkipNextInv, FrameNextInv
  <1>5. /\ hg_cmd' \in 0 .. last_added
        /\ hg_cmd' # 0 => hg_cmd' = hg_cmd + 1 /\ Order(hg_cmd) <= Order(hg_cmd + 1)
                          /\ Order(hg_cmd + 1) \in Nat
    <2>1. commands[hg_cmd].next # 0 => hg_cmd + 1 \in 1 .. Len(commands)
      BY <1>4, NextIs
    <2> QED BY <1>2, <1>4, <2>1, NextIs, Linked
  <1>6. hg_cmd' = 0 \/ Order(hg_cmd + 1) > hg_order => Ends
    BY <1>2, <1>4, <1>5, NextIs DEF Ends, EndsAt
  <1>7. Ends' <=> Ends
    BY <1>1, <1>2 DEF Ends, EndsAt, Order, StillList
  <1>8. Order(last_rendered)' = Order(hg_cmd) /\ Order(layer_first)' = Order(layer_first)
    BY <1>1, <1>2, <1>4 DEF Order, StillList
  <1>9. /\ ({last_rendered, hg_cmd, layer_first, first_prev} \subseteq 0 .. last_added)'
        /\ (last_rendered # 0 => Order(last_rendered) <= last_hw_order)'
        /\ (last_rendered # 0 /\ hg_pc # "idle" => Order(last_rendered) <= hg_order)'
        /\ (rerender => mode.gl)'
    BY <1>1, <1>2, <1>3, <1>4, <1>5, <1>8 DEF PlaceInv, StillList
  <1>10. CASE hg_pc = "skip.next"
    <2>1. SkipNextInv /\ hg_pc' = "skip"
      BY <1>2, <1>3, <1>10 DEF PlaceInv
    <2>2. SkipInv'
      BY <1>2, <1>4, <1>5, <1>6, <1>7, <1>8, <2>1 DEF SkipNextInv, SkipInv
    <2> QED BY <1>9, <2>1, <2>2 DEF PlaceInv
  <1>11. CASE hg_pc = "frame.next"
    <2>1. FrameNextInv /\ hg_pc' = "frame"
      BY <1>2, <1>3, <1>11 DEF PlaceInv
    <2>2. FirstOf(layer_first, hg_order)'
      BY <1>1, <1>2, <2>1 DEF FrameNextInv, FirstOf, Order, StillList
    <2>3. Order(layer_first)' = hg_order
      BY <1>8, <2>1 DEF FrameNextInv, FirstOf
    <2>4. hg_cmd' # 0 => Order(hg_cmd)' = Order(hg_cmd + 1)
      BY <1>1, <1>5 DEF Order, StillList
    <2>5. OfFrame' <=> hg_cmd' # 0 /\ Order(hg_cmd)' = hg_order
      BY <1>2 DEF OfFrame, Command, Order
    <2>6. hg_cmd' # 0 => Order(hg_cmd)' >= hg_order
      BY <1>4, <1>5, <2>1, <2>4 DEF FrameNextInv
    <2>7. ~OfFrame' => Ends'
      BY <1>4, <1>5, <1>6, <1>7, <2>4, <2>5, <2>6
    <2>8. OfFrame' => hg_cmd' = last_rendered' + 1
      BY <1>2, <1>4, <1>5, <2>5
    <2>9. last_rendered' # 0 /\ Order(last_rendered)' = hg_order'
      BY <1>2, <1>4, <1>8, <2>1 DEF FrameNextInv
    <2>10. first_prev' # 0 /\ first_prev' = layer_first'
      BY <1>2, <2>1 DEF FrameNextInv
    <2>11. FrameInv'
      BY <1>2, <1>4, <2>2, <2>3, <2>6, <2>7, <2>8, <2>9, <2>10 DEF FrameInv
    <2> QED BY <1>9, <2>1, <2>11 DEF PlaceInv
  <1> QED BY <1>2, <1>10, <1>11

LEMMA NextLayerPlace ==
    ASSUME HwInv, NextLayer
    PROVE  PlaceInv' /\ Ends
  <1>1. StillList
    BY WindowIs DEF WindowSteps
  <1>2. /\ hg_pc = "frame" /\ ~OfFrame /\ hg_layer' = 2 /\ hg_cmd' = layer_first
        /\ UNCHANGED <<last_rendered, hg_pc, hg_order, rerender, layer_first, first_prev,
                       rendered_order, drawn>>
    BY DEF NextLayer, LayerEnds
  <1>3. PlaceInv /\ FrameInv /\ Ends
    BY <1>2 DEF HwInv, PlaceInv, FrameInv
  <1>4. /\ layer_first \in 0 .. last_added /\ last_rendered \in 0 .. last_added
        /\ last_added \in Nat /\ last_added <= Len(commands) /\ Len(commands) \in Nat
        /\ DOMAIN commands = 1 .. Len(commands) /\ hg_order \in Nat
        /\ \A c \in 1 .. Len(commands) : Order(c) \in Nat
        /\ \A c, d \in 1 .. Len(commands) : c <= d => Order(c) <= Order(d)
    <2>1. /\ layer_first \in 0 .. last_added /\ last_rendered \in 0 .. last_added
          /\ last_added \in Nat /\ last_added <= Len(commands) /\ Len(commands) \in Nat
          /\ DOMAIN commands = 1 .. Len(commands)
      BY CommandFacts
    <2>2. /\ hg_order \in Nat
          /\ \A c \in 1 .. Len(commands) : Order(c) \in Nat
          /\ \A c, d \in 1 .. Len(commands) : c <= d => Order(c) <= Order(d)
      BY Linked
    <2> QED BY <2>1, <2>2
  <1>5. Ends' <=> Ends
    BY <1>1, <1>2 DEF Ends, EndsAt, Order, StillList
  <1>6. /\ Order(last_rendered)' = Order(last_rendered) /\ Order(layer_first)' = Order(layer_first)
        /\ Order(hg_cmd)' = Order(layer_first)
        /\ FirstOf(layer_first, hg_order)' <=> FirstOf(layer_first, hg_order)
    BY <1>1, <1>2 DEF FirstOf, Order, StillList
  <1>7. OfFrame' => layer_first # 0 /\ Order(layer_first) = hg_order
    BY <1>1, <1>2 DEF OfFrame, Command, Order, StillList
  <1>8. OfFrame' => last_rendered # 0 /\ Order(last_rendered) = hg_order
    <2> SUFFICES ASSUME layer_first # 0, Order(layer_first) = hg_order
                 PROVE  last_rendered # 0 /\ Order(last_rendered) = hg_order
      BY <1>7
    <2>1. layer_first \in 1 .. Len(commands) /\ layer_first <= last_rendered
      BY <1>3, <1>4 DEF Ends, EndsAt
    <2>2. last_rendered \in 1 .. Len(commands) /\ hg_order <= Order(last_rendered)
      BY <1>4, <2>1
    <2>3. Order(last_rendered) <= hg_order
      BY <1>2, <1>3, <2>2 DEF PlaceInv
    <2> QED BY <1>4, <2>2, <2>3
  <1>9. FrameInv'
    BY <1>2, <1>3, <1>5, <1>6, <1>8 DEF FrameInv
  <1>10. PlaceInv'
    BY <1>1, <1>2, <1>3, <1>6, <1>9 DEF PlaceInv, StillList
  <1> QED BY <1>3, <1>10

LEMMA EndRenderingPlace ==
    ASSUME HwInv, EndRendering
    PROVE  PlaceInv' /\ Ends
  <1>1. StillList
    BY WindowIs DEF WindowSteps
  <1>2. /\ hg_pc = "frame" /\ ~OfFrame /\ rendered_order' = last_hw_order
        /\ hg_pc' = "idle" /\ hg_cmd' = 0 /\ hg_order' = 0 /\ hg_layer' = 1
        /\ layer_first' = 0 /\ rerender' = FALSE /\ drawn' = {}
        /\ UNCHANGED <<last_rendered, first_prev>>
    BY DEF EndRendering, LayerEnds
  <1>3. PlaceInv /\ FrameInv /\ Ends
    BY <1>2 DEF HwInv, PlaceInv, FrameInv
  <1>4. /\ last_rendered \in 0 .. last_added /\ first_prev \in 0 .. last_added
        /\ last_added \in Nat /\ last_added <= Len(commands) /\ Len(commands) \in Nat
        /\ DOMAIN commands = 1 .. Len(commands) /\ hg_order \in Nat
        /\ \A c \in 1 .. Len(commands) : Order(c) \in Nat
        /\ \A c, d \in 1 .. Len(commands) : c <= d => Order(c) <= Order(d)
        /\ ~mode.overlaps /\ hg_pc # "idle" => hg_order = last_hw_order
    <2>1. /\ last_rendered \in 0 .. last_added /\ first_prev \in 0 .. last_added
          /\ last_added \in Nat /\ last_added <= Len(commands) /\ Len(commands) \in Nat
          /\ DOMAIN commands = 1 .. Len(commands)
      BY CommandFacts
    <2>2. /\ hg_order \in Nat
          /\ \A c \in 1 .. Len(commands) : Order(c) \in Nat
          /\ \A c, d \in 1 .. Len(commands) : c <= d => Order(c) <= Order(d)
          /\ ~mode.overlaps /\ hg_pc # "idle" => hg_order = last_hw_order
      BY Linked
    <2> QED BY <2>1, <2>2
  <1>5. last_rendered # 0 => (EndsAt(Order(last_rendered)))'
    <2> SUFFICES ASSUME last_rendered # 0, NEW b \in 1 .. Len(commands)
                 PROVE  Order(b) <= Order(last_rendered) <=> b <= last_rendered
      BY <1>1, <1>2, <1>4 DEF EndsAt, Order, StillList
    <2>1. last_rendered \in 1 .. Len(commands) /\ Order(last_rendered) <= hg_order
      BY <1>2, <1>3, <1>4 DEF PlaceInv
    <2>2. Order(b) <= hg_order <=> b <= last_rendered
      BY <1>3, <1>4 DEF Ends, EndsAt
    <2> QED BY <1>4, <2>1, <2>2
  <1>6. (first_prev # 0 /\ ~mode.overlaps =>
            FirstOf(first_prev, rendered_order) /\ last_rendered # 0
            /\ Order(last_rendered) = rendered_order)'
    <2> SUFFICES ASSUME first_prev # 0, ~mode.overlaps
                 PROVE  /\ FirstOf(first_prev, last_hw_order)
                        /\ last_rendered # 0 /\ Order(last_rendered) = last_hw_order
      BY <1>1, <1>2 DEF FirstOf, Order, StillList
    <2>1. hg_order = last_hw_order
      BY <1>2, <1>4
    <2> QED BY <1>3, <2>1 DEF FrameInv
  <1>7. IdleInv'
    BY <1>2, <1>5, <1>6 DEF IdleInv
  <1>8. Order(last_rendered)' = Order(last_rendered)
    BY <1>1, <1>2 DEF Order, StillList
  <1> QED BY <1>1, <1>2, <1>3, <1>4, <1>7, <1>8 DEF PlaceInv, StillList

LEMMA WindowPlace ==
    ASSUME HwInv, WindowSteps
    PROVE  PlaceInv'
  BY ChosenPlace, DecidePlace, SkipPlace, SkippedPlace, FramePlace, FollowPlace, NextLayerPlace,
     EndRenderingPlace DEF WindowSteps

-----------------------------------------------------------------------------
(* What is removed. *)

\* The command rendered last is of a later frame, or the same, and exists.
LEMMA LaterRendered ==
    ASSUME HwInv, StillList, last_rendered' \in 1 .. last_added,
           last_rendered # 0 => Order(last_rendered) <= Order(last_rendered'),
           last_rendered = 0 => last_rendered' = 1,
           next_to_remove' = IF next_to_remove = 0 THEN last_rendered' ELSE next_to_remove
    PROVE  RemoveInv' /\ next_to_remove' <= last_rendered'
  <1> DEFINE n == Len(commands)
             k == next_to_remove
             r == last_rendered
  <1>1. /\ n \in Nat /\ DOMAIN commands = 1 .. n /\ last_added \in Nat /\ last_added <= n
        /\ r \in 0 .. n /\ r' \in 1 .. n /\ k \in 0 .. r
        /\ \A c \in 1 .. n : Order(c) \in Nat
        /\ \A c, d \in 1 .. n : c <= d => Order(c) <= Order(d)
    BY CommandFacts, Linked
  <1>2. RemoveInv
    BY DEF HwInv
  <1>3. CASE k = 0
    <2>1. r = 0 /\ r' = 1 /\ k' = 1
      BY <1>2, <1>3 DEF RemoveInv
    <2>2. \A c \in 1 .. n : commands[c].kind # "removed"
      BY <1>1, <1>2, <1>3 DEF RemoveInv
    <2>3. hp_last = 0
      BY <1>2, <1>3 DEF RemoveInv
    <2> QED BY <1>1, <2>1, <2>2, <2>3 DEF RemoveInv, StillList
  <1>4. CASE k # 0
    <2>1. k' = k /\ r # 0 /\ r \in 1 .. n /\ k \in 1 .. n
      BY <1>1, <1>2, <1>4 DEF RemoveInv
    <2>2. Order(r) <= Order(r')
      BY <2>1
    <2>3. k > 1 => Order(k) < Order(r')
      BY <1>1, <1>2, <2>1, <2>2 DEF RemoveInv
    <2>4. k <= r'
      BY <1>1, <2>1, <2>3
    <2>5. hp_last # 0 => Order(hp_last) <= Order(r')
      BY <1>1, <1>2, <2>1, <2>2 DEF RemoveInv
    <2>6. \A c : Order(c)' = Order(c)
      BY DEF Order, StillList
    <2>7. Order(k)' = Order(k) /\ Order(r)' = Order(r') /\ Order(hp_last)' = Order(hp_last)
      BY <2>1 DEF Order, StillList
    <2> QED BY <1>1, <1>2, <2>1, <2>3, <2>4, <2>5, <2>7 DEF RemoveInv, StillList
  <1> QED BY <1>3, <1>4

LEMMA StillRendered ==
    ASSUME HwInv, StillList, last_rendered' = last_rendered, next_to_remove' = next_to_remove
    PROVE  RemoveInv'
  BY DEF HwInv, RemoveInv, StillList, Order

\* The command at hand is of no earlier frame than the one before.
LEMMA Onwards ==
    ASSUME HwInv, Skip \/ Frame
    PROVE  /\ hg_cmd \in 1 .. last_added
           /\ last_rendered # 0 => Order(last_rendered) <= Order(hg_cmd)
           /\ last_rendered = 0 => hg_cmd = 1
  <1>1. /\ last_added \in Nat /\ last_added <= Len(commands) /\ Len(commands) \in Nat
        /\ last_rendered \in 0 .. last_added
        /\ \A c \in 1 .. Len(commands) : Order(c) \in Nat
        /\ \A c, d \in 1 .. Len(commands) : c <= d => Order(c) <= Order(d)
    BY CommandFacts, Linked
  <1>2. hg_cmd \in 1 .. last_added
    BY SkipPlace, FramePlace
  <1>3. ASSUME hg_cmd = last_rendered + 1
        PROVE  /\ last_rendered # 0 => Order(last_rendered) <= Order(hg_cmd)
               /\ last_rendered = 0 => hg_cmd = 1
    BY <1>1, <1>2, <1>3
  <1>4. CASE Skip
    BY <1>2, <1>3, <1>4, SkipPlace
  <1>5. CASE Frame
    <2>1. CASE hg_layer = 1 /\ ~rerender
      BY <1>2, <1>3, <1>5, <2>1, FramePlace
    <2>2. CASE ~(hg_layer = 1 /\ ~rerender)
      <3>1. last_rendered # 0 /\ Order(last_rendered) = hg_order /\ Order(hg_cmd) = hg_order
        BY <1>5, <2>2, FramePlace
      <3> QED BY <1>1, <1>2, <3>1
    <2> QED BY <2>1, <2>2
  <1> QED BY <1>4, <1>5

LEMMA WindowRemove ==
    ASSUME HwInv, WindowSteps
    PROVE  RemoveInv'
  <1>1. StillList
    BY WindowIs
  <1>2. CASE Skip \/ Frame
    <2>1. /\ last_rendered' = hg_cmd
          /\ next_to_remove' = IF next_to_remove = 0 THEN hg_cmd ELSE next_to_remove
      BY <1>2 DEF Skip, Frame, Carry
    <2> QED BY <1>1, <1>2, <2>1, Onwards, LaterRendered
  <1>3. CASE Chosen \/ Skipped \/ Follow \/ NextLayer \/ EndRendering
    <2>1. last_rendered' = last_rendered /\ next_to_remove' = next_to_remove
      BY <1>3 DEF Chosen, Skipped, Follow, NextLayer, EndRendering, list
    <2> QED BY <1>1, <2>1, StillRendered
  <1>4. ASSUME NEW resized \in BOOLEAN, Decide(resized) PROVE RemoveInv'
    <2>1. next_to_remove' = next_to_remove
      BY <1>4 DEF Decide, list
    <2>2. CASE last_rendered' = last_rendered
      BY <1>1, <2>1, <2>2, StillRendered
    <2>3. CASE last_rendered' # last_rendered
      <3>1. /\ hg_pc \in {"new", "same"} /\ Known /\ first_prev # 0 /\ mode.gl
            /\ last_rendered' = first_prev
        BY <1>4, <2>3, Linked DEF Decide
      <3>2. IdleInv /\ ~mode.overlaps
        BY <3>1, Linked DEF HwInv, PlaceInv
      <3>3. /\ last_rendered # 0 /\ Order(last_rendered) = rendered_order
            /\ Order(first_prev) = rendered_order
        BY <3>1, <3>2 DEF IdleInv, FirstOf
      <3>4. next_to_remove # 0
        BY <3>3 DEF HwInv, RemoveInv
      <3>5. first_prev \in 1 .. last_added /\ rendered_order \in Nat
        BY <3>1, CommandFacts, Linked
      <3> QED BY <1>1, <2>1, <3>1, <3>3, <3>4, <3>5, LaterRendered
    <2> QED BY <2>2, <2>3
  <1> QED BY <1>2, <1>3, <1>4 DEF WindowSteps

-----------------------------------------------------------------------------
(* What was carried out. *)

\* A command that lasts is carried out in the first layer of the first rendering.
LEMMA CarryIs ==
    ASSUME HwInv, Skip \/ Frame
    PROVE  /\ UNCHANGED <<hg_layer, rerender, hg_order, hg_cmd>> /\ last_rendered' = hg_cmd
           /\ done' = IF hg_layer = 1 /\ ~rerender /\ Lasting(hg_cmd)
                      THEN done \union {hg_cmd} ELSE done
           /\ images' = IF hg_layer = 1 /\ ~rerender /\ commands[hg_cmd].kind = "free"
                        THEN [images EXCEPT ![commands[hg_cmd].src].exists = FALSE]
                        ELSE images
  <1>1. CASE Skip
    <2>1. ~rerender /\ hg_layer = 1 /\ hg_pc = "skip" /\ Older
      BY <1>1, SkipPlace DEF Skip
    <2>2. SkipDoes <=> Lasting(hg_cmd)
      BY <2>1 DEF SkipDoes
    <2>3. commands[hg_cmd].kind = "free" => Lasting(hg_cmd)
      BY DEF Lasting
    <2> QED BY <1>1, <2>1, <2>2, <2>3 DEF Skip, Carry, Command
  <1>2. CASE Frame
    <2>1. hg_pc = "frame" /\ OfFrame /\ hg_layer \in 1 .. 2 /\ rerender \in BOOLEAN
      BY <1>2, Linked DEF Frame
    <2>2. FrameDoes /\ Lasting(hg_cmd) <=> hg_layer = 1 /\ ~rerender /\ Lasting(hg_cmd)
      <3>1. commands[hg_cmd].kind = "put" /\ commands[hg_cmd].dst > 0 =>
               commands[hg_cmd].dst # 1 - hg_layer /\ ~(commands[hg_cmd].dst <= 0)
        <4>1. hg_cmd \in 1 .. last_added /\ last_added <= Len(commands)
              /\ Len(commands) \in Nat /\ last_added \in Nat
          BY <1>2, FramePlace, CommandFacts
        <4>2. commands[hg_cmd].dst \in Int
          BY <4>1, CommandFacts
        <4> QED BY <2>1, <4>2
      <3> DEFINE k == commands[hg_cmd].kind
                 d == commands[hg_cmd].dst
      <3>2. Lasting(hg_cmd) <=> k = "free" \/ (k = "put" /\ d > 0)
        BY DEF Lasting
      <3>3. FrameDoes <=> \/ k = "free" /\ ~rerender /\ hg_layer = 1
                          \/ /\ k = "put" /\ (~rerender \/ d <= 0)
                             /\ (d > 0 /\ hg_layer = 1) \/ d = 1 - hg_layer
        BY <2>1 DEF FrameDoes, Command
      <3> HIDE DEF k, d
      <3> QED BY <2>1, <3>1, <3>2, <3>3 DEF k, d
    <2>3. FrameDoes /\ commands[hg_cmd].kind = "free" <=>
             hg_layer = 1 /\ ~rerender /\ commands[hg_cmd].kind = "free"
      BY <2>1 DEF FrameDoes, Command
    <2> QED BY <1>2, <2>2, <2>3 DEF Frame, Carry, Command
  <1> QED BY <1>1, <1>2

LEMMA CarryDone ==
    ASSUME HwInv, Skip \/ Frame
    PROVE  DoneInv' /\ (hg_layer = 1 /\ ~rerender => hg_cmd \notin done)
  <1>1. StillList /\ \A c : Lasting(c)' <=> Lasting(c)
    BY WindowIs DEF WindowSteps, StillList, Lasting
  <1>2. /\ last_rendered \in Nat /\ Len(commands) \in Nat /\ DOMAIN commands = 1 .. Len(commands)
        /\ hg_cmd \in 1 .. Len(commands)
    BY CommandFacts, Onwards
  <1>3. DoneInv
    BY DEF HwInv
  <1>4. CASE hg_layer = 1 /\ ~rerender
    <2>1. hg_cmd = last_rendered + 1
      BY <1>4, SkipPlace, FramePlace
    <2>2. Passed = {b \in 1 .. Len(commands) : b <= last_rendered}
      BY <1>2, <1>4 DEF Passed
    <2>3. Passed' = {b \in 1 .. Len(commands) : b <= hg_cmd}
      BY <1>1, <1>2, <1>4, CarryIs DEF Passed, StillList
    <2>4. Passed' = Passed \union {hg_cmd} /\ hg_cmd \notin Passed
      BY <1>2, <2>1, <2>2, <2>3
    <2>5. done' = IF Lasting(hg_cmd) THEN done \union {hg_cmd} ELSE done
      BY <1>4, CarryIs
    <2>6. \A c \in done' : Lasting(c)' \/ commands'[c].kind = "removed"
      BY <1>1, <1>3, <2>5 DEF DoneInv, StillList
    <2>7. \A b \in Passed' : Lasting(b)' => b \in done'
      BY <1>1, <1>3, <2>4, <2>5 DEF DoneInv
    <2>8. done' \subseteq Passed' /\ hg_cmd \notin done
      BY <1>3, <2>4, <2>5 DEF DoneInv
    <2> QED BY <2>6, <2>7, <2>8 DEF DoneInv
  <1>5. CASE ~(hg_layer = 1 /\ ~rerender)
    <2>1. done' = done
      BY <1>5, CarryIs
    <2>2. Passed' = Passed
      BY <1>1, <1>5, CarryIs DEF Passed, StillList, Order
    <2> QED BY <1>1, <1>3, <1>5, <2>1, <2>2 DEF DoneInv, StillList
  <1> QED BY <1>4, <1>5

LEMMA SamePassed ==
    ASSUME HwInv, StillList, done' = done, Passed' = Passed
    PROVE  DoneInv'
  BY DEF HwInv, DoneInv, StillList, Lasting

LEMMA WindowDone ==
    ASSUME HwInv, WindowSteps
    PROVE  DoneInv'
  <1>1. StillList
    BY WindowIs
  <1>2. CASE Skip \/ Frame
    BY <1>2, CarryDone
  <1>3. CASE Chosen
    <2>1. /\ hg_pc = "idle" /\ done' = done
          /\ UNCHANGED <<last_rendered, hg_layer, rerender>>
      BY <1>3 DEF Chosen
    <2>2. hg_layer = 1 /\ ~rerender
      BY <2>1 DEF HwInv, PlaceInv, IdleInv
    <2>3. Passed' = Passed
      BY <1>1, <2>1, <2>2 DEF Passed, StillList
    <2> QED BY <1>1, <2>1, <2>3, SamePassed
  <1>4. CASE Skipped \/ Follow
    <2>1. done' = done /\ UNCHANGED <<last_rendered, hg_layer, rerender, hg_order>>
      BY <1>4 DEF Skipped, Follow
    <2>2. Passed' = Passed
      BY <1>1, <2>1 DEF Passed, StillList, Order
    <2> QED BY <1>1, <2>1, <2>2, SamePassed
  <1>5. CASE NextLayer
    <2>1. /\ hg_layer = 1 /\ hg_layer' = 2 /\ done' = done
          /\ UNCHANGED <<last_rendered, rerender, hg_order>>
      BY <1>5 DEF NextLayer
    <2>2. Ends
      BY <1>5, NextLayerPlace
    <2>3. {b \in DOMAIN commands : b <= last_rendered}
            = {b \in DOMAIN commands : Order(b) <= hg_order}
      BY <2>2 DEF Ends, EndsAt
    <2>4. Passed' = {b \in DOMAIN commands : Order(b) <= hg_order}
      BY <1>1, <2>1 DEF Passed, StillList, Order
    <2>5. Passed = Passed'
      BY <2>3, <2>4 DEF Passed
    <2> QED BY <1>1, <2>1, <2>5, SamePassed
  <1>6. CASE EndRendering
    <2>1. /\ hg_layer' = 1 /\ rerender' = FALSE /\ done' = done
          /\ last_rendered' = last_rendered
      BY <1>6 DEF EndRendering
    <2>2. Ends
      BY <1>6, EndRenderingPlace
    <2>3. {b \in DOMAIN commands : b <= last_rendered}
            = {b \in DOMAIN commands : Order(b) <= hg_order}
      BY <2>2 DEF Ends, EndsAt
    <2>4. Passed' = {b \in DOMAIN commands : b <= last_rendered}
      BY <1>1, <2>1 DEF Passed, StillList
    <2>5. Passed = Passed'
      BY <2>3, <2>4 DEF Passed
    <2> QED BY <1>1, <2>1, <2>5, SamePassed
  <1>7. ASSUME NEW resized \in BOOLEAN, Decide(resized) PROVE DoneInv'
    <2>1. hg_pc \in {"new", "same"} /\ done' = done /\ hg_layer' = hg_layer
      BY <1>7 DEF Decide
    <2>2. IdleInv
      BY <2>1 DEF HwInv, PlaceInv
    <2>3. Passed = {b \in DOMAIN commands : b <= last_rendered}
      BY <2>2 DEF IdleInv, Passed
    <2>4. CASE ~rerender' /\ last_rendered' = last_rendered
      <3>1. Passed' = Passed
        BY <1>1, <2>1, <2>2, <2>3, <2>4 DEF Passed, StillList, IdleInv
      <3> QED BY <1>1, <2>1, <3>1, SamePassed
    <2>5. CASE ~(~rerender' /\ last_rendered' = last_rendered)
      <3>1. /\ Known /\ first_prev # 0 /\ mode.gl /\ rerender' /\ hg_order' = hg_order
        BY <1>7, <2>2, <2>5, Linked DEF Decide, IdleInv
      <3>2. last_rendered # 0 /\ Order(last_rendered) = hg_order
        BY <2>1, <2>2, <3>1, Linked DEF IdleInv, Known
      <3>3. EndsAt(hg_order)
        BY <2>2, <3>2 DEF IdleInv
      <3>4. Passed' = {b \in DOMAIN commands : Order(b) <= hg_order}
        BY <1>1, <3>1 DEF Passed, StillList, Order
      <3>5. Passed' = Passed
        BY <2>3, <3>3, <3>4 DEF EndsAt
      <3> QED BY <1>1, <2>1, <3>5, SamePassed
    <2> QED BY <2>4, <2>5
  <1> QED BY <1>2, <1>3, <1>4, <1>5, <1>6, <1>7 DEF WindowSteps

-----------------------------------------------------------------------------
(* What was drawn again. *)

\* A layer ends after all commands of the frame.
LEMMA LayerHere ==
    ASSUME HwInv, LayerEnds
    PROVE  \A c \in DOMAIN commands : Order(c) = hg_order => Here(c)
  <1>1. hg_pc = "frame" /\ ~OfFrame
    BY DEF LayerEnds
  <1>2. FrameInv
    BY <1>1 DEF HwInv, PlaceInv
  <1>3. /\ Len(commands) \in Nat /\ DOMAIN commands = 1 .. Len(commands)
        /\ hg_cmd \in 0 .. last_added /\ last_added <= Len(commands) /\ last_added \in Nat
    BY CommandFacts
  <1>4. /\ \A c, d \in 1 .. Len(commands) : c <= d => Order(c) <= Order(d)
        /\ \A c \in 1 .. Len(commands) : Order(c) \in Nat
        /\ hg_order \in Nat
    BY Linked
  <1> SUFFICES ASSUME NEW c \in 1 .. Len(commands), Order(c) = hg_order, hg_cmd # 0
               PROVE  c < hg_cmd
    BY <1>3 DEF Here
  <1>5. hg_cmd \in 1 .. Len(commands) /\ Order(hg_cmd) # hg_order /\ Order(hg_cmd) >= hg_order
    BY <1>1, <1>2, <1>3 DEF FrameInv, OfFrame, Command, Order
  <1>6. ~(hg_cmd <= c)
    BY <1>4, <1>5
  <1> QED BY <1>3, <1>6

LEMMA FrameDrawn ==
    ASSUME HwInv, Frame
    PROVE  DrawnInv'
  <1>1. StillList
    BY WindowIs DEF WindowSteps
  <1>2. /\ hg_pc = "frame" /\ OfFrame /\ hg_cmd # 0 /\ hg_pc' = "frame.next"
        /\ UNCHANGED <<hg_cmd, hg_order, hg_layer, rerender>>
        /\ drawn' = IF FrameDoes /\ rerender THEN drawn \union {hg_cmd} ELSE drawn
    BY DEF Frame, Carry, OfFrame
  <1>3. hg_layer \in 1 .. 2
    BY Linked
  <1> SUFFICES ASSUME rerender, NEW c \in DOMAIN commands,
                      commands[c].kind = "put", Order(c) = hg_order
               PROVE  /\ commands[c].dst = 0 /\ (hg_layer = 2 \/ Here(c)') => c \in drawn'
                      /\ commands[c].dst = -1 /\ hg_layer = 2 /\ Here(c)' => c \in drawn'
    BY <1>1, <1>2 DEF DrawnInv, StillList, Order
  <1>4. /\ commands[c].dst = 0 /\ (hg_layer = 2 \/ Here(c)) => c \in drawn
        /\ commands[c].dst = -1 /\ hg_layer = 2 /\ Here(c) => c \in drawn
    BY <1>2 DEF HwInv, DrawnInv
  <1>5. Here(c)' <=> Here(c) \/ c = hg_cmd
    BY <1>2 DEF Here
  <1>6. drawn \subseteq drawn'
    BY <1>2
  <1>7. CASE c # hg_cmd
    BY <1>4, <1>5, <1>6, <1>7
  <1>8. CASE c = hg_cmd
    <2>1. FrameDoes => c \in drawn'
      BY <1>2, <1>8
    <2>2. commands[c].dst = 0 /\ hg_layer = 1 => FrameDoes
      BY <1>2, <1>8 DEF FrameDoes, Command
    <2>3. commands[c].dst = -1 /\ hg_layer = 2 => FrameDoes
      BY <1>2, <1>8 DEF FrameDoes, Command
    <2> QED BY <1>3, <1>4, <1>6, <2>1, <2>2, <2>3
  <1> QED BY <1>7, <1>8

LEMMA FollowDrawn ==
    ASSUME HwInv, Follow
    PROVE  DrawnInv'
  <1>1. StillList
    BY WindowIs DEF WindowSteps
  <1>2. /\ hg_pc \in {"skip.next", "frame.next"} /\ hg_cmd' = commands[hg_cmd].next
        /\ hg_pc' = IF hg_pc = "skip.next" THEN "skip" ELSE "frame"
        /\ UNCHANGED <<hg_order, hg_layer, rerender, drawn>>
    BY DEF Follow, Command
  <1> SUFFICES ASSUME hg_pc = "frame.next", rerender, NEW c \in DOMAIN commands,
                      commands[c].kind = "put", Order(c) = hg_order
               PROVE  /\ commands[c].dst = 0 /\ (hg_layer = 2 \/ Here(c)') => c \in drawn'
                      /\ commands[c].dst = -1 /\ hg_layer = 2 /\ Here(c)' => c \in drawn'
    BY <1>1, <1>2 DEF DrawnInv, StillList, Order
  <1>3. /\ commands[c].dst = 0 /\ (hg_layer = 2 \/ Here(c)) => c \in drawn
        /\ commands[c].dst = -1 /\ hg_layer = 2 /\ Here(c) => c \in drawn
    BY DEF HwInv, DrawnInv
  <1>4. FrameNextInv
    BY DEF HwInv, PlaceInv
  <1>5. /\ hg_cmd \in 1 .. last_added /\ last_added <= Len(commands) /\ Len(commands) \in Nat
        /\ last_added \in Nat /\ DOMAIN commands = 1 .. Len(commands)
    BY <1>4, CommandFacts DEF FrameNextInv
  <1>6. Order(hg_cmd) <= hg_order /\ hg_order \in Nat
    BY <1>4, Linked DEF FrameNextInv
  <1>7. commands[hg_cmd].next = 0 => c <= hg_cmd
    BY <1>5, <1>6, NextIs
  <1>8. commands[hg_cmd].next # 0 => commands[hg_cmd].next = hg_cmd + 1
    BY <1>5, NextIs
  <1>9. Here(c)' => c <= hg_cmd
    <2>1. hg_pc' = "frame"
      BY <1>2
    <2>2. Here(c)' => hg_cmd' = 0 \/ c < hg_cmd'
      BY <2>1 DEF Here
    <2>3. c \in Nat /\ hg_cmd \in Nat
      BY <1>5
    <2> QED BY <1>2, <1>7, <1>8, <2>2, <2>3
  <1>10. c <= hg_cmd => Here(c)
    <2>1. c \in Nat /\ hg_cmd \in Nat
      BY <1>5
    <2> QED BY <2>1 DEF Here
  <1> QED BY <1>2, <1>3, <1>9, <1>10

LEMMA NextLayerDrawn ==
    ASSUME HwInv, NextLayer
    PROVE  DrawnInv'
  <1>1. StillList
    BY WindowIs DEF WindowSteps
  <1>2. /\ LayerEnds /\ hg_pc = "frame" /\ hg_layer = 1 /\ hg_layer' = 2
        /\ hg_cmd' = layer_first
        /\ UNCHANGED <<hg_pc, hg_order, rerender, drawn>>
    BY DEF NextLayer, LayerEnds
  <1> SUFFICES ASSUME rerender, NEW c \in DOMAIN commands,
                      commands[c].kind = "put", Order(c) = hg_order
               PROVE  /\ commands[c].dst = 0 => c \in drawn
                      /\ ~(Here(c)')
    BY <1>1, <1>2 DEF DrawnInv, StillList, Order
  <1>3. Here(c)
    BY <1>2, LayerHere
  <1>4. commands[c].dst = 0 => c \in drawn
    BY <1>2, <1>3 DEF HwInv, DrawnInv
  <1>5. FirstOf(layer_first, hg_order)
    BY <1>2 DEF HwInv, PlaceInv, FrameInv
  <1>6. layer_first \in Nat /\ layer_first # 0 /\ c \in Nat /\ layer_first <= c
    <2>1. DOMAIN commands = 1 .. Len(commands) /\ Len(commands) \in Nat
      BY CommandFacts
    <2> QED BY <1>5, <2>1 DEF FirstOf
  <1>7. ~(Here(c)')
    BY <1>2, <1>6 DEF Here
  <1> QED BY <1>4, <1>7

LEMMA WindowDrawn ==
    ASSUME HwInv, WindowSteps
    PROVE  DrawnInv'
  <1>1. CASE Frame
    BY <1>1, FrameDrawn
  <1>2. CASE Follow
    BY <1>2, FollowDrawn
  <1>3. CASE NextLayer
    BY <1>3, NextLayerDrawn
  <1>4. CASE Chosen \/ Skip \/ EndRendering
    BY <1>4 DEF Chosen, Skip, EndRendering, DrawnInv
  <1>5. ASSUME NEW resized \in BOOLEAN, Decide(resized) PROVE DrawnInv'
    BY <1>5 DEF Decide, DrawnInv
  <1>6. CASE Skipped
    <2>1. StillList
      BY <1>6, WindowIs DEF WindowSteps
    <2>2. /\ hg_pc = "skip" /\ hg_pc' = "frame"
          /\ UNCHANGED <<hg_cmd, hg_order, hg_layer, rerender, drawn>>
      BY <1>6 DEF Skipped
    <2>3. SkipInv
      BY <2>2 DEF HwInv, PlaceInv
    <2> SUFFICES ASSUME rerender, NEW c \in DOMAIN commands, Order(c) = hg_order
                 PROVE  hg_layer = 1 /\ ~(Here(c)')
      BY <2>1, <2>2 DEF DrawnInv, StillList, Order
    <2>4. hg_layer = 1 /\ FirstOf(hg_cmd, hg_order)
      BY <2>3 DEF SkipInv
    <2>5. hg_cmd \in Nat /\ hg_cmd # 0 /\ c \in Nat /\ hg_cmd <= c
      <3>1. DOMAIN commands = 1 .. Len(commands) /\ Len(commands) \in Nat
        BY CommandFacts
      <3> QED BY <2>4, <3>1 DEF FirstOf
    <2>6. ~(Here(c)')
      BY <2>2, <2>5 DEF Here
    <2> QED BY <2>4, <2>6
  <1> QED BY <1>1, <1>2, <1>3, <1>4, <1>5, <1>6 DEF WindowSteps

-----------------------------------------------------------------------------
(* Images. *)

LEMMA UsesSame ==
    ASSUME UseInv, commands' = commands, Len(images') = Len(images),
           DOMAIN images' = DOMAIN images, hp_pc' = hp_pc, hp_cmd' = hp_cmd,
           \A i \in DOMAIN images : images'[i].valid = images[i].valid,
           \A i \in DOMAIN images : images[i].valid => images'[i].exists
    PROVE  UseInv'
  BY DEF UseInv, Order

LEMMA LaterGone ==
    ASSUME HwInv, StillList, images' = images, done \subseteq done',
           last_rendered # 0 =>
              last_rendered' \in 1 .. last_added /\ Order(last_rendered) <= Order(last_rendered')
    PROVE  ImageInv'
  <1>1. UseInv'
    <2>1. UseInv
      BY DEF HwInv, ImageInv
    <2>2. \A i \in DOMAIN images : images[i].valid => images[i].exists
      BY <2>1 DEF UseInv
    <2> QED BY <2>1, <2>2, UsesSame DEF StillList
  <1>2. GoneInv'
    <2> SUFFICES ASSUME NEW i \in DOMAIN images, ~images[i].exists
                 PROVE  /\ last_rendered' # 0
                        /\ \A c \in DOMAIN commands :
                             /\ commands[c].kind = "put" /\ Uses(commands[c], i) =>
                                   Order(c) < Order(last_rendered')
                             /\ commands[c].kind = "request" => commands[c].src # i
                             /\ commands[c].kind = "free" /\ commands[c].src = i => c \in done'
      BY DEF GoneInv, StillList, Order
    <2>1. /\ last_rendered # 0
          /\ \A c \in DOMAIN commands :
               /\ commands[c].kind = "put" /\ Uses(commands[c], i) =>
                     Order(c) < Order(last_rendered)
               /\ commands[c].kind = "request" => commands[c].src # i
               /\ commands[c].kind = "free" /\ commands[c].src = i => c \in done
      BY DEF HwInv, ImageInv, GoneInv
    <2>2. /\ last_added \in Nat /\ last_added <= Len(commands) /\ Len(commands) \in Nat
          /\ last_rendered \in 0 .. last_added /\ DOMAIN commands = 1 .. Len(commands)
      BY CommandFacts
    <2>3. \A c \in DOMAIN commands : Order(c) \in Nat
      BY <2>2, Linked
    <2>4. last_rendered \in DOMAIN commands /\ last_rendered' \in DOMAIN commands
          /\ Order(last_rendered) <= Order(last_rendered') /\ last_rendered' # 0
      BY <2>1, <2>2
    <2>5. \A c \in DOMAIN commands :
             Order(c) < Order(last_rendered) => Order(c) < Order(last_rendered')
      BY <2>3, <2>4
    <2> QED BY <2>1, <2>4, <2>5
  <1> QED BY <1>1, <1>2 DEF ImageInv

LEMMA CarryImages ==
    ASSUME HwInv, Skip \/ Frame
    PROVE  ImageInv'
  <1> DEFINE i0 == commands[hg_cmd].src
  <1>1. StillList
    BY WindowIs DEF WindowSteps
  <1>2. /\ hg_cmd \in 1 .. last_added /\ last_rendered' = hg_cmd
        /\ last_rendered # 0 => Order(last_rendered) <= Order(hg_cmd)
    BY Onwards, CarryIs
  <1>3. /\ done' = IF hg_layer = 1 /\ ~rerender /\ Lasting(hg_cmd)
                   THEN done \union {hg_cmd} ELSE done
        /\ images' = IF hg_layer = 1 /\ ~rerender /\ commands[hg_cmd].kind = "free"
                     THEN [images EXCEPT ![i0].exists = FALSE]
                     ELSE images
    BY CarryIs
  <1>4. CASE ~(hg_layer = 1 /\ ~rerender /\ commands[hg_cmd].kind = "free")
    BY <1>1, <1>2, <1>3, <1>4, LaterGone
  <1>5. CASE hg_layer = 1 /\ ~rerender /\ commands[hg_cmd].kind = "free"
    <2>1. /\ last_added \in Nat /\ last_added <= Len(commands) /\ Len(commands) \in Nat
          /\ last_rendered \in 0 .. last_added /\ DOMAIN commands = 1 .. Len(commands)
          /\ hg_cmd \in DOMAIN commands
      BY <1>2, CommandFacts
    <2>2. \A c \in DOMAIN commands : Order(c) \in Nat
      BY <2>1, Linked
    <2>3. UseInv /\ GoneInv
      BY DEF HwInv, ImageInv
    <2>4. i0 \in DOMAIN images
      BY <2>1, <2>3 DEF UseInv
    <2>5. /\ DOMAIN images' = DOMAIN images /\ Len(images') = Len(images)
          /\ \A i \in DOMAIN images : images'[i].valid = images[i].valid
          /\ \A i \in DOMAIN images : i # i0 => images'[i] = images[i]
      <3> DEFINE r == [images[i0] EXCEPT !.exists = FALSE]
      <3>1. images' = [images EXCEPT ![i0] = r]
        BY <1>3, <1>5
      <3>2. /\ images \in Seq(ImageType) /\ images[i0] \in ImageType
            /\ Len(images) \in Nat /\ DOMAIN images = 1 .. Len(images)
        BY <2>4, ImageFacts DEF HwInv, ManyTypes
      <3>3. r \in ImageType /\ r.valid = images[i0].valid
        BY <3>2 DEF ImageType
      <3> HIDE DEF r, i0
      <3>4. images' \in Seq(ImageType) /\ Len(images') = Len(images)
        BY <2>4, <3>1, <3>2, <3>3
      <3>5. DOMAIN images' = DOMAIN images
        BY <3>1
      <3>6. \A i \in DOMAIN images : images'[i] = IF i = i0 THEN r ELSE images[i]
        BY <3>1
      <3> QED BY <3>3, <3>4, <3>5, <3>6
    <2>6. ~images[i0].valid
      BY <1>5, <2>1, <2>3, <2>4 DEF UseInv, Ending
    <2>7. \A i \in DOMAIN images : images[i].valid => images'[i].exists
      BY <2>3, <2>5, <2>6 DEF UseInv
    <2> HIDE DEF i0
    <2>8. UseInv'
      BY <1>1, <2>3, <2>5, <2>7, UsesSame DEF StillList
    <2>9. done' = done \union {hg_cmd}
      BY <1>3, <1>5 DEF Lasting
    <2>10. GoneInv'
      <3> SUFFICES ASSUME NEW i \in DOMAIN images, ~images'[i].exists
                   PROVE  \A c \in DOMAIN commands :
                             /\ commands[c].kind = "put" /\ Uses(commands[c], i) =>
                                   Order(c) < Order(hg_cmd)
                             /\ commands[c].kind = "request" => commands[c].src # i
                             /\ commands[c].kind = "free" /\ commands[c].src = i => c \in done'
        BY <1>1, <1>2, <2>1, <2>5 DEF GoneInv, StillList, Order
      <3>1. CASE i = i0
        <4>1. commands[hg_cmd].src = i
          BY <3>1 DEF i0
        <4> QED BY <1>5, <2>1, <2>3, <2>9, <4>1 DEF UseInv, Ending
      <3>2. CASE i # i0
        <4>1. ~images[i].exists
          BY <2>5, <3>2
        <4>2. /\ last_rendered # 0
              /\ \A c \in DOMAIN commands :
                   /\ commands[c].kind = "put" /\ Uses(commands[c], i) =>
                         Order(c) < Order(last_rendered)
                   /\ commands[c].kind = "request" => commands[c].src # i
                   /\ commands[c].kind = "free" /\ commands[c].src = i => c \in done
          BY <2>3, <4>1 DEF GoneInv
        <4>3. /\ last_rendered \in DOMAIN commands /\ Order(last_rendered) <= Order(hg_cmd)
          BY <1>2, <2>1, <4>2
        <4>4. \A c \in DOMAIN commands : Order(c) < Order(last_rendered) => Order(c) < Order(hg_cmd)
          BY <2>1, <2>2, <4>3
        <4> QED BY <2>9, <4>2, <4>4
      <3> QED BY <3>1, <3>2
    <2> QED BY <2>8, <2>10 DEF ImageInv
  <1> QED BY <1>4, <1>5

LEMMA WindowImages ==
    ASSUME HwInv, WindowSteps
    PROVE  ImageInv'
  <1>1. StillList
    BY WindowIs
  <1>2. CASE Skip \/ Frame
    BY <1>2, CarryImages
  <1>3. last_rendered \in 0 .. last_added /\ first_prev \in 0 .. last_added
        /\ last_added \in Nat /\ last_added <= Len(commands) /\ Len(commands) \in Nat
    BY CommandFacts
  <1>4. \A c \in 1 .. Len(commands) : Order(c) \in Nat
    BY Linked
  <1>5. last_rendered # 0 =>
           last_rendered \in 1 .. last_added /\ Order(last_rendered) <= Order(last_rendered)
    BY <1>3, <1>4
  <1>6. CASE Chosen \/ Skipped \/ Follow \/ NextLayer \/ EndRendering
    <2>1. last_rendered' = last_rendered /\ images' = images /\ done' = done
      BY <1>6 DEF Chosen, Skipped, Follow, NextLayer, EndRendering
    <2> QED BY <1>1, <1>5, <2>1, LaterGone
  <1>7. ASSUME NEW resized \in BOOLEAN, Decide(resized) PROVE ImageInv'
    <2>1. images' = images /\ done' = done
      BY <1>7 DEF Decide
    <2>2. CASE last_rendered' = last_rendered
      BY <1>1, <1>5, <2>1, <2>2, LaterGone
    <2>3. CASE last_rendered' # last_rendered
      <3>1. /\ hg_pc \in {"new", "same"} /\ Known /\ first_prev # 0 /\ mode.gl
            /\ last_rendered' = first_prev
        BY <1>7, <2>3, Linked DEF Decide
      <3>2. IdleInv /\ ~mode.overlaps
        BY <3>1, Linked DEF HwInv, PlaceInv
      <3>3. Order(last_rendered) = rendered_order /\ Order(first_prev) = rendered_order
        BY <3>1, <3>2 DEF IdleInv, FirstOf
      <3>4. first_prev \in 1 .. last_added /\ rendered_order \in Nat
        BY <1>3, <3>1, Linked
      <3> QED BY <1>1, <2>1, <3>1, <3>3, <3>4, LaterGone
    <2> QED BY <2>2, <2>3
  <1> QED BY <1>2, <1>6, <1>7 DEF WindowSteps

-----------------------------------------------------------------------------
(* A step of the window. *)

LEMMA WindowOrders ==
    ASSUME HwInv, WindowSteps
    PROVE  OrderInv' /\ hg_order' \in Nat /\ rendered_order' \in Nat
  <1>1. StillList
    BY WindowIs
  <1>2. /\ hg_order \in Nat /\ rendered_order \in Nat /\ last_hw_order \in Nat
        /\ hg_order <= last_hw_order /\ rendered_order <= last_hw_order
        /\ ~mode.overlaps /\ hg_pc # "idle" => hg_order = last_hw_order
    BY Linked
  <1>3. /\ hg_order' \in Nat /\ rendered_order' \in Nat
        /\ hg_order' <= last_hw_order /\ rendered_order' <= last_hw_order
        /\ ~mode.overlaps /\ hg_pc' # "idle" => hg_order' = last_hw_order
    <2>1. CASE Chosen
      BY <1>2, <2>1 DEF Chosen
    <2>2. ASSUME NEW resized \in BOOLEAN, Decide(resized)
          PROVE  /\ hg_order' \in {0, hg_order} /\ rendered_order' = rendered_order
                 /\ hg_pc # "idle" /\ (hg_pc' # "idle" => hg_order' = hg_order)
      BY <2>2 DEF Decide
    <2>3. CASE Skip \/ Skipped \/ Frame \/ Follow \/ NextLayer
      <3>1. hg_order' = hg_order /\ rendered_order' = rendered_order /\ hg_pc # "idle"
        BY <2>3 DEF Skip, Skipped, Frame, Follow, NextLayer, LayerEnds
      <3> QED BY <1>2, <3>1
    <2>4. CASE EndRendering
      BY <1>2, <2>4 DEF EndRendering
    <2>5. ASSUME NEW resized \in BOOLEAN, Decide(resized)
          PROVE  /\ hg_order' \in Nat /\ rendered_order' \in Nat
                 /\ hg_order' <= last_hw_order /\ rendered_order' <= last_hw_order
                 /\ ~mode.overlaps /\ hg_pc' # "idle" => hg_order' = last_hw_order
      BY <1>2, <2>2, <2>5
    <2> QED BY <2>1, <2>3, <2>4, <2>5 DEF WindowSteps
  <1>4. OrderInv
    BY DEF HwInv
  <1> QED BY <1>1, <1>3, <1>4 DEF OrderInv, StillList, Order

LEMMA WindowTypes ==
    ASSUME HwInv, WindowSteps
    PROVE  ManyTypes'
  <1>1. StillList
    BY WindowIs
  <1>2. ManyTypes
    BY DEF HwInv
  <1>3. last_rendered' \in Nat /\ hg_cmd' \in Nat /\ layer_first' \in Nat /\ first_prev' \in Nat
    <2>1. {last_rendered', hg_cmd', layer_first', first_prev'} \subseteq 0 .. last_added
      BY <1>1, WindowPlace DEF PlaceInv, StillList
    <2> QED BY <1>2, <2>1 DEF ManyTypes
  <1>4. hg_order' \in Nat /\ rendered_order' \in Nat
    BY WindowOrders
  <1>5. next_to_remove' \in Nat
    <2>1. next_to_remove' = next_to_remove \/ next_to_remove' = hg_cmd
      BY DEF WindowSteps, Chosen, Decide, Skip, Skipped, Frame, Follow, NextLayer, EndRendering,
             Carry, list
    <2> QED BY <1>2, <2>1 DEF ManyTypes
  <1>6. images' \in Seq(ImageType)
    <2>1. CASE Skip \/ Frame
      <3> DEFINE i0 == commands[hg_cmd].src
                 r == [images[i0] EXCEPT !.exists = FALSE]
      <3>1. hg_cmd \in DOMAIN commands
        BY <2>1, Onwards, CommandFacts
      <3>2. i0 \in DOMAIN images
        BY <3>1 DEF HwInv, ImageInv, UseInv
      <3>3. r \in ImageType
        BY <3>2, ImageFacts DEF ImageType
      <3>4. images' = images \/ images' = [images EXCEPT ![i0] = r]
        BY <2>1, CarryIs
      <3>5. images \in Seq(ImageType) /\ DOMAIN images = 1 .. Len(images)
        BY <1>2, ImageFacts DEF ManyTypes
      <3> HIDE DEF r, i0
      <3> QED BY <3>2, <3>3, <3>4, <3>5
    <2>2. CASE ~(Skip \/ Frame)
      <3>1. images' = images
        BY <2>2 DEF WindowSteps, Chosen, Decide, Skipped, Follow, NextLayer, EndRendering
      <3> QED BY <1>2, <3>1 DEF ManyTypes
    <2> QED BY <2>1, <2>2
  <1>7. soft' \in {"none", "ready", "shown"}
    <2>1. soft' = soft \/ soft' = "shown"
      BY DEF WindowSteps, Chosen, Decide, Skip, Skipped, Frame, Follow, NextLayer, EndRendering,
             orders
    <2> QED BY <1>2, <2>1 DEF ManyTypes
  <1>8. hg_pc' \in {"idle", "new", "same", "skip", "skip.next", "frame", "frame.next"}
    BY <1>2 DEF ManyTypes, WindowSteps, Chosen, Decide, Skip, Skipped, Frame, Follow, NextLayer,
                EndRendering
  <1>9. hg_layer' \in 1 .. 2
    <2>1. hg_layer' = hg_layer \/ hg_layer' = 1 \/ hg_layer' = 2
      BY DEF WindowSteps, Chosen, Decide, Skip, Skipped, Frame, Follow, NextLayer, EndRendering
    <2> QED BY <1>2, <2>1 DEF ManyTypes
  <1>10. rerender' \in BOOLEAN
    <2>1. ASSUME NEW resized \in BOOLEAN, Decide(resized) PROVE rerender' \in BOOLEAN
      <3>1. rerender' = rerender \/ rerender' = (Known /\ ~resized /\ first_prev # 0)
        BY <2>1 DEF Decide
      <3>2. (Known /\ ~resized /\ first_prev # 0) \in BOOLEAN
        OBVIOUS
      <3> QED BY <1>2, <3>1, <3>2 DEF ManyTypes
    <2>2. CASE EndRendering
      BY <2>2 DEF EndRendering
    <2>3. CASE Chosen \/ Skip \/ Skipped \/ Frame \/ Follow \/ NextLayer
      <3>1. rerender' = rerender
        BY <2>3 DEF Chosen, Skip, Skipped, Frame, Follow, NextLayer
      <3> QED BY <1>2, <3>1 DEF ManyTypes
    <2> QED BY <2>1, <2>2, <2>3 DEF WindowSteps
  <1> QED BY <1>1, <1>2, <1>3, <1>4, <1>5, <1>6, <1>7, <1>8, <1>9, <1>10 DEF ManyTypes, StillList

LEMMA WindowBounds ==
    ASSUME HwInv, WindowSteps
    PROVE  BoundInv'
  <1>1. StillList
    BY WindowIs
  <1>2. BoundInv /\ RemoveInv
    BY DEF HwInv
  <1>3. hp_last # 0 => next_to_remove' = next_to_remove
    <2>1. next_to_remove' = next_to_remove
          \/ next_to_remove' = IF next_to_remove = 0 THEN hg_cmd ELSE next_to_remove
      BY DEF WindowSteps, Chosen, Decide, Skip, Skipped, Frame, Follow, NextLayer, EndRendering,
             Carry, list
    <2> QED BY <1>2, <2>1 DEF RemoveInv
  <1>4. done' \subseteq Nat /\ drawn' \subseteq DOMAIN commands
    <2>1. CASE Skip \/ Frame
      <3>1. hg_cmd \in DOMAIN commands /\ hg_cmd \in Nat
        BY <2>1, Onwards, CommandFacts
      <3>2. /\ done' = done \/ done' = done \union {hg_cmd}
            /\ drawn' = drawn \/ drawn' = drawn \union {hg_cmd}
        BY <2>1 DEF Skip, Frame, Carry
      <3> QED BY <1>2, <3>1, <3>2 DEF BoundInv
    <2>2. CASE ~(Skip \/ Frame)
      <3>1. done' = done /\ (drawn' = drawn \/ drawn' = {})
        BY <2>2 DEF WindowSteps, Chosen, Decide, Skipped, Follow, NextLayer, EndRendering
      <3> QED BY <1>2, <3>1 DEF BoundInv
    <2> QED BY <2>1, <2>2
  <1> QED BY <1>1, <1>2, <1>3, <1>4 DEF BoundInv, StillList

LEMMA WindowKeeps ==
    ASSUME HwInv, WindowSteps
    PROVE  HwInv'
  <1>1. KeptApart' /\ ListInv'
    BY WindowIs DEF HwInv, KeptApart, ListInv, StillList
  <1> QED BY <1>1, WindowOrders, WindowTypes, WindowBounds, WindowRemove, WindowPlace, WindowDone,
             WindowImages, WindowDrawn DEF HwInv

-----------------------------------------------------------------------------
(* A step of display() or of the program. *)

LEMMA OtherOrders ==
    ASSUME HwInv, DisplaySteps \/ ProgramSteps
    PROVE  OrderInv'
  <1> DEFINE n == Len(commands)
             m == Len(commands')
  <1>1. Grown /\ StillWindow
    BY OtherIs
  <1>2. OrderInv
    BY DEF HwInv
  <1>3. /\ n \in Nat /\ DOMAIN commands = 1 .. n /\ display_order_next \in Nat
        /\ last_hw_order \in Nat /\ last_hw_order < display_order_next
        /\ hg_order \in Nat /\ rendered_order \in Nat
        /\ \A c \in 1 .. n : commands[c].order \in Nat
    BY <1>2, CommandFacts DEF OrderInv, HwInv, ManyTypes
  <1>4. /\ m \in Nat /\ DOMAIN commands' = 1 .. m
        /\ \A c \in 1 .. n : commands'[c].order = commands[c].order
        /\ \A c \in 1 .. m : c > n => commands'[c].order = display_order_next
    BY <1>1 DEF Grown
  <1>5. /\ \A c, d \in 1 .. n : c <= d => commands[c].order <= commands[d].order
        /\ \A c \in 1 .. n : commands[c].order \in 1 .. display_order_next
    BY <1>2, <1>3 DEF OrderInv, Order
  <1>6. \A c \in 1 .. m : commands'[c].order \in 1 .. display_order_next
    BY <1>3, <1>4, <1>5
  <1>7. \A c, d \in 1 .. m : c <= d => commands'[c].order <= commands'[d].order
    <2> SUFFICES ASSUME NEW c \in 1 .. m, NEW d \in 1 .. m, c <= d
                 PROVE  commands'[c].order <= commands'[d].order
      OBVIOUS
    <2>1. CASE d <= n
      BY <1>3, <1>4, <1>5, <2>1
    <2>2. CASE d > n
      BY <1>3, <1>4, <1>6, <2>2
    <2> QED BY <1>3, <2>1, <2>2
  <1>8. CASE DisplaySteps
    <2>1. /\ display_order_next' \in Nat /\ display_order_next' >= display_order_next
          /\ last_hw_order' \in Nat /\ last_hw_order' >= last_hw_order
          /\ last_hw_order' < display_order_next'
          /\ disp_pc' # "out" => disp_order' = display_order_next' - 1
          /\ disp_pc' = "out" => disp_order' = 0
          /\ hp_pc = "link" => display_order_next' = display_order_next
          /\ ~mode.overlaps /\ hg_pc # "idle" => last_hw_order' = last_hw_order
      BY <1>8, DisplayIs
    <2>2. commands' = commands /\ hp_pc' = hp_pc
      BY <1>8, DisplayIs DEF list, imageProgram
    <2>3. \A c \in 1 .. m : commands'[c].order \in 1 .. display_order_next'
      BY <1>3, <1>6, <2>1
    <2>4. hp_pc' = "link" => commands'[m].order = display_order_next'
      BY <1>2, <2>1, <2>2 DEF OrderInv, Order
    <2>5. /\ hg_order' <= last_hw_order' /\ rendered_order' <= last_hw_order'
          /\ ~mode'.overlaps /\ hg_pc' # "idle" => hg_order' = last_hw_order'
      BY <1>1, <1>2, <1>3, <2>1 DEF OrderInv, StillWindow
    <2> QED BY <1>4, <1>7, <2>1, <2>3, <2>4, <2>5 DEF OrderInv, Order
  <1>9. CASE ProgramSteps
    <2>1. UNCHANGED <<orders, mode, renderer>>
      BY <1>9 DEF ProgramSteps, NewImage, Put, FreeImage, Begin, TakeOff, Add, LinkAdded
    <2>2. hp_pc' = "link" => commands'[m].order = display_order_next
      <3>1. CASE Add
        <4>1. m = n + 1 /\ commands'[n + 1] = NewCommand(hp_cmd.kind, hp_cmd.src, hp_cmd.dst)
          BY <3>1, AddIs
        <4> QED BY <4>1 DEF NewCommand
      <3>2. CASE ~Add
        <4>1. hp_pc' # "link"
          BY <1>9, <3>2 DEF ProgramSteps, NewImage, Put, FreeImage, Begin, TakeOff, LinkAdded,
                            imageProgram
        <4> QED BY <4>1
      <3> QED BY <3>1, <3>2
    <2>3. /\ display_order_next' = display_order_next /\ last_hw_order' = last_hw_order
          /\ disp_pc' = disp_pc /\ disp_order' = disp_order
      BY <2>1 DEF orders
    <2> QED BY <1>1, <1>2, <1>4, <1>6, <1>7, <2>2, <2>3 DEF OrderInv, Order, StillWindow
  <1> QED BY <1>8, <1>9

LEMMA OtherList ==
    ASSUME HwInv, DisplaySteps \/ ProgramSteps
    PROVE  ListInv'
  <1> DEFINE n == Len(commands)
             m == Len(commands')
  <1>1. ListInv
    BY DEF HwInv
  <1>2. n \in Nat /\ DOMAIN commands = 1 .. n
    BY CommandFacts
  <1>3. m \in Nat /\ DOMAIN commands' = 1 .. m
    BY OtherIs DEF Grown
  <1>4. CASE DisplaySteps
    <2>1. UNCHANGED <<commands, first_command, last_added, hp_pc>>
      BY <1>4, DisplayIs DEF list, imageProgram
    <2> QED BY <1>1, <2>1 DEF ListInv
  <1>5. CASE NewImage \/ Put \/ FreeImage
    <2>1. /\ UNCHANGED <<commands, first_command, last_added>>
          /\ hp_pc = "stmt" /\ hp_pc' \in {"stmt", "flush"}
      BY <1>5 DEF NewImage, Put, FreeImage, Begin, list, imageProgram
    <2> QED BY <1>1, <2>1 DEF ListInv
  <1>6. CASE TakeOff
    <2>1. /\ hp_pc' = "flush"
      BY <1>6 DEF TakeOff, imageProgram
    <2>2. /\ next_to_remove \in 1 .. n - 1
          /\ m = IF commands[next_to_remove].kind = "request" THEN n + 1 ELSE n
          /\ last_added' = m /\ first_command' = 1
      BY <1>6, TakeOffIs
    <2>3. \A c \in 1 .. n : commands'[c].next = IF c < m THEN c + 1 ELSE 0
      BY <1>6, TakeOffIs
    <2>4. commands[next_to_remove].kind = "request" => commands'[n + 1].next = 0
      BY <1>6, TakeOffIs DEF NewCommand
    <2>5. \A c \in 1 .. m : commands'[c].next = IF c < m THEN c + 1 ELSE 0
      <3>1. CASE commands[next_to_remove].kind = "request"
        <4>1. m = n + 1 /\ commands'[n + 1].next = 0 /\ ~(n + 1 < m)
          BY <1>2, <2>2, <2>4, <3>1
        <4>2. \A c \in 1 .. m : c \in 1 .. n \/ c = n + 1
          BY <1>2, <4>1
        <4> HIDE DEF m, n
        <4> QED BY <2>3, <4>1, <4>2
      <3>2. CASE commands[next_to_remove].kind # "request"
        BY <1>2, <2>2, <2>3, <3>2
      <3> QED BY <3>1, <3>2
    <2>6. m # 0
      BY <1>2, <2>2
    <2> QED BY <1>3, <2>1, <2>2, <2>5, <2>6 DEF ListInv
  <1>7. CASE Add
    <2>1. /\ hp_pc = "flush" /\ hp_pc' = "link" /\ last_added = n /\ m = n + 1
          /\ \A c \in 1 .. n : commands'[c] = commands[c]
          /\ UNCHANGED <<first_command, last_added>>
      BY <1>7, AddIs DEF Add
    <2>2. commands'[n + 1].next = 0
      BY <1>7, AddIs DEF NewCommand
    <2>3. \A c \in 1 .. n : commands[c].next = IF c < n THEN c + 1 ELSE 0
      BY <1>1, <1>2, <2>1 DEF ListInv
    <2>4. \A c \in 1 .. m : commands'[c].next = IF c < n THEN c + 1 ELSE 0
      BY <1>2, <2>1, <2>2, <2>3
    <2>5. last_added' = m - 1
      BY <1>2, <2>1
    <2> QED BY <1>1, <1>3, <2>1, <2>4, <2>5 DEF ListInv
  <1>8. CASE LinkAdded
    <2>1. /\ hp_pc' = "stmt" /\ m = n /\ last_added' = n /\ first_command' = 1
          /\ n \in Nat \ {0}
      BY <1>8, LinkAddedIs
    <2>2. \A c \in 1 .. n : commands'[c].next = IF c < n THEN c + 1 ELSE 0
      BY <1>8, LinkAddedIs
    <2> QED BY <1>3, <2>1, <2>2 DEF ListInv
  <1> QED BY <1>4, <1>5, <1>6, <1>7, <1>8 DEF ProgramSteps

\* What a removal knows of the orders.
LEMMA RemovalOrders ==
    ASSUME HwInv, TakeOff
    PROVE  LET k == next_to_remove
           IN  /\ k + 1 \in DOMAIN commands /\ k \in DOMAIN commands
               /\ k + 1 < last_rendered /\ k + 1 < hp_last /\ hp_last < MaxCommands
               /\ Order(k + 1) < Order(hp_last) /\ Order(k + 1) < Order(last_rendered)
               /\ Order(k) < display_order_next
  <1> DEFINE n == Len(commands)
             k == next_to_remove
  <1>1. k \in 1 .. n - 1 /\ Order(k + 1) < Order(hp_last) /\ hp_last # 0 /\ hp_pc = "flush"
    BY TakeOffIs DEF Order
  <1>2. /\ n \in Nat /\ DOMAIN commands = 1 .. n /\ last_rendered \in 0 .. n
    BY CommandFacts
  <1>3. /\ \A c \in 1 .. n : Order(c) \in Nat
        /\ \A c, d \in 1 .. n : c <= d => Order(c) <= Order(d)
    BY Linked
  <1>4. RemoveInv /\ hp_last < MaxCommands
    BY <1>1 DEF HwInv, BoundInv
  <1>5. /\ hp_last \in 1 .. n /\ last_rendered \in 1 .. n
        /\ Order(hp_last) <= Order(last_rendered)
    BY <1>1, <1>2, <1>4 DEF RemoveInv
  <1>6. k \in 1 .. n /\ k + 1 \in 1 .. n
    BY <1>1, <1>2
  <1>7. Order(k + 1) < Order(last_rendered)
    BY <1>1, <1>3, <1>5, <1>6
  <1>8. ~(hp_last <= k + 1) /\ ~(last_rendered <= k + 1)
    BY <1>1, <1>3, <1>5, <1>6, <1>7
  <1>9. Order(k) < display_order_next
    <2>1. Order(k) <= Order(k + 1)
      BY <1>1, <1>2, <1>3, <1>6
    <2>2. Order(last_rendered) <= last_hw_order
      BY <1>5 DEF HwInv, PlaceInv
    <2>3. last_hw_order \in Nat /\ display_order_next \in Nat /\ last_hw_order < display_order_next
      BY DEF HwInv, ManyTypes, OrderInv
    <2> QED BY <1>3, <1>5, <1>6, <1>7, <2>1, <2>2, <2>3
  <1> QED BY <1>1, <1>2, <1>4, <1>5, <1>6, <1>7, <1>8, <1>9

LEMMA OtherRemove ==
    ASSUME HwInv, DisplaySteps \/ ProgramSteps
    PROVE  RemoveInv'
  <1> DEFINE n == Len(commands)
             m == Len(commands')
  <1>1. RemoveInv
    BY DEF HwInv
  <1>2. /\ n \in Nat /\ DOMAIN commands = 1 .. n
        /\ last_rendered \in 0 .. n /\ next_to_remove \in 0 .. last_rendered
        /\ \A c \in 1 .. n : commands[c].order \in Nat
    <2>1. /\ n \in Nat /\ DOMAIN commands = 1 .. n /\ last_added \in 0 .. n
          /\ last_rendered \in 0 .. last_added /\ next_to_remove \in 0 .. last_rendered
          /\ \A c \in DOMAIN commands : commands[c].order \in Nat
      BY CommandFacts
    <2> HIDE DEF n
    <2> QED BY <2>1
  <1>3. Grown /\ last_rendered' = last_rendered
    BY OtherIs DEF StillWindow
  <1>4. CASE DisplaySteps
    <2>1. UNCHANGED <<commands, next_to_remove, hp_last>>
      BY <1>4, DisplayIs DEF list, imageProgram
    <2> QED BY <1>1, <1>3, <2>1 DEF RemoveInv, Order
  <1>5. CASE NewImage
    <2>1. UNCHANGED <<commands, next_to_remove, hp_last>>
      BY <1>5 DEF NewImage, list, imageProgram
    <2> QED BY <1>1, <1>3, <2>1 DEF RemoveInv, Order
  <1>6. CASE Put \/ FreeImage
    <2>1. /\ UNCHANGED <<commands, next_to_remove>>
          /\ hp_last' = IF next_to_remove # 0 THEN last_rendered ELSE 0
      BY <1>6 DEF Put, FreeImage, Begin, list
    <2>2. hp_last' # 0 => /\ hp_last' = last_rendered /\ next_to_remove # 0
                          /\ last_rendered \in DOMAIN commands
                          /\ Order(last_rendered) <= Order(last_rendered)
                          /\ next_to_remove <= last_rendered
      BY <1>1, <1>2, <2>1 DEF RemoveInv, Order
    <2> QED BY <1>1, <1>3, <2>1, <2>2 DEF RemoveInv, Order
  <1>7. CASE TakeOff
    <2> DEFINE k == next_to_remove
    <2>1. /\ k \in 1 .. n - 1 /\ k' = k + 1 /\ hp_last # 0
          /\ m = IF commands[k].kind = "request" THEN n + 1 ELSE n
      BY <1>7, TakeOffIs
    <2>2. hp_last' = hp_last
      BY <1>7 DEF TakeOff, imageProgram
    <2>3. \A c \in 1 .. n : /\ commands'[c].kind = IF c = k THEN "removed" ELSE commands[c].kind
                            /\ commands'[c].order = commands[c].order
      BY <1>7, TakeOffIs
    <2>4. commands[k].kind = "request" => commands'[n + 1].kind = "free"
      BY <1>7, TakeOffIs DEF NewCommand
    <2>5. DOMAIN commands' = 1 .. m
      BY <1>3 DEF Grown
    <2>6. \A c \in 1 .. n : commands'[c].kind = "removed" <=> c < k + 1
      <3>1. \A c \in 1 .. n : commands[c].kind = "removed" <=> c < k
        BY <1>1, <1>2 DEF RemoveInv
      <3>2. \A c \in 1 .. n : c < k + 1 <=> c < k \/ c = k
        BY <1>2, <2>1
      <3> QED BY <2>3, <3>1, <3>2
    <2>7. \A c \in 1 .. m : commands'[c].kind = "removed" <=> c < k + 1
      <3>1. CASE commands[k].kind = "request"
        <4>1. m = n + 1 /\ ~(n + 1 < k + 1)
          BY <1>2, <2>1, <3>1
        <4>2. \A c \in 1 .. m : c \in 1 .. n \/ c = n + 1
          BY <1>2, <4>1
        <4> QED BY <2>4, <2>6, <3>1, <4>1, <4>2
      <3>2. CASE commands[k].kind # "request"
        BY <2>1, <2>6, <3>2
      <3> QED BY <3>1, <3>2
    <2>8. /\ k + 1 < last_rendered /\ k + 1 < hp_last
          /\ Order(k + 1) < Order(hp_last) /\ Order(k + 1) < Order(last_rendered)
      BY <1>7, RemovalOrders
    <2>9. /\ hp_last \in 1 .. n /\ last_rendered \in 1 .. n /\ k + 1 \in 1 .. n
          /\ last_rendered # 0 /\ k + 1 # 0
          /\ Order(hp_last) <= Order(last_rendered)
      BY <1>1, <1>2, <2>1, <2>8 DEF RemoveInv
    <2>10. /\ commands'[k + 1].order = Order(k + 1) /\ commands'[hp_last].order = Order(hp_last)
           /\ commands'[last_rendered].order = Order(last_rendered)
      BY <2>3, <2>9 DEF Order
    <2>11. hp_last \in DOMAIN commands'
      BY <1>2, <2>1, <2>5, <2>9
    <2>12. k + 1 <= last_rendered /\ k + 1 <= hp_last
      BY <1>2, <2>8, <2>9
    <2> QED BY <1>3, <2>1, <2>2, <2>5, <2>7, <2>8, <2>9, <2>10, <2>11, <2>12 DEF RemoveInv, Order
  <1>8. CASE Add
    <2>1. /\ m = n + 1 /\ \A c \in 1 .. n : commands'[c] = commands[c]
          /\ UNCHANGED <<next_to_remove, hp_last>> /\ hp_cmd.kind \in {"put", "request"}
      BY <1>8, AddIs DEF Add
    <2>2. commands'[n + 1].kind = hp_cmd.kind
      BY <1>8, AddIs DEF NewCommand
    <2>3. DOMAIN commands' = 1 .. n + 1
      BY <1>3, <2>1 DEF Grown
    <2>4. \A c \in 1 .. n + 1 : commands'[c].kind = "removed" <=> c < next_to_remove
      <3>1. ~(n + 1 < next_to_remove)
        BY <1>2
      <3>2. \A c \in 1 .. n + 1 : c \in 1 .. n \/ c = n + 1
        BY <1>2
      <3>3. \A c \in 1 .. n : commands[c].kind = "removed" <=> c < next_to_remove
        BY <1>1, <1>2 DEF RemoveInv
      <3> QED BY <2>1, <2>2, <3>1, <3>2, <3>3
    <2>5. /\ hp_last # 0 => hp_last \in 1 .. n /\ hp_last \in DOMAIN commands'
                            /\ commands'[hp_last] = commands[hp_last]
          /\ next_to_remove # 0 => commands'[next_to_remove] = commands[next_to_remove]
          /\ last_rendered # 0 => commands'[last_rendered] = commands[last_rendered]
      BY <1>1, <1>2, <2>1, <2>3 DEF RemoveInv
    <2>6. /\ next_to_remove > 1 => next_to_remove # 0 /\ last_rendered # 0
      BY <1>1, <1>2 DEF RemoveInv
    <2> QED BY <1>1, <1>3, <2>1, <2>3, <2>4, <2>5, <2>6 DEF RemoveInv, Order
  <1>9. CASE LinkAdded
    <2>1. m = n /\ hp_last' = 0 /\ next_to_remove' = next_to_remove
      BY <1>9, LinkAddedIs DEF LinkAdded
    <2>2. \A c \in 1 .. n : /\ commands'[c].kind = commands[c].kind
                            /\ commands'[c].order = commands[c].order
      BY <1>9, LinkAddedIs
    <2>3. DOMAIN commands' = 1 .. n
      BY <1>3, <2>1 DEF Grown
    <2>4. next_to_remove > 1 => next_to_remove \in 1 .. n /\ last_rendered \in 1 .. n
      BY <1>2
    <2> QED BY <1>1, <1>2, <1>3, <2>1, <2>2, <2>3, <2>4 DEF RemoveInv, Order
  <1> QED BY <1>4, <1>5, <1>6, <1>7, <1>8, <1>9 DEF ProgramSteps

LEMMA NewImageIs ==
    ASSUME HwInv, NewImage
    PROVE  /\ images' \in Seq(ImageType) /\ Len(images') = Len(images) + 1
           /\ Len(images) < MaxImages /\ DOMAIN images' = 1 .. Len(images) + 1
           /\ \A i \in DOMAIN images : images'[i] = images[i]
           /\ images'[Len(images) + 1].exists /\ images'[Len(images) + 1].valid
           /\ UNCHANGED <<commands, last_rendered, done, hp_pc, hp_cmd>>
  <1> DEFINE new == [exists |-> TRUE, valid |-> TRUE]
  <1>1. images' = Append(images, new) /\ Len(images) < MaxImages
    BY DEF NewImage
  <1>2. new \in ImageType /\ new.exists /\ new.valid
    BY DEF ImageType
  <1>3. images \in Seq(ImageType) /\ Len(images) \in Nat /\ DOMAIN images = 1 .. Len(images)
    BY ImageFacts DEF HwInv, ManyTypes
  <1> HIDE DEF new
  <1>4. /\ images' \in Seq(ImageType) /\ Len(images') = Len(images) + 1
        /\ \A i \in 1 .. Len(images) : images'[i] = images[i]
        /\ images'[Len(images) + 1] = new
    BY <1>1, <1>2, <1>3
  <1>5. DOMAIN images' = 1 .. Len(images) + 1
    BY <1>3, <1>4
  <1>6. UNCHANGED <<commands, last_rendered, done, hp_pc, hp_cmd>>
    BY DEF NewImage, list, imageProgram
  <1> QED BY <1>1, <1>2, <1>3, <1>4, <1>5, <1>6

LEMMA NewImageKeeps ==
    ASSUME HwInv, NewImage
    PROVE  ImageInv'
  <1> DEFINE k == Len(images)
  <1>1. /\ Len(images') = k + 1 /\ k < MaxImages /\ DOMAIN images' = 1 .. k + 1
        /\ \A i \in DOMAIN images : images'[i] = images[i]
        /\ images'[k + 1].exists /\ images'[k + 1].valid
        /\ UNCHANGED <<commands, last_rendered, done, hp_pc, hp_cmd>>
    BY NewImageIs
  <1>2. k \in Nat /\ DOMAIN images = 1 .. k /\ MaxImages \in Nat
    BY ImageFacts, HardwareAssumption DEF HardwareAssumption
  <1>3. UseInv /\ GoneInv
    BY DEF HwInv, ImageInv
  <1>4. \A i \in DOMAIN images' : i \in DOMAIN images \/ i = k + 1
    BY <1>1, <1>2
  <1>5. k + 1 \notin DOMAIN images /\ DOMAIN images \subseteq DOMAIN images' /\ k + 1 <= MaxImages
        /\ -1 .. k \subseteq -1 .. k + 1
    BY <1>1, <1>2
  <1>6. UseInv'
    <2>1. (\A c \in DOMAIN commands : /\ commands[c].src \in DOMAIN images
                                      /\ commands[c].dst \in -1 .. Len(images)
                                      /\ commands[c].kind = "free" => commands[c].dst = 0)'
      BY <1>1, <1>3, <1>5 DEF UseInv
    <2>2. Len(images)' <= MaxImages
      BY <1>1, <1>5
    <2>3. ASSUME NEW i \in DOMAIN images', images'[i].valid
          PROVE  images'[i].exists /\ \A c \in DOMAIN commands :
                    commands[c].kind \in Ending => commands[c].src # i
      <3>1. CASE i \in DOMAIN images
        BY <1>1, <1>3, <2>3, <3>1 DEF UseInv
      <3>2. CASE i = k + 1
        BY <1>1, <1>3, <1>5, <3>2 DEF UseInv
      <3> QED BY <1>4, <3>1, <3>2
    <2>4. (\A c, d \in DOMAIN commands :
            /\ commands[c].kind = "put" /\ commands[d].kind = "request"
               /\ Uses(commands[c], commands[d].src) => Order(c) <= Order(d)
            /\ commands[c].kind = "put" /\ commands[d].kind = "free"
               /\ Uses(commands[c], commands[d].src) => Order(c) < Order(d)
            /\ commands[c].kind \in Ending /\ commands[d].kind \in Ending
               /\ commands[c].src = commands[d].src => c = d)'
      BY <1>1, <1>3 DEF UseInv, Order
    <2>5. hp_pc' # "flush"
      BY <1>1 DEF NewImage
    <2> QED BY <1>1, <2>1, <2>2, <2>3, <2>4, <2>5 DEF UseInv
  <1>7. GoneInv'
    <2> SUFFICES ASSUME NEW i \in DOMAIN images', ~images'[i].exists
                 PROVE  i \in DOMAIN images /\ ~images[i].exists
      BY <1>1, <1>3 DEF GoneInv, Order
    <2> QED BY <1>1, <1>4
  <1> QED BY <1>6, <1>7 DEF ImageInv

LEMMA BeginKeeps ==
    ASSUME HwInv, Put \/ FreeImage
    PROVE  /\ ImageInv' /\ hp_pc' = "flush"
           /\ hp_cmd' \in [kind : {"none", "put", "request"}, src : Nat, dst : Int]
  <1>1. /\ UNCHANGED <<commands, images, last_rendered, done>> /\ hp_pc' = "flush"
    BY DEF Put, FreeImage, Begin, list
  <1>2. Len(images) \in Nat /\ DOMAIN images = 1 .. Len(images)
    BY ImageFacts
  <1>3. /\ hp_cmd' \in [kind : {"none", "put", "request"}, src : Nat, dst : Int]
        /\ hp_cmd'.kind \in {"put", "request"}
        /\ hp_cmd'.src \in DOMAIN images /\ images[hp_cmd'.src].valid
        /\ hp_cmd'.dst \in -1 .. Len(images)
        /\ hp_cmd'.dst > 0 => images[hp_cmd'.dst].valid
    <2>1. CASE Put
      <3>1. PICK d \in mode.draws :
               /\ {d[1], d[2]} \ {0, -1} \subseteq {i \in DOMAIN images : images[i].valid}
               /\ hp_cmd' = [kind |-> "put", src |-> d[1], dst |-> d[2]]
        BY <2>1 DEF Put, Begin
      <3>2. d \in (1 .. MaxImages) \X (-1 .. MaxImages)
        <4>1. mode \in Modes
          BY DEF HwInv, ManyTypes
        <4>2. mode \in [gl : BOOLEAN, overlaps : BOOLEAN, late : BOOLEAN,
                        draws : SUBSET ((1 .. MaxImages) \X (-1 .. MaxImages))]
          BY <4>1, HardwareAssumption DEF HardwareAssumption
        <4>3. mode.draws \subseteq (1 .. MaxImages) \X (-1 .. MaxImages)
          BY <4>2
        <4> QED BY <4>3
      <3>3. d[1] \in 1 .. MaxImages /\ d[2] \in -1 .. MaxImages /\ MaxImages \in Nat
        BY <3>2, HardwareAssumption DEF HardwareAssumption
      <3>4. d[1] \in DOMAIN images /\ images[d[1]].valid
        BY <3>1, <3>3
      <3>5. d[2] = 0 \/ d[2] = -1 \/ (d[2] \in DOMAIN images /\ images[d[2]].valid)
        BY <3>1
      <3>6. d[2] \in -1 .. Len(images) /\ (d[2] > 0 => images[d[2]].valid)
        BY <1>2, <3>5
      <3> QED BY <1>2, <3>1, <3>3, <3>4, <3>6
    <2>2. CASE FreeImage
      <3>1. PICK src \in DOMAIN images :
               images[src].valid /\ hp_cmd' = [kind |-> "request", src |-> src, dst |-> 0]
        BY <2>2 DEF FreeImage, Begin
      <3> QED BY <1>2, <3>1
    <2> QED BY <2>1, <2>2
  <1>4. UseInv /\ GoneInv
    BY DEF HwInv, ImageInv
  <1>5. UseInv'
    BY <1>1, <1>3, <1>4 DEF UseInv, Order
  <1>6. GoneInv'
    BY <1>1, <1>4 DEF GoneInv, Order
  <1> QED BY <1>1, <1>3, <1>5, <1>6 DEF ImageInv

LEMMA TakeOffImages ==
    ASSUME HwInv, TakeOff
    PROVE  ImageInv'
  <1> DEFINE n == Len(commands)
             m == Len(commands')
             k == next_to_remove
             more == commands[k].kind = "request"
  <1>1. /\ k \in 1 .. n - 1 /\ m = IF more THEN n + 1 ELSE n
        /\ \A c \in 1 .. n : /\ commands'[c].kind = IF c = k THEN "removed" ELSE commands[c].kind
                             /\ commands'[c].src = commands[c].src
                             /\ commands'[c].dst = commands[c].dst
                             /\ commands'[c].order = commands[c].order
    BY TakeOffIs
  <1>2. more => /\ commands'[n + 1].kind = "free" /\ commands'[n + 1].src = commands[k].src
                /\ commands'[n + 1].dst = 0 /\ commands'[n + 1].order = display_order_next
    BY TakeOffIs DEF NewCommand
  <1>3. /\ n \in Nat /\ DOMAIN commands = 1 .. n /\ DOMAIN commands' = 1 .. m
        /\ \A c \in 1 .. n : commands[c].order \in Nat
    BY CommandFacts, OtherIs DEF Grown, ProgramSteps
  <1>4. UNCHANGED <<images, last_rendered, done, hp_pc, hp_cmd>>
    BY DEF TakeOff, imageProgram
  <1>5. UseInv /\ GoneInv
    BY DEF HwInv, ImageInv
  <1>6. \A c \in DOMAIN commands' : c \in 1 .. n \/ (more /\ c = n + 1)
    <2> HIDE DEF n, m, more
    <2>1. CASE more
      <3>1. m = n + 1
        BY <1>1, <2>1
      <3> QED BY <1>3, <2>1, <3>1
    <2>2. CASE ~more
      <3>1. m = n
        BY <1>1, <2>2
      <3> QED BY <1>3, <3>1
    <2> QED BY <2>1, <2>2
  <1>7. k \in 1 .. n /\ n + 1 \notin 1 .. n /\ k # n + 1
    BY <1>1, <1>3
  <1>8. /\ commands[k].order < display_order_next /\ display_order_next \in Nat
    BY RemovalOrders DEF Order, HwInv, ManyTypes
  <1>9. /\ \A c \in 1 .. n : commands'[c].kind # "removed" => commands'[c].kind = commands[c].kind
        /\ \A c \in 1 .. n : commands'[c].kind # "removed" => c # k
    BY <1>1
  <1>14. 1 \in DOMAIN commands'
    <2> HIDE DEF n, m, k, more
    <2>1. n >= 1 /\ m \in Nat /\ m >= n
      BY <1>1, <1>3
    <2> QED BY <1>3, <2>1
  <1> HIDE DEF m, more
  <1>10. \A c \in 1 .. n : commands'[c].kind = "put" /\ more /\ Uses(commands[c], commands[k].src)
            => commands'[c].order < display_order_next
    <2> SUFFICES ASSUME NEW c \in 1 .. n, commands[c].kind = "put", more,
                        Uses(commands[c], commands[k].src)
                 PROVE  commands[c].order < display_order_next
      BY <1>1, <1>9
    <2>1. commands[c].order <= commands[k].order
      BY <1>3, <1>5, <1>7 DEF UseInv, Order, more
    <2> QED BY <1>3, <1>7, <1>8, <2>1
  <1>11. \A c \in 1 .. n : \A i : Uses(commands'[c], i) <=> Uses(commands[c], i)
    BY <1>1 DEF Uses
  <1>12. UseInv'
    <2>1. (\A c \in DOMAIN commands : /\ commands[c].src \in DOMAIN images
                                      /\ commands[c].dst \in -1 .. Len(images)
                                      /\ commands[c].kind = "free" => commands[c].dst = 0)'
      <3>1. Len(images) \in Nat
        BY ImageFacts
      <3>2. 0 \in -1 .. Len(images)
        BY <3>1
      <3>3. \A c \in 1 .. n : /\ commands[c].src \in DOMAIN images
                              /\ commands[c].dst \in -1 .. Len(images)
                              /\ commands[c].kind = "free" => commands[c].dst = 0
        BY <1>3, <1>5 DEF UseInv
      <3>4. ASSUME NEW c \in DOMAIN commands'
            PROVE  /\ commands'[c].src \in DOMAIN images /\ commands'[c].dst \in -1 .. Len(images)
                   /\ commands'[c].kind = "free" => commands'[c].dst = 0
        <4>1. CASE c \in 1 .. n
          <5>1. commands'[c].kind = "free" => commands[c].kind = "free"
            BY <1>9, <4>1
          <5>2. commands'[c].src = commands[c].src /\ commands'[c].dst = commands[c].dst
            BY <1>1, <4>1
          <5>3. commands'[c].kind = "free" => commands'[c].dst = 0
            BY <3>3, <4>1, <5>1, <5>2
          <5>4. commands'[c].src \in DOMAIN images
            BY <3>3, <4>1, <5>2
          <5>5. commands'[c].dst \in -1 .. Len(images)
            BY <3>3, <4>1, <5>2
          <5> QED BY <5>3, <5>4, <5>5
        <4>2. CASE more /\ c = n + 1
          <5>1. commands'[c].src = commands[k].src /\ commands'[c].dst = 0
            BY <1>2, <4>2
          <5> HIDE DEF n
          <5>2. commands[k].src \in DOMAIN images
            BY <1>7, <3>3
          <5>3. commands'[c].dst \in -1 .. Len(images)
            BY <3>2, <5>1
          <5> QED BY <5>1, <5>2, <5>3
        <4> QED BY <1>6, <4>1, <4>2
      <3> QED BY <1>4, <3>4
    <2>2. ASSUME NEW i \in DOMAIN images, images[i].valid, NEW c \in DOMAIN commands',
                 commands'[c].kind \in Ending
          PROVE  commands'[c].src # i
      <3>1. CASE c \in 1 .. n
        <4>1. commands[c].kind \in Ending
          BY <1>9, <2>2, <3>1 DEF Ending
        <4>2. commands[c].src # i
          BY <1>3, <1>5, <2>2, <3>1, <4>1 DEF UseInv
        <4> QED BY <1>1, <3>1, <4>2
      <3>2. CASE more /\ c = n + 1
        <4>1. commands[k].kind \in Ending /\ k \in DOMAIN commands
          BY <1>3, <1>7, <3>2 DEF Ending, more
        <4>2. commands[k].src # i
          BY <1>5, <2>2, <4>1 DEF UseInv
        <4> QED BY <1>2, <3>2, <4>2
      <3> QED BY <1>6, <3>1, <3>2
    <2>3. ASSUME NEW c \in DOMAIN commands', NEW d \in DOMAIN commands'
          PROVE  /\ commands'[c].kind = "put" /\ commands'[d].kind = "request"
                    /\ Uses(commands'[c], commands'[d].src)
                       => commands'[c].order <= commands'[d].order
                 /\ commands'[c].kind = "put" /\ commands'[d].kind = "free"
                    /\ Uses(commands'[c], commands'[d].src)
                       => commands'[c].order < commands'[d].order
                 /\ commands'[c].kind \in Ending /\ commands'[d].kind \in Ending
                    /\ commands'[c].src = commands'[d].src => c = d
      <3>1. CASE c \in 1 .. n /\ d \in 1 .. n
        <4>1. /\ commands[c].kind = "put" /\ commands[d].kind = "request"
                 /\ Uses(commands[c], commands[d].src)
                    => commands[c].order <= commands[d].order
              /\ commands[c].kind = "put" /\ commands[d].kind = "free"
                 /\ Uses(commands[c], commands[d].src)
                    => commands[c].order < commands[d].order
              /\ commands[c].kind \in Ending /\ commands[d].kind \in Ending
                 /\ commands[c].src = commands[d].src => c = d
          BY <1>3, <1>5, <3>1 DEF UseInv, Order
        <4> QED BY <1>1, <1>9, <1>11, <3>1, <4>1 DEF Ending
      <3>2. CASE c \in 1 .. n /\ more /\ d = n + 1
        <4>1. commands'[c].kind \in Ending => commands'[c].src # commands'[d].src
          <5>1. commands'[c].kind \in Ending => c # k /\ commands[c].kind \in Ending
            BY <1>9, <3>2 DEF Ending
          <5>2. c # k /\ commands[c].kind \in Ending => commands[c].src # commands[k].src
            BY <1>3, <1>5, <1>7, <3>2 DEF UseInv, Ending, more
          <5> QED BY <1>1, <1>2, <3>2, <5>1, <5>2
        <4>2. Uses(commands'[c], commands'[d].src) => Uses(commands[c], commands[k].src)
          BY <1>2, <1>11, <3>2
        <4> QED BY <1>2, <1>10, <3>2, <4>1, <4>2
      <3>3. CASE more /\ c = n + 1 /\ d \in 1 .. n
        <4>1. commands'[d].kind \in Ending => commands'[c].src # commands'[d].src
          <5>1. commands'[d].kind \in Ending => d # k /\ commands[d].kind \in Ending
            BY <1>9, <3>3 DEF Ending
          <5>2. d # k /\ commands[d].kind \in Ending => commands[d].src # commands[k].src
            BY <1>3, <1>5, <1>7, <3>3 DEF UseInv, Ending, more
          <5> QED BY <1>1, <1>2, <3>3, <5>1, <5>2
        <4> QED BY <1>2, <3>3, <4>1
      <3>4. CASE c = n + 1 /\ more /\ d = n + 1
        BY <1>2, <3>4
      <3> QED BY <1>6, <3>1, <3>2, <3>3, <3>4
    <2> QED BY <1>4, <1>5, <2>1, <2>2, <2>3 DEF UseInv, Order
  <1>13. GoneInv'
    <2> SUFFICES ASSUME NEW i \in DOMAIN images, ~images[i].exists,
                        NEW c \in DOMAIN commands'
                 PROVE  /\ last_rendered # 0
                        /\ commands'[c].kind = "put" /\ Uses(commands'[c], i) =>
                              commands'[c].order < commands'[last_rendered].order
                        /\ commands'[c].kind = "request" => commands'[c].src # i
                        /\ commands'[c].kind = "free" /\ commands'[c].src = i => c \in done
      <3>1. 1 \in DOMAIN commands'
        BY <1>14
      <3> QED BY <1>4, <3>1 DEF GoneInv, Order
    <2>1. /\ last_rendered # 0
          /\ \A b \in 1 .. n :
                /\ commands[b].kind = "put" /\ Uses(commands[b], i) =>
                      commands[b].order < commands[last_rendered].order
                /\ commands[b].kind = "request" => commands[b].src # i
                /\ commands[b].kind = "free" /\ commands[b].src = i => b \in done
      BY <1>3, <1>5 DEF GoneInv, Order
    <2>2. commands'[last_rendered].order = commands[last_rendered].order
      <3>1. last_rendered \in 1 .. n
        BY <1>3, <2>1, CommandFacts
      <3> QED BY <1>1, <3>1
    <2>3. CASE c \in 1 .. n
      BY <1>1, <1>9, <1>11, <2>1, <2>2, <2>3
    <2>4. CASE more /\ c = n + 1
      <3>1. commands[k].src # i
        BY <1>7, <2>1, <2>4 DEF more
      <3> QED BY <1>2, <2>1, <2>4, <3>1
    <2> QED BY <1>6, <2>3, <2>4
  <1> QED BY <1>12, <1>13 DEF ImageInv

LEMMA AddImages ==
    ASSUME HwInv, Add
    PROVE  ImageInv' /\ images' \in Seq(ImageType)
  <1> DEFINE n == Len(commands)
             s == hp_cmd.src
             t == hp_cmd.dst
             new == commands'[n + 1]
             ends == hp_cmd.kind = "request"
  <1>1. /\ hp_pc = "flush" /\ hp_pc' = "link" /\ hp_cmd.kind \in {"put", "request"}
        /\ Len(commands') = n + 1
        /\ \A c \in 1 .. n : commands'[c] = commands[c]
    BY AddIs
  <1>2. /\ new.kind = hp_cmd.kind /\ new.src = s /\ new.dst = t /\ new.order = display_order_next
    BY AddIs DEF NewCommand
  <1>3. n \in Nat /\ DOMAIN commands = 1 .. n
    BY CommandFacts
  <1>4. DOMAIN commands' = 1 .. n + 1
    BY <1>1, OtherIs DEF Grown, ProgramSteps
  <1>5. UseInv /\ GoneInv
    BY DEF HwInv, ImageInv
  <1>6. /\ s \in DOMAIN images /\ images[s].valid /\ t \in -1 .. Len(images)
        /\ t > 0 => images[t].valid
    BY <1>1, <1>5 DEF UseInv
  <1>7. /\ images' \in Seq(ImageType) /\ DOMAIN images' = DOMAIN images
        /\ Len(images') = Len(images)
        /\ \A i \in DOMAIN images : /\ images'[i].exists = images[i].exists
                                    /\ i # s => images'[i] = images[i]
                                    /\ images'[i].valid => images[i].valid
        /\ ends => ~images'[s].valid
    <2>1. images \in Seq(ImageType) /\ Len(images) \in Nat /\ DOMAIN images = 1 .. Len(images)
      BY ImageFacts DEF HwInv, ManyTypes
    <2>2. CASE ends
      <3> DEFINE r == [images[s] EXCEPT !.valid = FALSE]
      <3>1. images' = [images EXCEPT ![s] = r]
        BY <2>2 DEF Add
      <3>2. r \in ImageType /\ r.exists = images[s].exists /\ ~r.valid
        BY <1>6, ImageFacts DEF ImageType
      <3> HIDE DEF r, s
      <3>3. /\ images' \in Seq(ImageType) /\ Len(images') = Len(images)
            /\ DOMAIN images' = DOMAIN images
        BY <1>6, <2>1, <3>1, <3>2
      <3>4. \A i \in DOMAIN images : images'[i] = IF i = s THEN r ELSE images[i]
        BY <3>1
      <3> QED BY <1>6, <3>2, <3>3, <3>4
    <2>3. CASE ~ends
      <3>1. images' = images
        BY <2>3 DEF Add
      <3> QED BY <2>1, <2>3, <3>1
    <2> QED BY <2>2, <2>3
  <1>8. UNCHANGED <<last_rendered, done>>
    BY DEF Add
  <1>9. \A c \in DOMAIN commands' : c \in 1 .. n \/ c = n + 1
    BY <1>3, <1>4
  <1>10. Len(images) \in Nat /\ DOMAIN images = 1 .. Len(images)
    BY ImageFacts
  <1>11. \A i \in DOMAIN images : i = s \/ i = t => images[i].valid
    BY <1>6, <1>10
  <1>12. /\ display_order_next \in Nat
         /\ \A c \in 1 .. n : commands[c].order \in 1 .. display_order_next
    BY <1>3 DEF HwInv, ManyTypes, OrderInv, Order
  <1> HIDE DEF s, t, new, ends
  <1>13. UseInv'
    <2>1. (\A c \in DOMAIN commands : /\ commands[c].src \in DOMAIN images
                                      /\ commands[c].dst \in -1 .. Len(images)
                                      /\ commands[c].kind = "free" => commands[c].dst = 0)'
      <3>1. \A c \in 1 .. n : /\ commands[c].src \in DOMAIN images
                              /\ commands[c].dst \in -1 .. Len(images)
                              /\ commands[c].kind = "free" => commands[c].dst = 0
        BY <1>3, <1>5 DEF UseInv
      <3> QED BY <1>1, <1>2, <1>6, <1>7, <1>9, <3>1 DEF new
    <2>2. ASSUME NEW i \in DOMAIN images, images'[i].valid
          PROVE  images'[i].exists /\ \A c \in DOMAIN commands' :
                    commands'[c].kind \in Ending => commands'[c].src # i
      <3>1. images[i].valid /\ images[i].exists
            /\ \A c \in 1 .. n : commands[c].kind \in Ending => commands[c].src # i
        BY <1>3, <1>5, <1>7, <2>2 DEF UseInv
      <3>2. hp_cmd.kind \in Ending => i # s
        BY <1>1, <1>7, <2>2 DEF Ending, ends
      <3> QED BY <1>1, <1>2, <1>7, <1>9, <3>1, <3>2 DEF new
    <2>3. ASSUME NEW c \in DOMAIN commands', NEW d \in DOMAIN commands'
          PROVE  /\ commands'[c].kind = "put" /\ commands'[d].kind = "request"
                    /\ Uses(commands'[c], commands'[d].src)
                       => commands'[c].order <= commands'[d].order
                 /\ commands'[c].kind = "put" /\ commands'[d].kind = "free"
                    /\ Uses(commands'[c], commands'[d].src)
                       => commands'[c].order < commands'[d].order
                 /\ commands'[c].kind \in Ending /\ commands'[d].kind \in Ending
                    /\ commands'[c].src = commands'[d].src => c = d
      <3>1. \A b \in 1 .. n : commands[b].kind \in Ending =>
               commands[b].src \in DOMAIN images /\ ~images[commands[b].src].valid
        BY <1>3, <1>5 DEF UseInv
      <3>2. CASE c \in 1 .. n /\ d \in 1 .. n
        BY <1>1, <1>3, <1>5, <3>2 DEF UseInv, Order
      <3>3. CASE c \in 1 .. n /\ d = n + 1
        <4>1. commands'[c].order <= commands'[d].order
          BY <1>1, <1>2, <1>12, <3>3 DEF new
        <4>2. commands'[d].kind # "free"
          BY <1>1, <1>2, <3>3 DEF new
        <4>3. commands'[c].kind \in Ending => commands'[c].src # commands'[d].src
          BY <1>1, <1>2, <1>6, <3>1, <3>3 DEF new
        <4> QED BY <4>1, <4>2, <4>3
      <3>4. CASE c = n + 1 /\ d \in 1 .. n
        <4>1. commands'[d].kind \in Ending =>
                 commands'[d].src # commands'[c].src /\ ~Uses(commands'[c], commands'[d].src)
          BY <1>1, <1>2, <1>6, <1>11, <3>1, <3>4 DEF new, Uses
        <4> QED BY <4>1 DEF Ending
      <3>5. CASE c = n + 1 /\ d = n + 1
        <4>1. commands'[d].kind \in {"put", "request"}
          BY <1>1, <1>2, <3>5 DEF new
        <4>2. ~(commands'[c].kind = "put" /\ commands'[d].kind = "request")
              /\ ~(commands'[c].kind = "put" /\ commands'[d].kind = "free")
          BY <3>5, <4>1
        <4> QED BY <3>5, <4>2
      <3> QED BY <1>9, <3>2, <3>3, <3>4, <3>5
    <2>4. Len(images') <= MaxImages
      BY <1>5, <1>7 DEF UseInv
    <2> QED BY <1>1, <1>7, <2>1, <2>2, <2>3, <2>4 DEF UseInv, Order
  <1>14. GoneInv'
    <2> SUFFICES ASSUME NEW i \in DOMAIN images, ~images[i].exists, NEW c \in DOMAIN commands'
                 PROVE  /\ last_rendered # 0
                        /\ commands'[c].kind = "put" /\ Uses(commands'[c], i) =>
                              commands'[c].order < commands'[last_rendered].order
                        /\ commands'[c].kind = "request" => commands'[c].src # i
                        /\ commands'[c].kind = "free" /\ commands'[c].src = i => c \in done
      <3>1. 1 \in DOMAIN commands'
        BY <1>3, <1>4
      <3> QED BY <1>7, <1>8, <3>1 DEF GoneInv, Order
    <2>1. /\ last_rendered # 0
          /\ \A b \in 1 .. n :
                /\ commands[b].kind = "put" /\ Uses(commands[b], i) =>
                      commands[b].order < commands[last_rendered].order
                /\ commands[b].kind = "request" => commands[b].src # i
                /\ commands[b].kind = "free" /\ commands[b].src = i => b \in done
      BY <1>3, <1>5 DEF GoneInv, Order
    <2>2. commands'[last_rendered] = commands[last_rendered]
      <3>1. last_rendered \in 1 .. n
        BY <1>3, <2>1, CommandFacts
      <3> QED BY <1>1, <3>1
    <2>3. CASE c \in 1 .. n
      BY <1>1, <2>1, <2>2, <2>3
    <2>4. CASE c = n + 1
      <3>1. ~images[i].valid
        BY <1>5 DEF UseInv
      <3>2. i # s /\ i # t
        BY <1>11, <3>1
      <3> QED BY <1>1, <1>2, <2>1, <2>4, <3>2 DEF new, Uses
    <2> QED BY <1>9, <2>3, <2>4
  <1> QED BY <1>7, <1>13, <1>14 DEF ImageInv

LEMMA LinkAddedImages ==
    ASSUME HwInv, LinkAdded
    PROVE  ImageInv'
  <1> DEFINE n == Len(commands)
  <1>1. /\ Len(commands') = n
        /\ \A c \in 1 .. n : /\ commands'[c].kind = commands[c].kind
                             /\ commands'[c].src = commands[c].src
                             /\ commands'[c].dst = commands[c].dst
                             /\ commands'[c].order = commands[c].order
    BY LinkAddedIs
  <1>2. n \in Nat /\ DOMAIN commands = 1 .. n /\ DOMAIN commands' = 1 .. n
    BY <1>1, CommandFacts, OtherIs DEF Grown, ProgramSteps
  <1>3. UNCHANGED <<images, last_rendered, done>> /\ hp_pc' = "stmt"
    BY DEF LinkAdded
  <1>4. UseInv /\ GoneInv
    BY DEF HwInv, ImageInv
  <1>5. UseInv'
    <2>1. \A c \in 1 .. n : \A i : Uses(commands'[c], i) <=> Uses(commands[c], i)
      BY <1>1 DEF Uses
    <2>2. (\A c \in DOMAIN commands : /\ commands[c].src \in DOMAIN images
                                      /\ commands[c].dst \in -1 .. Len(images)
                                      /\ commands[c].kind = "free" => commands[c].dst = 0)'
      BY <1>1, <1>2, <1>3, <1>4 DEF UseInv
    <2>3. (\A i \in DOMAIN images : images[i].valid =>
              images[i].exists /\ \A c \in DOMAIN commands :
                 commands[c].kind \in Ending => commands[c].src # i)'
      BY <1>1, <1>2, <1>3, <1>4 DEF UseInv
    <2>4. ASSUME NEW c \in 1 .. n, NEW d \in 1 .. n
          PROVE  /\ commands'[c].kind = "put" /\ commands'[d].kind = "request"
                    /\ Uses(commands'[c], commands'[d].src)
                       => commands'[c].order <= commands'[d].order
                 /\ commands'[c].kind = "put" /\ commands'[d].kind = "free"
                    /\ Uses(commands'[c], commands'[d].src)
                       => commands'[c].order < commands'[d].order
                 /\ commands'[c].kind \in Ending /\ commands'[d].kind \in Ending
                    /\ commands'[c].src = commands'[d].src => c = d
      BY <1>1, <1>2, <1>4, <2>1 DEF UseInv, Order
    <2> QED BY <1>2, <1>3, <1>4, <2>2, <2>3, <2>4 DEF UseInv, Order
  <1>6. GoneInv'
    <2>1. last_rendered # 0 => last_rendered \in 1 .. n
      BY <1>2, CommandFacts
    <2> QED BY <1>1, <1>2, <1>3, <1>4, <2>1 DEF GoneInv, Uses, Order
  <1> QED BY <1>5, <1>6 DEF ImageInv

LEMMA OtherImages ==
    ASSUME HwInv, DisplaySteps \/ ProgramSteps
    PROVE  ImageInv'
  <1>1. CASE DisplaySteps
    <2>1. UNCHANGED <<commands, images, hp_pc, hp_cmd, last_rendered, done>>
      BY <1>1, DisplayIs DEF list, imageProgram
    <2> QED BY <2>1 DEF HwInv, ImageInv, UseInv, GoneInv, Order
  <1> QED BY <1>1, NewImageKeeps, BeginKeeps, TakeOffImages, AddImages, LinkAddedImages
          DEF ProgramSteps

LEMMA OtherTypes ==
    ASSUME HwInv, DisplaySteps \/ ProgramSteps
    PROVE  ManyTypes'
  <1>1. ManyTypes
    BY DEF HwInv
  <1>2. CASE DisplaySteps
    BY <1>1, <1>2, DisplayIs DEF ManyTypes, list, imageProgram, renderer
  <1>3. CASE ProgramSteps
    <2>1. UNCHANGED <<last_rendered, orders, renderer, mode>>
      BY <1>3 DEF ProgramSteps, NewImage, Put, FreeImage, Begin, TakeOff, Add, LinkAdded
    <2>2. first_command \in Nat /\ last_added \in Nat /\ hp_last \in Nat /\ next_to_remove \in Nat
          /\ last_rendered \in Nat
      BY <1>1 DEF ManyTypes
    <2>3. /\ commands' \in Seq(CommandType) /\ images' \in Seq(ImageType)
          /\ first_command' \in Nat /\ last_added' \in Nat
          /\ next_to_remove' \in Nat /\ hp_last' \in Nat
          /\ hp_pc' \in {"stmt", "flush", "link"}
          /\ hp_cmd' \in [kind : {"none", "put", "request"}, src : Nat, dst : Int]
      <3>1. CASE NewImage
        BY <1>1, <3>1, NewImageIs DEF NewImage, ManyTypes, list, imageProgram
      <3>2. CASE Put \/ FreeImage
        <4>1. /\ UNCHANGED <<list, images>>
              /\ hp_last' = IF next_to_remove # 0 THEN last_rendered ELSE 0
          BY <3>2 DEF Put, FreeImage, Begin
        <4> QED BY <1>1, <3>2, <4>1, BeginKeeps DEF ManyTypes, list
      <3>3. CASE TakeOff
        <4>1. UNCHANGED <<images, imageProgram>>
          BY <3>3 DEF TakeOff
        <4>2. commands' \in Seq(CommandType) /\ last_added' = Len(commands') /\ first_command' = 1
              /\ next_to_remove' = next_to_remove + 1
          BY <3>3, TakeOffIs
        <4>3. Len(commands') \in Nat /\ next_to_remove' \in Nat
          BY <2>2, <4>2
        <4> QED BY <1>1, <4>1, <4>2, <4>3 DEF ManyTypes, imageProgram
      <3>4. CASE Add
        <4>1. /\ UNCHANGED <<first_command, last_added, next_to_remove, hp_cmd, hp_last>>
              /\ hp_pc' = "link"
          BY <3>4 DEF Add
        <4>2. commands' \in Seq(CommandType) /\ images' \in Seq(ImageType)
          BY <3>4, AddIs, AddImages
        <4> QED BY <1>1, <4>1, <4>2 DEF ManyTypes
      <3>5. CASE LinkAdded
        <4>1. /\ UNCHANGED <<next_to_remove, images>>
              /\ hp_pc' = "stmt" /\ hp_cmd' = None /\ hp_last' = 0
          BY <3>5 DEF LinkAdded
        <4>2. commands' \in Seq(CommandType) /\ last_added' = Len(commands) /\ first_command' = 1
          BY <3>5, LinkAddedIs
        <4>3. None \in [kind : {"none", "put", "request"}, src : Nat, dst : Int]
          BY DEF None
        <4>4. Len(commands) \in Nat
          BY CommandFacts
        <4> QED BY <1>1, <4>1, <4>2, <4>3, <4>4 DEF ManyTypes
      <3> QED BY <1>3, <3>1, <3>2, <3>3, <3>4, <3>5 DEF ProgramSteps
    <2> QED BY <1>1, <2>1, <2>3 DEF ManyTypes, orders, renderer
  <1> QED BY <1>2, <1>3

LEMMA OtherBounds ==
    ASSUME HwInv, DisplaySteps \/ ProgramSteps
    PROVE  BoundInv'
  <1> DEFINE n == Len(commands)
             m == Len(commands')
  <1>1. /\ BoundInv /\ MaxCommands \in Nat /\ MaxOrder \in Nat
    BY HardwareAssumption DEF HwInv, HardwareAssumption
  <1>2. /\ n \in Nat /\ DOMAIN commands = 1 .. n
        /\ last_rendered \in 0 .. n /\ next_to_remove \in 0 .. last_rendered
    BY CommandFacts
  <1>3. /\ m \in Nat /\ m >= n /\ DOMAIN commands' = 1 .. m /\ done' = done /\ drawn' = drawn
    BY OtherIs DEF Grown, StillWindow
  <1>4. done' \subseteq Nat /\ drawn' \subseteq DOMAIN commands'
    BY <1>1, <1>2, <1>3 DEF BoundInv
  <1>5. display_order_next' <= MaxOrder + 1
    <2>1. CASE DisplaySteps
      BY <2>1, DisplayIs
    <2>2. CASE ProgramSteps
      <3>1. display_order_next' = display_order_next
        BY <2>2 DEF ProgramSteps, NewImage, Put, FreeImage, Begin, TakeOff, Add, LinkAdded, orders
      <3> QED BY <1>1, <3>1 DEF BoundInv
    <2> QED BY <2>1, <2>2
  <1>6. /\ m <= 2 * MaxCommands
        /\ hp_pc' = "flush" =>
              IF hp_last' = 0 THEN m < MaxCommands
              ELSE hp_last' < MaxCommands /\ m < MaxCommands + next_to_remove'
    <2>1. CASE DisplaySteps \/ NewImage
      <3>1. UNCHANGED <<commands, next_to_remove, hp_pc, hp_last>>
        <4>1. CASE DisplaySteps
          BY <4>1, DisplayIs DEF list, imageProgram
        <4>2. CASE NewImage
          BY <4>2 DEF NewImage, list, imageProgram
        <4> QED BY <2>1, <4>1, <4>2
      <3> QED BY <1>1, <3>1 DEF BoundInv
    <2>2. CASE Put \/ FreeImage
      <3>1. /\ UNCHANGED <<commands, next_to_remove>> /\ n < MaxCommands
            /\ hp_last' = IF next_to_remove # 0 THEN last_rendered ELSE 0
        BY <2>2 DEF Put, FreeImage, Begin, list
      <3>2. m <= 2 * MaxCommands /\ m < MaxCommands
        BY <1>1, <1>2, <3>1
      <3>3. hp_last' # 0 => hp_last' < MaxCommands /\ m < MaxCommands + next_to_remove'
        BY <1>1, <1>2, <3>1
      <3> QED BY <3>2, <3>3
    <2>3. CASE TakeOff
      <3> DEFINE k == next_to_remove
      <3>1. /\ k \in 1 .. n - 1 /\ k' = k + 1 /\ hp_last # 0 /\ m <= n + 1 /\ hp_pc = "flush"
        <4>1. /\ k \in 1 .. n - 1 /\ k' = k + 1 /\ hp_last # 0 /\ hp_pc = "flush"
              /\ m = IF commands[k].kind = "request" THEN n + 1 ELSE n
          BY <2>3, TakeOffIs
        <4>2. m = n \/ m = n + 1
          BY <4>1
        <4>3. m <= n + 1
          <5> HIDE DEF m, n
          <5> QED BY <1>2, <4>2
        <4> QED BY <4>1, <4>3
      <3>2. hp_last' = hp_last
        BY <2>3 DEF TakeOff, imageProgram
      <3>3. k + 1 < hp_last /\ hp_last < MaxCommands
        BY <2>3, RemovalOrders
      <3>4. n < MaxCommands + k
        BY <1>1, <3>1 DEF BoundInv
      <3>5. hp_last \in Nat /\ k \in Nat
        BY DEF HwInv, ManyTypes
      <3>6. m < MaxCommands + k' /\ m <= 2 * MaxCommands
        BY <1>1, <1>2, <1>3, <3>1, <3>3, <3>4, <3>5
      <3> QED BY <3>1, <3>2, <3>3, <3>6
    <2>4. CASE Add
      <3>1. hp_pc = "flush" /\ hp_pc' = "link" /\ m = n + 1
        BY <2>4, AddIs
      <3>2. /\ hp_last \in Nat /\ next_to_remove \in Nat
            /\ hp_last # 0 => next_to_remove <= hp_last
        BY DEF HwInv, ManyTypes, RemoveInv
      <3>3. IF hp_last = 0 THEN n < MaxCommands
            ELSE hp_last < MaxCommands /\ n < MaxCommands + next_to_remove
        BY <1>1, <3>1 DEF BoundInv
      <3>4. m <= 2 * MaxCommands
        BY <1>1, <1>2, <3>1, <3>2, <3>3
      <3> QED BY <3>1, <3>4
    <2>5. CASE LinkAdded
      <3>1. m = n /\ hp_pc' = "stmt"
        BY <2>5, LinkAddedIs
      <3> QED BY <1>1, <3>1 DEF BoundInv
    <2> QED BY <2>1, <2>2, <2>3, <2>4, <2>5 DEF ProgramSteps
  <1> QED BY <1>4, <1>5, <1>6 DEF BoundInv

LEMMA OtherKeeps ==
    ASSUME HwInv, DisplaySteps \/ ProgramSteps
    PROVE  HwInv'
  <1>1. Grown /\ StillWindow
    BY OtherIs
  <1>2. KeptApart'
    BY DEF HwInv, KeptApart
  <1> QED BY <1>1, <1>2, OtherTypes, OtherList, OtherOrders, OtherRemove, OtherKeepsPlace,
             OtherKeepsDone, OtherImages, OtherBounds DEF HwInv

-----------------------------------------------------------------------------
(* What follows. *)

LEMMA HwInit ==
    ASSUME HardwareInit, KeptApart
    PROVE  HwInv
  <1>1. Len(commands) = 0 /\ DOMAIN commands = {} /\ commands \in Seq(CommandType)
        /\ Len(images) = 0 /\ DOMAIN images = {} /\ images \in Seq(ImageType)
    BY DEF HardwareInit
  <1>2. MaxImages \in Nat /\ MaxCommands \in Nat /\ MaxOrder \in Nat
    BY HardwareAssumption DEF HardwareAssumption
  <1>3. None \in [kind : {"none", "put", "request"}, src : Nat, dst : Int]
    BY DEF None
  <1>4. ManyTypes
    <2>1. /\ first_command \in Nat /\ last_added \in Nat /\ last_rendered \in Nat
          /\ next_to_remove \in Nat /\ hp_last \in Nat
          /\ hg_cmd \in Nat /\ layer_first \in Nat /\ first_prev \in Nat
          /\ last_hw_order \in Nat /\ rendered_order \in Nat /\ disp_order \in Nat
          /\ hg_order \in Nat /\ display_order_next \in Nat /\ hg_layer \in 1 .. 2
      BY DEF HardwareInit
    <2>2. /\ soft \in {"none", "ready", "shown"} /\ disp_pc \in {"out", "build", "publish"}
          /\ hp_pc \in {"stmt", "flush", "link"}
          /\ hg_pc \in {"idle", "new", "same", "skip", "skip.next", "frame", "frame.next"}
          /\ rerender \in BOOLEAN /\ mode \in Modes
      BY DEF HardwareInit
    <2>3. hp_cmd \in [kind : {"none", "put", "request"}, src : Nat, dst : Int]
      BY <1>3 DEF HardwareInit
    <2> QED BY <1>1, <2>1, <2>2, <2>3 DEF ManyTypes
  <1>5. ListInv /\ OrderInv /\ RemoveInv
    BY <1>1 DEF HardwareInit, ListInv, OrderInv, RemoveInv
  <1>6. PlaceInv
    BY <1>1 DEF HardwareInit, PlaceInv, IdleInv
  <1>7. DoneInv /\ DrawnInv
    BY <1>1 DEF HardwareInit, DoneInv, DrawnInv, Passed
  <1>8. ImageInv
    BY <1>1, <1>2 DEF HardwareInit, ImageInv, UseInv, GoneInv
  <1>9. BoundInv
    BY <1>1, <1>2 DEF HardwareInit, BoundInv
  <1> QED BY <1>4, <1>5, <1>6, <1>7, <1>8, <1>9 DEF HwInv

LEMMA HwStep ==
    ASSUME HwInv, [HardwareNext]_hardwareVars
    PROVE  HwInv'
  <1>1. CASE DisplaySteps \/ ProgramSteps
    BY <1>1, OtherKeeps
  <1>2. CASE WindowSteps
    BY <1>2, WindowKeeps
  <1>3. CASE UNCHANGED hardwareVars
    <2>1. StillList /\ UNCHANGED <<images, last_rendered, next_to_remove, done, drawn>>
      BY <1>3 DEF hardwareVars, list, orders, imageProgram, renderer, StillList
    <2>2. UNCHANGED <<hg_pc, hg_cmd, hg_order, hg_layer, rerender, layer_first, first_prev,
                      rendered_order, soft>>
      BY <1>3 DEF hardwareVars, orders, renderer
    <2>3. KeptApart' /\ ListInv' /\ OrderInv' /\ RemoveInv' /\ BoundInv'
      BY <2>1, <2>2 DEF HwInv, KeptApart, ListInv, OrderInv, RemoveInv, BoundInv, Order, StillList
    <2>4. ManyTypes'
      BY <2>1, <2>2 DEF HwInv, ManyTypes, StillList
    <2>5. ImageInv'
      BY <2>1, <2>2 DEF HwInv, ImageInv, UseInv, GoneInv, Order, StillList
    <2>6. DoneInv' /\ DrawnInv'
      BY <2>1, <2>2 DEF HwInv, DoneInv, DrawnInv, Passed, Here, Lasting, Order, StillList
    <2>7. PlaceInv'
      <3>1. IdleInv' <=> IdleInv
        BY <2>1, <2>2 DEF IdleInv, EndsAt, FirstOf, Order, StillList
      <3>2. SkipInv' <=> SkipInv
        BY <2>1, <2>2 DEF SkipInv, Ends, EndsAt, FirstOf, Order, StillList
      <3>3. SkipNextInv' <=> SkipNextInv
        BY <2>1, <2>2 DEF SkipNextInv, Order, StillList
      <3>4. FrameInv' <=> FrameInv
        BY <2>1, <2>2 DEF FrameInv, OfFrame, Command, Ends, EndsAt, FirstOf, Order, StillList
      <3>5. FrameNextInv' <=> FrameNextInv
        BY <2>1, <2>2 DEF FrameNextInv, FirstOf, Order, StillList
      <3> QED BY <2>1, <2>2, <3>1, <3>2, <3>3, <3>4, <3>5 DEF HwInv, PlaceInv, Order, StillList
    <2> QED BY <2>3, <2>4, <2>5, <2>6, <2>7 DEF HwInv
  <1> QED BY <1>1, <1>2, <1>3 DEF HardwareNext, DisplaySteps, ProgramSteps, WindowSteps

LEMMA HwAlways == KeptApart => (HardwareSpec => []HwInv)
  <1>1. ASSUME KeptApart PROVE HardwareSpec => []HwInv
    <2>1. HardwareInit => HwInv
      BY <1>1, HwInit
    <2>2. HwInv /\ [HardwareNext]_hardwareVars => HwInv'
      BY HwStep
    <2> QED BY <2>1, <2>2, PTL DEF HardwareSpec
  <1> QED BY <1>1

\* The command at hand is of no earlier frame than what was rendered last.
LEMMA RenderedBefore ==
    ASSUME HwInv, hg_cmd # 0, last_rendered # 0
    PROVE  Order(last_rendered) <= Order(hg_cmd)
  <1> DEFINE n == Len(commands)
  <1>1. /\ n \in Nat /\ hg_cmd \in 1 .. n /\ last_rendered \in 1 .. n
    BY CommandFacts
  <1>2. /\ \A c \in 1 .. n : Order(c) \in Nat
        /\ \A c, d \in 1 .. n : c <= d => Order(c) <= Order(d)
        /\ hg_order \in Nat
    BY Linked
  <1>3. PlaceInv
    BY DEF HwInv
  <1>4. CASE hg_pc \in {"idle", "new", "same"}
    BY <1>3, <1>4 DEF PlaceInv, IdleInv
  <1>5. CASE hg_pc = "skip"
    <2>1. SkipInv
      BY <1>3, <1>5 DEF PlaceInv
    <2>2. CASE rerender
      BY <1>1, <1>2, <2>1, <2>2 DEF SkipInv
    <2>3. CASE ~rerender
      <3>1. hg_cmd = last_rendered + 1
        BY <2>1, <2>3 DEF SkipInv
      <3> QED BY <1>1, <1>2, <3>1
    <2> QED BY <2>2, <2>3
  <1>6. CASE hg_pc = "skip.next"
    BY <1>1, <1>2, <1>3, <1>6 DEF PlaceInv, SkipNextInv
  <1>7. CASE hg_pc = "frame"
    <2>1. Order(hg_cmd) >= hg_order /\ Order(last_rendered) <= hg_order
      BY <1>3, <1>7 DEF PlaceInv, FrameInv
    <2> QED BY <1>1, <1>2, <2>1
  <1>8. CASE hg_pc = "frame.next"
    BY <1>1, <1>2, <1>3, <1>8 DEF PlaceInv, FrameNextInv
  <1> QED BY <1>4, <1>5, <1>6, <1>7, <1>8 DEF HwInv, ManyTypes

LEMMA HwExist ==
    ASSUME HwInv
    PROVE  CommandsExist
  <1> DEFINE n == Len(commands)
             k == next_to_remove
  <1>1. /\ n \in Nat /\ DOMAIN commands = 1 .. n
        /\ last_added \in 0 .. n /\ n <= last_added + 1
        /\ last_rendered \in 0 .. last_added /\ hg_cmd \in 0 .. last_added
        /\ k \in 0 .. last_rendered
    BY CommandFacts
  <1>2. /\ \A c \in 1 .. n : Order(c) \in Nat
        /\ \A c, d \in 1 .. n : c <= d => Order(c) <= Order(d)
    BY Linked
  <1>3. RemoveInv /\ PlaceInv
    BY DEF HwInv
  <1>4. \A c \in 1 .. n : c >= k => Exists(c)
    BY <1>1, <1>3 DEF RemoveInv, Exists
  <1>5. \A c \in 1 .. n : k <= 1 \/ Order(last_rendered) <= Order(c) => c >= k
    <2> SUFFICES ASSUME NEW c \in 1 .. n, k > 1, Order(last_rendered) <= Order(c) PROVE c >= k
      BY <1>1
    <2>1. k \in 1 .. n /\ last_rendered \in 1 .. n /\ Order(k) < Order(last_rendered)
      BY <1>1, <1>3 DEF RemoveInv
    <2>2. ~(c <= k)
      BY <1>2, <2>1
    <2> QED BY <1>1, <2>2
  <1>6. hg_cmd # 0 => Exists(hg_cmd)
    <2> SUFFICES ASSUME hg_cmd # 0, k > 1 PROVE Order(last_rendered) <= Order(hg_cmd)
      BY <1>1, <1>4, <1>5
    <2>1. last_rendered # 0
      BY <1>1
    <2> QED BY <2>1, RenderedBefore
  <1>7. last_rendered # 0 => Exists(last_rendered)
    BY <1>1, <1>4
  <1>8. k # 0 => Exists(k)
    BY <1>1, <1>4
  <1>9. last_added # 0 => Exists(last_added)
    BY <1>1, <1>4
  <1>10. hp_last # 0 => Exists(hp_last)
    BY <1>1, <1>3, <1>4 DEF RemoveInv
  <1> QED BY <1>6, <1>7, <1>8, <1>9, <1>10 DEF CommandsExist


\* What is carried out and lasts is so for the first time.
LEMMA DoesOnce ==
    ASSUME HwInv, SkipDoes \/ FrameDoes
    PROVE  /\ hg_cmd \in DOMAIN commands /\ hg_cmd # 0
           /\ commands[hg_cmd].kind \in {"put", "free"}
           /\ hg_cmd \notin done
  <1>1. hg_cmd # 0 /\ commands[hg_cmd].kind \in {"put", "free"}
    BY DEF SkipDoes, FrameDoes, Older, OfFrame, Lasting, Command
  <1>2. /\ Len(commands) \in Nat /\ DOMAIN commands = 1 .. Len(commands)
        /\ hg_cmd \in 1 .. Len(commands) /\ last_rendered \in 0 .. Len(commands)
    BY <1>1, CommandFacts
  <1>3. hg_layer \in 1 .. 2 /\ rerender \in BOOLEAN /\ hg_order \in Nat
        /\ commands[hg_cmd].dst \in Int /\ Order(hg_cmd) \in Nat
    BY <1>2, Linked, CommandFacts
  <1>4. DoneInv /\ PlaceInv
    BY DEF HwInv
  <1>5. CASE Lasting(hg_cmd)
    <2>1. hg_layer = 1 /\ ~rerender /\ hg_cmd = last_rendered + 1
      <3>1. CASE SkipDoes
        <4>1. SkipInv /\ Order(hg_cmd) < hg_order
          BY <1>4, <3>1 DEF PlaceInv, SkipDoes, Older, Command, Order
        <4>2. ~rerender
          BY <1>3, <4>1 DEF SkipInv, FirstOf
        <4> QED BY <1>1, <4>1, <4>2 DEF SkipInv
      <3>2. CASE FrameDoes
        <4>1. FrameInv /\ OfFrame
          BY <1>4, <3>2 DEF PlaceInv, FrameDoes
        <4>2. hg_layer = 1 /\ ~rerender
          <5> DEFINE k == commands[hg_cmd].kind
                     d == commands[hg_cmd].dst
          <5>1. k = "free" \/ (k = "put" /\ d > 0)
            BY <1>5 DEF Lasting
          <5>2. \/ k = "free" /\ ~rerender /\ hg_layer = 1
                \/ /\ k = "put" /\ (~rerender \/ d <= 0)
                   /\ (d > 0 /\ hg_layer = 1) \/ d = 1 - hg_layer
            BY <3>2 DEF FrameDoes, Command
          <5>3. d \in Int
            BY <1>3
          <5> HIDE DEF k, d
          <5> QED BY <1>3, <5>1, <5>2, <5>3
        <4> QED BY <4>1, <4>2 DEF FrameInv
      <3> QED BY <3>1, <3>2
    <2>2. hg_cmd \notin Passed
      BY <1>2, <2>1 DEF Passed
    <2> QED BY <1>1, <1>2, <1>4, <2>2 DEF DoneInv
  <1>6. CASE ~Lasting(hg_cmd)
    BY <1>1, <1>2, <1>4, <1>6 DEF DoneInv
  <1> QED BY <1>5, <1>6

LEMMA HwImages ==
    ASSUME HwInv
    PROVE  ImagesExist
  <1> SUFFICES ASSUME SkipDoes \/ FrameDoes
               PROVE  /\ images[commands[hg_cmd].src].exists
                      /\ commands[hg_cmd].dst > 0 => images[commands[hg_cmd].dst].exists
    BY DEF ImagesExist, Command
  <1> DEFINE c == commands[hg_cmd]
  <1>1. /\ hg_cmd \in DOMAIN commands /\ hg_cmd # 0 /\ hg_cmd \notin done
        /\ c.kind \in {"put", "free"}
    BY DoesOnce
  <1>2. UseInv /\ GoneInv
    BY DEF HwInv, ImageInv
  <1>3. /\ c.src \in DOMAIN images /\ c.dst \in -1 .. Len(images)
        /\ c.kind = "free" => c.dst = 0
    BY <1>1, <1>2 DEF UseInv
  <1>4. Len(images) \in Nat /\ DOMAIN images = 1 .. Len(images)
    BY ImageFacts
  <1>5. last_rendered # 0 => /\ ~(Order(hg_cmd) < Order(last_rendered))
    <2> SUFFICES ASSUME last_rendered # 0 PROVE ~(Order(hg_cmd) < Order(last_rendered))
      OBVIOUS
    <2>1. Order(last_rendered) <= Order(hg_cmd)
      BY <1>1, RenderedBefore
    <2>2. last_rendered \in 1 .. Len(commands) /\ hg_cmd \in 1 .. Len(commands)
      BY <1>1, CommandFacts
    <2>3. Order(last_rendered) \in Nat /\ Order(hg_cmd) \in Nat
      BY <2>2, Linked
    <2> QED BY <2>1, <2>3
  <1>6. ASSUME NEW i \in DOMAIN images, Uses(c, i), c.kind = "free" => c.src = i
        PROVE  images[i].exists
    <2> SUFFICES ASSUME ~images[i].exists PROVE FALSE
      OBVIOUS
    <2>1. /\ last_rendered # 0
          /\ c.kind = "put" => Order(hg_cmd) < Order(last_rendered)
          /\ c.kind = "free" => hg_cmd \in done
      BY <1>1, <1>2, <1>6 DEF GoneInv
    <2> QED BY <1>1, <1>5, <2>1
  <1>7. images[c.src].exists
    BY <1>3, <1>6 DEF Uses
  <1>8. c.dst > 0 => images[c.dst].exists
    <2> SUFFICES ASSUME c.dst > 0 PROVE images[c.dst].exists
      OBVIOUS
    <2>1. c.dst \in DOMAIN images /\ c.kind # "free"
      BY <1>3, <1>4
    <2> QED BY <1>6, <2>1 DEF Uses
  <1> QED BY <1>7, <1>8

LEMMA HwInOrder ==
    ASSUME HwInv
    PROVE  DoneInOrder
  <1>1. Len(commands) \in Nat /\ DOMAIN commands = 1 .. Len(commands) /\ last_rendered \in Nat
    BY CommandFacts
  <1>2. /\ \A c \in DOMAIN commands : Order(c) \in Nat
        /\ \A c, d \in DOMAIN commands : c <= d => Order(c) <= Order(d)
        /\ hg_order \in Nat
    BY <1>1, Linked
  <1>3. DoneInv
    BY DEF HwInv
  <1> SUFFICES ASSUME NEW c \in done, NEW b \in 1 .. c, Exists(b), Lasting(b) PROVE b \in Passed
    BY <1>3 DEF DoneInOrder, DoneInv
  <1>4. c \in Passed
    BY <1>3 DEF DoneInv
  <1>5. c \in DOMAIN commands /\ b \in DOMAIN commands /\ b <= c
    BY <1>1, <1>4 DEF Passed, Exists
  <1>6. CASE hg_layer = 1 /\ ~rerender
    BY <1>1, <1>4, <1>5, <1>6 DEF Passed
  <1>7. CASE ~(hg_layer = 1 /\ ~rerender)
    <2>1. Order(c) <= hg_order
      BY <1>4, <1>7 DEF Passed
    <2>2. Order(b) <= hg_order
      BY <1>2, <1>5, <2>1
    <2> QED BY <1>5, <1>7, <2>2 DEF Passed
  <1> QED BY <1>6, <1>7

LEMMA HwScreen ==
    ASSUME HwInv
    PROVE  ScreenWhole
  <1> SUFFICES ASSUME LayerEnds, hg_layer = 2, rerender, NEW c \in DOMAIN commands,
                      commands[c].kind = "put", ~Lasting(c), commands[c].order = hg_order
               PROVE  c \in drawn
    BY DEF ScreenWhole
  <1>1. Here(c)
    BY LayerHere DEF Order
  <1>2. commands[c].dst \in -1 .. Len(images) /\ ~(commands[c].dst > 0)
    BY DEF HwInv, ImageInv, UseInv, Lasting
  <1>3. commands[c].dst = 0 \/ commands[c].dst = -1
    <2>1. Len(images) \in Nat
      BY ImageFacts
    <2> QED BY <1>2, <2>1
  <1> QED BY <1>1, <1>3 DEF HwInv, DrawnInv, LayerEnds, Order

LEMMA HwTypes ==
    ASSUME HwInv
    PROVE  HardwareTypeOK
  <1> DEFINE n == Len(commands)
             cs == 0 .. 2 * MaxCommands
             R == [kind : {"put", "request", "free", "removed"}, src : 1 .. MaxImages,
                   dst : -1 .. MaxImages, order : 1 .. MaxOrder + 1, next : cs]
  <1>1. /\ n \in Nat /\ DOMAIN commands = 1 .. n
        /\ last_added \in 0 .. n /\ n <= last_added + 1
        /\ last_rendered \in 0 .. last_added /\ hg_cmd \in 0 .. last_added
        /\ layer_first \in 0 .. last_added /\ first_prev \in 0 .. last_added
        /\ next_to_remove \in 0 .. last_rendered
        /\ \A c \in 1 .. n : /\ commands[c] \in CommandType
                             /\ commands[c].kind \in {"put", "request", "free", "removed"}
    BY CommandFacts
  <1>2. /\ MaxCommands \in Nat /\ MaxOrder \in Nat /\ MaxImages \in Nat
        /\ n <= 2 * MaxCommands /\ display_order_next <= MaxOrder + 1
        /\ done \subseteq Passed /\ drawn \subseteq DOMAIN commands
    BY HardwareAssumption DEF HardwareAssumption, HwInv, BoundInv, DoneInv
  <1>3. ManyTypes /\ OrderInv /\ UseInv /\ ListInv /\ RemoveInv
    BY DEF HwInv, ImageInv
  <1>4. Len(images) \in Nat /\ DOMAIN images = 1 .. Len(images) /\ Len(images) <= MaxImages
    BY <1>3, ImageFacts DEF UseInv
  <1>5. commands \in Seq(R)
    <2>1. ASSUME NEW c \in 1 .. n PROVE commands[c] \in R
      <3>1. commands[c].src \in 1 .. MaxImages
        BY <1>1, <1>2, <1>3, <1>4 DEF UseInv
      <3>2. commands[c].dst \in -1 .. MaxImages
        <4>1. c \in DOMAIN commands
          BY <1>1
        <4>2. commands[c].dst \in -1 .. Len(images)
          BY <1>3, <4>1 DEF UseInv
        <4> DEFINE d == commands[c].dst
                   l == Len(images)
        <4>3. d \in -1 .. l /\ l \in Nat /\ l <= MaxImages /\ MaxImages \in Nat
          BY <1>2, <1>4, <4>2
        <4> HIDE DEF d, l
        <4>4. d \in -1 .. MaxImages
          BY <4>3
        <4> QED BY <4>4 DEF d
      <3>3. commands[c].order \in 1 .. MaxOrder + 1
        <4>1. c \in DOMAIN commands
          BY <1>1
        <4>2. commands[c].order \in 1 .. display_order_next /\ display_order_next \in Nat
          BY <1>3, <4>1 DEF OrderInv, ManyTypes, Order
        <4> QED BY <1>2, <4>2
      <3>4. commands[c].next \in cs
        <4>1. commands[c].next = IF c < last_added THEN c + 1 ELSE 0
          BY <1>1, <1>3 DEF ListInv
        <4> QED BY <1>1, <1>2, <4>1
      <3>5. commands[c] \in CommandType
        BY <1>1
      <3> HIDE DEF cs
      <3> QED BY <1>1, <3>1, <3>2, <3>3, <3>4, <3>5 DEF CommandType
    <2>2. commands \in Seq(CommandType)
      BY <1>3 DEF ManyTypes
    <2> HIDE DEF R
    <2> QED BY <1>1, <2>1, <2>2
  <1>6. images \in Seq([exists : BOOLEAN, valid : BOOLEAN])
    BY <1>3 DEF ManyTypes, ImageType
  <1>7. {first_command, last_added, last_rendered, next_to_remove, hp_last,
         hg_cmd, layer_first, first_prev} \subseteq cs
    <2>1. first_command \in cs
      <3>1. first_command = 0 \/ (first_command = 1 /\ last_added # 0)
        BY <1>3 DEF ListInv
      <3> QED BY <1>1, <1>2, <3>1
    <2>2. hp_last \in cs
      <3>1. hp_last = 0 \/ hp_last \in 1 .. n
        BY <1>1, <1>3 DEF RemoveInv
      <3> QED BY <1>1, <1>2, <3>1
    <2>3. {last_added, last_rendered, next_to_remove, hg_cmd, layer_first, first_prev} \subseteq cs
      BY <1>1, <1>2
    <2> HIDE DEF cs
    <2> QED BY <2>1, <2>2, <2>3
  <1>8. /\ {last_hw_order, rendered_order, disp_order, hg_order} \subseteq 0 .. MaxOrder
        /\ display_order_next \in 1 .. MaxOrder + 1
    <2>1. /\ last_hw_order \in Nat /\ rendered_order \in Nat /\ disp_order \in Nat
          /\ hg_order \in Nat /\ display_order_next \in Nat
      BY <1>3 DEF ManyTypes
    <2>2. /\ last_hw_order < display_order_next /\ hg_order <= last_hw_order
          /\ rendered_order <= last_hw_order
          /\ disp_order = 0 \/ disp_order = display_order_next - 1
      BY <1>3 DEF OrderInv
    <2> QED BY <1>2, <2>1, <2>2
  <1>9. done \subseteq cs /\ drawn \subseteq cs
    <2>1. Passed \subseteq 1 .. n
      BY <1>1 DEF Passed
    <2> QED BY <1>1, <1>2, <2>1
  <1> HIDE DEF R
  <1>10. /\ commands \in Seq([kind : {"put", "request", "free", "removed"}, src : 1 .. MaxImages,
                   dst : -1 .. MaxImages, order : 1 .. MaxOrder + 1, next : cs])
    BY <1>5 DEF R
  <1> QED BY <1>3, <1>6, <1>7, <1>8, <1>9, <1>10 DEF HardwareTypeOK, Handle, ManyTypes

\* All is of its type.
THEOREM HardwareTypeCorrect == KeptApart => (HardwareSpec => []HardwareTypeOK)
  <1>1. ASSUME KeptApart PROVE HardwareSpec => []HardwareTypeOK
    <2>1. HardwareSpec => []HwInv
      BY <1>1, HwAlways
    <2>2. HwInv => HardwareTypeOK
      BY HwTypes
    <2> QED BY <2>1, <2>2, PTL
  <1> QED BY <1>1

\* The window never looks at a command that the program removed, nor at an image that was
\* freed, and the program never at a command it removed before.
THEOREM ObjectsAlwaysExist == KeptApart => (HardwareSpec => []ObjectsExist)
  <1>1. ASSUME KeptApart PROVE HardwareSpec => []ObjectsExist
    <2>1. HardwareSpec => []HwInv
      BY <1>1, HwAlways
    <2>2. HwInv => ObjectsExist
      BY HwExist, HwImages DEF ObjectsExist
    <2> QED BY <2>1, <2>2, PTL
  <1> QED BY <1>1

\* Drawings on images and freeings are done in the program's order, none left out however many
\* frames the window misses; a frame rendered again is whole.
THEOREM NothingIsLeftOut == KeptApart => (HardwareSpec => []NothingLeftOut)
  <1>1. ASSUME KeptApart PROVE HardwareSpec => []NothingLeftOut
    <2>1. HardwareSpec => []HwInv
      BY <1>1, HwAlways
    <2>2. HwInv => NothingLeftOut
      BY HwInOrder, HwScreen DEF NothingLeftOut
    <2> QED BY <2>1, <2>2, PTL
  <1> QED BY <1>1

\* No drawing on an image and no freeing is done twice.
THEOREM LastingIsDoneOnce == KeptApart => (HardwareSpec => DoneOnce)
  <1> DEFINE Once == (SkipDoes /\ hg_pc' = "skip.next") \/ (FrameDoes /\ hg_pc' = "frame.next")
                     => hg_cmd \notin done
  <1>1. ASSUME KeptApart PROVE HardwareSpec => DoneOnce
    <2>1. HardwareSpec => []HwInv
      BY <1>1, HwAlways
    <2>2. HwInv /\ [HardwareNext]_hardwareVars => [Once]_hardwareVars
      BY DoesOnce
    <2> QED BY <2>1, <2>2, PTL DEF HardwareSpec, DoneOnce
  <1> QED BY <1>1
=============================================================================
