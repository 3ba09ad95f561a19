------------------------------- MODULE QbList -------------------------------
(***************************************************************************)
(* A list of handles, shared by two threads: that of the hardware images.  *)
(* Handles come from a stack of those removed, or the index grows;         *)
(* list_get() looks in the index without a lock.                           *)
(* (internal/c/libqb/src/qblist.cpp, include/qblist.h)                     *)
(*                                                                         *)
(* Abstractions.  A structure is the flag at its end, its handle, and is   *)
(* never moved, so that the index is a set of handles whose structure it   *)
(* knows.  How the memory of structures and of the stack grows is left     *)
(* out.                                                                    *)
(***************************************************************************)
EXTENDS SequencesExt

CONSTANTS
    Threads,        \* the program's and the window's
    MaxHandles,     \* bound: handles
    MaxGrowths      \* growths of the index while one list_get() or list_remove() runs;
                    \* the index doubles, so that two take as long as all before

ASSUME ListAssumption ==
    MaxHandles \in Nat /\ MaxGrowths \in Nat /\ "nobody" \notin Threads

VARIABLES
    indexes, indexes_last,
    index,          \* the index arrays that were made: for each the handles it knows
    index_freed,    \* those that were freed
    flags,          \* the handles whose structure has its flag
    structure_freed, structures_freed,  \* the stack of removed handles, and how many
    lock_add, lock_remove,  \* who has it, or "nobody"
    l_pc, l_i,      \* of each thread: its place and handle
    l_index,        \* the index array it took,
    l_growths,      \* how often the index has grown since
    given           \* history: handles that list_add() returned and nobody removes

arrays == <<index, index_freed>>
stack == <<structure_freed, structures_freed>>
lists == <<indexes, indexes_last, arrays, flags, stack>>
listLocks == <<lock_add, lock_remove>>
listVars == <<lists, listLocks, l_pc, l_i, l_index, l_growths, given>>

Inside(t) == l_pc[t] \in {"get", "remove"}

ListInit ==
    /\ indexes = 0 /\ indexes_last = 0 /\ index = <<{}>> /\ index_freed = {}
    /\ flags = {} /\ structure_freed = [n \in 1 .. MaxHandles |-> 0] /\ structures_freed = 0
    /\ lock_add = "nobody" /\ lock_remove = "nobody"
    /\ l_pc = [t \in Threads |-> "idle"] /\ l_i = [t \in Threads |-> 0]
    /\ l_index = [t \in Threads |-> 0] /\ l_growths = [t \in Threads |-> 0]
    /\ given = {}

LGoto(t, place) == l_pc' = [l_pc EXCEPT ![t] = place]

-----------------------------------------------------------------------------
(* list_add()                                                              *)

AddLocks(t) ==
    /\ l_pc[t] = "idle" /\ lock_add = "nobody"
    /\ structures_freed # 0 \/ indexes < MaxHandles
    /\ lock_add' = t
    /\ LGoto(t, "add")
    /\ UNCHANGED <<lists, lock_remove, l_i, l_index, l_growths, given>>

\* The stack is looked at without the other lock.
AddChooses(t) ==
    /\ l_pc[t] = "add"
    /\ LGoto(t, IF structures_freed # 0 THEN "reuse" ELSE "grow")
    /\ UNCHANGED <<lists, listLocks, l_i, l_index, l_growths, given>>

AddPops(t) ==
    /\ l_pc[t] = "reuse" /\ lock_remove = "nobody"
    /\ lock_remove' = t
    /\ l_i' = [l_i EXCEPT ![t] = structure_freed[structures_freed]]
    /\ structures_freed' = structures_freed - 1
    /\ LGoto(t, "flag")
    /\ UNCHANGED <<indexes, indexes_last, arrays, flags, structure_freed, lock_add, l_index,
                   l_growths, given>>

AddFlags(t) ==
    /\ l_pc[t] = "flag"
    /\ flags' = flags \union {l_i[t]}
    /\ lock_remove' = "nobody"
    /\ LGoto(t, "added")
    /\ UNCHANGED <<indexes, indexes_last, arrays, stack, lock_add, l_i, l_index, l_growths,
                   given>>

AddCounts(t) ==
    /\ l_pc[t] = "grow"
    /\ indexes' = indexes + 1
    /\ l_i' = [l_i EXCEPT ![t] = indexes']
    /\ flags' = flags \union {indexes'}
    /\ LGoto(t, "index")
    /\ UNCHANGED <<indexes_last, arrays, stack, listLocks, l_index, l_growths, given>>

\* Mutant of NewIndex: the old index is freed at once.
NewIndexFrees(known) ==
    /\ index' = Append(index, known)
    /\ index_freed' = index_freed \union {Len(index)}

\* The one before the last is freed, index_cleanup.
NewIndex(known) ==
    /\ index' = Append(index, known)
    /\ index_freed' = index_freed \union ({Len(index) - 1} \ {0})

\* The structure gets into the index, or into a longer one.
AddIndexes(t) ==
    LET known == index[Len(index)] \union {l_i[t]}
    IN  /\ l_pc[t] = "index"
        /\ IF indexes > indexes_last
           THEN /\ \A u \in Threads : Inside(u) => l_growths[u] < MaxGrowths
                /\ NewIndex(known)
                /\ indexes_last' = 2 * indexes_last + 1
                /\ l_growths' = [u \in Threads |-> IF Inside(u) THEN l_growths[u] + 1 ELSE 0]
           ELSE /\ index' = [index EXCEPT ![Len(index)] = known]
                /\ UNCHANGED <<index_freed, indexes_last, l_growths>>
        /\ LGoto(t, "added")
        /\ UNCHANGED <<indexes, flags, stack, listLocks, l_i, l_index, given>>

AddReturns(t) ==
    /\ l_pc[t] = "added"
    /\ lock_add' = "nobody"
    /\ given' = given \union {l_i[t]}
    /\ l_i' = [l_i EXCEPT ![t] = 0]
    /\ LGoto(t, "idle")
    /\ UNCHANGED <<lists, lock_remove, l_index, l_growths>>

-----------------------------------------------------------------------------
(* list_remove() and list_get(), of a handle that is given.                *)

RemoveLocks(t, i) ==
    /\ l_pc[t] = "idle" /\ i \in given /\ lock_remove = "nobody"
    /\ lock_remove' = t
    /\ l_i' = [l_i EXCEPT ![t] = i] /\ l_index' = [l_index EXCEPT ![t] = Len(index)]
    /\ given' = given \ {i}
    /\ LGoto(t, "remove")
    /\ UNCHANGED <<lists, lock_add, l_growths>>

RemoveStores(t) ==
    /\ l_pc[t] = "remove"
    /\ structure_freed' = [structure_freed EXCEPT ![structures_freed + 1] = l_i[t]]
    /\ flags' = flags \ {l_i[t]}
    /\ l_index' = [l_index EXCEPT ![t] = 0] /\ l_growths' = [l_growths EXCEPT ![t] = 0]
    /\ LGoto(t, "count")
    /\ UNCHANGED <<indexes, indexes_last, arrays, structures_freed, listLocks, l_i, given>>

RemoveCounts(t) ==
    /\ l_pc[t] = "count"
    /\ structures_freed' = structures_freed + 1
    /\ lock_remove' = "nobody"
    /\ l_i' = [l_i EXCEPT ![t] = 0]
    /\ LGoto(t, "idle")
    /\ UNCHANGED <<indexes, indexes_last, arrays, flags, structure_freed, lock_add, l_index,
                   l_growths, given>>

GetTakes(t, i) ==
    /\ l_pc[t] = "idle" /\ i \in given
    /\ l_i' = [l_i EXCEPT ![t] = i] /\ l_index' = [l_index EXCEPT ![t] = Len(index)]
    /\ LGoto(t, "get")
    /\ UNCHANGED <<lists, listLocks, l_growths, given>>

GetReads(t) ==
    /\ l_pc[t] = "get"
    /\ l_i' = [l_i EXCEPT ![t] = 0] /\ l_index' = [l_index EXCEPT ![t] = 0]
    /\ l_growths' = [l_growths EXCEPT ![t] = 0]
    /\ LGoto(t, "idle")
    /\ UNCHANGED <<lists, listLocks, given>>

ListNext ==
    \E t \in Threads :
        \/ AddLocks(t) \/ AddChooses(t) \/ AddPops(t) \/ AddFlags(t) \/ AddCounts(t)
        \/ AddIndexes(t) \/ AddReturns(t)
        \/ \E i \in 1 .. MaxHandles : RemoveLocks(t, i) \/ GetTakes(t, i)
        \/ RemoveStores(t) \/ RemoveCounts(t) \/ GetReads(t)

ListSpec == ListInit /\ [][ListNext]_listVars

-----------------------------------------------------------------------------
(* Properties.                                                             *)

\* The types of all variables.
ListTypeOK ==
    /\ indexes \in 0 .. MaxHandles /\ indexes_last \in Nat
    /\ index \in Seq(SUBSET (1 .. MaxHandles)) /\ index # <<>>
    /\ index_freed \in SUBSET Nat
    /\ flags \in SUBSET (1 .. MaxHandles) /\ given \in SUBSET (1 .. MaxHandles)
    /\ structure_freed \in [1 .. MaxHandles -> 0 .. MaxHandles]
    /\ structures_freed \in 0 .. MaxHandles
    /\ lock_add \in Threads \cup {"nobody"} /\ lock_remove \in Threads \cup {"nobody"}
    /\ l_pc \in [Threads -> {"idle", "add", "reuse", "flag", "grow", "index", "added",
                             "remove", "count", "get"}]
    /\ l_i \in [Threads -> 0 .. MaxHandles]
    /\ l_index \in [Threads -> Nat] /\ l_growths \in [Threads -> Nat]

\* Where list_get() and list_remove() look a handle up: the index array was not freed, and
\* knows a handle that is in use, whose structure has its flag; also while another thread
\* makes the index longer.
HandleFound ==
    \A t \in Threads :
        \/ ~Inside(t)
        \/ l_pc[t] = "get" /\ l_i[t] \notin given
        \/ /\ l_index[t] \notin index_freed
           /\ l_i[t] \in index[l_index[t]] /\ l_i[t] \in flags

\* list_add() never returns a handle that somebody has, nor one being removed.
AddsNew ==
    \A t \in Threads : l_pc[t] \in {"flag", "index", "added"} =>
        /\ l_i[t] \notin given
        /\ \A u \in Threads \ {t} : l_pc[u] \in {"remove", "count"} => l_i[u] # l_i[t]

\* When nothing is going on, each handle is given or on the stack, once.
StackExact ==
    LET freed == SubSeq(structure_freed, 1, structures_freed)
    IN  (\A t \in Threads : l_pc[t] \in {"idle", "get"}) =>
            /\ IsInjective(freed)
            /\ Range(freed) = (1 .. indexes) \ given /\ given = flags

\* A handle has one owner at a time, who finds its structure.
HandlesExact == HandleFound /\ AddsNew /\ StackExact
=============================================================================
