------------------------------ MODULE MemBlocks ------------------------------
(***************************************************************************)
(* _MEM blocks and their locks.  A block is valid as long as its lock has  *)
(* the id that the block was made with; locks are used again, with a new   *)
(* id. (internal/c/libqb/src/memblock.cpp, libqb.cpp, source/qb64pe.bas)   *)
(*                                                                         *)
(* Abstractions.  Memory is its address, and a SUB's variables, an image's *)
(* pixels or an array's elements are its scope, image or array.  Errors    *)
(* are early returns; those that leave a block behind are actions.  Locks  *)
(* count from 1, ids from 1, 0 is no lock, no id.                          *)
(***************************************************************************)
EXTENDS SequencesExt

CONSTANTS
    MemVars,        \* the program's variables of type _MEM
    Addresses,      \* that malloc() may return
    Owners,         \* SUB calls, images and arrays that have locks
    MaxLockId,      \* bound: ids of locks
    StaleTypes      \* _MEMNEW(0) may take a lock that had a use before

ASSUME MemAssumption == MaxLockId \in Nat /\ StaleTypes \in BOOLEAN

VARIABLES
    mem_lock,       \* the locks ever made: [id, type, offset]
    mem_lock_freed, \* those to be used again
    mem_lock_id,    \* the last id
    mem_var,        \* the blocks: [lock_offset, lock_id]
    owner_lock,     \* sf_mem_lock, img[].lock_offset and the arrays' locks
    owner_type,     \* 2, 3 or 4: what each owner is, 0 if it is not there
    owner_id,       \* img[].lock_id
    allocated,      \* by malloc() and not freed: for each address the block's lock id, or 0
    twice           \* history: free() was called for what another block has, or nobody

locks == <<mem_lock, mem_lock_freed, mem_lock_id>>
owners == <<owner_lock, owner_type, owner_id>>
heap == <<allocated, twice>>
memVars == <<locks, mem_var, owners, heap>>

NoBlock == [lock_offset |-> 0, lock_id |-> 0]

MemInit ==
    /\ mem_lock = <<>> /\ mem_lock_freed = <<>> /\ mem_lock_id = 0
    /\ mem_var = [v \in MemVars |-> NoBlock]
    /\ owner_lock = [o \in Owners |-> 0] /\ owner_type = [o \in Owners |-> 0]
    /\ owner_id = [o \in Owners |-> 0]
    /\ allocated = [a \in Addresses |-> 0] /\ twice = FALSE

-----------------------------------------------------------------------------
(* Locks.                                                                  *)

\* new_mem_lock(): the one freed last, or another.
NewLock == IF mem_lock_freed = <<>> THEN Len(mem_lock) + 1 ELSE Last(mem_lock_freed)

\* What the lock had before, which malloc() may have left uninitialised.
Kept == IF mem_lock_freed = <<>> THEN [id |-> 0, type |-> 0, offset |-> 0]
        ELSE mem_lock[NewLock]

MakeLock(l) ==
    /\ mem_lock_id < MaxLockId
    /\ mem_lock_id' = mem_lock_id + 1
    /\ mem_lock_freed' = IF mem_lock_freed = <<>> THEN <<>> ELSE Front(mem_lock_freed)
    /\ mem_lock' = IF NewLock > Len(mem_lock)
                   THEN Append(mem_lock, [l EXCEPT !.id = mem_lock_id'])
                   ELSE [mem_lock EXCEPT ![NewLock] = [l EXCEPT !.id = mem_lock_id']]

\* Mutant of FreeLock: the lock keeps its id until it is used again.
FreeLockKeeps(l) ==
    /\ mem_lock_freed' = Append(mem_lock_freed, l)
    /\ allocated' = IF mem_lock[l].type = 1 THEN [allocated EXCEPT ![mem_lock[l].offset] = 0]
                    ELSE allocated
    /\ UNCHANGED <<mem_lock, mem_lock_id, twice>>

\* Mutant of FreeLock: it gets the id that freed blocks have.
FreeLockMinus(l) ==
    /\ mem_lock' = [mem_lock EXCEPT ![l].id = -1]
    /\ mem_lock_freed' = Append(mem_lock_freed, l)
    /\ allocated' = IF mem_lock[l].type = 1 THEN [allocated EXCEPT ![mem_lock[l].offset] = 0]
                    ELSE allocated
    /\ UNCHANGED <<mem_lock_id, twice>>

\* free_mem_lock()
FreeLock(l) ==
    /\ mem_lock' = [mem_lock EXCEPT ![l].id = 0]
    /\ mem_lock_freed' = Append(mem_lock_freed, l)
    /\ LET a == mem_lock[l].offset
       IN  IF mem_lock[l].type = 1
           THEN /\ twice' = (twice \/ allocated[a] # mem_lock[l].id)
                /\ allocated' = [allocated EXCEPT ![a] = 0]
           ELSE UNCHANGED <<allocated, twice>>
    /\ UNCHANGED mem_lock_id

Valid(b) == b.lock_offset # 0 /\ mem_lock[b.lock_offset].id = b.lock_id

-----------------------------------------------------------------------------
(* Blocks.                                                                 *)

Block(v) == mem_var' = [mem_var EXCEPT ![v] = [lock_offset |-> NewLock, lock_id |-> mem_lock_id']]

\* _MEMNEW(bytes)
MemNew(v, a) ==
    /\ allocated[a] = 0
    /\ MakeLock([Kept EXCEPT !.type = 1, !.offset = a])
    /\ Block(v)
    /\ allocated' = [allocated EXCEPT ![a] = mem_lock_id']
    /\ UNCHANGED <<owners, twice>>

\* An error, or no memory, and _MEM(offset, size): nobody looks after the block.
MemUnsecured(v) ==
    /\ MakeLock([Kept EXCEPT !.type = 0])
    /\ Block(v)
    /\ UNCHANGED <<owners, heap>>

\* _MEMNEW(0): the lock's type is not set.
MemNewZero(v) ==
    /\ StaleTypes \/ Kept.type = 0
    /\ MakeLock(Kept)
    /\ Block(v)
    /\ UNCHANGED <<owners, heap>>

\* Mutant of MemFree: the block is not looked at.
MemFreeAnyway(v) ==
    LET b == mem_var[v]
    IN  /\ b.lock_offset # 0
        /\ IF mem_lock[b.lock_offset].type \in {0, 1}
           THEN FreeLock(b.lock_offset) ELSE UNCHANGED <<locks, heap>>
        /\ mem_var' = [mem_var EXCEPT ![v].lock_id = -1]
        /\ UNCHANGED owners

\* sub__memfree(): blocks of malloc() and unsecured ones are freed, all are made invalid.
MemFree(v) ==
    LET b == mem_var[v]
    IN  /\ Valid(b)
        /\ IF mem_lock[b.lock_offset].type \in {0, 1}
           THEN FreeLock(b.lock_offset) ELSE UNCHANGED <<locks, heap>>
        /\ mem_var' = [mem_var EXCEPT ![v].lock_id = -1]
        /\ UNCHANGED owners

\* m2 = m1
CopyBlock(v, w) ==
    /\ mem_var' = [mem_var EXCEPT ![v] = mem_var[w]]
    /\ UNCHANGED <<locks, owners, heap>>

-----------------------------------------------------------------------------
(* What has a lock itself.                                                 *)

\* A SUB is called, or a dynamic array defined: a new lock of type 3 or 4.
OwnerBegins(o, type) ==
    /\ owner_type[o] = 0
    /\ MakeLock([Kept EXCEPT !.type = type])
    /\ owner_lock' = [owner_lock EXCEPT ![o] = NewLock]
    /\ owner_type' = [owner_type EXCEPT ![o] = type]
    /\ UNCHANGED <<mem_var, owner_id, heap>>

\* An image has none before _MEMIMAGE.
ImageBegins(o) ==
    /\ owner_type[o] = 0
    /\ owner_type' = [owner_type EXCEPT ![o] = 2]
    /\ UNCHANGED <<locks, mem_var, owner_lock, owner_id, heap>>

\* func__memimage()
MemImage(v, o) ==
    /\ owner_type[o] = 2
    /\ IF owner_id[o] # 0
       THEN /\ mem_var' = [mem_var EXCEPT ![v] = [lock_offset |-> owner_lock[o],
                                                   lock_id |-> owner_id[o]]]
            /\ UNCHANGED <<locks, owners>>
       ELSE /\ MakeLock([Kept EXCEPT !.type = 2])
            /\ Block(v)
            /\ owner_lock' = [owner_lock EXCEPT ![o] = NewLock]
            /\ owner_id' = [owner_id EXCEPT ![o] = mem_lock_id']
            /\ UNCHANGED owner_type
    /\ UNCHANGED heap

\* _MEM(variable), func__mem(): the lock of the SUB, or of the array.
MemOf(v, o) ==
    /\ owner_type[o] \in {3, 4}
    /\ mem_var' = [mem_var EXCEPT ![v] = [lock_offset |-> owner_lock[o],
                                          lock_id |-> mem_lock[owner_lock[o]].id]]
    /\ UNCHANGED <<locks, owners, heap>>

\* REDIM, ERASE: the elements move, the array keeps its lock.
ArrayMoves(o) ==
    /\ owner_type[o] = 4 /\ mem_lock_id < MaxLockId
    /\ mem_lock_id' = mem_lock_id + 1
    /\ mem_lock' = [mem_lock EXCEPT ![owner_lock[o]].id = mem_lock_id']
    /\ UNCHANGED <<mem_lock_freed, mem_var, owners, heap>>

\* Mutant of OwnerEnds: images keep their lock.
OwnerEndsImage(o) ==
    /\ owner_type[o] # 0
    /\ IF owner_type[o] # 2
       THEN FreeLock(owner_lock[o]) ELSE UNCHANGED <<locks, heap>>
    /\ owner_type' = [owner_type EXCEPT ![o] = 0] /\ owner_lock' = [owner_lock EXCEPT ![o] = 0]
    /\ owner_id' = [owner_id EXCEPT ![o] = 0]
    /\ UNCHANGED mem_var

\* The SUB ends, the image is freed (freeimg()), or the array's SUB ends.
OwnerEnds(o) ==
    /\ owner_type[o] # 0
    /\ IF owner_type[o] # 2 \/ owner_id[o] # 0
       THEN FreeLock(owner_lock[o]) ELSE UNCHANGED <<locks, heap>>
    /\ owner_type' = [owner_type EXCEPT ![o] = 0] /\ owner_lock' = [owner_lock EXCEPT ![o] = 0]
    /\ owner_id' = [owner_id EXCEPT ![o] = 0]
    /\ UNCHANGED mem_var

MemNext ==
    \/ \E v \in MemVars :
          \/ \E a \in Addresses : MemNew(v, a)
          \/ MemUnsecured(v) \/ MemNewZero(v) \/ MemFree(v)
          \/ \E w \in MemVars : CopyBlock(v, w)
          \/ \E o \in Owners : MemImage(v, o) \/ MemOf(v, o)
    \/ \E o \in Owners : (\E type \in {3, 4} : OwnerBegins(o, type)) \/ ImageBegins(o)
                         \/ ArrayMoves(o) \/ OwnerEnds(o)

MemSpec == MemInit /\ [][MemNext]_memVars

-----------------------------------------------------------------------------
(* Properties.                                                             *)

MemTypeOK ==
    /\ mem_lock \in Seq([id : 0 .. MaxLockId, type : 0 .. 4, offset : Addresses \union {0}])
    /\ mem_lock_freed \in Seq(1 .. MaxLockId) /\ mem_lock_id \in 0 .. MaxLockId
    /\ mem_var \in [MemVars -> [lock_offset : 0 .. MaxLockId, lock_id : -1 .. MaxLockId]]
    /\ owner_lock \in [Owners -> 0 .. MaxLockId] /\ owner_type \in [Owners -> {0, 2, 3, 4}]
    /\ owner_id \in [Owners -> 0 .. MaxLockId]
    /\ allocated \in [Addresses -> 0 .. MaxLockId] /\ twice \in BOOLEAN

\* A lock is free or has a use, and a use has a lock of its own: locks that are to be used
\* again are not valid, not those of a SUB, an image or an array, and there once.
LocksExact ==
    /\ IsInjective(mem_lock_freed)
    /\ \A i \in DOMAIN mem_lock_freed : mem_lock[mem_lock_freed[i]].id = 0
    /\ \A o, p \in Owners : owner_lock[o] # 0 =>
         /\ owner_lock[o] \notin Range(mem_lock_freed)
         /\ mem_lock[owner_lock[o]].type = owner_type[o]
         /\ owner_lock[o] = owner_lock[p] => o = p

\* free() is called for memory that the block allocated, and once: also after copies of the
\* block, and when its lock was used again.
FreedOnce == ~twice

\* A block that _MEMEXISTS says is there may be used: its memory is still allocated, its SUB
\* still runs, its image is not freed, its array is not moved; whatever copies there are.
ValidIsThere ==
    \A v \in MemVars :
        LET l == mem_var[v].lock_offset
        IN  Valid(mem_var[v]) =>
                /\ mem_lock[l].type = 1 => allocated[mem_lock[l].offset] = mem_var[v].lock_id
                /\ mem_lock[l].type \in {2, 3, 4} => \E o \in Owners : owner_lock[o] = l

\* A block is valid by the lock it was made with, and by no later use of that lock.
BlocksExact == LocksExact /\ FreedOnce /\ ValidIsThere
=============================================================================
