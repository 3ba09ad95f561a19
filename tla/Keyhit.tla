------------------------------- MODULE Keyhit -------------------------------
(***************************************************************************)
(* _KEYHIT's cyclic buffer.  The window's thread puts key events in and    *)
(* drops the oldest if it is full; the program takes them out, or clears   *)
(* it with _KEYCLEAR 2.  There is no lock.  (internal/c/libqb.cpp)         *)
(*                                                                         *)
(* Abstractions.  Events are numbers.  What a key does besides is left     *)
(* out. Loads and stores of the two indices are steps.                     *)
(***************************************************************************)
EXTENDS Integers

CONSTANTS
    KeyhitSize,     \* 8192 in the code
    MaxKeys         \* bound: key events

ASSUME KeyhitAssumption == KeyhitSize \in Nat \ {0, 1} /\ MaxKeys \in Nat

VARIABLES
    keyhit, keyhit_nextfree, keyhit_next,
    kw_pc, kw_next, kw_z,       \* the window: its place, a value of keyhit_next, and z
    kr_pc, kr_next, kr_x,       \* the program: its place, a value of keyhit_next, and x
    key_events,                 \* history: events that were put in,
    key_hit, key_cleared,       \* the one taken out last, the last one before _KEYCLEAR,
    key_overlaps                \* and what the other thread did not keep away from

keyBuffer == <<keyhit, keyhit_nextfree, keyhit_next>>
keyWriter == <<kw_pc, kw_next, kw_z>>
keyReader == <<kr_pc, kr_next, kr_x>>
keyhitVars == <<keyBuffer, keyWriter, keyReader, key_events, key_hit, key_cleared, key_overlaps>>

KeyhitInit ==
    /\ keyhit = [i \in 0 .. KeyhitSize - 1 |-> 0] /\ keyhit_nextfree = 0 /\ keyhit_next = 0
    /\ kw_pc = "idle" /\ kw_next = 0 /\ kw_z = 0
    /\ kr_pc = "idle" /\ kr_next = 0 /\ kr_x = 0
    /\ key_events = 0 /\ key_hit = 0 /\ key_cleared = 0 /\ key_overlaps = {}

\* Mutant of KeyAfter: without the mask.
KeyAfterPast(i) == IF i < KeyhitSize - 1 THEN i + 1 ELSE i

KeyAfter(i) == (i + 1) % KeyhitSize

\* History: a drop of the oldest event met a read, or a clear met a new event.
Overlaps(what, met) == key_overlaps' = key_overlaps \union {w \in {what} : met}
Apart == UNCHANGED key_overlaps

-----------------------------------------------------------------------------
(* keydown(), keyup().                                                     *)

WriterKeeps == UNCHANGED <<keyReader, key_hit, key_cleared>>

Key ==
    /\ kw_pc = "idle" /\ key_events < MaxKeys
    /\ Overlaps("clear", kr_pc = "clear")
    /\ kw_z' = KeyAfter(keyhit_nextfree)
    /\ kw_pc' = "test"
    /\ UNCHANGED <<keyBuffer, kw_next, key_events>> /\ WriterKeeps

\* Mutant of Full: the new event goes over the oldest, the index stays.
FullKeeps ==
    /\ kw_pc = "test"
    /\ kw_pc' = "put" /\ Apart
    /\ UNCHANGED <<keyBuffer, kw_next, kw_z, key_events>> /\ WriterKeeps

\* z == keyhit_next
Full ==
    /\ kw_pc = "test"
    /\ Overlaps("drop", kw_z = keyhit_next /\ kr_pc # "idle")
    /\ kw_pc' = IF kw_z = keyhit_next THEN "drop" ELSE "put"
    /\ UNCHANGED <<keyBuffer, kw_next, kw_z, key_events>> /\ WriterKeeps

DropLoad ==
    /\ kw_pc = "drop" /\ Apart
    /\ kw_next' = KeyAfter(keyhit_next)
    /\ kw_pc' = "dropped"
    /\ UNCHANGED <<keyBuffer, kw_z, key_events>> /\ WriterKeeps

DropStore ==
    /\ kw_pc = "dropped" /\ Apart
    /\ keyhit_next' = kw_next
    /\ kw_next' = 0 /\ kw_pc' = "put"
    /\ UNCHANGED <<keyhit, keyhit_nextfree, kw_z, key_events>> /\ WriterKeeps

PutKey ==
    /\ kw_pc = "put" /\ Apart
    /\ keyhit' = [keyhit EXCEPT ![keyhit_nextfree] = key_events + 1]
    /\ key_events' = key_events + 1
    /\ kw_pc' = "publish"
    /\ UNCHANGED <<keyhit_nextfree, keyhit_next, kw_next, kw_z>> /\ WriterKeeps

PublishKey ==
    /\ kw_pc = "publish" /\ Apart
    /\ keyhit_nextfree' = kw_z
    /\ kw_z' = 0 /\ kw_pc' = "idle"
    /\ UNCHANGED <<keyhit, keyhit_next, kw_next, key_events>> /\ WriterKeeps

-----------------------------------------------------------------------------
(* func__keyhit() and _KEYCLEAR 2.                                         *)

ReaderKeeps == UNCHANGED <<keyhit, keyWriter, key_events>>

Read ==
    /\ kr_pc = "idle" /\ keyhit_next # keyhit_nextfree
    /\ Overlaps("drop", kw_pc \in {"drop", "dropped"})
    /\ kr_pc' = "read"
    /\ UNCHANGED <<keyhit_nextfree, keyhit_next, kr_next, kr_x, key_hit,
                   key_cleared>> /\ ReaderKeeps

\* Mutant of ReadKey: the entry after the one it is at.
ReadKeyNext ==
    /\ kr_pc = "read" /\ Apart
    /\ kr_x' = keyhit[KeyAfter(keyhit_next)]
    /\ kr_pc' = "next"
    /\ UNCHANGED <<keyhit_nextfree, keyhit_next, kr_next, key_hit, key_cleared>> /\ ReaderKeeps

ReadKey ==
    /\ kr_pc = "read" /\ Apart
    /\ kr_x' = keyhit[keyhit_next]
    /\ kr_pc' = "next"
    /\ UNCHANGED <<keyhit_nextfree, keyhit_next, kr_next, key_hit, key_cleared>> /\ ReaderKeeps

NextLoad ==
    /\ kr_pc = "next" /\ Apart
    /\ kr_next' = KeyAfter(keyhit_next)
    /\ kr_pc' = "store"
    /\ UNCHANGED <<keyhit_nextfree, keyhit_next, kr_x, key_hit, key_cleared>> /\ ReaderKeeps

NextStore ==
    /\ kr_pc = "store" /\ Apart
    /\ keyhit_next' = kr_next
    /\ key_hit' = kr_x
    /\ kr_next' = 0 /\ kr_x' = 0 /\ kr_pc' = "idle"
    /\ UNCHANGED <<keyhit_nextfree, key_cleared>> /\ ReaderKeeps

KeyClear ==
    /\ kr_pc = "idle"
    /\ Overlaps("clear", kw_pc # "idle")
    /\ keyhit_nextfree' = 0 /\ key_cleared' = key_events
    /\ kr_pc' = "clear"
    /\ UNCHANGED <<keyhit_next, kr_next, kr_x, key_hit>> /\ ReaderKeeps

KeyCleared ==
    /\ kr_pc = "clear" /\ Apart
    /\ keyhit_next' = 0
    /\ kr_pc' = "idle"
    /\ UNCHANGED <<keyhit_nextfree, kr_next, kr_x, key_hit, key_cleared>> /\ ReaderKeeps

KeyhitNext ==
    \/ Key \/ Full \/ DropLoad \/ DropStore \/ PutKey \/ PublishKey
    \/ Read \/ ReadKey \/ NextLoad \/ NextStore \/ KeyClear \/ KeyCleared

KeyhitSpec == KeyhitInit /\ [][KeyhitNext]_keyhitVars

-----------------------------------------------------------------------------
(* Properties.                                                             *)

KeyWaits(e) ==
    /\ e > key_hit                              \* not taken out
    /\ e > key_cleared                          \* not cleared
    /\ e > key_events - (KeyhitSize - 1)        \* not dropped, as long as there is room

\* What is in the buffer is, in order, every event that was not taken out, not cleared
\* and not pushed out by KeyhitSize - 1 later ones, and no other.
KeysWaiting ==
    LET n == (keyhit_nextfree - keyhit_next) % KeyhitSize
    IN  kw_pc = "idle" /\ kr_pc = "idle" =>
            /\ \A i \in 1 .. n :
                 keyhit[(keyhit_next + i - 1) % KeyhitSize] = key_events - n + i
            /\ {e \in 1 .. key_events : KeyWaits(e)} = key_events - n + 1 .. key_events

\* Up to the first time that a drop meets a read, or a clear meets a new event, the buffer
\* needs no lock: events put in while others are taken out come in order, none twice, and
\* none is lost but to a full buffer or _KEYCLEAR.
KeysInOrder ==
    key_overlaps = {} => KeysWaiting /\ (kr_pc \in {"next", "store"} => kr_x > key_hit)

\* "if full, the oldest message is discarded to make way for the new message"
\* (libqb.cpp:1008), also while the program reads; clears aside.
OldestDiscarded == "clear" \notin key_overlaps => KeysWaiting
=============================================================================
