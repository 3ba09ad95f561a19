-------------------------------- MODULE Qbs --------------------------------
(***************************************************************************)
(* The heap of strings.  Strings lie in one array of bytes, qbs_data, in   *)
(* the order of qbs_list; holes are closed, and the array grows, when a    *)
(* new string does not fit.  Temporaries are listed once more, in          *)
(* qbs_tmp_list, to be freed at the end of the statement.                  *)
(* (internal/c/libqb/src/qbs.cpp, string_functions.cpp, include/qbs.h)     *)
(*                                                                         *)
(* Abstractions.  A string is where it lies and how long it is, not what   *)
(* it says: copying is right if the copies do not overlap other strings,   *)
(* and that is what is checked.  Strings that are not in qbs_data          *)
(* (constants, strings of fixed length) differ in nothing else.  Which     *)
(* free descriptor a new string takes is left open.  List positions count  *)
(* from 1: entry 0 of qbs_tmp_list, which main() fills (libqb.cpp:28872),  *)
(* is never removed and is left out, as is the growth of that list, which  *)
(* moves nothing.  Strings in conventional memory are not modelled; FIELD  *)
(* strings are in module Files.                                            *)
(***************************************************************************)
EXTENDS Integers, SequencesExt

CONSTANTS
    Strings,      \* descriptors; their number bounds the strings at a time
    Hole,         \* -1 in a list
    MaxLen,       \* bound: length of a string
    MaxTmps,      \* bound: length of qbs_tmp_list
    Pad,          \* the bytes left free after a new string (32)
    DataSize,     \* qbs_data_size at first (1048576)
    ListLast,     \* qbs_list_lasti at first (65535)
    MaxSize,      \* bound: data_size
    MaxLast       \* bound: qbs_list_lasti

ASSUME QbsAssumption ==
    /\ Hole \notin Strings
    /\ {MaxLen, MaxTmps, Pad, DataSize, MaxSize, MaxLast} \subseteq Nat
    /\ ListLast \in Nat \ {0}

VARIABLES
    str,        \* the descriptors
    qbs_list,   \* strings in qbs_data, or Hole; its length is qbs_list_nexti
    lasti,      \* qbs_list_lasti
    tmp_list,   \* temporaries, or Hole; its length is qbs_tmp_list_nexti - 1
    qbs_sp,     \* where the next string goes
    data_size

qbsVars == <<str, qbs_list, lasti, tmp_list, qbs_sp, data_size>>

NoString == [live |-> FALSE, heap |-> FALSE, tmp |-> FALSE, chr |-> 0, len |-> 0,
             listi |-> 0, tmplisti |-> 0]

\* The functions below take the variables as one record and return it changed.
State == [str |-> str, list |-> qbs_list, lasti |-> lasti, tmps |-> tmp_list, sp |-> qbs_sp,
          size |-> data_size]

Become(h) ==
    /\ h.size <= MaxSize /\ h.lasti <= MaxLast
    /\ str' = h.str /\ qbs_list' = h.list /\ lasti' = h.lasti
    /\ tmp_list' = h.tmps /\ qbs_sp' = h.sp /\ data_size' = h.size

QbsInit ==
    /\ str = [s \in Strings |-> NoString]
    /\ qbs_list = <<>> /\ lasti = ListLast
    /\ tmp_list = <<>>
    /\ qbs_sp = 0 /\ data_size = DataSize

-----------------------------------------------------------------------------
(* The functions of qbs.cpp.                                               *)

End(h, s) == h.str[s].chr + h.str[s].len

Without(list, i) == [j \in DOMAIN list |-> IF j = i THEN Hole ELSE list[j]]

\* Without the holes at the end.
Trim(list) == SubSeq(list, 1, Max({0} \cup {j \in DOMAIN list : list[j] # Hole}))

\* Where the strings listed up to each entry end after qbs_concat(): they move down
\* over gaps above Pad.
PackedEnd(h) ==
    LET end[i \in 0 .. Len(h.list)] ==
          IF i = 0 THEN 0
          ELSE IF h.list[i] = Hole THEN end[i - 1]
          ELSE IF h.str[h.list[i]].chr - end[i - 1] > Pad
               THEN end[i - 1] + h.str[h.list[i]].len
               ELSE End(h, h.list[i])
    IN  end

Listed(h, s) == h.str[s].listi \in DOMAIN h.list /\ h.list[h.str[s].listi] = s

Pack(h) ==
    LET end == PackedEnd(h)
    IN  [h EXCEPT !.str = [s \in Strings |->
                              IF Listed(h, s)
                              THEN [h.str[s] EXCEPT !.chr = end[h.str[s].listi] - h.str[s].len]
                              ELSE h.str[s]],
                  !.sp = IF h.list = <<>> THEN @ ELSE end[Len(h.list)]]

\* qbs_concat()
Concat(h, bytes) ==
    LET p == Pack(h)
    IN  IF 2 * p.sp + bytes + Pad >= p.size THEN [p EXCEPT !.size = 2 * @ + bytes] ELSE p

\* Mutant of Renumber: the strings are not told.
RenumberNot(h, list) == h.str

\* The strings' indices after their list changed.
Renumber(h, list) ==
    [s \in Strings |-> IF Listed(h, s)
                       THEN [h.str[s] EXCEPT !.listi = CHOOSE i \in DOMAIN list : list[i] = s]
                       ELSE h.str[s]]

\* Without any holes.
WithoutHoles(list) ==
    LET kept[i \in 0 .. Len(list)] ==
          IF i = 0 THEN <<>>
          ELSE IF list[i] = Hole THEN kept[i - 1] ELSE Append(kept[i - 1], list[i])
    IN  kept[Len(list)]

\* qbs_concat_list()
ConcatList(h) ==
    LET list == WithoutHoles(h.list)
    IN  [h EXCEPT !.list = list,
                  !.str = Renumber(h, list),
                  !.lasti = IF Len(list) >= @ \div 2 THEN 2 * @ ELSE @]

\* At the end of qbs_list.
Enlist(h, s) ==
    LET g == IF Len(h.list) > h.lasti THEN ConcatList(h) ELSE h
    IN  [g EXCEPT !.list = Append(@, s), !.str[s].listi = Len(g.list) + 1]

\* qbs_maketmp()
MakeTmp(h, s) ==
    [h EXCEPT !.tmps = Append(@, s), !.str[s].tmp = TRUE, !.str[s].tmplisti = Len(h.tmps) + 1]

\* qbs_new(), without a list of temporaries.
New(h, s, len) ==
    LET g == IF h.sp + len + Pad > h.size THEN Concat(h, len + Pad) ELSE h
    IN  Enlist([g EXCEPT !.str[s] = [NoString EXCEPT !.live = TRUE, !.heap = TRUE,
                                                     !.chr = g.sp, !.len = len],
                         !.sp = @ + len + Pad], s)

\* qbs_new_txt(), qbs_new_fixed()
Outside(h, s, len) == [h EXCEPT !.str[s] = [NoString EXCEPT !.live = TRUE, !.len = len]]

\* Mutant of TopAfter: the place of the string freed.
TopAfterOwn(h, s, list) == h.str[s].chr

\* qbs_sp after a string was freed.
TopAfter(h, s, list) ==
    IF list = <<>> THEN 0 ELSE Min({End(h, list[Len(list)]) + Pad, h.size})

\* qbs_free()
Free(h, s) ==
    LET tmps == IF h.str[s].tmp THEN Trim(Without(h.tmps, h.str[s].tmplisti)) ELSE h.tmps
        list == Trim(Without(h.list, h.str[s].listi))
        g == [h EXCEPT !.tmps = tmps, !.str[s] = NoString]
    IN  IF h.str[s].heap THEN [g EXCEPT !.list = list, !.sp = TopAfter(h, s, list)] ELSE g

FreeIfTmp(h, s) == IF h.str[s].tmp THEN Free(h, s) ELSE h

\* Mutant of TakenOver: the list of temporaries keeps it.
TakenKept(tmps, i) == tmps

\* A temporary that became a variable leaves its list.
TakenOver(tmps, i) == IF i = Len(tmps) THEN Front(tmps) ELSE Without(tmps, i)

\* qbs_set(), first case: the variable acquires what a temporary has.
Acquire(h, d, s) ==
    [h EXCEPT !.list = [Without(h.list, h.str[d].listi) EXCEPT ![h.str[s].listi] = d],
              !.tmps = TakenOver(h.tmps, h.str[s].tmplisti),
              !.str[d].listi = h.str[s].listi,
              !.str[d].chr = h.str[s].chr,
              !.str[d].len = h.str[s].len,
              !.str[s] = NoString]

\* Last case: a new place for the variable.
Realloc(h, d, len) ==
    LET u == [h EXCEPT !.list = Without(@, h.str[d].listi)]
        g == IF u.sp + len > u.size THEN Concat(u, len) ELSE u
        e == Enlist(g, d)
    IN  [e EXCEPT !.str[d].chr = g.sp, !.str[d].len = len, !.sp = @ + len]

\* The strings listed after d, except for the temporary that is being assigned.
RoomAfter(h, d, s) == {i \in h.str[d].listi + 1 .. Len(h.list) :
                      h.list[i] # Hole /\ ~(h.list[i] = s /\ h.str[s].tmp)}

\* Mutant of FitsBefore: off by one.
FitsBeforeWrong(h, d, len, t) == h.str[d].chr + len <= h.str[t].chr + 1

FitsBefore(h, d, len, t) == h.str[d].chr + len <= h.str[t].chr

\* The string grows where it is, as the last of the list, or before the next.
GrowInPlace(h, d, s) ==
    LET len == h.str[s].len  after == RoomAfter(h, d, s)
        last == [h EXCEPT !.list = SubSeq(@, 1, h.str[d].listi)]
        longer == [h EXCEPT !.str[d].len = len]
    IN  IF after # {}
        THEN IF FitsBefore(h, d, len, h.list[Min(after)]) THEN longer ELSE Realloc(h, d, len)
        ELSE IF h.str[d].chr + len <= h.size
             THEN [longer EXCEPT !.list = last.list, !.sp = h.str[d].chr + len]
             ELSE Realloc(last, d, len)

\* qbs_set()
Set(h, d, s) ==
    IF ~h.str[d].heap THEN FreeIfTmp(h, s)
    ELSE IF h.str[s].tmp /\ h.str[s].heap THEN Acquire(h, d, s)
    ELSE IF h.str[s].len <= h.str[d].len
         THEN FreeIfTmp([h EXCEPT !.str[d].len = h.str[s].len], s)
    ELSE FreeIfTmp(GrowInPlace(h, d, s), s)

\* qbs_left(), qbs_right(), func_mid(): a part of a string.
Part(h, s, t, from, len) ==
    IF len = h.str[s].len THEN h
    ELSE IF h.str[s].tmp /\ h.str[s].heap
         THEN [h EXCEPT !.str[s].chr = @ + from, !.str[s].len = len]
    ELSE FreeIfTmp(MakeTmp(New(h, t, len), t), s)

\* One turn of qbs_cleanup(), for the entry i.
CleanupEntry(h, i) ==
    LET popped == [h EXCEPT !.tmps = Front(@)]
    IN  IF Len(h.tmps) < i THEN h
        ELSE IF Last(h.tmps) = Hole THEN popped ELSE Free(popped, Last(h.tmps))

\* qbs_cleanup(): from the last entry down to the one at base.
Cleanup(h, base) ==
    LET n == Len(h.tmps)
        after[i \in 0 .. n] == IF i = 0 THEN h ELSE CleanupEntry(after[i - 1], n - i + 1)
    IN  after[n - base + 1]

-----------------------------------------------------------------------------
(* What a program does with them.  A temporary is used once.               *)

Live == {s \in Strings : str[s].live}
Variables == {s \in Live : ~str[s].tmp}
MayMakeTmp == Len(tmp_list) < MaxTmps

\* A variable of a function or a parameter; one of fixed length.
NewVariable(f, len) == Become(New(State, f, len))
NewFixed(f, len) == Become(Outside(State, f, len))

\* Results of functions, and constants.
NewTmp(f, len) == MayMakeTmp /\ Become(MakeTmp(New(State, f, len), f))
NewText(f, len) == MayMakeTmp /\ Become(MakeTmp(Outside(State, f, len), f))

\* The end of a function frees its variables, but for the one it returns.
FreeVariable(s) == s \in Variables /\ Become(Free(State, s))
Return(s) ==
    /\ s \in Variables /\ str[s].heap
    /\ Len(tmp_list) < MaxTmps
    /\ Become(MakeTmp(State, s))

Assign(d, s) ==
    /\ d \in Variables /\ s \in Live
    /\ Become(Set(State, d, s))

\* qbs_add()
Add(f, s1, s2) ==
    /\ MayMakeTmp /\ {s1, s2} \subseteq Live
    /\ s1 = s2 => s1 \in Variables
    /\ str[s1].len # 0 /\ str[s2].len # 0 /\ str[s1].len + str[s2].len <= MaxLen
    /\ LET h == MakeTmp(New(State, f, str[s1].len + str[s2].len), f)
       IN  Become(FreeIfTmp(FreeIfTmp(h, s1), s2))

\* qbs_ucase(), qbs_lcase(): a copy, unless it can be done in place.
Copy(f, s) ==
    /\ MayMakeTmp /\ s \in Live
    /\ str[s].len # 0 /\ ~(str[s].tmp /\ str[s].heap)
    /\ Become(FreeIfTmp(MakeTmp(New(State, f, str[s].len), f), s))

\* Mutant of Clip: too long a part is not shortened.
ClipLow(l, len) == IF l < 0 THEN 0 ELSE l

Clip(l, len) == IF l < 0 THEN 0 ELSE IF l > len THEN len ELSE l

Left(f, s, l) ==
    /\ MayMakeTmp /\ s \in Live
    /\ Become(Part(State, s, f, 0, Clip(l, str[s].len)))

Right(f, s, l) ==
    /\ MayMakeTmp /\ s \in Live
    /\ LET n == Clip(l, str[s].len)
       IN  Become(Part(State, s, f, str[s].len - n, n))

\* MID$, here with a start in the string.
Mid(f, s, start, l) ==
    /\ MayMakeTmp /\ s \in Live
    /\ start \in 1 .. str[s].len
    /\ Become(Part(State, s, f, start - 1,
                   IF start + l > str[s].len THEN str[s].len - start + 1 ELSE l))

CleanupFrom(base) == base \in 1 .. Len(tmp_list) /\ Become(Cleanup(State, base))

QbsNext ==
    \/ \E f \in Strings \ Live :
          \/ \E l \in 0 .. MaxLen :
                NewVariable(f, l) \/ NewFixed(f, l) \/ NewTmp(f, l) \/ NewText(f, l)
          \/ \E s \in Strings : Copy(f, s)
          \/ \E s, t \in Strings : Add(f, s, t)
          \/ \E s \in Strings, l \in -1 .. MaxLen + 1 : Left(f, s, l) \/ Right(f, s, l)
          \/ \E s \in Strings, start, l \in 1 .. MaxLen : Mid(f, s, start, l)
    \/ \E s \in Strings : FreeVariable(s) \/ Return(s)
    \/ \E s, t \in Strings : Assign(s, t)
    \/ \E base \in 1 .. MaxTmps : CleanupFrom(base)

QbsSpec == QbsInit /\ [][QbsNext]_qbsVars

-----------------------------------------------------------------------------
\* Types of all variables.
QbsTypeOK ==
    /\ str \in [Strings -> [live : BOOLEAN, heap : BOOLEAN, tmp : BOOLEAN, chr : Nat, len : Nat,
                            listi : Nat, tmplisti : Nat]]
    /\ qbs_list \in Seq(Strings \cup {Hole}) /\ tmp_list \in Seq(Strings \cup {Hole})
    /\ {lasti, qbs_sp, data_size} \subseteq Nat

\* Strings in qbs_data do not overlap: they lie in the order of qbs_list, the last
\* ends before the place for the next, and that is in qbs_data.
Ordered ==
    /\ \A i, j \in DOMAIN qbs_list :
          i < j /\ qbs_list[i] # Hole /\ qbs_list[j] # Hole =>
             End(State, qbs_list[i]) <= str[qbs_list[j]].chr
    /\ \A i \in DOMAIN qbs_list : qbs_list[i] # Hole => End(State, qbs_list[i]) <= qbs_sp
    /\ qbs_sp <= data_size

\* Each string in qbs_data has one entry of qbs_list, which fits its array.
ListExact ==
    /\ \A s \in Strings : str[s].live /\ str[s].heap <=> Listed(State, s)
    /\ \A i \in DOMAIN qbs_list : qbs_list[i] # Hole => str[qbs_list[i]].listi = i
    /\ Len(qbs_list) <= lasti + 1

\* qbs_cleanup() will free each temporary, once, and nothing else.
TmpListExact ==
    /\ \A s \in Live : str[s].tmp =>
          str[s].tmplisti \in DOMAIN tmp_list /\ tmp_list[str[s].tmplisti] = s
    /\ \A i \in DOMAIN tmp_list : tmp_list[i] # Hole =>
          LET s == tmp_list[i] IN str[s].live /\ str[s].tmp /\ str[s].tmplisti = i

\* Both lists index the heap as they should.
ListsExact == ListExact /\ TmpListExact
=============================================================================
