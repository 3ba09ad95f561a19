-------------------------------- MODULE Files --------------------------------
(***************************************************************************)
(* File numbers, files and FIELD strings.  OPEN gives a number a file,     *)
(* which has the number in turn; files that were closed are used again.  A *)
(* file opened FOR RANDOM has a record; FIELD makes strings parts of it,   *)
(* GET reads it, and LSET of one of the strings writes to it and updates   *)
(* the others. (internal/c/libqb/src/gfs.cpp, file-fields.cpp,             *)
(* string_functions.cpp, internal/c/libqb.cpp)                             *)
(*                                                                         *)
(* Abstractions.  Handles count from 1.  Bytes are numbers; NUL and the    *)
(* space are both 0, SCRN: is not opened FOR RANDOM.  What is in a file,   *)
(* and where one reads, is left out: GET may find any record, PUT of a     *)
(* record changes nothing here.  Of the ways to open a file there are      *)
(* those that OPEN and FIELD tell apart.                                   *)
(***************************************************************************)
EXTENDS SequencesExt

CONSTANTS
    FieldStrings,   \* the program's string variables
    FileNumbers,    \* numbers the program uses
    Words,          \* texts that are assigned, LSET or read; a byte is a number
    RecordLength,   \* of every file: LEN = RecordLength
    MaxFiles,       \* bound: files that are made
    Detaches        \* strings may be freed, or be in a FIELD again, while their file is open

ASSUME FilesAssumption ==
    /\ FileNumbers \subseteq Nat \ {0} /\ Words \subseteq Seq(Nat)
    /\ RecordLength \in Nat /\ MaxFiles \in Nat /\ Detaches \in BOOLEAN

VARIABLES
    gfs_file,       \* [id, open, scrn, fileno, random, field_buffer, field_strings]
    gfs_freed,      \* handles to be used again
    gfs_fileno,     \* for each number up to gfs_fileno_n a handle, or -1
    gfs_nextid,
    field_str,      \* the strings: [live, chr, field]
    field_fileno, field_totalsize,  \* of the last FIELD that began; number 0: over or failed
    closing_i,      \* the number that gfs_close_all_files() is at, 0 if it does not run
    assigned        \* history: FIELD strings that got another value by an assignment

fileTable == <<gfs_file, gfs_freed, gfs_fileno, gfs_nextid>>
fielding == <<field_fileno, field_totalsize>>
fieldVars == <<field_str, fielding, assigned>>
filesVars == <<fileTable, fieldVars, closing_i>>

\* Statements run one after the other, except that a FUNCTION in the width of a FIELD runs
\* others, also another FIELD, between field_new() and field_add().
Idle == closing_i = 0

NoField == [fileno |-> 0, fileid |-> 0, size |-> 0, offset |-> 0]
NoFieldString == [live |-> FALSE, chr |-> <<>>, field |-> NoField]

FilesInit ==
    /\ gfs_file = <<>> /\ gfs_freed = <<>> /\ gfs_fileno = <<>> /\ gfs_nextid = 1
    /\ field_str = [s \in FieldStrings |-> NoFieldString]
    /\ field_fileno = 0 /\ field_totalsize = 0 /\ assigned = {} /\ closing_i = 0

-----------------------------------------------------------------------------
(* OPEN and CLOSE.                                                         *)

\* The table of numbers after a look at f: it grows to have it.
Looked(f) == gfs_fileno \o [n \in 1 .. f - Len(gfs_fileno) |-> -1]

\* gfs_fileno_valid(f) = 1
InUse(f) == f \in DOMAIN gfs_fileno /\ gfs_fileno[f] # -1

NewFile(f, random, scrn) ==
    [id |-> gfs_nextid, open |-> ~scrn, scrn |-> scrn, fileno |-> f, random |-> random,
     field_buffer |-> IF random THEN [b \in 1 .. RecordLength |-> 0] ELSE <<>>,
     field_strings |-> <<>>]

\* Mutant of NewHandle: the number of handles is not counted.
NewHandleFirst == IF gfs_freed = <<>> THEN 1 ELSE Last(gfs_freed)

\* gfs_new(): a handle that was freed last, or the next.
NewHandle == IF gfs_freed = <<>> THEN Len(gfs_file) + 1 ELSE Last(gfs_freed)

\* gfs_file[i] = file, which may be the first at i.
Stored(i, file) ==
    IF i > Len(gfs_file) THEN Append(gfs_file, file) ELSE [gfs_file EXCEPT ![i] = file]

Make(file) ==
    /\ gfs_nextid <= MaxFiles
    /\ gfs_file' = Stored(NewHandle, file)
    /\ gfs_freed' = IF gfs_freed = <<>> THEN <<>> ELSE Front(gfs_freed)
    /\ gfs_nextid' = gfs_nextid + 1

\* sub_open()
Open(f, random, scrn) ==
    /\ Idle /\ ~InUse(f) /\ ~(random /\ scrn)
    /\ Make(NewFile(f, random, scrn))
    /\ gfs_fileno' = [Looked(f) EXCEPT ![f] = NewHandle]
    /\ UNCHANGED <<fieldVars, closing_i>>

\* The file cannot be opened.  It does not get a number, and gfs_free() does not take
\* its handle, as it is not open.
OpenFails(f) ==
    /\ Idle /\ ~InUse(f)
    /\ Make([NewFile(0, FALSE, FALSE) EXCEPT !.open = FALSE])
    /\ gfs_fileno' = Looked(f)
    /\ UNCHANGED <<fieldVars, closing_i>>

\* A number that is not in use, and one that is: CLOSE and OPEN look at it, and so do the
\* other statements on files.
Look(f) ==
    /\ Idle
    /\ gfs_fileno' = Looked(f)
    /\ UNCHANGED <<gfs_file, gfs_freed, gfs_nextid, fieldVars, closing_i>>

\* What gfs_close() leaves of a file.
Closed(file) ==
    [file EXCEPT !.open = FALSE, !.field_buffer = <<>>, !.field_strings = <<>>]

\* Mutant of CloseNumber: the number is not given back.
CloseNumberKeeps(f) ==
    LET i == gfs_fileno[f]
    IN  /\ gfs_file' = [gfs_file EXCEPT ![i] = Closed(@)]
        /\ gfs_freed' = Append(gfs_freed, i)
        /\ UNCHANGED gfs_fileno

\* Mutant of CloseNumber: it is cleared, but 0 is not -1.
CloseNumberZero(f) ==
    LET i == gfs_fileno[f]
    IN  /\ gfs_file' = [gfs_file EXCEPT ![i] = Closed(@)]
        /\ gfs_freed' = Append(gfs_freed, i)
        /\ gfs_fileno' = [gfs_fileno EXCEPT ![gfs_file[i].fileno] = 0]

CloseNumber(f) ==
    LET i == gfs_fileno[f]
    IN  /\ gfs_file' = [gfs_file EXCEPT ![i] = Closed(@)]
        /\ gfs_freed' = Append(gfs_freed, i)
        /\ gfs_fileno' = [gfs_fileno EXCEPT ![gfs_file[i].fileno] = -1]

\* sub_close()
Close(f) ==
    /\ Idle /\ InUse(f)
    /\ CloseNumber(f)
    /\ UNCHANGED <<gfs_nextid, fieldVars, closing_i>>

\* gfs_close_all_files(), number by number: CLOSE, RESET, CLEAR and the end of the program.
CloseAll ==
    /\ Idle
    /\ closing_i' = 1
    /\ UNCHANGED <<fileTable, fieldVars>>

CloseAllNext ==
    /\ closing_i # 0
    /\ closing_i' = IF closing_i > Len(gfs_fileno) THEN 0 ELSE closing_i + 1
    /\ IF InUse(closing_i) THEN CloseNumber(closing_i)
                          ELSE UNCHANGED <<gfs_file, gfs_freed, gfs_fileno>>
    /\ UNCHANGED <<gfs_nextid, fieldVars>>

-----------------------------------------------------------------------------
(* FIELD strings.                                                          *)

RecordPart(buffer, field) == SubSeq(buffer, field.offset + 1, field.offset + field.size)

\* Mutant of Updated: only the string that was listed first.
UpdatedFirst(strs, file) ==
    [s \in FieldStrings |-> IF file.field_strings # <<>> /\ s = file.field_strings[1]
                            THEN [strs[s] EXCEPT
                                    !.chr = RecordPart(file.field_buffer, strs[s].field)]
                            ELSE strs[s]]

\* field_update(): the strings listed at the file get their parts of the record.
Updated(strs, file) ==
    [s \in FieldStrings |-> IF s \in Range(file.field_strings)
                            THEN [strs[s] EXCEPT
                                    !.chr = RecordPart(file.field_buffer, strs[s].field)]
                            ELSE strs[s]]

\* A number that is valid for FIELD and GET.
IsRandom(f) == InUse(f) /\ gfs_file[gfs_fileno[f]].random

\* Mutant of Current: whatever file has the number now.
CurrentNumber(field) == IsRandom(field.fileno)

\* Is the file still open that the string was a field of?
Current(field) ==
    /\ IsRandom(field.fileno)
    /\ gfs_file[gfs_fileno[field.fileno]].id = field.fileid

\* A string is taken out, those after it move up; the count stays, so that the last
\* is there twice, or the string itself if it was the last.
TakenOut(ss, s) ==
    LET k == CHOOSE k \in DOMAIN ss : ss[k] = s
    IN  [j \in DOMAIN ss |-> IF j < k \/ j = Len(ss) THEN ss[j] ELSE ss[j + 1]]

\* field_free(), as for the files.
Unlisted(s) ==
    LET field == field_str[s].field
        i == gfs_fileno[field.fileno]
    IN  IF field # NoField /\ Current(field) /\ s \in Range(gfs_file[i].field_strings)
        THEN [gfs_file EXCEPT ![i].field_strings = TakenOut(@, s)]
        ELSE gfs_file

MayDetach(s) == Detaches \/ ~Current(field_str[s].field)

\* field_new()
FieldNew(f) ==
    /\ Idle
    /\ gfs_fileno' = Looked(f)
    /\ field_fileno' = (IF IsRandom(f) THEN f ELSE 0) /\ field_totalsize' = 0
    /\ UNCHANGED <<gfs_file, gfs_freed, gfs_nextid, field_str, assigned, closing_i>>

\* Mutant of FieldOf: the file is known by its handle, which is used again.
FieldOfHandle(f, size) ==
    [fileno |-> f, fileid |-> gfs_fileno[f], size |-> size, offset |-> field_totalsize]

FieldOf(f, size) ==
    [fileno |-> f, fileid |-> gfs_file[gfs_fileno[f]].id, size |-> size,
     offset |-> field_totalsize]

\* field_add(), of a number that is still or again that of a file FOR RANDOM.
FieldAdd(s, size) ==
    LET i == gfs_fileno[field_fileno]
        files == [Unlisted(s) EXCEPT ![i].field_strings = Append(@, s)]
        strs == [field_str EXCEPT ![s].field = FieldOf(field_fileno, size)]
    IN  /\ Idle /\ field_fileno # 0 /\ field_totalsize + size <= RecordLength
        /\ IsRandom(field_fileno)
        /\ field_str[s].live /\ MayDetach(s)
        /\ gfs_file' = files
        /\ field_str' = Updated(strs, files[i])
        /\ assigned' = assigned \ Range(files[i].field_strings)
        /\ field_totalsize' = field_totalsize + size
        /\ UNCHANGED <<gfs_freed, gfs_fileno, gfs_nextid, field_fileno, closing_i>>

\* The end of the statement, a string that does not fit, or a number that is no longer
\* valid: the rest is ignored.
FieldEnd ==
    /\ Idle /\ field_fileno # 0
    /\ field_fileno' = 0 /\ field_totalsize' = 0
    /\ UNCHANGED <<fileTable, field_str, assigned, closing_i>>

\* field_get(), if it can read.
GetRecord(f, record) ==
    /\ Idle /\ Len(record) = RecordLength
    /\ IsRandom(f)
    /\ LET i == gfs_fileno[f]
       IN  /\ gfs_file' = [gfs_file EXCEPT ![i].field_buffer = record]
           /\ field_str' = Updated(field_str, gfs_file'[i])
           /\ assigned' = assigned \ Range(gfs_file[i].field_strings)
    /\ UNCHANGED <<gfs_freed, gfs_fileno, gfs_nextid, fielding, closing_i>>

\* To the left in a string of n bytes.
Fit(text, n) == [b \in 1 .. n |-> IF b <= Len(text) THEN text[b] ELSE 0]

\* The string's part of the record.
Written(buffer, field, text) ==
    [b \in DOMAIN buffer |-> IF b - field.offset \in 1 .. field.size
                             THEN Fit(text, field.size)[b - field.offset] ELSE buffer[b]]

\* sub_lset() and lrset_field().
Lset(s, text) ==
    LET field == field_str[s].field
        value == Fit(text, Len(field_str[s].chr))
        i == gfs_fileno[field.fileno]
    IN  /\ Idle /\ field_str[s].live
        /\ IF field # NoField /\ Current(field)
           THEN /\ gfs_file' = [gfs_file EXCEPT ![i].field_buffer = Written(@, field, value)]
                /\ field_str' = Updated([field_str EXCEPT ![s].chr = value], gfs_file'[i])
                /\ assigned' = assigned \ Range(gfs_file[i].field_strings)
           ELSE /\ field_str' = [field_str EXCEPT ![s].chr = value, ![s].field = NoField]
                /\ UNCHANGED <<gfs_file, assigned>>
        /\ UNCHANGED <<gfs_freed, gfs_fileno, gfs_nextid, fielding, closing_i>>

\* qbs_set(): the string is no longer what is in the record.
Assigns(s, text) ==
    /\ Idle /\ field_str[s].live
    /\ field_str' = [field_str EXCEPT ![s].chr = text]
    /\ assigned' = assigned \union {s}
    /\ UNCHANGED <<fileTable, fielding, closing_i>>

\* A local variable of a SUB, which qbs_free() frees at its end.
NewFieldString(s) ==
    /\ Idle /\ ~field_str[s].live
    /\ field_str' = [field_str EXCEPT ![s].live = TRUE]
    /\ UNCHANGED <<fileTable, fielding, assigned, closing_i>>

FreeFieldString(s) ==
    /\ Idle /\ field_str[s].live /\ MayDetach(s)
    /\ gfs_file' = Unlisted(s)
    /\ field_str' = [field_str EXCEPT ![s] = NoFieldString]
    /\ assigned' = assigned \ {s}
    /\ UNCHANGED <<gfs_freed, gfs_fileno, gfs_nextid, fielding, closing_i>>

FilesNext ==
    \/ \E f \in FileNumbers :
          \/ \E random, scrn \in BOOLEAN : Open(f, random, scrn)
          \/ OpenFails(f) \/ Look(f) \/ Close(f) \/ FieldNew(f)
          \/ \E record \in Words : GetRecord(f, record)
    \/ CloseAll \/ CloseAllNext \/ FieldEnd
    \/ \E s \in FieldStrings :
          \/ \E size \in 0 .. RecordLength : FieldAdd(s, size)
          \/ \E text \in Words : Lset(s, text) \/ Assigns(s, text)
          \/ NewFieldString(s) \/ FreeFieldString(s)

FilesSpec == FilesInit /\ [][FilesNext]_filesVars

-----------------------------------------------------------------------------
(* Properties.                                                             *)

FilesTypeOK ==
    /\ gfs_file \in Seq([id : 1 .. MaxFiles, open : BOOLEAN, scrn : BOOLEAN,
                         fileno : FileNumbers \union {0}, random : BOOLEAN,
                         field_buffer : Seq(Nat), field_strings : Seq(FieldStrings)])
    /\ gfs_freed \in Seq(1 .. MaxFiles) /\ gfs_fileno \in Seq({-1} \union 1 .. MaxFiles)
    /\ gfs_nextid \in 1 .. MaxFiles + 1
    /\ field_str \in [FieldStrings -> [live : BOOLEAN, chr : Seq(Nat),
                         field : [fileno : FileNumbers \union {0}, fileid : 0 .. MaxFiles,
                                  size : Nat, offset : 0 .. RecordLength]]]
    /\ field_fileno \in FileNumbers \union {0} /\ field_totalsize \in 0 .. RecordLength
    /\ assigned \subseteq FieldStrings
    /\ closing_i \in Nat

\* Numbers and files name each other, no file that is closed has a number, and none that
\* has one is given to the next OPEN.
NumbersExact ==
    /\ \A f \in FileNumbers : InUse(f) =>
         LET i == gfs_fileno[f]
         IN  /\ gfs_file[i].fileno = f /\ (gfs_file[i].open \/ gfs_file[i].scrn)
             /\ i \notin Range(gfs_freed)
    /\ \A i \in DOMAIN gfs_file : gfs_file[i].open => InUse(gfs_file[i].fileno)
                                              /\ gfs_fileno[gfs_file[i].fileno] = i
    /\ IsInjective(gfs_freed)

\* The strings that a file updates are there, and are fields of it: what field_free() is
\* for, "remove from string list".
ListedAreFields ==
    \A i \in DOMAIN gfs_file : gfs_file[i].open =>
        \A s \in Range(gfs_file[i].field_strings) :
            field_str[s].live /\ field_str[s].field.fileid = gfs_file[i].id

\* And they are all its fields, once each, as long as nobody detaches them.
FieldsListed ==
    /\ ListedAreFields
    /\ \A i \in DOMAIN gfs_file : gfs_file[i].open =>
          /\ IsInjective(gfs_file[i].field_strings)
          /\ {s \in FieldStrings : field_str[s].field.fileid = gfs_file[i].id}
                \subseteq Range(gfs_file[i].field_strings)

\* A FIELD string says what is in its part of the record, unless it was assigned to: however
\* many strings share the part, and after GET, LSET or FIELD by way of any of them.
FieldsAgree ==
    \A i \in DOMAIN gfs_file : gfs_file[i].open =>
        \A s \in Range(gfs_file[i].field_strings) \ assigned :
            field_str[s].chr = RecordPart(gfs_file[i].field_buffer, field_str[s].field)

\* Numbers, files, records, FIELD strings and the lists of them agree.
FieldsExact == NumbersExact /\ FieldsListed /\ FieldsAgree

\* A record is changed only by a GET of its file or by a string that is a field of it, never by
\* one whose file was closed and the number opened again.
RecordsOwn ==
    [][\A i \in DOMAIN gfs_file :
         (gfs_file'[i].open /\ gfs_file'[i].id = gfs_file[i].id
            /\ gfs_file'[i].field_buffer # gfs_file[i].field_buffer) =>
         \/ \E f \in FileNumbers : InUse(f) /\ gfs_fileno[f] = i
                                    /\ GetRecord(f, gfs_file'[i].field_buffer)
         \/ \E s \in FieldStrings : field_str[s].field.fileid = gfs_file[i].id
                                    /\ \E text \in Words : Lset(s, text)]_filesVars

\* OPEN and CLOSE disturb no other number.
Table == INSTANCE FileTable
            WITH opened <- [f \in FileNumbers |->
                            IF InUse(f) THEN gfs_file[gfs_fileno[f]].id ELSE 0],
                 lastFile <- gfs_nextid - 1
ImplementsFileTable == Table!TableSpec
=============================================================================
