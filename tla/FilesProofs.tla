---------------------------- MODULE FilesProofs ----------------------------
(***************************************************************************)
(* Proofs about Files, for any numbers, strings, texts, length of records  *)
(* and number of files: the tables of OPEN and CLOSE agree (NumInv), a     *)
(* file is never taken for another (RecordInv), fields lie in the record   *)
(* (PartInv); and, if strings are not detached, that a string is a field   *)
(* of a file exactly if the file lists it (FieldInv).                      *)
(***************************************************************************)
EXTENDS Files, StackLemmas

\* The file that has number n.
FileOf(n) == gfs_file[gfs_fileno[n]]

\* Numbers, handles and ids.
NumInv ==
    /\ Len(gfs_file) < gfs_nextid
    /\ \A n \in DOMAIN gfs_fileno : InUse(n) =>
          /\ n \in FileNumbers /\ gfs_fileno[n] \in DOMAIN gfs_file
          /\ FileOf(n).fileno = n /\ (FileOf(n).open \/ FileOf(n).scrn)
          /\ gfs_fileno[n] \notin Range(gfs_freed)
    /\ \A i \in DOMAIN gfs_file : gfs_file[i].open =>
          InUse(gfs_file[i].fileno) /\ gfs_fileno[gfs_file[i].fileno] = i
    /\ Range(gfs_freed) \subseteq DOMAIN gfs_file /\ IsInjective(gfs_freed)

\* A file is never taken for another, and one that has a record is no screen.
RecordInv ==
    /\ \A i \in DOMAIN gfs_file :
          /\ gfs_file[i].id < gfs_nextid
          /\ gfs_file[i].random => ~gfs_file[i].scrn
          /\ gfs_file[i].random /\ gfs_file[i].open =>
                Len(gfs_file[i].field_buffer) = RecordLength
    /\ \A i, j \in DOMAIN gfs_file : gfs_file[i].id = gfs_file[j].id => i = j

\* Fields are in the record.
PartInv ==
    \A s \in FieldStrings : field_str[s].field.offset + field_str[s].field.size <= RecordLength

\* A string is a field of a file exactly if that lists it.
FieldInv ==
    /\ \A s \in FieldStrings :
          /\ field_str[s].field.fileid < gfs_nextid
          /\ field_str[s].field.fileid = 0 => field_str[s].field = NoField
    /\ \A i \in DOMAIN gfs_file : gfs_file[i].open =>
          /\ IsInjective(gfs_file[i].field_strings)
          /\ Range(gfs_file[i].field_strings)
                = {s \in FieldStrings : field_str[s].field.fileid = gfs_file[i].id}
          /\ Range(gfs_file[i].field_strings) # {} => gfs_file[i].random
    /\ \A i \in DOMAIN gfs_file : gfs_file[i].open =>
          \A s \in Range(gfs_file[i].field_strings) :
             field_str[s].live /\ field_str[s].field.fileno = gfs_file[i].fileno

IInv == FilesTypeOK /\ NumInv /\ RecordInv /\ PartInv

-----------------------------------------------------------------------------
(* What the operators do.                                                  *)

Field == [fileno : FileNumbers \union {0}, fileid : 0 .. MaxFiles, size : Nat,
          offset : 0 .. RecordLength]

Str == [live : BOOLEAN, chr : Seq(Nat), field : Field]

File == [id : 1 .. MaxFiles, open : BOOLEAN, scrn : BOOLEAN, fileno : FileNumbers \union {0},
         random : BOOLEAN, field_buffer : Seq(Nat), field_strings : Seq(FieldStrings)]

Handle == 1 .. MaxFiles

\* A function on 1 .. n is a sequence.
LEMMA FunctionIsSeq ==
    ASSUME NEW S, NEW n \in Nat, NEW f \in [1 .. n -> S]
    PROVE  f \in Seq(S) /\ Len(f) = n
  <1>1. f \in Seq(S)
    BY SeqDef
  <1>2. Len(f) \in Nat /\ DOMAIN f = 1 .. Len(f)
    BY <1>1, LenProperties
  <1> QED
    BY <1>1, <1>2

LEMMA MinusOnes ==
    ASSUME NEW S, -1 \in S, NEW k \in Int
    PROVE  /\ [n \in 1 .. k |-> -1] \in Seq(S)
           /\ Len([n \in 1 .. k |-> -1]) = IF k > 0 THEN k ELSE 0
           /\ \A n \in 1 .. k : [m \in 1 .. k |-> -1][n] = -1
  <1> DEFINE len == IF k > 0 THEN k ELSE 0
             f == [n \in 1 .. len |-> -1]
  <1>1. len \in Nat /\ 1 .. k = 1 .. len
    OBVIOUS
  <1>2. [n \in 1 .. k |-> -1] = f
    BY <1>1
  <1>3. len \in Nat
    BY <1>1
  <1> HIDE DEF len
  <1>4. f \in [1 .. len -> S]
    OBVIOUS
  <1> HIDE DEF f
  <1>5. f \in Seq(S) /\ Len(f) = len
    BY <1>3, <1>4, FunctionIsSeq
  <1>6. 1 .. k = 1 .. len
    BY <1>1
  <1>7. \A n \in 1 .. k : f[n] = -1
    BY <1>6 DEF f
  <1> QED
    BY <1>2, <1>5, <1>7 DEF len

\* Looking at a number changes nothing but the length of the table.
LEMMA LookedIs ==
    ASSUME FilesTypeOK, NEW f \in FileNumbers
    PROVE  /\ Looked(f) \in Seq({-1} \union Handle)
           /\ DOMAIN gfs_fileno \subseteq DOMAIN Looked(f) /\ f \in DOMAIN Looked(f)
           /\ \A n \in DOMAIN Looked(f) :
                 Looked(f)[n] = IF n \in DOMAIN gfs_fileno THEN gfs_fileno[n] ELSE -1
  <1> DEFINE S == {-1} \union Handle
             k == f - Len(gfs_fileno)
             more == [n \in 1 .. k |-> -1]
  <1>1. gfs_fileno \in Seq(S) /\ f \in Nat \ {0}
    BY FilesAssumption DEF FilesAssumption, FilesTypeOK, Handle
  <1>2. Len(gfs_fileno) \in Nat /\ DOMAIN gfs_fileno = 1 .. Len(gfs_fileno) /\ k \in Int
    BY <1>1, LenProperties
  <1>3. /\ more \in Seq(S) /\ Len(more) = IF k > 0 THEN k ELSE 0
        /\ \A n \in 1 .. k : more[n] = -1
    BY <1>2, MinusOnes
  <1>4. \A n \in 1 .. Len(more) : more[n] = -1
    <2> HIDE DEF more
    <2>1. \A n \in 1 .. Len(more) : n \in 1 .. k
      BY <1>2, <1>3
    <2> QED
      BY <1>3, <2>1
  <1>5. Looked(f) = gfs_fileno \o more
    BY DEF Looked
  <1> HIDE DEF more, S
  <1>6. /\ gfs_fileno \o more \in Seq(S)
        /\ Len(gfs_fileno \o more) = Len(gfs_fileno) + Len(more)
        /\ \A n \in 1 .. Len(gfs_fileno) + Len(more) :
              (gfs_fileno \o more)[n] = IF n <= Len(gfs_fileno) THEN gfs_fileno[n]
                                        ELSE more[n - Len(gfs_fileno)]
    BY <1>1, <1>3, ConcatProperties
  <1>7. Len(more) \in Nat
    BY <1>2, <1>3
  <1>8. DOMAIN Looked(f) = 1 .. Len(gfs_fileno) + Len(more)
    BY <1>5, <1>6, LenProperties
  <1>9. f \in 1 .. Len(gfs_fileno) + Len(more)
    BY <1>1, <1>2, <1>3
  <1>10. \A n \in 1 .. Len(gfs_fileno) + Len(more) :
            Looked(f)[n] = IF n \in 1 .. Len(gfs_fileno) THEN gfs_fileno[n] ELSE -1
    BY <1>2, <1>4, <1>5, <1>6, <1>7
  <1>11. Looked(f) \in Seq(S)
    BY <1>5, <1>6
  <1> QED
    BY <1>2, <1>7, <1>8, <1>9, <1>10, <1>11 DEF S

\* A new file takes a handle that no file has that is open or has a number.
LEMMA MakeIs ==
    ASSUME FilesTypeOK, NumInv, NEW file \in File, Make(file)
    PROVE  /\ gfs_file' \in Seq(File) /\ gfs_freed' \in Seq(Handle)
           /\ Len(gfs_file') < gfs_nextid' /\ gfs_nextid' = gfs_nextid + 1
           /\ gfs_nextid' \in 1 .. MaxFiles + 1
           /\ NewHandle \in Handle /\ DOMAIN gfs_file' = DOMAIN gfs_file \union {NewHandle}
           /\ gfs_file'[NewHandle] = file
           /\ \A i \in DOMAIN gfs_file : i # NewHandle => gfs_file'[i] = gfs_file[i]
           /\ NewHandle \in DOMAIN gfs_file => ~gfs_file[NewHandle].open
           /\ \A n \in DOMAIN gfs_fileno : InUse(n) => gfs_fileno[n] # NewHandle
           /\ Range(gfs_freed') = Range(gfs_freed) \ {NewHandle} /\ IsInjective(gfs_freed')
  <1> DEFINE h == NewHandle
  <1>1. gfs_file \in Seq(File) /\ gfs_freed \in Seq(Handle) /\ gfs_nextid \in 1 .. MaxFiles + 1
        /\ MaxFiles \in Nat
    BY FilesAssumption DEF FilesTypeOK, File, Handle, FilesAssumption
  <1>2. Len(gfs_file) \in Nat /\ DOMAIN gfs_file = 1 .. Len(gfs_file)
    BY <1>1, LenProperties
  <1>3. gfs_nextid <= MaxFiles /\ Len(gfs_file) < gfs_nextid
    BY DEF Make, NumInv
  <1>4. /\ gfs_file' = Stored(h, file)
        /\ gfs_freed' = IF gfs_freed = <<>> THEN <<>> ELSE Front(gfs_freed)
        /\ gfs_nextid' = gfs_nextid + 1
    BY DEF Make
  <1>5. gfs_nextid' \in 1 .. MaxFiles + 1
    BY <1>1, <1>3, <1>4
  <1>6. CASE gfs_freed = <<>>
    <2>1. h = Len(gfs_file) + 1 /\ h \notin DOMAIN gfs_file /\ h \in Handle
      BY <1>1, <1>2, <1>3, <1>6 DEF NewHandle, Handle
    <2>2. gfs_file' = Append(gfs_file, file) /\ gfs_freed' = gfs_freed
      <3>1. h > Len(gfs_file)
        BY <1>2, <2>1
      <3> QED
        BY <1>4, <1>6, <3>1 DEF Stored
    <2>3. /\ Append(gfs_file, file) \in Seq(File) /\ Len(Append(gfs_file, file)) = Len(gfs_file) + 1
          /\ \A i \in 1 .. Len(gfs_file) : Append(gfs_file, file)[i] = gfs_file[i]
          /\ Append(gfs_file, file)[Len(gfs_file) + 1] = file
      BY <1>1, AppendProperties
    <2>4. DOMAIN gfs_file' = 1 .. Len(gfs_file) + 1
      BY <2>2, <2>3, LenProperties
    <2>5. Range(gfs_freed) = {} /\ IsInjective(gfs_freed)
      BY <1>6 DEF Range, NumInv
    <2>6. \A n \in DOMAIN gfs_fileno : InUse(n) => gfs_fileno[n] # h
      BY <2>1 DEF NumInv
    <2> HIDE DEF h
    <2>7. DOMAIN gfs_file' = DOMAIN gfs_file \union {h}
      BY <1>2, <2>1, <2>4
    <2>8. Len(gfs_file') < gfs_nextid'
      BY <1>1, <1>2, <1>3, <1>4, <2>2, <2>3
    <2>9. gfs_file'[h] = file /\ \A i \in DOMAIN gfs_file : gfs_file'[i] = gfs_file[i]
      BY <1>2, <2>1, <2>2, <2>3
    <2> QED
      BY <1>1, <1>4, <1>5, <2>1, <2>2, <2>3, <2>5, <2>6, <2>7, <2>8, <2>9 DEF h
  <1>7. CASE gfs_freed # <<>>
    <2>1. h = Last(gfs_freed) /\ h \in Handle
      BY <1>1, <1>7, PopProperties DEF NewHandle
    <2>2. /\ IsInjective(Front(gfs_freed)) /\ Range(Front(gfs_freed)) = Range(gfs_freed) \ {h}
          /\ Front(gfs_freed) \in Seq(Handle)
      <3>1. IsInjective(gfs_freed)
        BY DEF NumInv
      <3>2. IsInjective(Front(gfs_freed))
            /\ ToSet(Front(gfs_freed)) = ToSet(gfs_freed) \ {Last(gfs_freed)}
        BY <1>1, <1>7, <3>1, PopInjective
      <3>3. Front(gfs_freed) \in Seq(Handle)
        BY <1>1, <1>7, PopProperties
      <3> QED
        BY <2>1, <3>2, <3>3 DEF ToSet, Range
    <2>3. h \in Range(gfs_freed)
      <3>1. Len(gfs_freed) \in Nat /\ Len(gfs_freed) > 0
            /\ Last(gfs_freed) = gfs_freed[Len(gfs_freed)]
        BY <1>1, <1>7, PopProperties
      <3>2. DOMAIN gfs_freed = 1 .. Len(gfs_freed)
        BY <1>1, LenProperties
      <3> QED
        BY <2>1, <3>1, <3>2 DEF Range
    <2>4. h \in DOMAIN gfs_file
      BY <2>3 DEF NumInv
    <2>5. \A n \in DOMAIN gfs_fileno : InUse(n) => gfs_fileno[n] # h
      BY <2>3 DEF NumInv
    <2>6. ~gfs_file[h].open
      BY <2>3, <2>4 DEF NumInv, InUse
    <2>7. gfs_file' = [gfs_file EXCEPT ![h] = file] /\ gfs_freed' = Front(gfs_freed)
      <3>1. ~(h > Len(gfs_file))
        BY <1>2, <2>4
      <3> QED
        BY <1>4, <1>7, <3>1 DEF Stored
    <2> HIDE DEF h
    <2>8. /\ [gfs_file EXCEPT ![h] = file] \in Seq(File)
          /\ Len([gfs_file EXCEPT ![h] = file]) = Len(gfs_file)
          /\ \A i \in 1 .. Len(gfs_file) :
                [gfs_file EXCEPT ![h] = file][i] = IF i = h THEN file ELSE gfs_file[i]
      BY <1>1, <1>2, <2>4, ExceptSeq
    <2>9. DOMAIN gfs_file' = DOMAIN gfs_file
      BY <1>2, <2>7, <2>8, LenProperties
    <2>10. gfs_file'[h] = file /\ \A i \in DOMAIN gfs_file : i # h => gfs_file'[i] = gfs_file[i]
      BY <1>2, <2>4, <2>7, <2>8
    <2>11. Len(gfs_file') < gfs_nextid'
      BY <1>1, <1>2, <1>3, <1>4, <2>7, <2>8
    <2> QED
      BY <1>1, <1>4, <1>5, <2>1, <2>2, <2>4, <2>5, <2>6, <2>7, <2>8, <2>9, <2>10, <2>11 DEF h
  <1> QED
    BY <1>6, <1>7

\* Closing a number that is in use takes it from its file, and frees the handle.
LEMMA CloseNumberIs ==
    ASSUME FilesTypeOK, NumInv, NEW f, InUse(f), CloseNumber(f)
    PROVE  /\ f \in FileNumbers /\ f \in DOMAIN gfs_fileno /\ gfs_fileno[f] \in DOMAIN gfs_file
           /\ gfs_file' \in Seq(File) /\ Len(gfs_file') = Len(gfs_file)
           /\ DOMAIN gfs_file' = DOMAIN gfs_file
           /\ gfs_file'[gfs_fileno[f]] = Closed(gfs_file[gfs_fileno[f]])
           /\ \A i \in DOMAIN gfs_file : i # gfs_fileno[f] => gfs_file'[i] = gfs_file[i]
           /\ gfs_freed' \in Seq(Handle) /\ IsInjective(gfs_freed')
           /\ Range(gfs_freed') = Range(gfs_freed) \union {gfs_fileno[f]}
           /\ gfs_fileno' \in Seq({-1} \union Handle) /\ DOMAIN gfs_fileno' = DOMAIN gfs_fileno
           /\ gfs_fileno' = [gfs_fileno EXCEPT ![f] = -1]
  <1> DEFINE i == gfs_fileno[f]
  <1>1. gfs_file \in Seq(File) /\ gfs_freed \in Seq(Handle)
        /\ gfs_fileno \in Seq({-1} \union Handle)
    BY DEF FilesTypeOK, File, Handle
  <1>2. /\ Len(gfs_file) \in Nat /\ DOMAIN gfs_file = 1 .. Len(gfs_file)
        /\ Len(gfs_fileno) \in Nat /\ DOMAIN gfs_fileno = 1 .. Len(gfs_fileno)
    BY <1>1, LenProperties
  <1>3. f \in FileNumbers /\ f \in DOMAIN gfs_fileno /\ i \in DOMAIN gfs_file
        /\ gfs_file[i].fileno = f /\ i \notin Range(gfs_freed) /\ IsInjective(gfs_freed)
    BY DEF NumInv, InUse, FileOf
  <1>4. i \in Handle
    BY <1>1, <1>2, <1>3, ElementOfSeq DEF InUse, Handle
  <1>5. /\ gfs_file' = [gfs_file EXCEPT ![i] = Closed(gfs_file[i])]
        /\ gfs_freed' = Append(gfs_freed, i)
        /\ gfs_fileno' = [gfs_fileno EXCEPT ![f] = -1]
    BY <1>3 DEF CloseNumber
  <1>6. gfs_file[i] \in File
    BY <1>1, <1>2, <1>3, ElementOfSeq
  <1>7. Closed(gfs_file[i]) \in File
    BY <1>6, EmptySeq DEF Closed, File
  <1> HIDE DEF i
  <1>8. /\ gfs_file' \in Seq(File) /\ Len(gfs_file') = Len(gfs_file)
        /\ \A j \in 1 .. Len(gfs_file) :
              gfs_file'[j] = IF j = i THEN Closed(gfs_file[i]) ELSE gfs_file[j]
    BY <1>1, <1>2, <1>3, <1>5, <1>7, ExceptSeq
  <1>9. DOMAIN gfs_file' = DOMAIN gfs_file
    BY <1>2, <1>8, LenProperties
  <1>10. /\ gfs_freed' \in Seq(Handle) /\ IsInjective(gfs_freed')
         /\ Range(gfs_freed') = Range(gfs_freed) \union {i}
    <2>1. i \notin ToSet(gfs_freed)
      BY <1>3 DEF ToSet, Range
    <2>2. /\ Append(gfs_freed, i) \in Seq(Handle) /\ IsInjective(Append(gfs_freed, i))
          /\ ToSet(Append(gfs_freed, i)) = ToSet(gfs_freed) \cup {i}
      BY <1>1, <1>3, <1>4, <2>1, PushInjective
    <2> QED
      BY <1>5, <2>2 DEF ToSet, Range
  <1>11. gfs_fileno' \in Seq({-1} \union Handle) /\ Len(gfs_fileno') = Len(gfs_fileno)
    BY <1>1, <1>2, <1>3, <1>5, ExceptSeq
  <1>12. DOMAIN gfs_fileno' = DOMAIN gfs_fileno
    BY <1>2, <1>11, LenProperties
  <1> QED
    BY <1>2, <1>3, <1>5, <1>8, <1>9, <1>10, <1>11, <1>12 DEF i


-----------------------------------------------------------------------------
(* What is done to the files.                                              *)

\* No number gets another file, or loses one.
SameNumbers ==
    \A n : (InUse(n)' <=> InUse(n)) /\ (InUse(n) => gfs_fileno'[n] = gfs_fileno[n])

\* Files only change what is in their records, and lists of strings.
SameFiles ==
    /\ gfs_file' \in Seq(File) /\ Len(gfs_file') = Len(gfs_file)
    /\ \A i \in DOMAIN gfs_file :
          /\ gfs_file'[i].id = gfs_file[i].id /\ gfs_file'[i].open = gfs_file[i].open
          /\ gfs_file'[i].scrn = gfs_file[i].scrn /\ gfs_file'[i].fileno = gfs_file[i].fileno
          /\ gfs_file'[i].random = gfs_file[i].random
          /\ Len(gfs_file'[i].field_buffer) = Len(gfs_file[i].field_buffer)

LEMMA Types ==
    FilesTypeOK <=>
    /\ gfs_file \in Seq(File) /\ gfs_freed \in Seq(Handle)
    /\ gfs_fileno \in Seq({-1} \union Handle) /\ gfs_nextid \in 1 .. MaxFiles + 1
    /\ field_str \in [FieldStrings -> Str]
    /\ field_fileno \in FileNumbers \union {0} /\ field_totalsize \in 0 .. RecordLength
    /\ assigned \subseteq FieldStrings /\ closing_i \in Nat
  BY DEF FilesTypeOK, File, Handle, Str, Field

LEMMA TypesAfter ==
    FilesTypeOK' <=>
    /\ gfs_file' \in Seq(File) /\ gfs_freed' \in Seq(Handle)
    /\ gfs_fileno' \in Seq({-1} \union Handle) /\ gfs_nextid' \in 1 .. MaxFiles + 1
    /\ field_str' \in [FieldStrings -> Str]
    /\ field_fileno' \in FileNumbers \union {0} /\ field_totalsize' \in 0 .. RecordLength
    /\ assigned' \subseteq FieldStrings /\ closing_i' \in Nat
  BY DEF FilesTypeOK, File, Handle, Str, Field

LEMMA LookKeepsNumbers ==
    ASSUME FilesTypeOK, NEW f \in FileNumbers, gfs_fileno' = Looked(f)
    PROVE  SameNumbers /\ gfs_fileno' \in Seq({-1} \union Handle)
  BY LookedIs DEF SameNumbers, InUse

\* What has the files in the domain of gfs_file.
LEMMA FileType ==
    ASSUME FilesTypeOK
    PROVE  /\ Len(gfs_file) \in Nat /\ DOMAIN gfs_file = 1 .. Len(gfs_file)
           /\ \A i \in DOMAIN gfs_file : gfs_file[i] \in File
  <1>1. gfs_file \in Seq(File)
    BY Types
  <1> QED
    BY <1>1, LenProperties, ElementOfSeq

LEMMA SameFilesDomain ==
    ASSUME FilesTypeOK, SameFiles
    PROVE  DOMAIN gfs_file' = DOMAIN gfs_file
  BY FileType, LenProperties DEF SameFiles

\* A number that is in use has its file.
LEMMA FileInUse ==
    ASSUME FilesTypeOK, NumInv, NEW n, InUse(n)
    PROVE  /\ n \in FileNumbers /\ n \in DOMAIN gfs_fileno /\ gfs_fileno[n] \in DOMAIN gfs_file
           /\ FileOf(n) \in File /\ FileOf(n).fileno = n /\ (FileOf(n).open \/ FileOf(n).scrn)
           /\ gfs_fileno[n] \notin Range(gfs_freed)
  BY FileType DEF NumInv, InUse, FileOf

LEMMA SameKeepsNum ==
    ASSUME FilesTypeOK, NumInv, RecordInv, SameNumbers, SameFiles,
           UNCHANGED <<gfs_freed, gfs_nextid>>
    PROVE  NumInv' /\ RecordInv'
  <1>1. DOMAIN gfs_file' = DOMAIN gfs_file
    BY SameFilesDomain
  <1>2. /\ Len(gfs_file') < gfs_nextid' /\ gfs_freed' = gfs_freed
        /\ Range(gfs_freed') \subseteq DOMAIN gfs_file' /\ IsInjective(gfs_freed')
    BY <1>1 DEF NumInv, SameFiles
  <1>3. ASSUME NEW n, InUse(n)'
        PROVE  /\ n \in FileNumbers /\ gfs_fileno'[n] \in DOMAIN gfs_file'
               /\ FileOf(n)'.fileno = n /\ (FileOf(n)'.open \/ FileOf(n)'.scrn)
               /\ gfs_fileno'[n] \notin Range(gfs_freed')
    <2>1. InUse(n) /\ gfs_fileno'[n] = gfs_fileno[n]
      BY <1>3 DEF SameNumbers
    <2> QED
      BY <2>1, <1>1, <1>2, FileInUse DEF SameFiles, FileOf
  <1>4. ASSUME NEW i \in DOMAIN gfs_file', gfs_file'[i].open, NEW m, m = gfs_file'[i].fileno
        PROVE  InUse(m)' /\ gfs_fileno'[m] = i
    <2>1. i \in DOMAIN gfs_file /\ gfs_file[i].open /\ gfs_file[i].fileno = m
      BY <1>1, <1>4 DEF SameFiles
    <2>2. InUse(m) /\ gfs_fileno[m] = i
      BY <2>1 DEF NumInv
    <2> QED
      BY <2>2 DEF SameNumbers
  <1>5. NumInv'
    BY <1>2, <1>3, <1>4 DEF NumInv, InUse
  <1>6. RecordInv'
    BY <1>1 DEF RecordInv, SameFiles
  <1> QED
    BY <1>5, <1>6

\* A file is made, and has its number or not.
LEMMA OpenKeeps ==
    ASSUME FilesTypeOK, NumInv, RecordInv, NEW f \in FileNumbers,
           NEW random \in BOOLEAN, NEW scrn \in BOOLEAN, Open(f, random, scrn)
    PROVE  /\ gfs_file' \in Seq(File) /\ gfs_freed' \in Seq(Handle)
           /\ gfs_fileno' \in Seq({-1} \union Handle) /\ gfs_nextid' \in 1 .. MaxFiles + 1
           /\ NumInv' /\ RecordInv'
           /\ NewFile(f, random, scrn) \in File
           /\ InUse(f)' /\ gfs_fileno'[f] = NewHandle
           /\ \A n : n # f => (InUse(n)' <=> InUse(n))
                              /\ (InUse(n) => gfs_fileno'[n] = gfs_fileno[n])
  <1> DEFINE h == NewHandle
             file == NewFile(f, random, scrn)
  <1>1. gfs_nextid \in 1 .. MaxFiles + 1 /\ gfs_nextid <= MaxFiles /\ MaxFiles \in Nat
        /\ RecordLength \in Nat
    BY FilesAssumption DEF FilesAssumption, FilesTypeOK, Open, Make
  <1>2. file.field_buffer \in Seq(Nat) /\ (random => Len(file.field_buffer) = RecordLength)
    <2>1. CASE random
      <3> DEFINE zeros == [b \in 1 .. RecordLength |-> 0]
      <3>1. zeros \in [1 .. RecordLength -> Nat] /\ file.field_buffer = zeros
        BY <2>1 DEF NewFile
      <3> HIDE DEF zeros
      <3>2. zeros \in Seq(Nat) /\ Len(zeros) = RecordLength
        BY <1>1, <3>1, FunctionIsSeq
      <3> QED
        BY <3>1, <3>2
    <2>2. CASE ~random
      BY <2>2, EmptySeq DEF NewFile
    <2> QED
      BY <2>1, <2>2
  <1>3. /\ file \in File /\ file.id = gfs_nextid /\ file.fileno = f /\ file.random = random
        /\ file.open = ~scrn /\ file.scrn = scrn /\ file.field_strings = <<>>
    <2>1. gfs_nextid \in 1 .. MaxFiles /\ <<>> \in Seq(FieldStrings)
      BY <1>1, EmptySeq
    <2> QED
      BY <1>2, <2>1 DEF NewFile, File
  <1> HIDE DEF file
  <1>4. Make(file) /\ ~InUse(f) /\ ~(random /\ scrn) /\ gfs_fileno' = [Looked(f) EXCEPT ![f] = h]
    BY DEF Open, file
  <1>5. /\ gfs_file' \in Seq(File) /\ gfs_freed' \in Seq(Handle)
        /\ Len(gfs_file') < gfs_nextid' /\ gfs_nextid' = gfs_nextid + 1
        /\ gfs_nextid' \in 1 .. MaxFiles + 1
        /\ h \in Handle /\ DOMAIN gfs_file' = DOMAIN gfs_file \union {h}
        /\ gfs_file'[h] = file
        /\ \A i \in DOMAIN gfs_file : i # h => gfs_file'[i] = gfs_file[i]
        /\ h \in DOMAIN gfs_file => ~gfs_file[h].open
        /\ \A n \in DOMAIN gfs_fileno : InUse(n) => gfs_fileno[n] # h
        /\ Range(gfs_freed') = Range(gfs_freed) \ {h} /\ IsInjective(gfs_freed')
    BY <1>3, <1>4, MakeIs
  <1>6. /\ Looked(f) \in Seq({-1} \union Handle)
        /\ DOMAIN gfs_fileno \subseteq DOMAIN Looked(f) /\ f \in DOMAIN Looked(f)
        /\ \A n \in DOMAIN Looked(f) :
              Looked(f)[n] = IF n \in DOMAIN gfs_fileno THEN gfs_fileno[n] ELSE -1
    BY LookedIs
  <1> HIDE DEF h
  <1>7. gfs_fileno' \in Seq({-1} \union Handle)
    <2>1. f \in 1 .. Len(Looked(f))
      BY <1>6, LenProperties
    <2> QED
      BY <1>4, <1>5, <1>6, <2>1, ExceptSeq
  <1>8. DOMAIN gfs_fileno' = DOMAIN Looked(f) /\ gfs_fileno'[f] = h
        /\ \A n \in DOMAIN Looked(f) : n # f => gfs_fileno'[n] = Looked(f)[n]
    BY <1>4, <1>6
  <1>9. InUse(f)'
    BY <1>5, <1>6, <1>8 DEF InUse, Handle
  <1>10. ASSUME NEW n, n # f
         PROVE  (InUse(n)' <=> InUse(n)) /\ (InUse(n) => gfs_fileno'[n] = gfs_fileno[n])
    BY <1>6, <1>8, <1>10 DEF InUse
  <1>11. NumInv'
    <2>1. ASSUME NEW n \in DOMAIN gfs_fileno', InUse(n)'
          PROVE  /\ n \in FileNumbers /\ gfs_fileno'[n] \in DOMAIN gfs_file'
                 /\ FileOf(n)'.fileno = n /\ (FileOf(n)'.open \/ FileOf(n)'.scrn)
                 /\ gfs_fileno'[n] \notin Range(gfs_freed')
      <3>1. CASE n = f
        BY <1>3, <1>5, <1>8, <3>1 DEF FileOf
      <3>2. CASE n # f
        <4>1. InUse(n) /\ gfs_fileno'[n] = gfs_fileno[n]
          BY <1>10, <2>1, <3>2
        <4> QED
          BY <1>5, <4>1, FileInUse DEF FileOf
      <3> QED
        BY <3>1, <3>2
    <2>2. ASSUME NEW i \in DOMAIN gfs_file', gfs_file'[i].open, NEW m, m = gfs_file'[i].fileno
          PROVE  InUse(m)' /\ gfs_fileno'[m] = i
      <3>1. CASE i = h
        <4>1. m = f
          BY <1>3, <1>5, <2>2, <3>1
        <4> QED
          BY <1>8, <1>9, <3>1, <4>1
      <3>2. CASE i # h
        <4>1. i \in DOMAIN gfs_file /\ gfs_file'[i] = gfs_file[i]
          BY <1>5, <3>2
        <4>2. InUse(m) /\ gfs_fileno[m] = i
          BY <2>2, <4>1 DEF NumInv
        <4>3. m # f
          BY <1>4, <4>2
        <4> QED
          BY <1>10, <4>2, <4>3
      <3> QED
        BY <3>1, <3>2
    <2>3. Range(gfs_freed') \subseteq DOMAIN gfs_file'
      BY <1>5 DEF NumInv
    <2> QED
      BY <1>5, <2>1, <2>2, <2>3 DEF NumInv, InUse
  <1>12. RecordInv'
    <2>1. \A i \in DOMAIN gfs_file : gfs_file[i].id < gfs_nextid /\ gfs_file[i].id \in Nat
      BY FileType DEF RecordInv, File
    <2>2. file.id < gfs_nextid' /\ file.id = gfs_nextid /\ \A x \in Nat : x < gfs_nextid
          => x < gfs_nextid' /\ x # gfs_nextid
      BY <1>1, <1>3, <1>5
    <2>3. file.random => ~file.scrn /\ Len(file.field_buffer) = RecordLength
      BY <1>2, <1>3, <1>4
    <2> HIDE DEF Open, Make
    <2> QED
      BY <1>5, <2>1, <2>2, <2>3 DEF RecordInv
  <1> QED
    BY <1>3, <1>5, <1>7, <1>8, <1>9, <1>10, <1>11, <1>12 DEF h, file

\* An OPEN that fails leaves the numbers alone, and a file that is not open.
LEMMA OpenFailsKeeps ==
    ASSUME FilesTypeOK, NumInv, RecordInv, NEW f \in FileNumbers, OpenFails(f)
    PROVE  /\ gfs_file' \in Seq(File) /\ gfs_freed' \in Seq(Handle)
           /\ gfs_fileno' \in Seq({-1} \union Handle) /\ gfs_nextid' \in 1 .. MaxFiles + 1
           /\ NumInv' /\ RecordInv' /\ SameNumbers
           /\ NewHandle \in DOMAIN gfs_file' /\ ~gfs_file'[NewHandle].open
           /\ gfs_file'[NewHandle].id = gfs_nextid
  <1> DEFINE h == NewHandle
             file == [NewFile(0, FALSE, FALSE) EXCEPT !.open = FALSE]
  <1>1. gfs_nextid \in 1 .. MaxFiles + 1 /\ gfs_nextid <= MaxFiles /\ MaxFiles \in Nat
    BY FilesAssumption DEF FilesAssumption, FilesTypeOK, OpenFails, Make
  <1>2. file \in File /\ file.id = gfs_nextid /\ ~file.open /\ ~file.random
    <2>1. gfs_nextid \in 1 .. MaxFiles /\ <<>> \in Seq(FieldStrings) /\ <<>> \in Seq(Nat)
      BY <1>1, EmptySeq
    <2> QED
      BY <2>1 DEF NewFile, File
  <1> HIDE DEF file
  <1>3. Make(file) /\ gfs_fileno' = Looked(f)
    BY DEF OpenFails, file
  <1>4. SameNumbers /\ gfs_fileno' \in Seq({-1} \union Handle)
    BY <1>3, LookKeepsNumbers
  <1>5. /\ gfs_file' \in Seq(File) /\ gfs_freed' \in Seq(Handle)
        /\ Len(gfs_file') < gfs_nextid' /\ gfs_nextid' = gfs_nextid + 1
        /\ gfs_nextid' \in 1 .. MaxFiles + 1
        /\ h \in Handle /\ DOMAIN gfs_file' = DOMAIN gfs_file \union {h}
        /\ gfs_file'[h] = file
        /\ \A i \in DOMAIN gfs_file : i # h => gfs_file'[i] = gfs_file[i]
        /\ h \in DOMAIN gfs_file => ~gfs_file[h].open
        /\ \A n \in DOMAIN gfs_fileno : InUse(n) => gfs_fileno[n] # h
        /\ Range(gfs_freed') = Range(gfs_freed) \ {h} /\ IsInjective(gfs_freed')
    BY <1>2, <1>3, MakeIs
  <1> HIDE DEF h
  <1>6. NumInv'
    <2>1. ASSUME NEW n \in DOMAIN gfs_fileno', InUse(n)'
          PROVE  /\ n \in FileNumbers /\ gfs_fileno'[n] \in DOMAIN gfs_file'
                 /\ FileOf(n)'.fileno = n /\ (FileOf(n)'.open \/ FileOf(n)'.scrn)
                 /\ gfs_fileno'[n] \notin Range(gfs_freed')
      <3>1. InUse(n) /\ gfs_fileno'[n] = gfs_fileno[n]
        BY <1>4, <2>1 DEF SameNumbers
      <3> QED
        BY <1>5, <3>1, FileInUse DEF FileOf
    <2>2. ASSUME NEW i \in DOMAIN gfs_file', gfs_file'[i].open, NEW m, m = gfs_file'[i].fileno
          PROVE  InUse(m)' /\ gfs_fileno'[m] = i
      <3>1. i # h
        BY <1>2, <1>5, <2>2
      <3>2. i \in DOMAIN gfs_file /\ gfs_file'[i] = gfs_file[i]
        BY <1>5, <3>1
      <3>3. InUse(m) /\ gfs_fileno[m] = i
        BY <2>2, <3>2 DEF NumInv
      <3> QED
        BY <1>4, <3>3 DEF SameNumbers
    <2>3. Range(gfs_freed') \subseteq DOMAIN gfs_file'
      BY <1>5 DEF NumInv
    <2> QED
      BY <1>5, <2>1, <2>2, <2>3 DEF NumInv, InUse
  <1>7. RecordInv'
    <2>1. \A i \in DOMAIN gfs_file : gfs_file[i].id < gfs_nextid /\ gfs_file[i].id \in Nat
      BY FileType DEF RecordInv, File
    <2>2. file.id < gfs_nextid' /\ file.id = gfs_nextid
          /\ \A x \in Nat : x < gfs_nextid => x < gfs_nextid' /\ x # gfs_nextid
      BY <1>1, <1>2, <1>5
    <2> QED
      BY <1>2, <1>5, <2>1, <2>2 DEF RecordInv
  <1> QED
    BY <1>2, <1>4, <1>5, <1>6, <1>7 DEF h

\* A file that was closed has no number, and its handle is to be used again.
LEMMA CloseKeeps ==
    ASSUME FilesTypeOK, NumInv, RecordInv, NEW f, InUse(f), CloseNumber(f), UNCHANGED gfs_nextid
    PROVE  /\ gfs_file' \in Seq(File) /\ gfs_freed' \in Seq(Handle)
           /\ gfs_fileno' \in Seq({-1} \union Handle)
           /\ NumInv' /\ RecordInv'
           /\ ~InUse(f)'
           /\ \A n : n # f => (InUse(n)' <=> InUse(n))
                              /\ (InUse(n) => gfs_fileno'[n] = gfs_fileno[n])
  <1> DEFINE h == gfs_fileno[f]
  <1>1. /\ f \in FileNumbers /\ f \in DOMAIN gfs_fileno /\ h \in DOMAIN gfs_file
        /\ gfs_file' \in Seq(File) /\ Len(gfs_file') = Len(gfs_file)
        /\ DOMAIN gfs_file' = DOMAIN gfs_file
        /\ gfs_file'[h] = Closed(gfs_file[h])
        /\ \A i \in DOMAIN gfs_file : i # h => gfs_file'[i] = gfs_file[i]
        /\ gfs_freed' \in Seq(Handle) /\ IsInjective(gfs_freed')
        /\ Range(gfs_freed') = Range(gfs_freed) \union {h}
        /\ gfs_fileno' \in Seq({-1} \union Handle) /\ DOMAIN gfs_fileno' = DOMAIN gfs_fileno
        /\ gfs_fileno' = [gfs_fileno EXCEPT ![f] = -1]
    BY CloseNumberIs
  <1>2. gfs_file[h] \in File /\ gfs_file[h].fileno = f
    BY FileInUse DEF FileOf
  <1>3. /\ ~gfs_file'[h].open /\ gfs_file'[h].id = gfs_file[h].id
        /\ gfs_file'[h].random = gfs_file[h].random /\ gfs_file'[h].scrn = gfs_file[h].scrn
    BY <1>1, <1>2 DEF Closed, File
  <1> HIDE DEF h
  <1>4. ~InUse(f)'
    BY <1>1 DEF InUse
  <1>5. ASSUME NEW n, n # f
        PROVE  (InUse(n)' <=> InUse(n)) /\ (InUse(n) => gfs_fileno'[n] = gfs_fileno[n])
    BY <1>1, <1>5 DEF InUse
  <1>6. ASSUME NEW n, n # f, InUse(n)
        PROVE  gfs_fileno[n] # h
    <2>1. FileOf(n).fileno = n
      BY <1>6, FileInUse
    <2> QED
      BY <1>2, <1>6, <2>1 DEF FileOf
  <1>7. NumInv'
    <2>1. ASSUME NEW n \in DOMAIN gfs_fileno', InUse(n)'
          PROVE  /\ n \in FileNumbers /\ gfs_fileno'[n] \in DOMAIN gfs_file'
                 /\ FileOf(n)'.fileno = n /\ (FileOf(n)'.open \/ FileOf(n)'.scrn)
                 /\ gfs_fileno'[n] \notin Range(gfs_freed')
      <3>1. n # f
        BY <1>4, <2>1
      <3>2. InUse(n) /\ gfs_fileno'[n] = gfs_fileno[n] /\ gfs_fileno[n] # h
        BY <1>5, <1>6, <2>1, <3>1
      <3> QED
        BY <1>1, <3>2, FileInUse DEF FileOf
    <2>2. ASSUME NEW i \in DOMAIN gfs_file', gfs_file'[i].open, NEW m, m = gfs_file'[i].fileno
          PROVE  InUse(m)' /\ gfs_fileno'[m] = i
      <3>1. i # h
        BY <1>3, <2>2
      <3>2. i \in DOMAIN gfs_file /\ gfs_file'[i] = gfs_file[i]
        BY <1>1, <3>1
      <3>3. InUse(m) /\ gfs_fileno[m] = i
        BY <2>2, <3>2 DEF NumInv
      <3>4. m # f
        BY <3>1, <3>3 DEF h
      <3> QED
        BY <1>5, <3>3, <3>4
    <2>3. Range(gfs_freed') \subseteq DOMAIN gfs_file' /\ Len(gfs_file') < gfs_nextid'
      BY <1>1 DEF NumInv
    <2> QED
      BY <1>1, <2>1, <2>2, <2>3 DEF NumInv, InUse
  <1>8. RecordInv'
    BY <1>1, <1>3 DEF RecordInv
  <1> QED
    BY <1>1, <1>4, <1>5, <1>7, <1>8

-----------------------------------------------------------------------------
(* Records, and the strings that are parts of them.                        *)

LEMMA TakenOutType ==
    ASSUME NEW S, NEW ss \in Seq(S), NEW s
    PROVE  TakenOut(ss, s) \in Seq(S)
  <1>1. Len(ss) \in Nat /\ DOMAIN ss = 1 .. Len(ss) /\ \A j \in 1 .. Len(ss) : ss[j] \in S
    BY LenProperties, ElementOfSeq
  <1>2. TakenOut(ss, s) \in [1 .. Len(ss) -> S]
    <2> DEFINE k == CHOOSE k \in DOMAIN ss : ss[k] = s
    <2>1. TakenOut(ss, s)
             = [j \in DOMAIN ss |-> IF j < k \/ j = Len(ss) THEN ss[j] ELSE ss[j + 1]]
      BY DEF TakenOut
    <2> HIDE DEF k
    <2>2. \A n \in Nat : \A j \in 1 .. n : j # n => j + 1 \in 1 .. n
      OBVIOUS
    <2>3. \A j \in 1 .. Len(ss) : (IF j < k \/ j = Len(ss) THEN ss[j] ELSE ss[j + 1]) \in S
      BY <1>1, <2>2
    <2> QED
      BY <1>1, <2>1, <2>3
  <1> QED
    BY <1>1, <1>2, FunctionIsSeq

\* What is the same of two tables of files in all but records and lists of strings.
SameBut(files, records) ==
    /\ files \in Seq(File) /\ Len(files) = Len(gfs_file)
    /\ \A i \in DOMAIN gfs_file :
          /\ files[i].id = gfs_file[i].id /\ files[i].open = gfs_file[i].open
          /\ files[i].scrn = gfs_file[i].scrn /\ files[i].fileno = gfs_file[i].fileno
          /\ files[i].random = gfs_file[i].random
          /\ Len(files[i].field_buffer) = Len(gfs_file[i].field_buffer)
          /\ i \notin records => files[i].field_buffer = gfs_file[i].field_buffer

\* field_free() only changes a list of strings; if none may be detached, it changes nothing.
LEMMA UnlistedIs ==
    ASSUME FilesTypeOK, NumInv, NEW s \in FieldStrings
    PROVE  /\ SameBut(Unlisted(s), {})
           /\ MayDetach(s) /\ ~Detaches => Unlisted(s) = gfs_file
  <1> DEFINE field == field_str[s].field
             h == gfs_fileno[field.fileno]
             taken == TakenOut(gfs_file[h].field_strings, s)
  <1>1. SameBut(gfs_file, {})
    BY Types DEF SameBut
  <1>2. ASSUME field # NoField, Current(field)
        PROVE  SameBut([gfs_file EXCEPT ![h].field_strings = taken], {})
    <2>1. h \in DOMAIN gfs_file /\ gfs_file[h] \in File
      BY <1>2, FileInUse DEF Current, IsRandom, FileOf
    <2>2. taken \in Seq(FieldStrings)
      BY <2>1, TakenOutType DEF File
    <2> DEFINE file == [gfs_file[h] EXCEPT !.field_strings = taken]
    <2> HIDE DEF h, taken
    <2>3. /\ file \in File /\ file.id = gfs_file[h].id /\ file.open = gfs_file[h].open
          /\ file.scrn = gfs_file[h].scrn /\ file.fileno = gfs_file[h].fileno
          /\ file.random = gfs_file[h].random /\ file.field_buffer = gfs_file[h].field_buffer
      BY <2>1, <2>2 DEF File
    <2>4. [gfs_file EXCEPT ![h].field_strings = taken] = [gfs_file EXCEPT ![h] = file]
      OBVIOUS
    <2> HIDE DEF file
    <2>5. gfs_file \in Seq(File) /\ h \in 1 .. Len(gfs_file)
      BY <2>1, Types, FileType
    <2>6. /\ [gfs_file EXCEPT ![h] = file] \in Seq(File)
          /\ Len([gfs_file EXCEPT ![h] = file]) = Len(gfs_file)
          /\ \A i \in 1 .. Len(gfs_file) :
                [gfs_file EXCEPT ![h] = file][i] = IF i = h THEN file ELSE gfs_file[i]
      BY <2>3, <2>5, ExceptSeq
    <2> DEFINE files == [gfs_file EXCEPT ![h] = file]
    <2> HIDE DEF files
    <2>7. SameBut(files, {})
      BY <2>3, <2>6, FileType DEF SameBut, files
    <2> QED
      BY <2>4, <2>7 DEF files
  <1>3. \/ Unlisted(s) = gfs_file
        \/ /\ field # NoField /\ Current(field)
           /\ Unlisted(s) = [gfs_file EXCEPT ![h].field_strings = taken]
    BY DEF Unlisted
  <1>4. ~Current(field) => Unlisted(s) = gfs_file
    BY DEF Unlisted
  <1> QED
    BY <1>1, <1>2, <1>3, <1>4 DEF MayDetach

\* A part of a record.
LEMMA RecordPartType ==
    ASSUME NEW buffer \in Seq(Nat), NEW field \in Field,
           field.offset + field.size <= Len(buffer)
    PROVE  RecordPart(buffer, field) \in Seq(Nat)
  <1> DEFINE m == field.offset + 1
             n == field.offset + field.size
  <1>1. m \in Int /\ n \in Int /\ m >= 1 /\ n <= Len(buffer) /\ Len(buffer) \in Nat
    BY FilesAssumption, LenProperties DEF Field, FilesAssumption
  <1> HIDE DEF m, n
  <1>2. \A i \in m .. n : buffer[i] \in Nat
    <2>1. \A i \in m .. n : i \in 1 .. Len(buffer)
      BY <1>1
    <2> QED
      BY <2>1, ElementOfSeq
  <1>3. SubSeq(buffer, m, n) \in Seq(Nat)
    BY <1>1, <1>2, SubSeqProperties
  <1> QED
    BY <1>3 DEF RecordPart, m, n

\* field_update() gives the strings listed their parts, and leaves the others alone.
LEMMA UpdatedIs ==
    ASSUME NEW strs \in [FieldStrings -> Str], NEW file \in File,
           Len(file.field_buffer) = RecordLength,
           \A s \in FieldStrings : strs[s].field.offset + strs[s].field.size <= RecordLength
    PROVE  /\ Updated(strs, file) \in [FieldStrings -> Str]
           /\ \A s \in FieldStrings :
                 /\ Updated(strs, file)[s].field = strs[s].field
                 /\ Updated(strs, file)[s].live = strs[s].live
                 /\ s \in Range(file.field_strings) =>
                       Updated(strs, file)[s].chr = RecordPart(file.field_buffer, strs[s].field)
                 /\ s \notin Range(file.field_strings) => Updated(strs, file)[s] = strs[s]
  <1> DEFINE part(s) == RecordPart(file.field_buffer, strs[s].field)
  <1>1. \A s \in FieldStrings : part(s) \in Seq(Nat)
    BY RecordPartType DEF File, Str
  <1> HIDE DEF part
  <1>2. Updated(strs, file) = [s \in FieldStrings |-> IF s \in Range(file.field_strings)
                               THEN [strs[s] EXCEPT !.chr = part(s)] ELSE strs[s]]
    BY DEF Updated, part
  <1>3. \A s \in FieldStrings :
           LET new == [strs[s] EXCEPT !.chr = part(s)]
           IN  /\ new \in Str /\ new.field = strs[s].field /\ new.live = strs[s].live
               /\ new.chr = part(s)
    BY <1>1 DEF Str
  <1>4. \A s \in FieldStrings : strs[s] \in Str
    OBVIOUS
  <1> HIDE DEF Str
  <1>5. Updated(strs, file) \in [FieldStrings -> Str]
    BY <1>2, <1>3, <1>4
  <1>6. ASSUME NEW s \in FieldStrings
        PROVE  /\ Updated(strs, file)[s].field = strs[s].field
               /\ Updated(strs, file)[s].live = strs[s].live
               /\ s \in Range(file.field_strings) => Updated(strs, file)[s].chr = part(s)
               /\ s \notin Range(file.field_strings) => Updated(strs, file)[s] = strs[s]
    BY <1>2, <1>3
  <1> QED
    BY <1>5, <1>6 DEF part

\* A number in use whose file has a record.
LEMMA FileWithRecord ==
    ASSUME FilesTypeOK, NumInv, RecordInv, NEW n, InUse(n), FileOf(n).random
    PROVE  /\ n \in FileNumbers /\ gfs_fileno[n] \in DOMAIN gfs_file /\ FileOf(n) \in File
           /\ FileOf(n).open /\ FileOf(n).fileno = n
           /\ Len(FileOf(n).field_buffer) = RecordLength
  BY FileInUse DEF RecordInv, FileOf

\* One file has another record, or another list of strings.
LEMMA FileWritten ==
    ASSUME FilesTypeOK, NEW i \in DOMAIN gfs_file, NEW files, SameBut(files, {}),
           NEW file \in File, file.id = gfs_file[i].id, file.open = gfs_file[i].open,
           file.scrn = gfs_file[i].scrn, file.fileno = gfs_file[i].fileno,
           file.random = gfs_file[i].random,
           Len(file.field_buffer) = Len(gfs_file[i].field_buffer)
    PROVE  LET new == [files EXCEPT ![i] = file]
           IN  /\ SameBut(new, {i}) /\ new[i] = file
               /\ \A j \in DOMAIN gfs_file : j # i => new[j] = files[j]
               /\ file.field_buffer = gfs_file[i].field_buffer => SameBut(new, {})
  <1> DEFINE new == [files EXCEPT ![i] = file]
  <1>1. files \in Seq(File) /\ Len(files) = Len(gfs_file) /\ i \in 1 .. Len(gfs_file)
        /\ DOMAIN gfs_file = 1 .. Len(gfs_file)
    BY FileType DEF SameBut
  <1>2. /\ new \in Seq(File) /\ Len(new) = Len(files)
        /\ \A j \in 1 .. Len(files) : new[j] = IF j = i THEN file ELSE files[j]
    BY <1>1, ExceptSeq
  <1> HIDE DEF new
  <1>3. new[i] = file /\ \A j \in DOMAIN gfs_file : j # i => new[j] = files[j]
    BY <1>1, <1>2
  <1>4. SameBut(new, {i})
    BY <1>1, <1>2, <1>3 DEF SameBut
  <1>5. file.field_buffer = gfs_file[i].field_buffer => SameBut(new, {})
    BY <1>1, <1>2, <1>3 DEF SameBut
  <1> QED
    BY <1>3, <1>4, <1>5 DEF new

LEMMA SameButKeeps ==
    ASSUME FilesTypeOK, NumInv, RecordInv, NEW records, SameBut(gfs_file', records),
           UNCHANGED <<gfs_freed, gfs_fileno, gfs_nextid>>
    PROVE  /\ SameFiles /\ SameNumbers /\ NumInv' /\ RecordInv'
           /\ DOMAIN gfs_file' = DOMAIN gfs_file
  <1>1. SameFiles /\ SameNumbers
    BY DEF SameFiles, SameNumbers, SameBut, InUse
  <1> QED
    BY <1>1, SameKeepsNum, SameFilesDomain

\* The strings of file i have been updated, strs being what they were before.
Refreshed(i, strs) ==
    /\ field_str' \in [FieldStrings -> Str]
    /\ \A t \in FieldStrings :
          /\ field_str'[t].field = strs[t].field /\ field_str'[t].live = strs[t].live
          /\ t \in Range(gfs_file'[i].field_strings) =>
                field_str'[t].chr = RecordPart(gfs_file'[i].field_buffer, strs[t].field)
          /\ t \notin Range(gfs_file'[i].field_strings) => field_str'[t] = strs[t]

\* FIELD adds a string to the list of its file.
LEMMA FieldAddIs ==
    ASSUME IInv, NEW s \in FieldStrings, NEW size \in Nat, FieldAdd(s, size)
    PROVE  LET i == gfs_fileno[field_fileno]
               strs == [field_str EXCEPT ![s].field = FieldOf(field_fileno, size)]
           IN  /\ i \in DOMAIN gfs_file /\ gfs_file[i].open /\ gfs_file[i].random
               /\ gfs_file[i].fileno = field_fileno
               /\ SameBut(gfs_file', {}) /\ Refreshed(i, strs)
               /\ Unlisted(s)[i].field_strings \in Seq(FieldStrings)
               /\ gfs_file'[i].field_strings = Append(Unlisted(s)[i].field_strings, s)
               /\ \A j \in DOMAIN gfs_file : j # i => gfs_file'[j] = Unlisted(s)[j]
               /\ PartInv' /\ field_totalsize' \in 0 .. RecordLength
  <1> DEFINE i == gfs_fileno[field_fileno]
             old == Unlisted(s)[i]
             file == [old EXCEPT !.field_strings = Append(@, s)]
             field == FieldOf(field_fileno, size)
             strs == [field_str EXCEPT ![s].field = field]
  <1>1. /\ field_fileno # 0 /\ field_totalsize + size <= RecordLength
        /\ gfs_file' = [Unlisted(s) EXCEPT ![i].field_strings = Append(@, s)]
        /\ field_str' = Updated(strs, gfs_file'[i])
        /\ field_totalsize' = field_totalsize + size
        /\ IsRandom(field_fileno)
    BY DEF FieldAdd
  <1>2. /\ i \in DOMAIN gfs_file /\ gfs_file[i] \in File /\ gfs_file[i].open
        /\ gfs_file[i].random /\ gfs_file[i].fileno = field_fileno
        /\ Len(gfs_file[i].field_buffer) = RecordLength
        /\ field_fileno \in FileNumbers
    BY <1>1, FileWithRecord, Types DEF IInv, IsRandom, FileOf, NumInv
  <1>3. SameBut(Unlisted(s), {})
    BY UnlistedIs DEF IInv
  <1>4. Unlisted(s) \in Seq(File) /\ DOMAIN Unlisted(s) = DOMAIN gfs_file
    BY <1>3, FileType, LenProperties DEF IInv, SameBut
  <1>5. old \in File /\ old.field_buffer = gfs_file[i].field_buffer
    <2>1. i \in 1 .. Len(Unlisted(s))
      BY <1>2, <1>4, LenProperties
    <2> QED
      BY <1>2, <1>3, <1>4, <2>1, ElementOfSeq DEF SameBut
  <1>6. old.field_strings \in Seq(FieldStrings)
        /\ Append(old.field_strings, s) \in Seq(FieldStrings)
    <2>1. old.field_strings \in Seq(FieldStrings)
      BY <1>5 DEF File
    <2> QED
      BY <2>1, AppendProperties
  <1>7. gfs_file' = [Unlisted(s) EXCEPT ![i] = file]
    BY <1>1, <1>2, <1>4
  <1> HIDE DEF i
  <1>8. /\ old.id = gfs_file[i].id /\ old.open = gfs_file[i].open /\ old.scrn = gfs_file[i].scrn
        /\ old.fileno = gfs_file[i].fileno /\ old.random = gfs_file[i].random
    BY <1>2, <1>3 DEF SameBut
  <1> HIDE DEF old
  <1>9. /\ file \in File /\ file.id = gfs_file[i].id /\ file.open = gfs_file[i].open
        /\ file.scrn = gfs_file[i].scrn /\ file.fileno = gfs_file[i].fileno
        /\ file.random = gfs_file[i].random /\ file.field_buffer = gfs_file[i].field_buffer
        /\ file.field_strings = Append(old.field_strings, s)
    BY <1>5, <1>6, <1>8 DEF File
  <1> HIDE DEF file
  <1>10. FilesTypeOK /\ SameBut(Unlisted(s), {})
         /\ Len(file.field_buffer) = Len(gfs_file[i].field_buffer)
    BY <1>3, <1>9 DEF IInv
  <1>11. /\ SameBut(gfs_file', {}) /\ gfs_file'[i] = file
         /\ \A j \in DOMAIN gfs_file : j # i => gfs_file'[j] = Unlisted(s)[j]
    <2> DEFINE files == Unlisted(s)
               new == [files EXCEPT ![i] = file]
    <2> HIDE DEF files
    <2>1. FilesTypeOK /\ SameBut(files, {}) /\ i \in DOMAIN gfs_file
      BY <1>2, <1>10 DEF files
    <2>2. /\ SameBut(new, {i}) /\ new[i] = file
          /\ \A j \in DOMAIN gfs_file : j # i => new[j] = files[j]
          /\ file.field_buffer = gfs_file[i].field_buffer => SameBut(new, {})
      BY <1>9, <1>10, <2>1, FileWritten, Zenon
    <2> QED
      BY <1>7, <1>9, <2>2 DEF files
  <1>12. /\ field_str \in [FieldStrings -> Str] /\ field_totalsize \in 0 .. RecordLength
         /\ RecordLength \in Nat
    BY Types, FilesAssumption DEF IInv, FilesAssumption
  <1>13. field \in Field /\ field.size = size /\ field.offset = field_totalsize
    <2>1. gfs_file[gfs_fileno[field_fileno]].id \in 0 .. MaxFiles
      BY <1>2 DEF File, i
    <2> QED
      BY <1>2, <1>12, <2>1 DEF FieldOf, Field
  <1> HIDE DEF field
  <1>14. /\ strs \in [FieldStrings -> Str] /\ strs[s].field = field
         /\ \A t \in FieldStrings : t # s => strs[t] = field_str[t]
    BY <1>12, <1>13 DEF Str
  <1>15. \A t \in FieldStrings : strs[t].field.offset + strs[t].field.size <= RecordLength
    <2>1. field.offset + field.size <= RecordLength
      BY <1>1, <1>13
    <2> QED
      BY <1>14, <2>1 DEF IInv, PartInv
  <1> HIDE DEF strs
  <1>16. Refreshed(i, strs) /\ \A t \in FieldStrings : field_str'[t].field = strs[t].field
    <2>1. field_str' = Updated(strs, file) /\ Len(file.field_buffer) = RecordLength
      BY <1>1, <1>2, <1>9, <1>11 DEF strs
    <2>2. /\ Updated(strs, file) \in [FieldStrings -> Str]
          /\ \A t \in FieldStrings :
                /\ Updated(strs, file)[t].field = strs[t].field
                /\ Updated(strs, file)[t].live = strs[t].live
                /\ t \in Range(file.field_strings) =>
                      Updated(strs, file)[t].chr = RecordPart(file.field_buffer, strs[t].field)
                /\ t \notin Range(file.field_strings) => Updated(strs, file)[t] = strs[t]
      BY <1>9, <1>14, <1>15, <2>1, UpdatedIs
    <2> QED
      BY <1>11, <2>1, <2>2 DEF Refreshed
  <1>17. PartInv'
    BY <1>15, <1>16 DEF PartInv
  <1>18. field_totalsize' \in 0 .. RecordLength
    BY <1>1, <1>12
  <1>19. gfs_file'[i].field_strings = Append(old.field_strings, s)
    BY <1>9, <1>11
  <1> QED
    BY <1>2, <1>6, <1>11, <1>16, <1>17, <1>18, <1>19 DEF i, old, strs, field

\* A record is written to file i, and its strings are updated.
LEMMA WriteIs ==
    ASSUME IInv, NEW i \in DOMAIN gfs_file, gfs_file[i].open, gfs_file[i].random,
           NEW record \in Seq(Nat), Len(record) = RecordLength,
           gfs_file' = [gfs_file EXCEPT ![i].field_buffer = record],
           NEW strs \in [FieldStrings -> Str],
           \A t \in FieldStrings : strs[t].field = field_str[t].field,
           field_str' = Updated(strs, gfs_file'[i])
    PROVE  /\ SameBut(gfs_file', {i}) /\ Refreshed(i, strs)
           /\ gfs_file'[i].field_strings = gfs_file[i].field_strings
           /\ gfs_file'[i].field_buffer = record
           /\ \A j \in DOMAIN gfs_file : j # i => gfs_file'[j] = gfs_file[j]
           /\ PartInv'
  <1> DEFINE file == [gfs_file[i] EXCEPT !.field_buffer = record]
  <1>1. gfs_file[i] \in File /\ Len(gfs_file[i].field_buffer) = RecordLength
    BY FileType DEF IInv, RecordInv
  <1>2. gfs_file' = [gfs_file EXCEPT ![i] = file]
    OBVIOUS
  <1>3. /\ file \in File /\ file.id = gfs_file[i].id /\ file.open = gfs_file[i].open
        /\ file.scrn = gfs_file[i].scrn /\ file.fileno = gfs_file[i].fileno
        /\ file.random = gfs_file[i].random /\ file.field_buffer = record
        /\ file.field_strings = gfs_file[i].field_strings
    BY <1>1 DEF File
  <1> HIDE DEF file
  <1>4. SameBut(gfs_file, {}) /\ FilesTypeOK
        /\ Len(file.field_buffer) = Len(gfs_file[i].field_buffer)
    BY <1>1, <1>3, Types DEF SameBut, IInv
  <1>5. /\ SameBut(gfs_file', {i}) /\ gfs_file'[i] = file
        /\ \A j \in DOMAIN gfs_file : j # i => gfs_file'[j] = gfs_file[j]
    <2> DEFINE new == [gfs_file EXCEPT ![i] = file]
    <2>1. /\ SameBut(new, {i}) /\ new[i] = file
          /\ \A j \in DOMAIN gfs_file : j # i => new[j] = gfs_file[j]
      BY <1>3, <1>4, FileWritten, Zenon
    <2> QED
      BY <1>2, <2>1
  <1>6. \A t \in FieldStrings : strs[t].field.offset + strs[t].field.size <= RecordLength
    BY DEF IInv, PartInv
  <1>7. Refreshed(i, strs)
    BY <1>3, <1>5, <1>6, UpdatedIs DEF Refreshed
  <1>8. PartInv'
    BY <1>6, <1>7 DEF PartInv, Refreshed
  <1> QED
    BY <1>3, <1>5, <1>7, <1>8

LEMMA FitType ==
    ASSUME NEW text \in Seq(Nat), NEW n \in Nat
    PROVE  Fit(text, n) \in Seq(Nat) /\ Len(Fit(text, n)) = n
  <1>1. Fit(text, n) \in [1 .. n -> Nat]
    <2>1. \A b \in 1 .. n : b <= Len(text) => text[b] \in Nat
      <3>1. Len(text) \in Nat /\ \A b \in 1 .. Len(text) : text[b] \in Nat
        BY LenProperties, ElementOfSeq
      <3> QED
        BY <3>1
    <2> QED
      BY <2>1 DEF Fit
  <1> HIDE DEF Fit
  <1> QED
    BY <1>1, FunctionIsSeq

LEMMA WrittenType ==
    ASSUME NEW buffer \in Seq(Nat), NEW field \in Field, NEW text \in Seq(Nat)
    PROVE  Written(buffer, field, text) \in Seq(Nat)
           /\ Len(Written(buffer, field, text)) = Len(buffer)
  <1> DEFINE value == Fit(text, field.size)
  <1>1. field.size \in Nat /\ field.offset \in Nat
    BY FilesAssumption DEF FilesAssumption, Field
  <1>2. \A b \in 1 .. field.size : value[b] \in Nat
    <2>1. value \in Seq(Nat) /\ Len(value) = field.size
      BY <1>1, FitType
    <2> QED
      BY <2>1, ElementOfSeq
  <1>3. Len(buffer) \in Nat /\ DOMAIN buffer = 1 .. Len(buffer)
        /\ \A b \in 1 .. Len(buffer) : buffer[b] \in Nat
    BY LenProperties, ElementOfSeq
  <1> HIDE DEF value
  <1>4. Written(buffer, field, text) \in [1 .. Len(buffer) -> Nat]
    BY <1>2, <1>3 DEF Written, value
  <1> HIDE DEF Written
  <1> QED
    BY <1>3, <1>4, FunctionIsSeq

\* GET writes the record of its file.
LEMMA GetRecordIs ==
    ASSUME IInv, NEW f \in FileNumbers, NEW record \in Words, GetRecord(f, record)
    PROVE  LET i == gfs_fileno[f]
           IN  /\ i \in DOMAIN gfs_file /\ gfs_file[i].open /\ gfs_file[i].random
               /\ SameBut(gfs_file', {i}) /\ Refreshed(i, field_str)
               /\ gfs_file'[i].field_strings = gfs_file[i].field_strings
               /\ gfs_file'[i].field_buffer = record
               /\ \A j \in DOMAIN gfs_file : j # i => gfs_file'[j] = gfs_file[j]
               /\ PartInv'
  <1> DEFINE i == gfs_fileno[f]
  <1>1. i \in DOMAIN gfs_file /\ gfs_file[i].open /\ gfs_file[i].random
    BY FileWithRecord DEF IInv, GetRecord, IsRandom, FileOf
  <1>2. record \in Seq(Nat) /\ Len(record) = RecordLength
    BY FilesAssumption DEF FilesAssumption, GetRecord
  <1>3. /\ gfs_file' = [gfs_file EXCEPT ![i].field_buffer = record]
        /\ field_str' = Updated(field_str, gfs_file'[i])
    BY DEF GetRecord
  <1>4. field_str \in [FieldStrings -> Str]
    BY Types DEF IInv
  <1> HIDE DEF i
  <1>5. /\ SameBut(gfs_file', {i}) /\ Refreshed(i, field_str)
        /\ gfs_file'[i].field_strings = gfs_file[i].field_strings
        /\ gfs_file'[i].field_buffer = record
        /\ \A j \in DOMAIN gfs_file : j # i => gfs_file'[j] = gfs_file[j]
        /\ PartInv'
    BY <1>1, <1>2, <1>3, <1>4, WriteIs
  <1> QED
    BY <1>1, <1>5 DEF i

\* LSET of a string that is a field writes the record of the file it is a field of.
LEMMA LsetFieldIs ==
    ASSUME IInv, NEW s \in FieldStrings, NEW text \in Words, Lset(s, text),
           field_str[s].field # NoField, Current(field_str[s].field)
    PROVE  LET i == gfs_fileno[field_str[s].field.fileno]
           IN  \E value \in Seq(Nat) :
               /\ i \in DOMAIN gfs_file /\ gfs_file[i].open /\ gfs_file[i].random
               /\ gfs_file[i].fileno = field_str[s].field.fileno
               /\ gfs_file[i].id = field_str[s].field.fileid
               /\ SameBut(gfs_file', {i}) /\ Refreshed(i, [field_str EXCEPT ![s].chr = value])
               /\ gfs_file'[i].field_strings = gfs_file[i].field_strings
               /\ \A j \in DOMAIN gfs_file : j # i => gfs_file'[j] = gfs_file[j]
               /\ PartInv' /\ assigned' = assigned \ Range(gfs_file[i].field_strings)
  <1> DEFINE field == field_str[s].field
             value == Fit(text, Len(field_str[s].chr))
             i == gfs_fileno[field.fileno]
             strs == [field_str EXCEPT ![s].chr = value]
             record == Written(gfs_file[i].field_buffer, field, value)
  <1>1. /\ gfs_file' = [gfs_file EXCEPT ![i].field_buffer = record]
        /\ field_str' = Updated(strs, gfs_file'[i])
        /\ assigned' = assigned \ Range(gfs_file[i].field_strings)
    BY DEF Lset
  <1>2. /\ i \in DOMAIN gfs_file /\ gfs_file[i] \in File /\ gfs_file[i].open
        /\ gfs_file[i].random /\ gfs_file[i].fileno = field.fileno
        /\ gfs_file[i].id = field.fileid /\ Len(gfs_file[i].field_buffer) = RecordLength
    BY FileWithRecord DEF IInv, Current, IsRandom, FileOf
  <1>3. field_str \in [FieldStrings -> Str] /\ field_str[s] \in Str
    BY Types DEF IInv
  <1>4. value \in Seq(Nat)
    <2>1. Len(field_str[s].chr) \in Nat
      BY <1>3, LenProperties DEF Str
    <2>2. text \in Seq(Nat)
      BY FilesAssumption DEF FilesAssumption
    <2> QED
      BY <2>1, <2>2, FitType
  <1> HIDE DEF value
  <1>5. record \in Seq(Nat) /\ Len(record) = RecordLength
    BY <1>2, <1>3, <1>4, WrittenType DEF File, Str
  <1>6. /\ strs \in [FieldStrings -> Str]
        /\ \A t \in FieldStrings : strs[t].field = field_str[t].field
    BY <1>3, <1>4 DEF Str
  <1> HIDE DEF i, record, strs
  <1>7. /\ SameBut(gfs_file', {i}) /\ Refreshed(i, strs)
        /\ gfs_file'[i].field_strings = gfs_file[i].field_strings
        /\ \A j \in DOMAIN gfs_file : j # i => gfs_file'[j] = gfs_file[j]
        /\ PartInv'
    BY <1>1, <1>2, <1>5, <1>6, WriteIs
  <1> QED
    BY <1>1, <1>2, <1>4, <1>7 DEF i, strs

\* LSET of another string.
LEMMA LsetOtherIs ==
    ASSUME IInv, NEW s \in FieldStrings, NEW text \in Words, Lset(s, text),
           ~(field_str[s].field # NoField /\ Current(field_str[s].field))
    PROVE  /\ field_str' \in [FieldStrings -> Str] /\ UNCHANGED <<gfs_file, assigned>>
           /\ field_str'[s].field = NoField /\ field_str'[s].live = field_str[s].live
           /\ \A t \in FieldStrings : t # s => field_str'[t] = field_str[t]
           /\ PartInv'
  <1> DEFINE value == Fit(text, Len(field_str[s].chr))
  <1>1. /\ field_str' = [field_str EXCEPT ![s].chr = value, ![s].field = NoField]
        /\ UNCHANGED <<gfs_file, assigned>>
    BY DEF Lset
  <1>2. field_str \in [FieldStrings -> Str] /\ field_str[s] \in Str
    BY Types DEF IInv
  <1>3. value \in Seq(Nat)
    <2>1. Len(field_str[s].chr) \in Nat
      BY <1>2, LenProperties DEF Str
    <2>2. text \in Seq(Nat)
      BY FilesAssumption DEF FilesAssumption
    <2> QED
      BY <2>1, <2>2, FitType
  <1> HIDE DEF value
  <1>4. NoField \in Field /\ NoField.offset + NoField.size <= RecordLength
    BY FilesAssumption DEF FilesAssumption, NoField, Field
  <1>5. /\ field_str' \in [FieldStrings -> Str]
        /\ field_str'[s].field = NoField /\ field_str'[s].live = field_str[s].live
        /\ \A t \in FieldStrings : t # s => field_str'[t] = field_str[t]
    BY <1>1, <1>2, <1>3, <1>4 DEF Str
  <1>6. PartInv'
    BY <1>4, <1>5 DEF IInv, PartInv
  <1> QED
    BY <1>1, <1>5, <1>6

-----------------------------------------------------------------------------
(* The invariant.                                                          *)

LEMMA InvInit == FilesInit => IInv
  <1> SUFFICES ASSUME FilesInit PROVE IInv
    OBVIOUS
  <1>1. NoField \in Field /\ NoField.offset + NoField.size <= RecordLength
        /\ RecordLength \in Nat /\ MaxFiles \in Nat
    BY FilesAssumption DEF FilesAssumption, NoField, Field
  <1>2. NoFieldString \in Str /\ NoFieldString.field = NoField
    BY <1>1, EmptySeq DEF NoFieldString, Str
  <1>3. FilesTypeOK
    BY <1>1, <1>2, Types, EmptySeq DEF FilesInit
  <1>4. NumInv
    BY DEF FilesInit, NumInv, InUse, Range, IsInjective
  <1>5. RecordInv
    BY DEF FilesInit, RecordInv
  <1>6. PartInv
    BY <1>1, <1>2 DEF FilesInit, PartInv
  <1> QED
    BY <1>3, <1>4, <1>5, <1>6 DEF IInv

\* Types of what a statement on numbers leaves alone.
LEMMA SameStrings ==
    ASSUME IInv, UNCHANGED fieldVars
    PROVE  /\ field_str' \in [FieldStrings -> Str] /\ PartInv'
           /\ field_fileno' \in FileNumbers \union {0} /\ field_totalsize' \in 0 .. RecordLength
           /\ assigned' \subseteq FieldStrings
  BY Types DEF IInv, fieldVars, fielding, PartInv

\* The steps that OPEN and CLOSE.
LEMMA InvNumbers ==
    ASSUME IInv, NEW f \in FileNumbers,
           \/ \E random, scrn \in BOOLEAN : Open(f, random, scrn)
           \/ OpenFails(f) \/ Look(f) \/ Close(f)
    PROVE  IInv'
  <1>1. /\ FilesTypeOK /\ NumInv /\ RecordInv /\ closing_i \in Nat
        /\ gfs_file \in Seq(File) /\ gfs_freed \in Seq(Handle) /\ gfs_nextid \in 1 .. MaxFiles + 1
    BY Types DEF IInv
  <1>2. UNCHANGED <<fieldVars, closing_i>>
    BY DEF Open, OpenFails, Look, Close
  <1>3. /\ gfs_file' \in Seq(File) /\ gfs_freed' \in Seq(Handle)
        /\ gfs_fileno' \in Seq({-1} \union Handle) /\ gfs_nextid' \in 1 .. MaxFiles + 1
        /\ NumInv' /\ RecordInv'
    <2>1. CASE \E random, scrn \in BOOLEAN : Open(f, random, scrn)
      BY <1>1, <2>1, OpenKeeps
    <2>2. CASE OpenFails(f)
      BY <1>1, <2>2, OpenFailsKeeps
    <2>3. CASE Look(f)
      <3>1. gfs_fileno' = Looked(f) /\ UNCHANGED <<gfs_file, gfs_freed, gfs_nextid>>
        BY <2>3 DEF Look
      <3>2. SameNumbers /\ gfs_fileno' \in Seq({-1} \union Handle)
        BY <1>1, <3>1, LookKeepsNumbers
      <3>3. SameFiles
        BY <1>1, <3>1 DEF SameFiles
      <3>4. NumInv' /\ RecordInv'
        BY <1>1, <3>1, <3>2, <3>3, SameKeepsNum
      <3> QED
        BY <1>1, <3>1, <3>2, <3>4
    <2>4. CASE Close(f)
      <3>1. InUse(f) /\ CloseNumber(f) /\ UNCHANGED gfs_nextid
        BY <2>4 DEF Close
      <3> QED
        BY <1>1, <3>1, CloseKeeps
    <2> QED
      BY <2>1, <2>2, <2>3, <2>4
  <1>4. /\ field_str' \in [FieldStrings -> Str] /\ PartInv'
        /\ field_totalsize' \in 0 .. RecordLength
        /\ field_fileno' \in FileNumbers \union {0}
        /\ assigned' \subseteq FieldStrings
    BY <1>2, SameStrings
  <1>5. FilesTypeOK'
    BY <1>1, <1>2, <1>3, <1>4, TypesAfter
  <1> QED
    BY <1>3, <1>4, <1>5 DEF IInv

LEMMA InvCloseAll ==
    ASSUME IInv, CloseAll \/ CloseAllNext
    PROVE  IInv'
  <1>1. /\ FilesTypeOK /\ NumInv /\ RecordInv /\ closing_i \in Nat
        /\ gfs_file \in Seq(File) /\ gfs_freed \in Seq(Handle) /\ gfs_nextid \in 1 .. MaxFiles + 1
        /\ gfs_fileno \in Seq({-1} \union Handle)
    BY Types DEF IInv
  <1>2. UNCHANGED <<fieldVars, gfs_nextid>> /\ closing_i' \in Nat
    BY <1>1 DEF CloseAll, CloseAllNext, fileTable
  <1>4. /\ gfs_file' \in Seq(File) /\ gfs_freed' \in Seq(Handle)
        /\ gfs_fileno' \in Seq({-1} \union Handle) /\ NumInv' /\ RecordInv'
    <2>1. CASE CloseAllNext /\ InUse(closing_i)
      <3>1. InUse(closing_i) /\ CloseNumber(closing_i) /\ UNCHANGED gfs_nextid
        BY <2>1 DEF CloseAllNext
      <3> QED
        BY <1>1, <3>1, CloseKeeps
    <2>2. CASE CloseAll \/ ~InUse(closing_i)
      <3>1. UNCHANGED <<gfs_file, gfs_freed, gfs_fileno, gfs_nextid>>
        BY <2>2 DEF CloseAll, CloseAllNext, fileTable
      <3>2. SameFiles /\ SameNumbers
        BY <1>1, <3>1 DEF SameFiles, SameNumbers, InUse
      <3>3. NumInv' /\ RecordInv'
        BY <1>1, <3>1, <3>2, SameKeepsNum
      <3> QED
        BY <1>1, <3>1, <3>3
    <2> QED
      BY <2>1, <2>2
  <1>5. /\ field_str' \in [FieldStrings -> Str] /\ PartInv'
        /\ field_totalsize' \in 0 .. RecordLength
        /\ field_fileno' \in FileNumbers \union {0}
        /\ assigned' \subseteq FieldStrings
    BY <1>2, SameStrings
  <1>6. FilesTypeOK'
    BY <1>1, <1>2, <1>4, <1>5, TypesAfter
  <1> QED
    BY <1>4, <1>5, <1>6 DEF IInv

\* The steps that write records, or take strings from lists.
LEMMA InvRecords ==
    ASSUME IInv, NEW records, SameBut(gfs_file', records),
           UNCHANGED <<gfs_freed, gfs_fileno, gfs_nextid>>,
           field_str' \in [FieldStrings -> Str], PartInv',
           UNCHANGED <<field_fileno, closing_i>>, field_totalsize' \in 0 .. RecordLength,
           assigned' \subseteq FieldStrings
    PROVE  IInv'
  <1>1. FilesTypeOK /\ NumInv /\ RecordInv
    BY DEF IInv
  <1>2. SameFiles /\ SameNumbers /\ NumInv' /\ RecordInv'
    BY <1>1, SameButKeeps
  <1>3. FilesTypeOK'
    BY <1>1, <1>2, Types, TypesAfter DEF SameFiles
  <1> QED
    BY <1>2, <1>3 DEF IInv

LEMMA InvStrings ==
    ASSUME IInv, NEW s \in FieldStrings,
           \/ \E size \in 0 .. RecordLength : FieldAdd(s, size)
           \/ \E text \in Words : Lset(s, text) \/ Assigns(s, text)
           \/ NewFieldString(s) \/ FreeFieldString(s)
    PROVE  IInv'
  <1>1. /\ SameBut(gfs_file, {}) /\ field_str \in [FieldStrings -> Str]
        /\ field_totalsize \in 0 .. RecordLength /\ assigned \subseteq FieldStrings
        /\ field_str[s] \in Str
    BY Types DEF IInv, SameBut
  <1>2. UNCHANGED <<gfs_freed, gfs_fileno, gfs_nextid>> /\ UNCHANGED <<field_fileno, closing_i>>
    BY DEF FieldAdd, Lset, Assigns, NewFieldString, FreeFieldString, fileTable, fielding
  <1>3. assigned' \subseteq FieldStrings
    BY <1>1 DEF FieldAdd, Lset, Assigns, NewFieldString, FreeFieldString
  <1>4. \E records : SameBut(gfs_file', records) /\ field_str' \in [FieldStrings -> Str]
                     /\ PartInv' /\ field_totalsize' \in 0 .. RecordLength
    <2>1. ASSUME NEW size \in 0 .. RecordLength, FieldAdd(s, size)
          PROVE  \E records : SameBut(gfs_file', records) /\ field_str' \in [FieldStrings -> Str]
                     /\ PartInv' /\ field_totalsize' \in 0 .. RecordLength
      <3>1. size \in Nat
        BY FilesAssumption DEF FilesAssumption
      <3>2. SameBut(gfs_file', {}) /\ PartInv' /\ field_totalsize' \in 0 .. RecordLength
            /\ field_str' \in [FieldStrings -> Str]
        BY <2>1, <3>1, FieldAddIs DEF Refreshed
      <3> QED
        BY <3>2
    <2>2. ASSUME NEW text \in Words, Lset(s, text)
          PROVE  \E records : SameBut(gfs_file', records) /\ field_str' \in [FieldStrings -> Str]
                     /\ PartInv' /\ field_totalsize' \in 0 .. RecordLength
      <3>1. field_totalsize' \in 0 .. RecordLength
        BY <1>1, <2>2 DEF Lset, fielding
      <3>2. CASE field_str[s].field # NoField /\ Current(field_str[s].field)
        BY <2>2, <3>1, <3>2, LsetFieldIs DEF Refreshed
      <3>3. CASE ~(field_str[s].field # NoField /\ Current(field_str[s].field))
        BY <1>1, <2>2, <3>1, <3>3, LsetOtherIs
      <3> QED
        BY <3>2, <3>3
    <2>3. ASSUME NEW text \in Words, Assigns(s, text)
          PROVE  \E records : SameBut(gfs_file', records) /\ field_str' \in [FieldStrings -> Str]
                     /\ PartInv' /\ field_totalsize' \in 0 .. RecordLength
      <3>1. UNCHANGED <<gfs_file, field_totalsize>> /\ text \in Seq(Nat)
        BY <2>3, FilesAssumption DEF Assigns, fileTable, fielding, FilesAssumption
      <3>2. field_str' = [field_str EXCEPT ![s].chr = text]
        BY <2>3 DEF Assigns
      <3>3. field_str' \in [FieldStrings -> Str]
            /\ \A t \in FieldStrings : field_str'[t].field = field_str[t].field
        BY <1>1, <3>1, <3>2 DEF Str
      <3>4. PartInv'
        BY <3>3 DEF IInv, PartInv
      <3> QED
        BY <1>1, <3>1, <3>3, <3>4
    <2>4. CASE NewFieldString(s)
      <3>1. UNCHANGED <<gfs_file, field_totalsize>>
            /\ field_str' = [field_str EXCEPT ![s].live = TRUE]
        BY <2>4 DEF NewFieldString, fileTable, fielding
      <3>3. field_str' \in [FieldStrings -> Str]
            /\ \A t \in FieldStrings : field_str'[t].field = field_str[t].field
        BY <1>1, <3>1 DEF Str
      <3>4. PartInv'
        BY <3>3 DEF IInv, PartInv
      <3> QED
        BY <1>1, <3>1, <3>3, <3>4
    <2>5. CASE FreeFieldString(s)
      <3>1. /\ gfs_file' = Unlisted(s) /\ field_totalsize' = field_totalsize
            /\ field_str' = [field_str EXCEPT ![s] = NoFieldString]
        BY <2>5 DEF FreeFieldString, fielding
      <3>2. SameBut(gfs_file', {})
        BY <3>1, UnlistedIs DEF IInv
      <3>3. NoField \in Field /\ NoField.offset + NoField.size <= RecordLength
        BY FilesAssumption DEF FilesAssumption, NoField, Field
      <3>4. NoFieldString \in Str /\ NoFieldString.field = NoField
        BY <3>3, EmptySeq DEF NoFieldString, Str
      <3>5. field_str' \in [FieldStrings -> Str]
            /\ \A t \in FieldStrings : field_str'[t] = IF t = s THEN NoFieldString ELSE field_str[t]
        BY <1>1, <3>1, <3>4
      <3>6. PartInv'
        BY <3>3, <3>4, <3>5 DEF IInv, PartInv
      <3> QED
        BY <1>1, <3>1, <3>2, <3>5, <3>6
    <2> QED
      BY <2>1, <2>2, <2>3, <2>4, <2>5
  <1> QED
    BY <1>2, <1>3, <1>4, InvRecords

LEMMA InvStep == IInv /\ [FilesNext]_filesVars => IInv'
  <1> SUFFICES ASSUME IInv, [FilesNext]_filesVars
               PROVE  IInv'
    OBVIOUS
  <1>1. /\ SameBut(gfs_file, {}) /\ field_str \in [FieldStrings -> Str] /\ PartInv
        /\ field_totalsize \in 0 .. RecordLength /\ assigned \subseteq FieldStrings
        /\ RecordLength \in Nat
    BY Types, FilesAssumption DEF IInv, SameBut, FilesAssumption
  <1>2. ASSUME NEW f \in FileNumbers, FieldNew(f)
        PROVE  IInv'
    <2>1. /\ gfs_fileno' = Looked(f) /\ UNCHANGED <<gfs_file, gfs_freed, gfs_nextid>>
          /\ field_fileno' \in FileNumbers \union {0} /\ field_totalsize' = 0
          /\ UNCHANGED <<field_str, assigned, closing_i>>
      BY <1>2 DEF FieldNew
    <2>2. SameNumbers /\ gfs_fileno' \in Seq({-1} \union Handle)
      BY <2>1, LookKeepsNumbers DEF IInv
    <2>3. SameFiles
      BY <2>1, Types DEF SameFiles, IInv
    <2>4. NumInv' /\ RecordInv'
      BY <2>1, <2>2, <2>3, SameKeepsNum DEF IInv
    <2>5. FilesTypeOK'
      BY <1>1, <2>1, <2>2, Types, TypesAfter DEF IInv
    <2>6. PartInv'
      BY <1>1, <2>1 DEF PartInv
    <2> QED
      BY <2>4, <2>5, <2>6 DEF IInv
  <1>3. ASSUME NEW f \in FileNumbers, NEW record \in Words, GetRecord(f, record)
        PROVE  IInv'
    <2>1. /\ UNCHANGED <<gfs_freed, gfs_fileno, gfs_nextid>>
             /\ UNCHANGED <<field_fileno, closing_i>>
          /\ field_totalsize' = field_totalsize /\ assigned' \subseteq assigned
      BY <1>3 DEF GetRecord, fielding
    <2>2. /\ SameBut(gfs_file', {gfs_fileno[f]}) /\ PartInv'
          /\ field_str' \in [FieldStrings -> Str]
      BY <1>3, GetRecordIs DEF Refreshed
    <2> QED
      BY <1>1, <2>1, <2>2, InvRecords
  <1>4. CASE FieldEnd
    <2>1. /\ UNCHANGED fileTable /\ UNCHANGED <<field_str, assigned, closing_i>>
          /\ field_fileno' = 0 /\ field_totalsize' = 0
      BY <1>4 DEF FieldEnd
    <2>2. FilesTypeOK'
      BY <1>1, <2>1, Types, TypesAfter DEF IInv, fileTable
    <2>3. NumInv' /\ RecordInv' /\ PartInv'
      BY <2>1 DEF IInv, NumInv, RecordInv, PartInv, fileTable, InUse, FileOf
    <2> QED
      BY <2>2, <2>3 DEF IInv
  <1>5. CASE UNCHANGED filesVars
    <2>1. FilesTypeOK'
      BY <1>5, Types, TypesAfter DEF IInv, filesVars, fileTable, fieldVars, fielding
    <2> QED
      BY <1>5, <2>1 DEF IInv, NumInv, RecordInv, PartInv, filesVars, fileTable,
                        fieldVars, fielding, InUse, FileOf
  <1> QED
    BY <1>2, <1>3, <1>4, <1>5, InvNumbers, InvCloseAll, InvStrings DEF FilesNext

\* The invariant of files.
LEMMA InvAlways == FilesSpec => []IInv
  BY InvInit, InvStep, PTL DEF FilesSpec

\* Files, numbers, strings and records have their types: a part of a record is in it, also
\* after field_update(), and a handle to be used again is one that was made.
THEOREM FilesTypeCorrect == FilesSpec => []FilesTypeOK
  <1>1. IInv => FilesTypeOK
    BY DEF IInv
  <1> QED
    BY <1>1, InvAlways, PTL

\* gfs_file, gfs_fileno and gfs_freed agree after any sequence of OPEN, CLOSE, failed OPENs and
\* CLOSE of all files: numbers and files name each other, and no handle that is to be used
\* again has a number.
THEOREM NumbersAreExact == FilesSpec => []NumbersExact
  <1>1. IInv => NumbersExact
    BY FileInUse DEF IInv, NumInv, NumbersExact, FileOf
  <1> QED
    BY <1>1, InvAlways, PTL

-----------------------------------------------------------------------------
(* Whose record is written.                                                *)

\* A file that is made has another id than the one whose handle it takes.
LEMMA OtherId ==
    ASSUME IInv, NEW i \in DOMAIN gfs_file, NEW file \in File, Make(file), file.id = gfs_nextid
    PROVE  gfs_file'[i] = gfs_file[i] \/ gfs_file'[i].id # gfs_file[i].id
  <1>1. gfs_file'[NewHandle] = file /\ \A j \in DOMAIN gfs_file : j # NewHandle
        => gfs_file'[j] = gfs_file[j]
    BY MakeIs DEF IInv
  <1>2. gfs_file[i].id < gfs_nextid /\ gfs_file[i].id \in Nat /\ gfs_nextid \in Nat
    BY FileType, FilesAssumption DEF IInv, RecordInv, File, FilesTypeOK, FilesAssumption
  <1> QED
    BY <1>1, <1>2

LEMMA OwnStep ==
    ASSUME IInv, [FilesNext]_filesVars, NEW i \in DOMAIN gfs_file,
           gfs_file'[i].open, gfs_file'[i].id = gfs_file[i].id,
           gfs_file'[i].field_buffer # gfs_file[i].field_buffer
    PROVE  \/ \E f \in FileNumbers : InUse(f) /\ gfs_fileno[f] = i
                                     /\ GetRecord(f, gfs_file'[i].field_buffer)
           \/ \E s \in FieldStrings : field_str[s].field.fileid = gfs_file[i].id
                                     /\ \E text \in Words : Lset(s, text)
  <1> DEFINE Own == \/ \E f \in FileNumbers : InUse(f) /\ gfs_fileno[f] = i
                                     /\ GetRecord(f, gfs_file'[i].field_buffer)
                    \/ \E s \in FieldStrings : field_str[s].field.fileid = gfs_file[i].id
                                     /\ \E text \in Words : Lset(s, text)
  <1>1. ASSUME NEW f \in FileNumbers, NEW random \in BOOLEAN, NEW scrn \in BOOLEAN,
               Open(f, random, scrn)
        PROVE  FALSE
    <2>1. /\ NewFile(f, random, scrn) \in File /\ Make(NewFile(f, random, scrn))
          /\ NewFile(f, random, scrn).id = gfs_nextid
      BY <1>1, OpenKeeps DEF IInv, Open, NewFile
    <2> QED
      BY <2>1, OtherId
  <1>2. ASSUME NEW f \in FileNumbers, OpenFails(f)
        PROVE  FALSE
    <2>1. /\ gfs_file'[NewHandle].id = gfs_nextid /\ ~gfs_file'[NewHandle].open
      BY <1>2, OpenFailsKeeps DEF IInv
    <2>2. i # NewHandle
      BY <2>1
    <2> DEFINE file == [NewFile(0, FALSE, FALSE) EXCEPT !.open = FALSE]
    <2>3. gfs_nextid \in 1 .. MaxFiles
      BY <1>2, FilesAssumption DEF FilesAssumption, IInv, FilesTypeOK, OpenFails, Make
    <2>4. file \in File
      BY <2>3, EmptySeq DEF NewFile, File
    <2>5. Make(file)
      BY <1>2 DEF OpenFails
    <2> HIDE DEF file
    <2>6. gfs_file'[i] = gfs_file[i]
      BY <2>2, <2>4, <2>5, MakeIs DEF IInv
    <2> QED
      BY <2>6
  <1>3. ASSUME NEW f, InUse(f), CloseNumber(f)
        PROVE  FALSE
    <2>1. /\ gfs_file'[gfs_fileno[f]] = Closed(gfs_file[gfs_fileno[f]])
          /\ \A j \in DOMAIN gfs_file : j # gfs_fileno[f] => gfs_file'[j] = gfs_file[j]
          /\ gfs_fileno[f] \in DOMAIN gfs_file
      BY <1>3, CloseNumberIs DEF IInv
    <2>2. ~Closed(gfs_file[gfs_fileno[f]]).open
      BY <2>1, FileType DEF IInv, Closed, File
    <2> QED
      BY <2>1, <2>2
  <1>4. ~UNCHANGED gfs_file
    OBVIOUS
  <1>5. ASSUME NEW f \in FileNumbers, NEW record \in Words, GetRecord(f, record)
        PROVE  Own
    <2>1. /\ gfs_file'[gfs_fileno[f]].field_buffer = record
          /\ \A j \in DOMAIN gfs_file : j # gfs_fileno[f] => gfs_file'[j] = gfs_file[j]
      BY <1>5, GetRecordIs
    <2>2. i = gfs_fileno[f]
      BY <2>1
    <2>3. InUse(f)
      BY <1>5 DEF GetRecord, IsRandom
    <2>4. GetRecord(f, gfs_file'[i].field_buffer)
      BY <1>5, <2>1, <2>2
    <2> QED
      BY <2>2, <2>3, <2>4
  <1>6. ASSUME NEW s \in FieldStrings, NEW text \in Words, Lset(s, text)
        PROVE  Own
    <2>1. CASE field_str[s].field # NoField /\ Current(field_str[s].field)
      <3>1. /\ gfs_file[gfs_fileno[field_str[s].field.fileno]].id = field_str[s].field.fileid
            /\ \A j \in DOMAIN gfs_file :
                  j # gfs_fileno[field_str[s].field.fileno] => gfs_file'[j] = gfs_file[j]
        BY <1>6, <2>1, LsetFieldIs
      <3>2. i = gfs_fileno[field_str[s].field.fileno]
        BY <3>1
      <3> QED
        BY <1>6, <3>1, <3>2
    <2>2. CASE ~(field_str[s].field # NoField /\ Current(field_str[s].field))
      BY <1>4, <1>6, <2>2, LsetOtherIs
    <2> QED
      BY <2>1, <2>2
  <1>7. ~SameBut(gfs_file', {})
    BY DEF SameBut
  <1>8. ASSUME NEW s \in FieldStrings, NEW size \in 0 .. RecordLength, FieldAdd(s, size)
        PROVE  FALSE
    <2>1. size \in Nat
      BY FilesAssumption DEF FilesAssumption
    <2> QED
      BY <1>7, <1>8, <2>1, FieldAddIs
  <1>9. ASSUME NEW s \in FieldStrings, FreeFieldString(s)
        PROVE  FALSE
    BY <1>7, <1>9, UnlistedIs DEF FreeFieldString, IInv
  <1>10. ASSUME NEW f, Look(f) \/ FieldNew(f)
         PROVE  FALSE
    BY <1>4, <1>10 DEF Look, FieldNew
  <1>11. ASSUME NEW s, \/ \E text \in Words : Assigns(s, text)
                       \/ NewFieldString(s)
         PROVE  FALSE
    BY <1>4, <1>11 DEF Assigns, NewFieldString, fileTable
  <1>12. ASSUME CloseAll \/ FieldEnd \/ UNCHANGED filesVars
         PROVE  FALSE
    BY <1>4, <1>12 DEF CloseAll, FieldEnd, filesVars, fileTable
  <1>13. ASSUME CloseAllNext
         PROVE  FALSE
    <2>1. \/ InUse(closing_i) /\ CloseNumber(closing_i)
          \/ UNCHANGED gfs_file
      BY <1>13 DEF CloseAllNext
    <2> QED
      BY <1>3, <1>4, <2>1
  <1>14. ASSUME NEW f \in FileNumbers, Close(f)
         PROVE  FALSE
    BY <1>3, <1>14 DEF Close
  <1> HIDE DEF Own
  <1>15. Own
    BY <1>1, <1>2, <1>5, <1>6, <1>8, <1>9, <1>10, <1>11, <1>12, <1>13, <1>14 DEF FilesNext
  <1> QED
    BY <1>15 DEF Own

\* A record is changed only by a GET of its file or an LSET of a string that is a field of this
\* file, however often its number and its handle are used again: field_update() and
\* lrset_field() compare ids.
THEOREM RecordsAreOwn == FilesSpec => RecordsOwn
  <1>1. IInv /\ [FilesNext]_filesVars =>
          [\A i \in DOMAIN gfs_file :
             (gfs_file'[i].open /\ gfs_file'[i].id = gfs_file[i].id
                /\ gfs_file'[i].field_buffer # gfs_file[i].field_buffer) =>
             \/ \E f \in FileNumbers : InUse(f) /\ gfs_fileno[f] = i
                                        /\ GetRecord(f, gfs_file'[i].field_buffer)
             \/ \E s \in FieldStrings : field_str[s].field.fileid = gfs_file[i].id
                                        /\ \E text \in Words : Lset(s, text)]_filesVars
    BY OwnStep
  <1> QED
    BY <1>1, InvAlways, PTL DEF FilesSpec, RecordsOwn

-----------------------------------------------------------------------------
(* The table of numbers.                                                   *)

\* The file that number n names.
OpenedAs(n) == IF InUse(n) THEN gfs_file[gfs_fileno[n]].id ELSE 0

Opened == [f \in FileNumbers |-> OpenedAs(f)]

LEMMA TableKept ==
    ASSUME SameNumbers, \A n : InUse(n) => gfs_file'[gfs_fileno[n]].id = gfs_file[gfs_fileno[n]].id
    PROVE  Opened' = Opened
  <1>1. \A n : OpenedAs(n)' = OpenedAs(n)
    BY DEF SameNumbers, OpenedAs
  <1> QED
    BY <1>1 DEF Opened

LEMMA TableStep ==
    ASSUME IInv, [FilesNext]_filesVars
    PROVE  \/ UNCHANGED <<Opened, gfs_nextid - 1>>
           \/ \E f \in FileNumbers :
                 /\ Opened[f] = 0 /\ gfs_nextid' - 1 = gfs_nextid - 1 + 1
                 /\ Opened' \in {Opened, [Opened EXCEPT ![f] = gfs_nextid' - 1]}
           \/ \E f \in FileNumbers :
                 Opened' = [Opened EXCEPT ![f] = 0] /\ gfs_nextid' - 1 = gfs_nextid - 1
  <1> DEFINE Kept == Opened' = Opened /\ gfs_nextid' = gfs_nextid
             Made == \E f \in FileNumbers :
                 /\ Opened[f] = 0 /\ gfs_nextid' = gfs_nextid + 1
                 /\ Opened' \in {Opened, [Opened EXCEPT ![f] = gfs_nextid]}
             Freed == \E f \in FileNumbers :
                 Opened' = [Opened EXCEPT ![f] = 0] /\ gfs_nextid' = gfs_nextid
  <1>1. FilesTypeOK /\ NumInv /\ RecordInv /\ gfs_nextid \in Nat
    BY FilesAssumption DEF IInv, FilesTypeOK, FilesAssumption
  <1>2. ASSUME NEW f \in FileNumbers, NEW random \in BOOLEAN, NEW scrn \in BOOLEAN,
               Open(f, random, scrn)
        PROVE  Made
    <2> DEFINE file == NewFile(f, random, scrn)
    <2>1. /\ file \in File /\ InUse(f)' /\ gfs_fileno'[f] = NewHandle
          /\ \A n : n # f => (InUse(n)' <=> InUse(n))
                    /\ (InUse(n) => gfs_fileno'[n] = gfs_fileno[n])
      BY <1>1, <1>2, OpenKeeps
    <2>2. Make(file) /\ ~InUse(f) /\ file.id = gfs_nextid
      BY <1>2 DEF Open, NewFile
    <2> HIDE DEF file
    <2>3. /\ gfs_nextid' = gfs_nextid + 1 /\ gfs_file'[NewHandle] = file
          /\ \A i \in DOMAIN gfs_file : i # NewHandle => gfs_file'[i] = gfs_file[i]
          /\ \A n \in DOMAIN gfs_fileno : InUse(n) => gfs_fileno[n] # NewHandle
      BY <1>1, <2>1, <2>2, MakeIs
    <2>4. OpenedAs(f) = 0 /\ OpenedAs(f)' = gfs_nextid
      BY <2>1, <2>2, <2>3 DEF OpenedAs
    <2>5. ASSUME NEW n \in FileNumbers, n # f
          PROVE  OpenedAs(n)' = OpenedAs(n)
      <3>1. CASE InUse(n)
        <4>1. n \in DOMAIN gfs_fileno /\ gfs_fileno[n] \in DOMAIN gfs_file
          BY <1>1, <3>1, FileInUse
        <4>2. gfs_file'[gfs_fileno[n]] = gfs_file[gfs_fileno[n]]
          BY <2>3, <3>1, <4>1
        <4> QED
          BY <2>1, <2>5, <3>1, <4>2 DEF OpenedAs
      <3>2. CASE ~InUse(n)
        BY <2>1, <2>5, <3>2 DEF OpenedAs
      <3> QED
        BY <3>1, <3>2
    <2>6. Opened[f] = 0 /\ Opened' = [Opened EXCEPT ![f] = gfs_nextid]
      BY <2>4, <2>5 DEF Opened
    <2> QED
      BY <2>3, <2>6
  <1>3. ASSUME NEW f \in FileNumbers, OpenFails(f)
        PROVE  Made
    <2> DEFINE file == [NewFile(0, FALSE, FALSE) EXCEPT !.open = FALSE]
    <2>1. gfs_nextid \in 1 .. MaxFiles
      BY <1>3, FilesAssumption DEF FilesAssumption, IInv, FilesTypeOK, OpenFails, Make
    <2>2. file \in File
      BY <2>1, EmptySeq DEF NewFile, File
    <2>3. Make(file) /\ ~InUse(f)
      BY <1>3 DEF OpenFails
    <2> HIDE DEF file
    <2>4. /\ gfs_nextid' = gfs_nextid + 1
          /\ \A i \in DOMAIN gfs_file : i # NewHandle => gfs_file'[i] = gfs_file[i]
          /\ \A n \in DOMAIN gfs_fileno : InUse(n) => gfs_fileno[n] # NewHandle
      BY <1>1, <2>2, <2>3, MakeIs
    <2>5. SameNumbers
      BY <1>1, <1>3, OpenFailsKeeps
    <2>6. \A n : InUse(n) => gfs_file'[gfs_fileno[n]] = gfs_file[gfs_fileno[n]]
      BY <1>1, <2>4, FileInUse
    <2>7. Opened' = Opened
      BY <2>5, <2>6, TableKept
    <2>8. Opened[f] = 0
      BY <2>3 DEF Opened, OpenedAs
    <2> QED
      BY <2>4, <2>7, <2>8
  <1>4. ASSUME NEW f, InUse(f), CloseNumber(f), UNCHANGED gfs_nextid
        PROVE  Freed
    <2>1. /\ f \in FileNumbers /\ ~InUse(f)'
          /\ \A n : n # f => (InUse(n)' <=> InUse(n))
                    /\ (InUse(n) => gfs_fileno'[n] = gfs_fileno[n])
      BY <1>1, <1>4, CloseKeeps, FileInUse
    <2>2. \A j \in DOMAIN gfs_file : j # gfs_fileno[f] => gfs_file'[j] = gfs_file[j]
      BY <1>1, <1>4, CloseNumberIs
    <2>3. ASSUME NEW n \in FileNumbers, n # f
          PROVE  OpenedAs(n)' = OpenedAs(n)
      <3>1. CASE InUse(n)
        <4>1. gfs_fileno[n] \in DOMAIN gfs_file /\ FileOf(n).fileno = n /\ FileOf(f).fileno = f
          BY <1>1, <1>4, <3>1, FileInUse
        <4>2. gfs_file'[gfs_fileno[n]] = gfs_file[gfs_fileno[n]]
          BY <2>2, <2>3, <4>1 DEF FileOf
        <4> QED
          BY <2>1, <2>3, <3>1, <4>2 DEF OpenedAs
      <3>2. CASE ~InUse(n)
        BY <2>1, <2>3, <3>2 DEF OpenedAs
      <3> QED
        BY <3>1, <3>2
    <2>4. OpenedAs(f)' = 0
      BY <2>1 DEF OpenedAs
    <2>5. Opened' = [Opened EXCEPT ![f] = 0]
      BY <2>3, <2>4 DEF Opened
    <2> QED
      BY <1>4, <2>1, <2>5
  <1>5. ASSUME NEW records, SameBut(gfs_file', records),
               UNCHANGED <<gfs_freed, gfs_fileno, gfs_nextid>>
        PROVE  Kept
    <2>1. SameFiles /\ SameNumbers
      BY <1>1, <1>5, SameButKeeps
    <2>2. \A n : InUse(n) => gfs_file'[gfs_fileno[n]].id = gfs_file[gfs_fileno[n]].id
      BY <1>1, <2>1, FileInUse DEF SameFiles
    <2> QED
      BY <1>5, <2>1, <2>2, TableKept
  <1>6. SameBut(gfs_file, {})
    BY <1>1, Types DEF SameBut
  <1>7. ASSUME NEW f \in FileNumbers, Look(f) \/ FieldNew(f)
        PROVE  Kept
    <2>1. gfs_fileno' = Looked(f) /\ UNCHANGED <<gfs_file, gfs_nextid>>
      BY <1>7 DEF Look, FieldNew
    <2>2. SameNumbers
      BY <1>1, <2>1, LookKeepsNumbers
    <2> QED
      BY <2>1, <2>2, TableKept
  <1>8. ASSUME NEW f \in FileNumbers, Close(f)
        PROVE  Freed
    BY <1>4, <1>8 DEF Close
  <1>9. ASSUME CloseAll \/ CloseAllNext
        PROVE  Kept \/ Freed
    <2>1. \/ InUse(closing_i) /\ CloseNumber(closing_i) /\ UNCHANGED gfs_nextid
          \/ UNCHANGED <<gfs_file, gfs_freed, gfs_fileno, gfs_nextid>>
      BY <1>9 DEF CloseAll, CloseAllNext, fileTable
    <2> HIDE DEF Kept, Freed
    <2> QED
      BY <1>4, <1>5, <1>6, <2>1
  <1>10. ASSUME NEW f \in FileNumbers, NEW record \in Words, GetRecord(f, record)
         PROVE  Kept
    <2>1. UNCHANGED <<gfs_freed, gfs_fileno, gfs_nextid>>
      BY <1>10 DEF GetRecord
    <2>2. SameBut(gfs_file', {gfs_fileno[f]})
      BY <1>10, GetRecordIs
    <2> HIDE DEF Kept
    <2> QED
      BY <1>5, <2>1, <2>2
  <1>11. ASSUME NEW s \in FieldStrings,
                \/ \E size \in 0 .. RecordLength : FieldAdd(s, size)
                \/ \E text \in Words : Lset(s, text) \/ Assigns(s, text)
                \/ NewFieldString(s) \/ FreeFieldString(s)
         PROVE  Kept
    <2>1. UNCHANGED <<gfs_freed, gfs_fileno, gfs_nextid>>
      BY <1>11 DEF FieldAdd, Lset, Assigns, NewFieldString, FreeFieldString, fileTable
    <2>2. \E records : SameBut(gfs_file', records)
      <3>1. ASSUME NEW size \in 0 .. RecordLength, FieldAdd(s, size)
            PROVE  \E records : SameBut(gfs_file', records)
        <4>1. size \in Nat
          BY FilesAssumption DEF FilesAssumption
        <4> QED
          BY <3>1, <4>1, FieldAddIs
      <3>2. ASSUME NEW text \in Words, Lset(s, text)
            PROVE  \E records : SameBut(gfs_file', records)
        <4>1. CASE field_str[s].field # NoField /\ Current(field_str[s].field)
          BY <3>2, <4>1, LsetFieldIs
        <4>2. CASE ~(field_str[s].field # NoField /\ Current(field_str[s].field))
          BY <1>6, <3>2, <4>2, LsetOtherIs
        <4> QED
          BY <4>1, <4>2
      <3>3. ASSUME (\E text \in Words : Assigns(s, text)) \/ NewFieldString(s)
            PROVE  \E records : SameBut(gfs_file', records)
        <4>1. gfs_file' = gfs_file
          BY <3>3 DEF Assigns, NewFieldString, fileTable
        <4> QED
          BY <1>6, <4>1
      <3>4. CASE FreeFieldString(s)
        BY <1>1, <3>4, UnlistedIs DEF FreeFieldString
      <3> QED
        BY <1>11, <3>1, <3>2, <3>3, <3>4
    <2> HIDE DEF Kept
    <2> QED
      BY <1>5, <2>1, <2>2
  <1>12. ASSUME FieldEnd \/ UNCHANGED filesVars
         PROVE  Kept
    <2>1. UNCHANGED <<gfs_file, gfs_freed, gfs_fileno, gfs_nextid>>
      BY <1>12 DEF FieldEnd, filesVars, fileTable
    <2> HIDE DEF Kept
    <2> QED
      BY <1>5, <1>6, <2>1
  <1>13. Kept \/ Made \/ Freed
    <2> HIDE DEF Kept, Made, Freed
    <2> QED
      BY <1>2, <1>3, <1>7, <1>8, <1>9, <1>10, <1>11, <1>12 DEF FilesNext
  <1>14. gfs_nextid' = gfs_nextid + 1 => gfs_nextid' - 1 = gfs_nextid
         /\ gfs_nextid - 1 + 1 = gfs_nextid
    BY <1>1
  <1> QED
    BY <1>13, <1>14

LEMMA TableStarts == FilesInit => Table!TableInit
  BY DEF FilesInit, Table!TableInit, InUse

LEMMA TableSteps ==
    IInv /\ [FilesNext]_filesVars =>
      [Table!TableNext]_<<
        [f \in FileNumbers |-> IF InUse(f) THEN gfs_file[gfs_fileno[f]].id ELSE 0],
        gfs_nextid - 1>>
  <1> SUFFICES ASSUME IInv, [FilesNext]_filesVars
               PROVE  [Table!TableNext]_<<
                 [f \in FileNumbers |-> IF InUse(f) THEN gfs_file[gfs_fileno[f]].id ELSE 0],
                 gfs_nextid - 1>>
    OBVIOUS
  <1>1. Opened = [f \in FileNumbers |-> IF InUse(f) THEN gfs_file[gfs_fileno[f]].id ELSE 0]
    BY DEF Opened, OpenedAs
  <1>2. Opened' = [f \in FileNumbers |-> IF InUse(f) THEN gfs_file[gfs_fileno[f]].id ELSE 0]'
    BY DEF Opened, OpenedAs
  <1>3. [\/ \E f \in FileNumbers :
               /\ Opened[f] = 0 /\ gfs_nextid' - 1 = gfs_nextid - 1 + 1
               /\ Opened' \in {Opened, [Opened EXCEPT ![f] = gfs_nextid' - 1]}
         \/ \E f \in FileNumbers :
               /\ Opened' = [Opened EXCEPT ![f] = 0]
               /\ gfs_nextid' - 1 = gfs_nextid - 1]_<<Opened, gfs_nextid - 1>>
    BY TableStep
  <1> QED
    BY <1>1, <1>2, <1>3 DEF Table!TableNext, Table!TableOpen, Table!TableClose

\* OPEN, failed or not, and CLOSE give and take a file of one number, as the abstract table does;
\* no other statement on files, strings or records changes which file a number names.
THEOREM TableIsImplemented == FilesSpec => ImplementsFileTable
  BY TableStarts, TableSteps, InvAlways, PTL DEF FilesSpec, ImplementsFileTable, Table!TableSpec

-----------------------------------------------------------------------------
(* Strings and their files, if none is detached while its file is open.    *)

FInv == FieldInv /\ FieldsAgree

LEMMA FileId ==
    ASSUME FilesTypeOK, NEW i \in DOMAIN gfs_file
    PROVE  gfs_file[i].id \in 1 .. MaxFiles /\ gfs_file[i].id # 0
           /\ gfs_file[i].field_strings \in Seq(FieldStrings)
  BY FileType, FilesAssumption DEF File, FilesAssumption

\* A string that is listed at an open file is a field of it...
LEMMA ListedIsField ==
    ASSUME IInv, FieldInv, NEW i \in DOMAIN gfs_file, gfs_file[i].open,
           NEW s \in Range(gfs_file[i].field_strings)
    PROVE  /\ s \in FieldStrings /\ field_str[s].live
           /\ field_str[s].field.fileid = gfs_file[i].id
           /\ field_str[s].field # NoField /\ Current(field_str[s].field)
           /\ gfs_fileno[field_str[s].field.fileno] = i
  <1>1. /\ s \in FieldStrings /\ field_str[s].field.fileid = gfs_file[i].id
        /\ field_str[s].live /\ field_str[s].field.fileno = gfs_file[i].fileno
    BY DEF FieldInv
  <1>2. gfs_file[i].random
    BY DEF FieldInv
  <1>3. InUse(gfs_file[i].fileno) /\ gfs_fileno[gfs_file[i].fileno] = i
    BY DEF IInv, NumInv
  <1>4. field_str[s].field # NoField
    BY <1>1, FileId DEF IInv, NoField
  <1> QED
    BY <1>1, <1>2, <1>3, <1>4 DEF Current, IsRandom

\* ... and one that is a field of an open file is listed there.
LEMMA FieldIsListed ==
    ASSUME IInv, FieldInv, NEW s \in FieldStrings, Current(field_str[s].field)
    PROVE  LET i == gfs_fileno[field_str[s].field.fileno]
           IN  /\ i \in DOMAIN gfs_file /\ gfs_file[i].open
                  /\ gfs_file[i].id = field_str[s].field.fileid
               /\ s \in Range(gfs_file[i].field_strings)
  <1> DEFINE i == gfs_fileno[field_str[s].field.fileno]
  <1>1. i \in DOMAIN gfs_file /\ gfs_file[i].open /\ gfs_file[i].id = field_str[s].field.fileid
    BY FileWithRecord DEF Current, IsRandom, IInv, FileOf
  <1> HIDE DEF i
  <1>2. s \in Range(gfs_file[i].field_strings)
    BY <1>1 DEF FieldInv
  <1> QED
    BY <1>1, <1>2 DEF i

\* Files are made, closed or looked at.
LEMMA FieldsKept ==
    ASSUME IInv, FInv, UNCHANGED <<field_str, assigned>>,
           gfs_nextid' \in {gfs_nextid, gfs_nextid + 1},
           \A i \in DOMAIN gfs_file' : gfs_file'[i].open =>
              \/ i \in DOMAIN gfs_file /\ gfs_file'[i] = gfs_file[i]
              \/ gfs_file'[i].field_strings = <<>> /\ gfs_file'[i].id = gfs_nextid
    PROVE  FInv'
  <1>1. \A s \in FieldStrings : field_str[s].field.fileid < gfs_nextid'
                                /\ field_str[s].field.fileid # gfs_nextid
    <2>1. ASSUME NEW s \in FieldStrings
          PROVE  field_str[s].field.fileid \in Nat
      BY Types, FilesAssumption DEF IInv, Str, Field, FilesAssumption
    <2>2. gfs_nextid \in Nat
      BY FilesAssumption DEF IInv, FilesTypeOK, FilesAssumption
    <2>3. \A s \in FieldStrings : field_str[s].field.fileid < gfs_nextid
      BY DEF FInv, FieldInv
    <2> QED
      BY <2>1, <2>2, <2>3
  <1>2. Range(<<>>) = {} /\ IsInjective(<<>>)
    BY DEF Range, IsInjective
  <1>3. ASSUME NEW i \in DOMAIN gfs_file', gfs_file'[i].open
        PROVE  /\ IsInjective(gfs_file'[i].field_strings)
               /\ Range(gfs_file'[i].field_strings)
                     = {s \in FieldStrings : field_str'[s].field.fileid = gfs_file'[i].id}
               /\ Range(gfs_file'[i].field_strings) # {} => gfs_file'[i].random
               /\ \A s \in Range(gfs_file'[i].field_strings) :
                     field_str'[s].live /\ field_str'[s].field.fileno = gfs_file'[i].fileno
               /\ \A s \in Range(gfs_file'[i].field_strings) \ assigned' :
                     field_str'[s].chr = RecordPart(gfs_file'[i].field_buffer, field_str'[s].field)
    <2>1. CASE i \in DOMAIN gfs_file /\ gfs_file'[i] = gfs_file[i]
      <3>1. /\ IsInjective(gfs_file[i].field_strings)
            /\ Range(gfs_file[i].field_strings)
                  = {s \in FieldStrings : field_str[s].field.fileid = gfs_file[i].id}
            /\ Range(gfs_file[i].field_strings) # {} => gfs_file[i].random
            /\ \A s \in Range(gfs_file[i].field_strings) :
                  field_str[s].live /\ field_str[s].field.fileno = gfs_file[i].fileno
        BY <1>3, <2>1 DEF FInv, FieldInv
      <3>2. \A s \in Range(gfs_file[i].field_strings) \ assigned :
               field_str[s].chr = RecordPart(gfs_file[i].field_buffer, field_str[s].field)
        BY <1>3, <2>1 DEF FInv, FieldsAgree
      <3> QED
        BY <2>1, <3>1, <3>2
    <2>2. CASE gfs_file'[i].field_strings = <<>> /\ gfs_file'[i].id = gfs_nextid
      BY <1>1, <1>2, <2>2
    <2> QED
      BY <1>3, <2>1, <2>2
  <1>4. \A s \in FieldStrings : field_str'[s].field.fileid = 0 => field_str'[s].field = NoField
    BY DEF FInv, FieldInv
  <1>5. \A s \in FieldStrings : field_str'[s].field.fileid < gfs_nextid'
    BY <1>1
  <1>6. FieldInv'
    BY <1>3, <1>4, <1>5 DEF FieldInv
  <1>7. FieldsAgree'
    BY <1>3 DEF FieldsAgree
  <1> QED
    BY <1>6, <1>7 DEF FInv

\* The strings of file i have been updated: they agree with its record, and the others do as
\* before.
LEMMA RefreshedAgree ==
    ASSUME IInv, RecordInv', FieldInv', FieldsAgree, NEW i \in DOMAIN gfs_file, gfs_file[i].open,
           DOMAIN gfs_file' = DOMAIN gfs_file,
           \A j \in DOMAIN gfs_file : gfs_file'[j].open = gfs_file[j].open,
           NEW strs, Refreshed(i, strs),
           \A j \in DOMAIN gfs_file : j # i =>
              /\ Range(gfs_file'[j].field_strings) = Range(gfs_file[j].field_strings)
              /\ gfs_file'[j].field_buffer = gfs_file[j].field_buffer,
           \A t \in FieldStrings : t \notin Range(gfs_file'[i].field_strings)
                                   => strs[t] = field_str[t],
           assigned' = assigned \ Range(gfs_file'[i].field_strings)
    PROVE  FieldsAgree'
  <1>1. ASSUME NEW j \in DOMAIN gfs_file, gfs_file'[j].open,
               NEW t \in Range(gfs_file'[j].field_strings), t \notin assigned'
        PROVE  field_str'[t].chr = RecordPart(gfs_file'[j].field_buffer, field_str'[t].field)
    <2>1. t \in FieldStrings /\ field_str'[t].field.fileid = gfs_file'[j].id
      BY <1>1 DEF FieldInv
    <2>2. CASE j = i
      BY <1>1, <2>1, <2>2 DEF Refreshed
    <2>3. CASE j # i
      <3>1. t \notin Range(gfs_file'[i].field_strings)
        <4>1. ASSUME t \in Range(gfs_file'[i].field_strings)
              PROVE  FALSE
          <5>1. gfs_file'[i].open
            OBVIOUS
          <5>2. field_str'[t].field.fileid = gfs_file'[i].id
            BY <4>1, <5>1 DEF FieldInv
          <5> QED
            BY <2>1, <2>3, <5>2 DEF RecordInv
        <4> QED
          BY <4>1
      <3>2. field_str'[t] = field_str[t]
        BY <2>1, <3>1 DEF Refreshed
      <3>3. t \notin assigned /\ t \in Range(gfs_file[j].field_strings) /\ gfs_file[j].open
        BY <1>1, <2>3, <3>1
      <3>4. field_str[t].chr = RecordPart(gfs_file[j].field_buffer, field_str[t].field)
        BY <3>3 DEF FieldsAgree
      <3> QED
        BY <2>3, <3>2, <3>4
    <2> QED
      BY <2>2, <2>3
  <1> QED
    BY <1>1 DEF FieldsAgree

\* Neither fields nor lists change.
LEMMA FieldsSame ==
    ASSUME IInv, FieldInv, DOMAIN gfs_file' = DOMAIN gfs_file, UNCHANGED gfs_nextid,
           \A j \in DOMAIN gfs_file :
              /\ gfs_file'[j].open = gfs_file[j].open /\ gfs_file'[j].id = gfs_file[j].id
              /\ gfs_file'[j].fileno = gfs_file[j].fileno
                 /\ gfs_file'[j].random = gfs_file[j].random
              /\ gfs_file'[j].field_strings = gfs_file[j].field_strings,
           \A t \in FieldStrings :
              field_str'[t].field = field_str[t].field /\ (field_str[t].live => field_str'[t].live)
    PROVE  FieldInv'
  <1>1. ASSUME NEW i \in DOMAIN gfs_file', gfs_file'[i].open
        PROVE  /\ IsInjective(gfs_file'[i].field_strings)
               /\ Range(gfs_file'[i].field_strings)
                     = {s \in FieldStrings : field_str'[s].field.fileid = gfs_file'[i].id}
               /\ Range(gfs_file'[i].field_strings) # {} => gfs_file'[i].random
               /\ \A s \in Range(gfs_file'[i].field_strings) :
                     field_str'[s].live /\ field_str'[s].field.fileno = gfs_file'[i].fileno
    BY <1>1 DEF FieldInv
  <1> QED
    BY <1>1 DEF FieldInv

\* A string leaves no list: its field is none, or of a file that is closed.
LEMMA FieldDropped ==
    ASSUME IInv, FInv, NEW s \in FieldStrings,
           ~(field_str[s].field # NoField /\ Current(field_str[s].field)),
           UNCHANGED <<gfs_file, gfs_nextid>>, field_str'[s].field = NoField,
           \A t \in FieldStrings : t # s => field_str'[t] = field_str[t],
           assigned \subseteq assigned' \union {s}
    PROVE  FInv'
  <1>1. \A i \in DOMAIN gfs_file : gfs_file[i].open => s \notin Range(gfs_file[i].field_strings)
    BY ListedIsField DEF FInv
  <1>2. \A i \in DOMAIN gfs_file : gfs_file[i].id # 0
    BY FileId DEF IInv
  <1>3. gfs_nextid > 0 /\ NoField.fileid = 0
    BY FilesAssumption DEF IInv, FilesTypeOK, FilesAssumption, NoField
  <1>4. ASSUME NEW i \in DOMAIN gfs_file, gfs_file[i].open
        PROVE  /\ Range(gfs_file[i].field_strings)
                     = {t \in FieldStrings : field_str'[t].field.fileid = gfs_file[i].id}
               /\ \A t \in Range(gfs_file[i].field_strings) :
                     field_str'[t].live /\ field_str'[t].field.fileno = gfs_file[i].fileno
               /\ \A t \in Range(gfs_file[i].field_strings) \ assigned' :
                     field_str'[t].chr = RecordPart(gfs_file[i].field_buffer, field_str'[t].field)
    <2>1. Range(gfs_file[i].field_strings)
             = {t \in FieldStrings : field_str[t].field.fileid = gfs_file[i].id}
      BY <1>4 DEF FInv, FieldInv
    <2>2. \A t \in Range(gfs_file[i].field_strings) : t \in FieldStrings /\ t # s
      BY <1>1, <1>4, <2>1
    <2>3. \A t \in FieldStrings : field_str'[t].field.fileid = gfs_file[i].id
                                  <=> field_str[t].field.fileid = gfs_file[i].id
      BY <1>1, <1>2, <1>3, <1>4, <2>1
    <2>4. \A t \in Range(gfs_file[i].field_strings) \ assigned' : t \notin assigned
      BY <2>2
    <2> QED
      BY <1>4, <2>1, <2>2, <2>3, <2>4 DEF FInv, FieldInv, FieldsAgree
  <1>5. FieldInv'
    BY <1>3, <1>4 DEF FInv, FieldInv
  <1>6. FieldsAgree'
    BY <1>4 DEF FieldsAgree
  <1> QED
    BY <1>5, <1>6 DEF FInv

LEMMA FieldAdds ==
    ASSUME ~Detaches, IInv, IInv', FInv, NEW s \in FieldStrings, NEW size \in Nat, FieldAdd(s, size)
    PROVE  FInv'
  <1> DEFINE i == gfs_fileno[field_fileno]
             field == FieldOf(field_fileno, size)
             strs == [field_str EXCEPT ![s].field = field]
             list == gfs_file[i].field_strings
  <1>1. Unlisted(s) = gfs_file /\ ~Current(field_str[s].field) /\ field_str[s].live
    BY UnlistedIs DEF FieldAdd, MayDetach, IInv
  <1>2. /\ i \in DOMAIN gfs_file /\ gfs_file[i].open /\ gfs_file[i].random
        /\ gfs_file[i].fileno = field_fileno
        /\ SameBut(gfs_file', {}) /\ Refreshed(i, strs)
        /\ list \in Seq(FieldStrings) /\ gfs_file'[i].field_strings = Append(list, s)
        /\ \A j \in DOMAIN gfs_file : j # i => gfs_file'[j] = gfs_file[j]
    BY <1>1, FieldAddIs
  <1>3. /\ field.fileno = field_fileno /\ field.fileid = gfs_file[i].id
        /\ gfs_nextid' = gfs_nextid /\ field_str \in [FieldStrings -> Str]
    BY Types DEF FieldOf, FieldAdd, IInv
  <1> HIDE DEF i, field
  <1>4. strs[s].field = field /\ strs[s].live = field_str[s].live
        /\ \A t \in FieldStrings : t # s => strs[t] = field_str[t]
    BY <1>3 DEF Str
  <1> HIDE DEF strs
  <1>5. \A j \in DOMAIN gfs_file : gfs_file[j].open => s \notin Range(gfs_file[j].field_strings)
    BY <1>1, ListedIsField DEF FInv
  <1>6. /\ Range(Append(list, s)) = Range(list) \union {s}
        /\ IsInjective(Append(list, s))
    <2>1. s \notin ToSet(list) /\ IsInjective(list)
      BY <1>2, <1>5 DEF ToSet, Range, FInv, FieldInv
    <2>2. ToSet(Append(list, s)) = ToSet(list) \cup {s} /\ IsInjective(Append(list, s))
      BY <1>2, <2>1, PushInjective
    <2> QED
      BY <2>2 DEF ToSet, Range
  <1> HIDE DEF list
  <1>7. DOMAIN gfs_file' = DOMAIN gfs_file /\ RecordInv'
    BY <1>2, SameButKeeps DEF IInv, FieldAdd
  <1>8. \A t \in FieldStrings : field_str'[t].field = (IF t = s THEN field ELSE field_str[t].field)
                                /\ field_str'[t].live = field_str[t].live
    BY <1>2, <1>4 DEF Refreshed
  <1>9. \A j \in DOMAIN gfs_file :
           /\ gfs_file'[j].id = gfs_file[j].id /\ gfs_file'[j].open = gfs_file[j].open
           /\ gfs_file'[j].fileno = gfs_file[j].fileno /\ gfs_file'[j].random = gfs_file[j].random
    BY <1>2 DEF SameBut
  <1>10. FieldInv'
    <2>1. ASSUME NEW t \in FieldStrings
          PROVE  field_str'[t].field.fileid < gfs_nextid'
                 /\ (field_str'[t].field.fileid = 0 => field_str'[t].field = NoField)
      <3>1. gfs_file[i].id < gfs_nextid /\ gfs_file[i].id # 0
        BY <1>2, FileId DEF IInv, RecordInv
      <3> QED
        BY <1>3, <1>8, <3>1 DEF FInv, FieldInv
    <2>2. ASSUME NEW j \in DOMAIN gfs_file', gfs_file'[j].open
          PROVE  /\ IsInjective(gfs_file'[j].field_strings)
                 /\ Range(gfs_file'[j].field_strings)
                       = {t \in FieldStrings : field_str'[t].field.fileid = gfs_file'[j].id}
                 /\ Range(gfs_file'[j].field_strings) # {} => gfs_file'[j].random
                 /\ \A t \in Range(gfs_file'[j].field_strings) :
                       field_str'[t].live /\ field_str'[t].field.fileno = gfs_file'[j].fileno
      <3>1. /\ j \in DOMAIN gfs_file /\ gfs_file[j].open
            /\ IsInjective(gfs_file[j].field_strings)
            /\ Range(gfs_file[j].field_strings)
                  = {t \in FieldStrings : field_str[t].field.fileid = gfs_file[j].id}
            /\ Range(gfs_file[j].field_strings) # {} => gfs_file[j].random
            /\ \A t \in Range(gfs_file[j].field_strings) :
                  field_str[t].live /\ field_str[t].field.fileno = gfs_file[j].fileno
        BY <1>7, <1>9, <2>2 DEF FInv, FieldInv
      <3>2. CASE j = i
        <4>1. Range(gfs_file'[j].field_strings) = Range(gfs_file[j].field_strings) \union {s}
              /\ IsInjective(gfs_file'[j].field_strings)
          BY <1>2, <1>6, <3>2 DEF list
        <4>2. \A t \in FieldStrings : field_str'[t].field.fileid = gfs_file'[j].id
                                      <=> t = s \/ field_str[t].field.fileid = gfs_file[j].id
          BY <1>3, <1>8, <1>9, <3>1, <3>2
        <4>3. \A t \in Range(gfs_file'[j].field_strings) :
                 field_str'[t].live /\ field_str'[t].field.fileno = gfs_file'[j].fileno
          BY <1>1, <1>2, <1>3, <1>8, <1>9, <3>1, <3>2, <4>1
        <4> QED
          BY <1>2, <1>9, <3>1, <3>2, <4>1, <4>2, <4>3
      <3>3. CASE j # i
        <4>1. gfs_file'[j] = gfs_file[j] /\ s \notin Range(gfs_file[j].field_strings)
              /\ gfs_file[j].id # gfs_file[i].id
          BY <1>2, <1>5, <3>1, <3>3 DEF IInv, RecordInv
        <4>2. \A t \in FieldStrings : field_str'[t].field.fileid = gfs_file[j].id
                                      <=> field_str[t].field.fileid = gfs_file[j].id
          BY <1>3, <1>8, <3>1, <4>1
        <4> QED
          BY <1>8, <3>1, <4>1, <4>2
      <3> QED
        BY <3>2, <3>3
    <2> QED
      BY <2>1, <2>2 DEF FieldInv
  <1>11. FieldsAgree'
    <2>1. assigned' = assigned \ Range(gfs_file'[i].field_strings)
      <3> DEFINE files == [Unlisted(s) EXCEPT ![i].field_strings = Append(@, s)]
      <3>1. gfs_file' = files /\ assigned' = assigned \ Range(files[i].field_strings)
        BY DEF FieldAdd, i
      <3> QED
        BY <3>1
    <2>2. \A t \in FieldStrings : t \notin Range(gfs_file'[i].field_strings)
                                  => strs[t] = field_str[t]
      BY <1>2, <1>4, <1>6
    <2>3. \A j \in DOMAIN gfs_file : j # i =>
              /\ Range(gfs_file'[j].field_strings) = Range(gfs_file[j].field_strings)
              /\ gfs_file'[j].field_buffer = gfs_file[j].field_buffer
      BY <1>2
    <2>4. \A j \in DOMAIN gfs_file : gfs_file'[j].open = gfs_file[j].open
      BY <1>9
    <2> QED
      BY <1>2, <1>7, <1>10, <2>1, <2>2, <2>3, <2>4, RefreshedAgree DEF FInv
  <1> QED
    BY <1>10, <1>11 DEF FInv

\* GET, and LSET of a string that is a field.
LEMMA FieldsWritten ==
    ASSUME IInv, FInv, NEW i \in DOMAIN gfs_file, gfs_file[i].open,
           SameBut(gfs_file', {i}), UNCHANGED <<gfs_freed, gfs_fileno, gfs_nextid>>,
           gfs_file'[i].field_strings = gfs_file[i].field_strings,
           \A j \in DOMAIN gfs_file : j # i => gfs_file'[j] = gfs_file[j],
           NEW strs, Refreshed(i, strs),
           \A t \in FieldStrings : strs[t].field = field_str[t].field
                                   /\ strs[t].live = field_str[t].live,
           \A t \in FieldStrings : t \notin Range(gfs_file[i].field_strings)
                                   => strs[t] = field_str[t],
           assigned' = assigned \ Range(gfs_file[i].field_strings)
    PROVE  FInv'
  <1>1. DOMAIN gfs_file' = DOMAIN gfs_file /\ RecordInv'
    BY SameButKeeps DEF IInv
  <1>2. \A j \in DOMAIN gfs_file :
           /\ gfs_file'[j].id = gfs_file[j].id /\ gfs_file'[j].open = gfs_file[j].open
           /\ gfs_file'[j].fileno = gfs_file[j].fileno /\ gfs_file'[j].random = gfs_file[j].random
           /\ gfs_file'[j].field_strings = gfs_file[j].field_strings
    BY DEF SameBut
  <1>3. \A t \in FieldStrings :
           field_str'[t].field = field_str[t].field /\ field_str'[t].live = field_str[t].live
    BY DEF Refreshed
  <1>4. FieldInv'
    BY <1>1, <1>2, <1>3, FieldsSame DEF FInv
  <1>5. \A j \in DOMAIN gfs_file : j # i =>
              /\ Range(gfs_file'[j].field_strings) = Range(gfs_file[j].field_strings)
              /\ gfs_file'[j].field_buffer = gfs_file[j].field_buffer
    OBVIOUS
  <1>6. \A j \in DOMAIN gfs_file : gfs_file'[j].open = gfs_file[j].open
    BY <1>2
  <1>7. FieldsAgree'
    BY <1>1, <1>4, <1>5, <1>6, RefreshedAgree DEF FInv
  <1> QED
    BY <1>4, <1>7 DEF FInv

\* Files, numbers and handles change, strings do not.
LEMMA FieldTable ==
    ASSUME IInv, FInv,
           \/ \E f \in FileNumbers :
                 \/ \E random, scrn \in BOOLEAN : Open(f, random, scrn)
                 \/ OpenFails(f) \/ Look(f) \/ Close(f) \/ FieldNew(f)
           \/ CloseAll \/ CloseAllNext \/ FieldEnd \/ UNCHANGED filesVars
    PROVE  FInv'
  <1>1. UNCHANGED <<field_str, assigned>>
    BY DEF Open, OpenFails, Look, Close, FieldNew, CloseAll, CloseAllNext, FieldEnd, filesVars,
           fieldVars
  <1>2. FilesTypeOK /\ NumInv /\ RecordInv
    BY DEF IInv
  <1> DEFINE Same == gfs_nextid' \in {gfs_nextid, gfs_nextid + 1} /\
                     \A i \in DOMAIN gfs_file' : gfs_file'[i].open =>
              \/ i \in DOMAIN gfs_file /\ gfs_file'[i] = gfs_file[i]
              \/ gfs_file'[i].field_strings = <<>> /\ gfs_file'[i].id = gfs_nextid
  <1>3. ASSUME NEW f \in FileNumbers, NEW random \in BOOLEAN, NEW scrn \in BOOLEAN,
               Open(f, random, scrn)
        PROVE  Same
    <2> DEFINE file == NewFile(f, random, scrn)
    <2>1. file \in File /\ Make(file) /\ file.id = gfs_nextid /\ file.field_strings = <<>>
      BY <1>2, <1>3, OpenKeeps DEF Open, NewFile
    <2> HIDE DEF file
    <2>2. /\ gfs_nextid' = gfs_nextid + 1 /\ gfs_file'[NewHandle] = file
          /\ DOMAIN gfs_file' = DOMAIN gfs_file \union {NewHandle}
          /\ \A i \in DOMAIN gfs_file : i # NewHandle => gfs_file'[i] = gfs_file[i]
      BY <1>2, <2>1, MakeIs
    <2> QED
      BY <2>1, <2>2
  <1>4. ASSUME NEW f \in FileNumbers, OpenFails(f)
        PROVE  Same
    <2> DEFINE file == [NewFile(0, FALSE, FALSE) EXCEPT !.open = FALSE]
    <2>1. gfs_nextid \in 1 .. MaxFiles
      BY <1>2, <1>4, FilesAssumption DEF FilesAssumption, FilesTypeOK, OpenFails, Make
    <2>2. file \in File /\ ~file.open
      BY <2>1, EmptySeq DEF NewFile, File
    <2>3. Make(file)
      BY <1>4 DEF OpenFails
    <2> HIDE DEF file
    <2>4. /\ gfs_nextid' = gfs_nextid + 1 /\ gfs_file'[NewHandle] = file
          /\ DOMAIN gfs_file' = DOMAIN gfs_file \union {NewHandle}
          /\ \A i \in DOMAIN gfs_file : i # NewHandle => gfs_file'[i] = gfs_file[i]
      BY <1>2, <2>2, <2>3, MakeIs
    <2> QED
      BY <2>2, <2>4
  <1>5. ASSUME NEW f, InUse(f), CloseNumber(f), UNCHANGED gfs_nextid
        PROVE  Same
    <2>1. /\ gfs_file'[gfs_fileno[f]] = Closed(gfs_file[gfs_fileno[f]])
          /\ \A j \in DOMAIN gfs_file : j # gfs_fileno[f] => gfs_file'[j] = gfs_file[j]
          /\ gfs_fileno[f] \in DOMAIN gfs_file /\ DOMAIN gfs_file' = DOMAIN gfs_file
      BY <1>2, <1>5, CloseNumberIs
    <2>2. ~Closed(gfs_file[gfs_fileno[f]]).open
      BY <1>2, <2>1, FileType DEF Closed, File
    <2> QED
      BY <1>5, <2>1, <2>2
  <1>6. ASSUME UNCHANGED <<gfs_file, gfs_nextid>>
        PROVE  Same
    BY <1>6
  <1>7. ASSUME NEW f, Look(f) \/ FieldNew(f)
        PROVE  UNCHANGED <<gfs_file, gfs_nextid>>
    BY <1>7 DEF Look, FieldNew
  <1>8. ASSUME NEW f, Close(f)
        PROVE  InUse(f) /\ CloseNumber(f) /\ UNCHANGED gfs_nextid
    BY <1>8 DEF Close
  <1>9. ASSUME CloseAll \/ CloseAllNext \/ FieldEnd \/ UNCHANGED filesVars
        PROVE  \/ InUse(closing_i) /\ CloseNumber(closing_i) /\ UNCHANGED gfs_nextid
               \/ UNCHANGED <<gfs_file, gfs_nextid>>
    BY <1>9 DEF CloseAll, CloseAllNext, FieldEnd, filesVars, fileTable
  <1>10. Same
    <2> HIDE DEF Same
    <2> QED
      BY <1>3, <1>4, <1>5, <1>6, <1>7, <1>8, <1>9
  <1> QED
    BY <1>1, <1>10, FieldsKept

LEMMA FieldStep ==
    ASSUME ~Detaches, IInv, IInv', FInv, [FilesNext]_filesVars
    PROVE  FInv'
  <1>1. field_str \in [FieldStrings -> Str]
    BY Types DEF IInv
  <1>2. ASSUME NEW f \in FileNumbers, NEW record \in Words, GetRecord(f, record)
        PROVE  FInv'
    <2> DEFINE i == gfs_fileno[f]
    <2>1. /\ i \in DOMAIN gfs_file /\ gfs_file[i].open
          /\ SameBut(gfs_file', {i}) /\ Refreshed(i, field_str)
          /\ gfs_file'[i].field_strings = gfs_file[i].field_strings
          /\ \A j \in DOMAIN gfs_file : j # i => gfs_file'[j] = gfs_file[j]
      BY <1>2, GetRecordIs
    <2>2. /\ UNCHANGED <<gfs_freed, gfs_fileno, gfs_nextid>>
          /\ assigned' = assigned \ Range(gfs_file[i].field_strings)
      BY <1>2 DEF GetRecord
    <2> HIDE DEF i
    <2> QED
      BY <2>1, <2>2, FieldsWritten
  <1>3. ASSUME NEW s \in FieldStrings, NEW size \in 0 .. RecordLength, FieldAdd(s, size)
        PROVE  FInv'
    <2>1. size \in Nat
      BY FilesAssumption DEF FilesAssumption
    <2> QED
      BY <1>3, <2>1, FieldAdds
  <1>4. ASSUME NEW s \in FieldStrings, NEW text \in Words, Lset(s, text)
        PROVE  FInv'
    <2>1. UNCHANGED <<gfs_freed, gfs_fileno, gfs_nextid>>
      BY <1>4 DEF Lset
    <2>2. CASE field_str[s].field # NoField /\ Current(field_str[s].field)
      <3> DEFINE i == gfs_fileno[field_str[s].field.fileno]
      <3>1. PICK value \in Seq(Nat) :
               /\ i \in DOMAIN gfs_file /\ gfs_file[i].open
               /\ SameBut(gfs_file', {i}) /\ Refreshed(i, [field_str EXCEPT ![s].chr = value])
               /\ gfs_file'[i].field_strings = gfs_file[i].field_strings
               /\ \A j \in DOMAIN gfs_file : j # i => gfs_file'[j] = gfs_file[j]
               /\ assigned' = assigned \ Range(gfs_file[i].field_strings)
        BY <1>4, <2>2, LsetFieldIs
      <3>2. s \in Range(gfs_file[i].field_strings)
        BY <2>2, FieldIsListed DEF FInv
      <3> DEFINE strs == [field_str EXCEPT ![s].chr = value]
      <3> HIDE DEF i
      <3>3. \A t \in FieldStrings :
               /\ strs[t].field = field_str[t].field /\ strs[t].live = field_str[t].live
               /\ t # s => strs[t] = field_str[t]
        BY <1>1 DEF Str
      <3>4. Refreshed(i, strs)
        BY <3>1
      <3> HIDE DEF strs
      <3> QED
        BY <2>1, <3>1, <3>2, <3>3, <3>4, FieldsWritten
    <2>3. CASE ~(field_str[s].field # NoField /\ Current(field_str[s].field))
      <3>1. /\ UNCHANGED <<gfs_file, assigned>> /\ field_str'[s].field = NoField
            /\ \A t \in FieldStrings : t # s => field_str'[t] = field_str[t]
        BY <1>4, <2>3, LsetOtherIs
      <3> QED
        BY <2>1, <2>3, <3>1, FieldDropped
    <2> QED
      BY <2>2, <2>3
  <1>5. ASSUME NEW s \in FieldStrings, NEW text \in Words, Assigns(s, text)
        PROVE  FInv'
    <2>1. /\ UNCHANGED <<gfs_file, gfs_nextid>> /\ assigned' = assigned \union {s}
          /\ field_str' = [field_str EXCEPT ![s].chr = text]
      BY <1>5 DEF Assigns, fileTable
    <2>2. \A t \in FieldStrings :
             /\ field_str'[t].field = field_str[t].field /\ field_str'[t].live = field_str[t].live
             /\ t # s => field_str'[t] = field_str[t]
      BY <1>1, <2>1 DEF Str
    <2>3. FieldInv'
      BY <2>1, <2>2, FieldsSame DEF FInv
    <2>4. ASSUME NEW i \in DOMAIN gfs_file, gfs_file[i].open,
                 NEW t \in Range(gfs_file[i].field_strings), t \notin assigned'
          PROVE  field_str'[t].chr = RecordPart(gfs_file[i].field_buffer, field_str'[t].field)
      <3>1. t \in FieldStrings
        BY <2>4 DEF FInv, FieldInv
      <3> QED
        BY <2>1, <2>2, <2>4, <3>1 DEF FInv, FieldsAgree
    <2>5. FieldsAgree'
      BY <2>1, <2>4 DEF FieldsAgree
    <2> QED
      BY <2>3, <2>5 DEF FInv
  <1>6. ASSUME NEW s \in FieldStrings, NewFieldString(s)
        PROVE  FInv'
    <2>1. /\ UNCHANGED <<gfs_file, gfs_nextid, assigned>>
          /\ field_str' = [field_str EXCEPT ![s].live = TRUE]
      BY <1>6 DEF NewFieldString, fileTable
    <2>2. \A t \in FieldStrings :
             /\ field_str'[t].field = field_str[t].field /\ field_str'[t].chr = field_str[t].chr
             /\ field_str[t].live => field_str'[t].live
      BY <1>1, <2>1 DEF Str
    <2>3. FieldInv'
      BY <2>1, <2>2, FieldsSame DEF FInv
    <2>4. ASSUME NEW i \in DOMAIN gfs_file, gfs_file[i].open,
                 NEW t \in Range(gfs_file[i].field_strings), t \notin assigned
          PROVE  field_str'[t].chr = RecordPart(gfs_file[i].field_buffer, field_str'[t].field)
      <3>1. t \in FieldStrings
        BY <2>4 DEF FInv, FieldInv
      <3> QED
        BY <2>2, <2>4, <3>1 DEF FInv, FieldsAgree
    <2>5. FieldsAgree'
      BY <2>1, <2>4 DEF FieldsAgree
    <2> QED
      BY <2>3, <2>5 DEF FInv
  <1>7. ASSUME NEW s \in FieldStrings, FreeFieldString(s)
        PROVE  FInv'
    <2>1. /\ gfs_file' = gfs_file /\ gfs_nextid' = gfs_nextid /\ ~Current(field_str[s].field)
          /\ field_str' = [field_str EXCEPT ![s] = NoFieldString] /\ assigned' = assigned \ {s}
      BY <1>7, UnlistedIs DEF FreeFieldString, MayDetach, IInv
    <2>2. field_str'[s].field = NoField /\ \A t \in FieldStrings : t # s
          => field_str'[t] = field_str[t]
      BY <1>1, <2>1 DEF NoFieldString
    <2>3. assigned \subseteq assigned' \union {s}
      BY <2>1
    <2> QED
      BY <2>1, <2>2, <2>3, FieldDropped
  <1>8. ASSUME \/ \E f \in FileNumbers :
                     \/ \E random, scrn \in BOOLEAN : Open(f, random, scrn)
                     \/ OpenFails(f) \/ Look(f) \/ Close(f) \/ FieldNew(f)
               \/ CloseAll \/ CloseAllNext \/ FieldEnd \/ UNCHANGED filesVars
        PROVE  FInv'
    BY <1>8, FieldTable
  <1> HIDE DEF FInv
  <1> QED
    BY <1>2, <1>3, <1>4, <1>5, <1>6, <1>7, <1>8 DEF FilesNext

\* If no string is freed, or put in another FIELD, while its file is open, the lists of strings
\* that field_update() goes through are exact, and a string that was not assigned to says what
\* is in its part of the record, however FIELD, GET, LSET, OPEN and CLOSE follow each other.
THEOREM FieldsAreExact ==
    ASSUME ~Detaches
    PROVE  FilesSpec => []FieldsExact
  <1>1. FilesInit => FInv
    <2> SUFFICES ASSUME FilesInit PROVE FInv
      OBVIOUS
    <2>1. FieldInv
      BY DEF FilesInit, FieldInv, NoFieldString, NoField
    <2>2. FieldsAgree
      BY DEF FilesInit, FieldsAgree
    <2> QED
      BY <2>1, <2>2 DEF FInv
  <1>2. FInv /\ IInv /\ IInv' /\ [FilesNext]_filesVars => FInv'
    BY FieldStep
  <1>3. IInv /\ FInv => FieldsExact
    <2> SUFFICES ASSUME IInv, FInv PROVE FieldsExact
      OBVIOUS
    <2>1. NumbersExact
      BY FileInUse DEF IInv, NumInv, NumbersExact, FileOf
    <2>2. ListedAreFields
      BY DEF FInv, FieldInv, ListedAreFields
    <2>3. FieldsListed
      BY <2>2 DEF FInv, FieldInv, FieldsListed
    <2> QED
      BY <2>1, <2>3 DEF FInv, FieldsExact
  <1> QED
    BY <1>1, <1>2, <1>3, InvAlways, PTL DEF FilesSpec
=============================================================================
