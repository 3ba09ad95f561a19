------------------------------ MODULE MCState ------------------------------
(***************************************************************************)
(* Instances, for TLC, of the modules of what a program holds: files with  *)
(* FIELDs, memory blocks, strings.  In each behaviour one of them runs,    *)
(* the others stay as they began.                                          *)
(***************************************************************************)
EXTENDS Files, MemBlocks, Qbs

\* Too short for a field, and too long.
ShortAndLong == {<<1>>, <<1, 2>>}

\* Nothing tells the descriptors of strings apart, nor the program's FIELD strings.
Symmetry == Permutations(Strings) \union Permutations(FieldStrings)

VARIABLE part

StateInit ==
    /\ part \in {"files", "memory", "strings"}
    /\ FilesInit /\ MemInit /\ QbsInit

StateNext ==
    /\ UNCHANGED part
    /\ \/ /\ part = "files" /\ FilesNext
          /\ UNCHANGED <<memVars, qbsVars>>
       \/ /\ part = "memory" /\ MemNext
          /\ UNCHANGED <<filesVars, qbsVars>>
       \/ /\ part = "strings" /\ QbsNext
          /\ UNCHANGED <<filesVars, memVars>>

StateSpec ==
    StateInit /\ [][StateNext]_<<part, filesVars, memVars, qbsVars>>

\* Whichever part runs, its variables keep their types.
StateTypeOK ==
    /\ part = "files" => FilesTypeOK
    /\ part = "memory" => MemTypeOK
    /\ part = "strings" => QbsTypeOK
=============================================================================
