------------------------------ MODULE FileTable ------------------------------
(***************************************************************************)
(* What OPEN and CLOSE promise: a number names the file that it was opened *)
(* for until it is closed, whatever becomes of the other numbers.          *)
(***************************************************************************)
EXTENDS Integers

CONSTANT FileNumbers

VARIABLES
    opened,     \* for each number the file it names, 0 if it is free
    lastFile    \* files are numbered in the order they are made

TableInit == opened = [f \in FileNumbers |-> 0] /\ lastFile = 0

\* An OPEN that fails may have made a file, too.
TableOpen(f) ==
    /\ opened[f] = 0
    /\ lastFile' = lastFile + 1
    /\ opened' \in {opened, [opened EXCEPT ![f] = lastFile']}

TableClose(f) == opened' = [opened EXCEPT ![f] = 0] /\ UNCHANGED lastFile

TableNext == \E f \in FileNumbers : TableOpen(f) \/ TableClose(f)

TableSpec == TableInit /\ [][TableNext]_<<opened, lastFile>>
=============================================================================
