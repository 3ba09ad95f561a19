------------------------------ MODULE MCFiles ------------------------------
(* Instance of Files for TLC. *)
EXTENDS Files

\* Too short for a field, and too long.
ShortAndLong == {<<1>>, <<1, 2>>}
=============================================================================
