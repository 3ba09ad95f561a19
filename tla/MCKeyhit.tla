------------------------------ MODULE MCKeyhit ------------------------------
(* Instance of Keyhit for TLC. *)
EXTENDS Keyhit
=============================================================================
