----------------------------- MODULE MCOnTimer -----------------------------
(* Instance of OnTimer for TLC. *)
EXTENDS OnTimer
=============================================================================
