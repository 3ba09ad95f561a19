-------------------------- MODULE MCEventDispatch --------------------------
(* Instance of EventDispatch for TLC. *)
EXTENDS EventDispatch
=============================================================================
