---------------------------- MODULE MCJqCallbacks ----------------------------
(* An instance of JqCallbacks for TLC. *)
EXTENDS JqCallbacks

AllOptions == SUBSET Flag
=============================================================================
