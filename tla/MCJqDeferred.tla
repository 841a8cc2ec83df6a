---------------------------- MODULE MCJqDeferred ----------------------------
(* Instances of JqDeferred for TLC. *)
EXTENDS JqDeferred

\* then() without handlers, and with the first one
MCHandlerSets == {{}, {"resolved"}}
=============================================================================
