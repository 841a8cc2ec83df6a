------------------------------- MODULE MCJqFx -------------------------------
(* An instance of JqFx for TLC. *)
EXTENDS JqFx

kind(what, waits, frames) == [what |-> what, queue |-> waits, duration |-> frames]

\* hide takes no time, and the animation outside of the queue outlasts the others
SomeKinds ==
    {kind("hide", TRUE, 0), kind("show", TRUE, 1), kind("toggle", TRUE, 1),
     kind("plain", FALSE, 2), kind("empty", TRUE, 0), Delay}
=============================================================================
