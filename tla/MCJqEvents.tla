----------------------------- MODULE MCJqEvents -----------------------------
(* An instance of JqEvents for TLC: a check box in a row of a table. *)
EXTENDS JqEvents, TLC

CONSTANTS box, row

Page == (box :> << box, row >>) @@ (row :> << row >>)

CONSTANT f

\* the same function, so that off() and one() take both; one is found by the
\* namespace too
FormsOfOne ==
    {[fn |-> f, ns |-> FALSE, one |-> TRUE],
     [fn |-> f, ns |-> TRUE, one |-> FALSE]}
=============================================================================
