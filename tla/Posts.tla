-------------------------------- MODULE Posts --------------------------------
(***************************************************************************)
(* What $.post promises to the page: a request has one outcome, and of     *)
(* this one the callbacks that the page has attached are told, once.       *)
(***************************************************************************)
CONSTANT Requests

VARIABLES
    outcome,     \* of each request, as soon as it is known
    told         \* what the callbacks of the page were told

pvars == << outcome, told >>

Init ==
    /\ outcome = [r \in Requests |-> "none"]
    /\ told = [r \in Requests |-> "none"]

Settle(r, o) ==
    /\ outcome[r] = "none"
    /\ outcome' = [outcome EXCEPT ![r] = o]

\* the callbacks are told as soon as both are there, the outcome and they
Tell(r) ==
    /\ told[r] = "none"
    /\ outcome'[r] # "none"
    /\ told' = [told EXCEPT ![r] = outcome'[r]]

Next ==
    \E r \in Requests :
        \/ \E o \in {"done", "fail"} : Settle(r, o) /\ (Tell(r) \/ UNCHANGED told)
        \/ UNCHANGED outcome /\ Tell(r)

Spec == Init /\ [][Next]_pvars
=============================================================================
