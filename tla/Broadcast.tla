------------------------------ MODULE Broadcast ------------------------------
(***************************************************************************)
(* What a list of callbacks promises: values are announced one after the   *)
(* other, and everyone who is registered is told of an announcement at     *)
(* most once, in the order of the registrations; never of an announcement  *)
(* after a later one.  Who registers late may be told of the last one.     *)
(***************************************************************************)
EXTENDS Integers, FiniteSets

VARIABLES
    single,          \* there is no more than one announcement
    registered,      \* who has been registered: 1 .. registered
    gone,            \* those who will not be told any more
    announced,       \* the number of announcements
    last,            \* the announcement of which somebody was told last
    told             \* those told of it

bvars == << single, registered, gone, announced, last, told >>

Init ==
    /\ single \in BOOLEAN
    /\ registered = 0
    /\ gone = {}
    /\ announced = 0
    /\ last = 0
    /\ told = {}

Register ==
    /\ registered' = registered + 1
    /\ UNCHANGED << single, gone, announced, last, told >>

Withdraw ==
    /\ \E S \in SUBSET (1 .. registered) : gone' = gone \cup S
    /\ UNCHANGED << single, registered, announced, last, told >>

Announce ==
    /\ single => announced = 0
    /\ announced' = announced + 1
    /\ UNCHANGED << single, registered, gone, last, told >>

Tell ==
    \E i \in (1 .. registered) \ gone, n \in 1 .. announced :
        /\ n >= last
        /\ n = last => \A j \in told : j < i
        /\ last' = n
        /\ told' = IF n = last THEN told \cup {i} ELSE {i}
        /\ UNCHANGED << single, registered, gone, announced >>

Next == Register \/ Withdraw \/ Announce \/ Tell

Spec == Init /\ [][Next]_bvars
=============================================================================
