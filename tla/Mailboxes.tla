------------------------------ MODULE Mailboxes ------------------------------
(***************************************************************************)
(* What event delivery promises to the clients: every open session has a   *)
(* mailbox, a request is put into all open mailboxes at one instant, a     *)
(* mailbox gives its entries back in order and each of them once, and      *)
(* while one session is being closed nothing is published and no session   *)
(* is opened.  Locks, loops and the sleep of a poller are not visible      *)
(* here; EventDelivery implements this specification.                      *)
(***************************************************************************)
EXTENDS Naturals, Sequences

CONSTANTS Sessions, Events, CloseEvent

VARIABLES
    published,   \* all requests, in the order of their publication
    open,        \* the sessions that have a mailbox
    closing,     \* the open session that is being closed, if there is one
    box          \* the entries a mailbox holds

mailVars == << published, open, closing, box >>

Init ==
    /\ published = << >>
    /\ open = {}
    /\ closing = {}
    /\ box = [s \in Sessions |-> << >>]

Publish(e) ==
    /\ closing = {}
    /\ ~ \E i \in DOMAIN published : published[i] = e
    /\ published' = Append(published, e)
    /\ box' = [s \in Sessions |-> IF s \in open THEN Append(box[s], e) ELSE box[s]]
    /\ UNCHANGED << open, closing >>

Open(s) ==
    /\ closing = {}
    /\ s \notin open
    /\ open' = open \cup {s}
    /\ UNCHANGED << published, closing, box >>

Take(s) ==
    /\ s \in open
    /\ box[s] # << >>
    /\ box' = [box EXCEPT ![s] = Tail(@)]
    /\ UNCHANGED << published, open, closing >>

BeginClose(s) ==
    /\ s \in open
    /\ closing = {}
    /\ closing' = {s}
    /\ UNCHANGED << published, open, box >>

Notify(s) ==
    /\ s \in closing
    /\ box' = [box EXCEPT ![s] = Append(@, CloseEvent)]
    /\ UNCHANGED << published, open, closing >>

Close(s) ==
    /\ s \in closing
    /\ open' = open \ {s}
    /\ closing' = {}
    /\ box' = [box EXCEPT ![s] = << >>]
    /\ UNCHANGED published

Next ==
    \/ \E e \in Events : Publish(e)
    \/ \E s \in Sessions :
          Open(s) \/ Take(s) \/ BeginClose(s) \/ Notify(s) \/ Close(s)

Spec == Init /\ [][Next]_mailVars
=============================================================================
