------------------------------- MODULE JqAjax -------------------------------
(***************************************************************************)
(* jQuery.ajax of html/jquery-3.6.1.js and its transports, over            *)
(* XMLHttpRequest and with a <script> element: what runs between the call  *)
(* of $.post in the test client and the call of its done or fail.          *)
(*                                                                         *)
(* Code of the user is called at many points of a request: prefilters,     *)
(* beforeSend, handlers of the global events, callbacks of the request.    *)
(* All of it may make other requests, abort this one or another one, or    *)
(* throw; so calls of ajax() and of its function done() are nested.  The   *)
(* stack holds those under way, the innermost first.                       *)
(***************************************************************************)
EXTENDS Integers, Sequences, Functions

CONSTANTS
    Requests,
    Global,        \* those with s.global
    WithTimeout,   \* those with s.timeout
    Sync,          \* those with s.async = false
    Before,        \* those with s.beforeSend
    DataTypes,     \* the values of s.dataType, "*" for none
    CrossDomain,   \* those with s.crossDomain
    Named,         \* dataTypes that prefilters ask for
    ContentTypes,  \* of the answers
    Statuses,      \* HTTP status codes
    None

Converted == {"html", "json", "xml", "script"}

ASSUME AjaxAssumption ==
    /\ Global \subseteq Requests /\ WithTimeout \subseteq Requests
    /\ Sync \subseteq Requests /\ Before \subseteq Requests
    /\ WithTimeout \cap Sync = {}
    /\ CrossDomain \subseteq Requests
    /\ DataTypes \subseteq Converted \cup {"*", "jsonp"}
    /\ Named \subseteq Converted
    /\ ContentTypes \subseteq Converted \cup {"text"}
    /\ Statuses \subseteq Nat
    /\ None \notin Requests

VARIABLES
    stack,
    dataTypes,     \* what the answer is to be converted to, the first first
    completed,     \* undefined, then FALSE while it is sent, TRUE afterwards
    transport,     \* there is a transport object
    callback,      \* the variable of the transport: undefined, set or null
    xhr,           \* the XMLHttpRequest, or the script element
    timer,         \* the timeout is armed
    fireGlobals,
    deferred,      \* the state of the Deferred
    callbackName,  \* of a JSONP request: the request that it was made up for,
                   \* which is another one if that is over
    container,     \* responseContainer: the request whose script has called
    oldCallbacks,  \* the names that are free
    late,          \* scripts that the browser loads although their element was
                   \* removed: the request and the name that they call
    returned,      \* whether ajax() has returned, so that the caller has
                   \* attached his done and fail
    told,          \* which of them was called
    stuck,         \* a callback has thrown: the list calls nobody any more
    active,        \* jQuery.active
    open,          \* history: ajaxStart events without their ajaxStop
    thrown         \* history: code of the user has thrown somewhere

jsonpVars == << callbackName, container, oldCallbacks, late >>
requestVars == << jsonpVars, dataTypes, completed, transport, callback, xhr, timer, fireGlobals, deferred >>
callerVars == << returned, told, stuck >>
globalVars == << active, open >>
vars == << stack, requestVars, callerVars, globalVars, thrown >>

\* where code of the user is called, in the order of a request
AjaxPoints == {"prefilter", "ajaxStart", "beforeSend", "ajaxSend"}
DonePoints == {"callbacks", "statusCode", "ajaxResult", "complete", "ajaxComplete", "ajaxStop"}

\* the frames: of ajax(), and of a done() that ajax(), an event or the user calls
Frame == [r : Requests, of : {"ajax"}, at : AjaxPoints \cup {"send", "sending"}]
    \cup [r : Requests, of : {"ajax", "event", "user"}, at : DonePoints]

TypeOK ==
    /\ stack \in Seq(Frame)
    /\ dataTypes \in [Requests -> Seq(Converted \cup {"*"})]
    /\ completed \in [Requests -> {"undefined", "false", "true"}]
    /\ transport \in [Requests -> BOOLEAN]
    /\ callback \in [Requests -> {"undefined", "set", "null"}]
    /\ xhr \in [Requests -> {"none", "opened", "sent", "over"}]
    /\ timer \in [Requests -> BOOLEAN]
    /\ fireGlobals \in [Requests -> BOOLEAN]
    /\ deferred \in [Requests -> {"pending", "resolved", "rejected"}]
    /\ callbackName \in [Requests -> Requests \cup {None}]
    /\ container \in [Requests -> Requests \cup {None}]
    /\ oldCallbacks \in Seq(Requests)
    /\ late \subseteq Requests \X Requests
    /\ returned \in [Requests -> {"not called", "no", "yes", "thrown"}]
    /\ told \in [Requests -> {"none", "done", "fail"}]
    /\ stuck \in [Requests -> BOOLEAN]
    /\ active \in Nat
    /\ open \in Nat
    /\ thrown \in BOOLEAN

Init ==
    /\ stack = << >>
    /\ dataTypes = [r \in Requests |-> << "*" >>]
    /\ completed = [r \in Requests |-> "undefined"]
    /\ transport = [r \in Requests |-> FALSE]
    /\ callback = [r \in Requests |-> "undefined"]
    /\ xhr = [r \in Requests |-> "none"]
    /\ timer = [r \in Requests |-> FALSE]
    /\ fireGlobals = [r \in Requests |-> FALSE]
    /\ deferred = [r \in Requests |-> "pending"]
    /\ callbackName = [r \in Requests |-> None]
    /\ container = [r \in Requests |-> None]
    /\ oldCallbacks = << >>
    /\ late = {}
    /\ returned = [r \in Requests |-> "not called"]
    /\ told = [r \in Requests |-> "none"]
    /\ stuck = [r \in Requests |-> FALSE]
    /\ active = 0
    /\ open = 0
    /\ thrown = FALSE

At(place) == stack # << >> /\ stack[1].at = place
Top == stack[1].r
Goto(place) == stack' = [stack EXCEPT ![1].at = place]

UserRuns ==
    stack # << >> => /\ stack[1].at \in AjaxPoints \cup DonePoints
                     /\ stack[1].at = "beforeSend" => Top \in Before

\* the transport for "script" takes the request if this is what comes first
ByScript(r) == r \in CrossDomain /\ Head(dataTypes[r]) = "script"

Outcome(r) ==
    CASE deferred[r] = "pending" -> "none"
      [] deferred[r] = "resolved" -> "done"
      [] deferred[r] = "rejected" -> "fail"

\* mutant of ReturnJqXHR: a list without memory
ReturnForgetful(r) ==
    /\ stack' = Tail(stack)
    /\ returned' = [returned EXCEPT ![r] = "yes"]
    /\ UNCHANGED << told, stuck >>

\* mutant of ReturnJqXHR: what is attached is called in any case
ReturnTelling(r) ==
    /\ stack' = Tail(stack)
    /\ returned' = [returned EXCEPT ![r] = "yes"]
    /\ told' = [told EXCEPT ![r] = "done"]
    /\ UNCHANGED stuck

\* ajax() returns the jqXHR, and the caller attaches done and fail to it.  If
\* the outcome is there they are called at once, unless their list is stuck
ReturnJqXHR(r) ==
    /\ stack' = Tail(stack)
    /\ returned' = [returned EXCEPT ![r] = "yes"]
    /\ told' = [told EXCEPT ![r] = IF stuck[r] THEN @ ELSE Outcome(r)]
    /\ UNCHANGED stuck

-----------------------------------------------------------------------------
(* done() *)

Detach(r) ==
    /\ timer' = [timer EXCEPT ![r] = FALSE]
    /\ transport' = [transport EXCEPT ![r] = FALSE]

\* the function of a JSONP request is taken away, and its name is free
CleanUp(r) ==
    /\ callbackName' = [callbackName EXCEPT ![r] = None]
    /\ container' = [container EXCEPT ![r] = None]
    /\ oldCallbacks' = IF callbackName[r] = None THEN oldCallbacks
                       ELSE Append(oldCallbacks, callbackName[r])

\* done() settles the Deferred, whose callbacks run first.  It is called on top
\* of the calls in rest
Settle(r, ok, of, rest) ==
    /\ completed' = [completed EXCEPT ![r] = "true"]
    /\ Detach(r)
    /\ CleanUp(r)
    /\ deferred' = [deferred EXCEPT ![r] = IF ok THEN "resolved" ELSE "rejected"]
    /\ told' = [told EXCEPT ![r] =
                  IF returned[r] = "yes" /\ ~ stuck[r]
                    THEN IF ok THEN "done" ELSE "fail" ELSE @]
    /\ stack' = << [r |-> r, of |-> of, at |-> "callbacks"] >> \o rest
    /\ UNCHANGED << dataTypes, fireGlobals, returned, stuck, globalVars, thrown >>

\* the callbacks for the status code are attached, and called at once unless the
\* list is stuck
LeaveCallbacks ==
    /\ At("callbacks")
    /\ Goto("statusCode")
    /\ UNCHANGED << requestVars, callerVars, globalVars, thrown >>

\* the callbacks are followed by the global event, the complete callbacks and
\* another global event
LeaveStatusCode ==
    /\ At("statusCode")
    /\ Goto(IF fireGlobals[Top] THEN "ajaxResult" ELSE "complete")
    /\ UNCHANGED << requestVars, callerVars, globalVars, thrown >>

LeaveResult ==
    /\ At("ajaxResult")
    /\ Goto("complete")
    /\ UNCHANGED << requestVars, callerVars, globalVars, thrown >>

ReturnFromDone ==
    IF stack[1].of = "ajax"
      THEN ReturnJqXHR(Top)
      ELSE stack' = Tail(stack) /\ UNCHANGED callerVars

LeaveComplete ==
    /\ At("complete")
    /\ IF fireGlobals[Top]
         THEN Goto("ajaxComplete") /\ UNCHANGED callerVars
         ELSE ReturnFromDone
    /\ UNCHANGED << requestVars, globalVars, thrown >>

\* mutant of LeaveAjaxComplete: the counter is read before it is decremented
LeaveAjaxCompleteBefore ==
    /\ At("ajaxComplete")
    /\ active' = active - 1
    /\ IF active = 0
         THEN Goto("ajaxStop") /\ open' = open - 1 /\ UNCHANGED callerVars
         ELSE ReturnFromDone /\ UNCHANGED open
    /\ UNCHANGED << requestVars, thrown >>

\* the last active request fires ajaxStop
LeaveAjaxComplete ==
    /\ At("ajaxComplete")
    /\ active' = active - 1
    /\ IF active' = 0
         THEN Goto("ajaxStop") /\ open' = open - 1 /\ UNCHANGED callerVars
         ELSE ReturnFromDone /\ UNCHANGED open
    /\ UNCHANGED << requestVars, thrown >>

LeaveAjaxStop ==
    /\ At("ajaxStop")
    /\ ReturnFromDone
    /\ UNCHANGED << requestVars, globalVars, thrown >>

-----------------------------------------------------------------------------
(* ajax() *)

\* the prefilter for jsonp: it will be a script that calls a function by a name,
\* which was used before or is new
Install(r) ==
    /\ dataTypes' = [dataTypes EXCEPT ![r] = << "script", "json" >>]
    /\ callbackName' = [callbackName EXCEPT ![r] =
                           IF oldCallbacks = << >> THEN r ELSE oldCallbacks[Len(oldCallbacks)]]
    /\ oldCallbacks' = SubSeq(oldCallbacks, 1, Len(oldCallbacks) - 1)

\* $.post
Post(r) ==
    /\ UserRuns
    /\ returned[r] = "not called"
    /\ returned' = [returned EXCEPT ![r] = "no"]
    /\ stack' = << [r |-> r, of |-> "ajax", at |-> "prefilter"] >> \o stack
    /\ \E type \in DataTypes :
          IF type = "jsonp" THEN Install(r)
          ELSE /\ dataTypes' = [dataTypes EXCEPT ![r] = << type >>]
               /\ UNCHANGED << callbackName, oldCallbacks >>
    /\ UNCHANGED << container, late, completed, transport, callback, xhr, timer, fireGlobals,
                    deferred, told, stuck, globalVars, thrown >>

\* a prefilter asks for another dataType first, whose prefilters follow
Inspect(type) ==
    /\ At("prefilter")
    /\ type \notin Range(dataTypes[Top])
    /\ dataTypes' = [dataTypes EXCEPT ![Top] = << type >> \o @]
    /\ UNCHANGED << stack, jsonpVars, completed, transport, callback, xhr, timer, fireGlobals,
                    deferred, callerVars, globalVars, thrown >>

\* the first active request fires ajaxStart
LeavePrefilter ==
    /\ At("prefilter")
    /\ completed[Top] # "true"
    /\ fireGlobals' = [fireGlobals EXCEPT ![Top] = Top \in Global]
    /\ active' = IF Top \in Global THEN active + 1 ELSE active
    /\ LET first == Top \in Global /\ active = 0
       IN /\ Goto(IF first THEN "ajaxStart" ELSE "beforeSend")
          /\ open' = IF first THEN open + 1 ELSE open
    /\ UNCHANGED << dataTypes, jsonpVars, completed, transport, callback, xhr, timer, deferred,
                    callerVars, thrown >>

\* the request was aborted in a prefilter, or while ajaxSend was fired
AbortedEarly ==
    /\ At("prefilter") \/ At("ajaxSend")
    /\ completed[Top] = "true"
    /\ ReturnJqXHR(Top)
    /\ UNCHANGED << requestVars, globalVars, thrown >>

LeaveAjaxStart ==
    /\ At("ajaxStart")
    /\ Goto("beforeSend")
    /\ UNCHANGED << requestVars, callerVars, globalVars, thrown >>

\* beforeSend returns false, and ajax() aborts the request itself
Refused ==
    /\ At("beforeSend")
    /\ Top \in Before
    /\ completed[Top] # "true"
    /\ Settle(Top, FALSE, "ajax", Tail(stack))
    /\ UNCHANGED << callback, xhr, late >>

\* beforeSend or ajaxStart has aborted it
AbortedBefore ==
    /\ At("beforeSend")
    /\ Top \in Before
    /\ completed[Top] = "true"
    /\ ReturnJqXHR(Top)
    /\ UNCHANGED << requestVars, globalVars, thrown >>

\* the transport is made.  Without a beforeSend nobody notices an abort here
LeaveBeforeSend ==
    /\ At("beforeSend")
    /\ Top \in Before => completed[Top] # "true"
    /\ transport' = [transport EXCEPT ![Top] = TRUE]
    /\ IF ~ fireGlobals[Top] /\ completed[Top] = "true"
         THEN ReturnJqXHR(Top)
         ELSE /\ Goto(IF fireGlobals[Top] THEN "ajaxSend" ELSE "send")
              /\ UNCHANGED callerVars
    /\ UNCHANGED << dataTypes, jsonpVars, completed, callback, xhr, timer, fireGlobals, deferred,
                    globalVars, thrown >>

LeaveAjaxSend ==
    /\ At("ajaxSend")
    /\ completed[Top] # "true"
    /\ Goto("send")
    /\ UNCHANGED << requestVars, callerVars, globalVars, thrown >>

\* the timeout is armed, the XMLHttpRequest opened, or the element made; its
\* handlers are set
Open ==
    /\ At("send")
    /\ timer' = [timer EXCEPT ![Top] = Top \in WithTimeout]
    /\ completed' = [completed EXCEPT ![Top] = "false"]
    /\ callback' = [callback EXCEPT ![Top] = "set"]
    /\ xhr' = [xhr EXCEPT ![Top] = "opened"]
    /\ Goto("sending")
    /\ UNCHANGED << dataTypes, jsonpVars, transport, fireGlobals, deferred, callerVars, globalVars,
                    thrown >>

\* open() throws: the url is not one
OpenFails ==
    /\ At("send")
    /\ ~ ByScript(Top)
    /\ Settle(Top, FALSE, "ajax", Tail(stack))
    /\ UNCHANGED << callback, xhr, late >>

\* send() waits for the answer.  A script element is never waited for
Waiting(r) == r \in Sync /\ ~ ByScript(r)

\* send() returns.  A synchronous one has fired its event before
Sent ==
    /\ At("sending")
    /\ Waiting(Top) => xhr[Top] = "over"
    /\ xhr' = [xhr EXCEPT ![Top] = IF @ = "opened" THEN "sent" ELSE @]
    /\ ReturnJqXHR(Top)
    /\ UNCHANGED << dataTypes, jsonpVars, completed, transport, callback, timer, fireGlobals,
                    deferred, globalVars, thrown >>

\* send() throws, and no event has come before
SendFails ==
    /\ At("sending")
    /\ ~ ByScript(Top)
    /\ callback[Top] = "set"
    /\ xhr' = [xhr EXCEPT ![Top] = "over"]
    /\ Settle(Top, FALSE, "ajax", Tail(stack))
    /\ UNCHANGED << callback, late >>

-----------------------------------------------------------------------------
(* The XMLHttpRequest, the timeout and abort() *)

\* a load with status 0 comes from a file
XhrStatus(status) == IF status = 0 THEN 200 ELSE status

\* the chain of conversions begins with the text that came.  A request without a
\* dataType takes the one that the answer names
ajaxHandleResponses(r, contentType) ==
    LET asked == SelectSeq(dataTypes[r], LAMBDA type : type # "*")
    IN << "text" >> \o IF asked = << >> /\ contentType # "text"
                        THEN << contentType >> ELSE asked

\* there is a converter for each step: to text, or by way of the text.  html is
\* text, a script is run and stays text
ajaxConvert(chain, parses) == "json" \in Range(chain) \/ "xml" \in Range(chain) => parses

\* an answer is a success by its status, and if it has content, by this
IsSuccess(status, converts) ==
    /\ status \in 200 .. 299 \cup {304}
    /\ status \in {204, 304} \/ converts

\* an event is handled: from the event loop, or while send() waits for it
HandleEvent(r, ok) ==
    /\ \/ stack = << >> /\ xhr[r] = "sent"
       \/ At("sending") /\ Top = r /\ Waiting(r) /\ xhr[r] = "opened"
    /\ callback[r] = "set"
    /\ callback' = [callback EXCEPT ![r] = "null"]
    /\ xhr' = [xhr EXCEPT ![r] = "over"]
    /\ Settle(r, ok, "event", stack)
    /\ UNCHANGED late

\* JSONP: what the converter finds, if a script that calls its function runs now
Called(r, calls) == calls \/ container[r] # None

Load(r) ==
    ~ ByScript(r) /\ \E status \in Statuses, contentType \in ContentTypes, parses \in BOOLEAN :
        LET chain == ajaxHandleResponses(r, contentType)
            good == IF callbackName[r] = None THEN parses ELSE Called(r, parses)
        IN HandleEvent(r, IsSuccess(XhrStatus(status), ajaxConvert(chain, good)))

\* the script was loaded and has run.  There is no response, which no converter
\* makes anything of, but that of JSONP
LoadScript(r) ==
    /\ ByScript(r)
    /\ \E calls \in BOOLEAN :
          LET good == callbackName[r] # None /\ Called(r, calls)
          IN HandleEvent(r, IsSuccess(200, ajaxConvert(dataTypes[r], good)))

\* the script of a request that was ended before: the name that it calls may
\* have got another function since
LateScript(r) ==
    /\ stack = << >>
    /\ \E name \in Requests :
          /\ << r, name >> \in late
          /\ late' = late \ {<< r, name >>}
          /\ container' = [p \in Requests |-> IF callbackName[p] = name THEN r ELSE container[p]]
    /\ UNCHANGED << stack, dataTypes, callbackName, oldCallbacks, completed, transport,
                    callback, xhr, timer, fireGlobals, deferred, callerVars, globalVars, thrown >>

\* error, timeout and abort of the XMLHttpRequest; error of the script (404)
Error(r) == HandleEvent(r, FALSE)

\* mutant of AbortTransport: the XMLHttpRequest goes on
AbortTransportNot(r) == UNCHANGED << callback, xhr, late >>

AbortTransport(r) ==
    IF transport[r] /\ callback[r] = "set"
      THEN /\ callback' = [callback EXCEPT ![r] = "null"]
           /\ xhr' = [xhr EXCEPT ![r] = "over"]
           /\ late' = IF xhr[r] = "sent" /\ ByScript(r) /\ callbackName[r] # None
                        THEN late \cup {<< r, callbackName[r] >>} ELSE late
      ELSE UNCHANGED << callback, xhr, late >>

\* jqXHR.abort()
Abort(r) ==
    /\ UserRuns
    /\ returned[r] # "not called"
    /\ completed[r] # "true"
    /\ AbortTransport(r)
    /\ Settle(r, FALSE, "user", stack)

\* the timeout calls it
Timeout(r) ==
    /\ stack = << >>
    /\ timer[r]
    /\ completed[r] # "true"
    /\ AbortTransport(r)
    /\ Settle(r, FALSE, "event", stack)

\* code of the user throws.  Who has called the function catches it, or throws
\* in turn; an event has no caller
Throw ==
    /\ stack # << >>
    /\ UserRuns
    /\ stack' = Tail(stack)
    /\ thrown' = TRUE
    /\ stuck' = [stuck EXCEPT ![Top] = @ \/ stack[1].at \in {"callbacks", "statusCode"}]
    /\ returned' = [returned EXCEPT ![Top] = IF stack[1].of = "ajax" THEN "thrown" ELSE @]
    /\ UNCHANGED << requestVars, told, globalVars >>

-----------------------------------------------------------------------------

Proceed ==
    \/ LeavePrefilter \/ AbortedEarly \/ LeaveAjaxStart
    \/ AbortedBefore \/ LeaveBeforeSend \/ LeaveAjaxSend
    \/ Open \/ OpenFails \/ Sent \/ SendFails
    \/ LeaveCallbacks \/ LeaveStatusCode \/ LeaveResult \/ LeaveComplete
    \/ LeaveAjaxComplete \/ LeaveAjaxStop

Event(r) == Load(r) \/ LoadScript(r) \/ Error(r)

Next ==
    \/ Proceed
    \/ Refused
    \/ Throw
    \/ \E type \in Named : Inspect(type)
    \/ \E r \in Requests : Post(r) \/ Abort(r) \/ Event(r) \/ Timeout(r) \/ LateScript(r)

Spec == Init /\ [][Next]_vars

\* functions return, and the browser ends what it has sent
FairSpec ==
    /\ Spec
    /\ WF_vars(Proceed)
    /\ \A r \in Requests : WF_vars(Event(r))

-----------------------------------------------------------------------------
(* Properties *)

(* A request has one outcome and its callbacks are told of it once: an     *)
(* answer that comes with a timeout or an abort changes nothing, whoever   *)
(* is first.                                                               *)
\* jquery-3.6.1.js:9730-9847, 10058-10149
P == INSTANCE Posts WITH outcome <- [r \in Requests |-> Outcome(r)]

ImplementsPosts == P!Spec

(* ajaxStart and ajaxStop take turns, however requests are nested in the   *)
(* handlers; and when all requests have ended, and no code has thrown, the *)
(* last event was ajaxStop.                                                *)
\* jquery-3.6.1.js:9597-9600, 9839-9846
EventsTakeTurns ==
    /\ open \in {0, 1}
    /\ stack = << >> /\ ~ thrown /\ (\A r \in Requests : deferred[r] # "pending")
         => open = 0 /\ active = 0

Names == {callbackName[r] : r \in Requests} \ {None}

(* A request is under way exactly if its XMLHttpRequest is: none waits for *)
(* one that is over, and none goes on in the background when the request   *)
(* was aborted or has timed out.  No timeout is armed for a request that   *)
(* is not under way, also if it was aborted while it was made ready.       *)
(* JSONP requests that have no outcome yet go by different names, and none *)
(* gets the answer of another, but perhaps of one that was aborted or has  *)
(* timed out, whose script comes late.                                     *)
\* jquery-3.6.1.js:10058-10149, 10190-10220, 9532-9539, 9702-9712, 9741-9744,
\* 10230-10307
UnderWay ==
    /\ stack = << >> => \A r \in Requests : xhr[r] = "sent" <=> completed[r] = "false"
    /\ \A r \in Requests : timer[r] => completed[r] = "false"
    /\ \A r, p \in Requests : callbackName[r] = callbackName[p] /\ callbackName[r] # None => r = p
    /\ Names \cap Range(oldCallbacks) = {} /\ IsInjective(oldCallbacks)
    /\ \A r \in Requests : container[r] \notin {None, r} => deferred[container[r]] = "rejected"

(* Whoever has been given a request by ajax() gets its outcome, also when  *)
(* it ended before ajax() returned; unless a callback before his throws.   *)
\* jquery-3.6.1.js:9714-9727, 9820-9829
OutcomeComes ==
    \A r \in Requests :
        returned[r] = "yes" ~>
            deferred[r] # "pending" /\ (stuck[r] \/ told[r] = Outcome(r))
=============================================================================
