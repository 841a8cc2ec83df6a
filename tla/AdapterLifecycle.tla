--------------------------- MODULE AdapterLifecycle ---------------------------
(***************************************************************************)
(* The threads of a JSON Server Adapter from its start to its end: main    *)
(* (server/mini-adapter-main.cc), the runner of the web server, and one    *)
(* thread for each HTTP connection (build-windows/pEp/webserver.cc).       *)
(*                                                                         *)
(* Nobody tells a thread to stop.  JsonAdapter::shutdown clears two flags: *)
(* main reads the one (running) when it wakes up, the runner and the       *)
(* connection threads read the other (_running) between two blocking       *)
(* calls.  When main returns the process ends, and every thread with it.   *)
(*                                                                         *)
(* A connection is named by the client side of it, which may connect again *)
(* when the thread that served it is done.                                 *)
(***************************************************************************)
EXTENDS Naturals, Sequences

CONSTANTS
    Conns,      \* connections of clients
    Main,       \* the main thread
    Runner      \* Webserver::_runner

ASSUME ThreadsAssumption ==
    /\ Main # Runner
    /\ Main \notin Conns
    /\ Runner \notin Conns

Threads == Conns \cup {Main, Runner}

VARIABLES
    debug_mode,   \* debug_mode: main waits for <Q> and not for running
    running,      \* JsonAdapter::Internal::running
    _running,     \* Webserver::_running
    place,        \* where each thread is
    backlog,      \* the listen queue of the acceptor, kept by the kernel
    late,         \* history: requests a connection read without _running
    lateAccepts   \* history: connections accepted after _running fell

flags == << running, _running >>
historyVars == << late, lateAccepts >>
lifecycleVars == << debug_mode, flags, place, backlog, historyVars >>

MainStates ==
    { "bind", "token", "run", "start", "loop", "stop", "stopping", "release",
      "exited", "failed", "aborted" }

RunnerStates == { "off", "test", "accept", "ended" }

ConnStates ==
    { "away", "backlog", "init", "test", "read", "call", "stop", "stopping",
      "write", "close", "done" }

LifecycleTypeOK ==
    /\ debug_mode \in BOOLEAN
    /\ running \in BOOLEAN
    /\ _running \in BOOLEAN
    /\ place \in [Threads -> MainStates \cup RunnerStates \cup ConnStates]
    /\ backlog \in Seq(Conns)
    /\ late \in [Conns -> Nat]
    /\ lateAccepts \in Nat

LifecycleInit ==
    /\ debug_mode \in BOOLEAN
    /\ running = FALSE
    /\ _running = FALSE
    /\ place = [t \in Threads |->
                IF t = Main THEN "bind" ELSE IF t = Runner THEN "off" ELSE "away"]
    /\ backlog = << >>
    /\ late = [c \in Conns |-> 0]
    /\ lateAccepts = 0

\* the process exists
Alive == place[Main] \notin { "exited", "failed", "aborted" }

\* the acceptor exists; the kernel lets clients connect from then on
Listening == Alive /\ place[Main] # "bind"

\* thread t goes on from one place to another one
Go(t, here, there) ==
    /\ Alive
    /\ place[t] = here
    /\ place' = [place EXCEPT ![t] = there]

-----------------------------------------------------------------------------
(* main *)

\* prepare_run: the loop over the ports finds one that is free
Bind ==
    /\ Go(Main, "bind", "token")
    /\ UNCHANGED << debug_mode, flags, backlog, historyVars >>

\* prepare_run: create_security_token
CreateToken ==
    /\ Go(Main, "token", "run")
    /\ UNCHANGED << debug_mode, flags, backlog, historyVars >>

\* no port is free or the token cannot be written: exit(1)
PrepareFails ==
    /\ Go(Main, "bind", "failed") \/ Go(Main, "token", "failed")
    /\ UNCHANGED << debug_mode, flags, backlog, historyVars >>

\* JsonAdapter::run
RunAdapter ==
    /\ Go(Main, "run", "start")
    /\ running' = TRUE
    /\ UNCHANGED << debug_mode, _running, backlog, historyVars >>

\* Webserver::run
RunWebserver ==
    /\ Alive
    /\ place[Main] = "start"
    /\ place' = [place EXCEPT ![Main] = "loop", ![Runner] = "test"]
    /\ _running' = TRUE
    /\ UNCHANGED << debug_mode, running, backlog, historyVars >>

\* main wakes up and finds the adapter no longer running
LoopEnds ==
    /\ ~ debug_mode
    /\ ~ running
    /\ Go(Main, "loop", "stop")
    /\ UNCHANGED << debug_mode, flags, backlog, historyVars >>

\* <Q> or the end of stdin
Quit ==
    /\ debug_mode
    /\ Go(Main, "loop", "stop")
    /\ UNCHANGED << debug_mode, flags, backlog, historyVars >>

\* Adapter::session.release(), and main returns
MainReturns ==
    /\ Go(Main, "release", "exited")
    /\ UNCHANGED << debug_mode, flags, backlog, historyVars >>

-----------------------------------------------------------------------------
(* JsonAdapter::shutdown, on the thread of a connection or on main *)

\* mutant of StopAdapter: running keeps its value
StopAdapterNot(t) ==
    /\ Go(t, "stop", "stopping")
    /\ UNCHANGED << debug_mode, flags, backlog, historyVars >>

StopAdapter(t) ==
    /\ Go(t, "stop", "stopping")
    /\ running' = FALSE
    /\ UNCHANGED << debug_mode, _running, backlog, historyVars >>

\* Webserver::shutdown
StopWebserver(t) ==
    /\ Go(t, "stopping", IF t = Main THEN "release" ELSE "write")
    /\ _running' = FALSE
    /\ UNCHANGED << debug_mode, running, backlog, historyVars >>

-----------------------------------------------------------------------------
(* Webserver::runner *)

RunnerTests ==
    /\ Go(Runner, "test", IF _running THEN "accept" ELSE "ended")
    /\ UNCHANGED << debug_mode, flags, backlog, historyVars >>

\* accept returns the oldest connection, which gets a thread of its own
Accept ==
    /\ Alive
    /\ place[Runner] = "accept"
    /\ backlog # << >>
    /\ place' = [place EXCEPT ![Runner] = "test", ![Head(backlog)] = "init"]
    /\ backlog' = Tail(backlog)
    /\ lateAccepts' = IF _running THEN lateAccepts ELSE lateAccepts + 1
    /\ late' = [late EXCEPT ![Head(backlog)] = 0]
    /\ UNCHANGED << debug_mode, flags >>

\* accept or the thread's constructor throws, and nobody catches that
AcceptThrows ==
    /\ Alive
    /\ place[Runner] = "accept"
    /\ place' = [place EXCEPT ![Main] = "aborted"]
    /\ UNCHANGED << debug_mode, flags, backlog, historyVars >>

-----------------------------------------------------------------------------
(* Clients, and Webserver::do_session on the thread of a connection *)

Connect(c) ==
    /\ Listening
    /\ Go(c, "away", "backlog")
    /\ backlog' = Append(backlog, c)
    /\ UNCHANGED << debug_mode, flags, historyVars >>

ThreadInit(c) ==
    /\ Go(c, "init", "test")
    /\ UNCHANGED << debug_mode, flags, backlog, historyVars >>

\* mutant of SessionTests: while(true)
SessionTestsNot(c) ==
    /\ Go(c, "test", "read")
    /\ UNCHANGED << debug_mode, flags, backlog, historyVars >>

\* while(_running)
SessionTests(c) ==
    /\ Go(c, "test", IF _running THEN "read" ELSE "close")
    /\ UNCHANGED << debug_mode, flags, backlog, historyVars >>

\* http::read returns a request: some call, or the call of shutdown()
Read(c) ==
    /\ Go(c, "read", "call") \/ Go(c, "read", "stop")
    /\ late' = IF _running THEN late ELSE [late EXCEPT ![c] = @ + 1]
    /\ UNCHANGED << debug_mode, flags, backlog, lateAccepts >>

\* http::read fails, because the client hung up
HangUp(c) ==
    /\ Go(c, "read", "close")
    /\ UNCHANGED << debug_mode, flags, backlog, historyVars >>

\* the handler has made the response (an error is a response, too)
Handle(c) ==
    /\ Go(c, "call", "write")
    /\ UNCHANGED << debug_mode, flags, backlog, historyVars >>

\* http::write; a client that went away ends the loop
Write(c) ==
    /\ Go(c, "write", "test") \/ Go(c, "write", "close")
    /\ UNCHANGED << debug_mode, flags, backlog, historyVars >>

\* the socket is shut down and deleted
CloseSocket(c) ==
    /\ Go(c, "close", "done")
    /\ UNCHANGED << debug_mode, flags, backlog, historyVars >>

\* thread_done, and the thread ends
ThreadDone(c) ==
    /\ Go(c, "done", "away")
    /\ UNCHANGED << debug_mode, flags, backlog, historyVars >>

-----------------------------------------------------------------------------

\* steps of main that wait for nobody
MainStep ==
    \/ Bind
    \/ CreateToken
    \/ RunAdapter
    \/ RunWebserver
    \/ LoopEnds
    \/ StopAdapter(Main)
    \/ StopWebserver(Main)
    \/ MainReturns

RunnerStep == RunnerTests \/ Accept

\* steps of a connection thread on its own
ConnStep(c) ==
    \/ ThreadInit(c)
    \/ SessionTests(c)
    \/ StopAdapter(c)
    \/ StopWebserver(c)
    \/ Handle(c)
    \/ Write(c)
    \/ CloseSocket(c)
    \/ ThreadDone(c)

LifecycleNext ==
    \/ MainStep
    \/ PrepareFails
    \/ Quit
    \/ RunnerStep
    \/ AcceptThrows
    \/ \E c \in Conns : Connect(c) \/ Read(c) \/ HangUp(c) \/ ConnStep(c)

LifecycleSpec == LifecycleInit /\ [][LifecycleNext]_lifecycleVars

(* Main and the runner go on while they can, and so does shutdown, which   *)
(* waits for nobody.  What clients send, whether accept fails, when        *)
(* somebody types <Q> and whether a handler ever returns is left open.     *)
FairSpec ==
    /\ LifecycleSpec
    /\ WF_lifecycleVars(MainStep)
    /\ WF_lifecycleVars(RunnerStep)
    /\ \A c \in Conns : WF_lifecycleVars(StopAdapter(c))

-----------------------------------------------------------------------------
(* Properties *)

\* a thread that serves a connection
Serving(c) == place[c] \notin { "away", "backlog" }

\* the two flags differ only while somebody sets them: run sets running
\* first, and shutdown clears running first
FlagsAgree ==
    /\ running /\ ~ _running => place[Main] = "start"
    /\ _running /\ ~ running /\ Alive => \E t \in Threads : place[t] = "stopping"
    /\ \A t \in Threads : place[t] = "stopping" => ~ running

\* main and the runner are where the flags allow them to be
ThreadsInOrder ==
    /\ place[Main] \in MainStates
    /\ place[Runner] \in RunnerStates
    /\ place[Main] \in { "bind", "token", "run", "start", "failed" } =>
          /\ place[Runner] = "off"
          /\ ~ _running
          /\ \A c \in Conns : ~ Serving(c)
    /\ place[Main] \in { "bind", "token", "run" } => ~ running
    /\ place[Main] = "start" => running
    /\ place[Main] \in { "loop", "stop", "stopping", "release", "exited" } =>
          place[Runner] # "off"
    /\ place[Main] \in { "release", "exited" } => ~ running /\ ~ _running
    /\ place[Runner] = "ended" => ~ _running
    /\ place[Runner] = "off" => lateAccepts = 0 /\ \A c \in Conns : late[c] = 0

\* the listen queue holds the connections no thread serves yet, each once
BacklogInOrder ==
    /\ \A c \in Conns : place[c] \in ConnStates
    /\ \A i \in DOMAIN backlog : place[backlog[i]] = "backlog"
    /\ \A i, j \in DOMAIN backlog : backlog[i] = backlog[j] => i = j
    /\ \A c \in Conns : place[c] = "backlog" => \E i \in DOMAIN backlog : backlog[i] = c
    /\ place[Main] = "bind" => backlog = << >>

\* work that comes late is the last one
LateInOrder ==
    /\ \A c \in Conns : late[c] > 0 =>
          /\ late[c] = 1
          /\ ~ _running
          /\ place[c] # "read"
    /\ lateAccepts > 0 =>
          /\ lateAccepts = 1
          /\ ~ _running
          /\ place[Runner] \in { "test", "ended" }

(* The flags, the threads and the listen queue fit each other at every     *)
(* step: the strengthening that makes StopsTakingWork inductive.           *)
\* webserver.cc:171-265, json-adapter.cc:287-298, 350-356
LifecycleInv ==
    /\ LifecycleTypeOK
    /\ FlagsAgree
    /\ ThreadsInOrder
    /\ BacklogInOrder
    /\ LateInOrder

(* After a shutdown the server takes as little work as a program that      *)
(* blocks in read and in accept can: every connection that waits in read   *)
(* has one more request served, and the runner accepts one more            *)
(* connection.                                                             *)
\* webserver.cc:176, 240-243, 262-265
StopsTakingWork ==
    /\ lateAccepts <= 1
    /\ \A c \in Conns : late[c] <= 1

(* Unless main waits for the keyboard, the call of shutdown ends the       *)
(* process, whoever is in a call; and a client that connects is accepted,  *)
(* or the server ends, so that it learns of it: it does not wait in the    *)
(* listen queue of a server whose runner has ended.                        *)
\* mini-adapter-main.cc:162-169, json-adapter.cc:350-356, webserver.cc:240-253
ShutdownEnds ==
    \A c \in Conns :
        /\ (place[c] = "stop" /\ ~ debug_mode) ~> ~ Alive
        /\ (place[c] = "backlog" /\ ~ debug_mode) ~> (place[c] # "backlog" \/ ~ Alive)

\* a connection whose request has been read and not been answered
InCall(c) == place[c] \in { "call", "stop", "stopping", "write" }

(* What the header promises of shutdown(NULL): the process exits after all *)
(* events that are being processed have been finished.                     *)
\* json-adapter.hh:71-72
FinishesCalls ==
    [][place[Main] # "exited" /\ place'[Main] = "exited" => \A c \in Conns : ~ InCall(c)]_lifecycleVars
=============================================================================
