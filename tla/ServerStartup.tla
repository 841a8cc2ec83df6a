---------------------------- MODULE ServerStartup ----------------------------
(***************************************************************************)
(* Servers of one user start, die and are found by clients:                *)
(*   - prepare_run of server/json-adapter.cc, which looks for a port,      *)
(*   - server/security-token.cc, which writes the file ~/.pEp/json-token,  *)
(*   - main and daemonize_*.cc, which start the server in the background.  *)
(*     On Windows the foreground process waits for its status; daemon() of *)
(*     the other systems exits with 0 at once.                             *)
(*                                                                         *)
(* There is one token file for all servers of the user, and nothing keeps  *)
(* a second server from starting.  A token is drawn at random; the model   *)
(* takes it as unique, so the server stands for its token.  The file is a  *)
(* sequence of bytes, each known by the server that wrote it.              *)
(***************************************************************************)
EXTENDS Integers, Sequences

CONSTANTS
    Servers,     \* the processes in the background
    Clients,
    StartPort,   \* --start-port
    EndPort,     \* --end-port
    PortLimit,   \* 2^16, the number of values of an unsigned short
    WidePort,    \* a port from here on takes a byte more in the file
    Ephemeral,   \* the ports that bind() chooses from when asked for port 0
    None         \* no server, no port

ASSUME StartupAssumption ==
    /\ PortLimit \in Nat \ {0}
    /\ StartPort \in Nat
    /\ EndPort \in Nat
    /\ WidePort \in Nat
    /\ Ephemeral \subseteq 1 .. PortLimit - 1
    /\ None \notin Servers \cup Nat

VARIABLES
    pc,         \* where each background process is in main
    port,       \* the loop counter of prepare_run
    bound,      \* the port on which its acceptor listens
    file,       \* the bytes of the token file
    pipe,       \* the status values in the pipe that nobody has read
    closed,     \* the background process has closed its end, or is gone
    code,       \* the exit code of the background process
    fg,         \* where the foreground process is
    status,     \* what it has read, and then its exit code
    client,     \* where each client is
    torn,       \* history: a process failed or died while it wrote the file
    windows     \* which of the two implementations was built

serverVars == << pc, port, bound >>
pipeVars == << pipe, closed, code >>
fgVars == << fg, status >>
vars == << serverVars, file, pipeVars, fgVars, client, torn, windows >>

\* exit codes: 1 after an exception (and for 20 as well, which tells of one that
\* is no std::exception), Abort after one that leaves main, Killed by a signal or
\* from outside
Abort  == 3
Killed == 9

Idle == [at |-> "idle", by |-> None, to |-> None]

ClientStates ==
    [at : {"idle", "read", "sent", "accepted", "refused", "rejected", "lost"},
     by : Servers \cup {None},
     to : Servers \cup {None}]

TypeOK ==
    /\ pc \in [Servers -> {"off", "init", "search", "bound", "writing", "ready",
                           "started", "running", "failing", "exiting",
                           "dying", "dead"}]
    /\ port \in [Servers -> 0 .. PortLimit - 1]
    /\ bound \in [Servers -> (0 .. PortLimit - 1) \cup {None}]
    /\ file \in Seq(Servers)
    /\ pipe \in [Servers -> Seq({0, 1})]
    /\ closed \in [Servers -> BOOLEAN]
    /\ code \in [Servers -> {0, 1, Abort, Killed}]
    /\ fg \in [Servers -> {"off", "reading", "waiting", "exited"}]
    /\ status \in [Servers -> {0, 1, Abort, Killed, None}]
    /\ client \in [Clients -> ClientStates]
    /\ torn \in BOOLEAN
    /\ windows \in BOOLEAN

Init ==
    /\ pc = [s \in Servers |-> "off"]
    /\ port = [s \in Servers |-> 0]
    /\ bound = [s \in Servers |-> None]
    /\ file = << >>
    /\ pipe = [s \in Servers |-> << >>]
    /\ closed = [s \in Servers |-> FALSE]
    /\ code = [s \in Servers |-> 0]
    /\ fg = [s \in Servers |-> "off"]
    /\ status = [s \in Servers |-> None]
    /\ client = [c \in Clients |-> Idle]
    /\ torn = FALSE
    /\ windows \in BOOLEAN

Goto(s, place) == pc' = [pc EXCEPT ![s] = place]

Alive(s) == pc[s] \notin {"off", "exiting", "dying", "dead"}

\* run() was called, its threads serve connections
Serving(s) == pc[s] \in {"started", "running"}

-----------------------------------------------------------------------------
(* The port: JsonAdapter::prepare_run *)

\* main and daemonize: a new process, in which the pipe's end is inherited, or
\* the child of daemon(), whose parent exits
Launch(s) ==
    /\ pc[s] = "off"
    /\ fg[s] = "off"
    /\ Goto(s, "init")
    /\ fg' = [fg EXCEPT ![s] = IF windows THEN "reading" ELSE "exited"]
    /\ status' = [status EXCEPT ![s] = IF windows THEN None ELSE 0]
    /\ UNCHANGED << port, bound, file, pipeVars, client, torn >>

\* CreateProcess and what precedes it fails: main reports to its own pipe and exits
LaunchFails(s) ==
    /\ windows
    /\ pc[s] = "off"
    /\ fg[s] = "off"
    /\ fg' = [fg EXCEPT ![s] = "exited"]
    /\ status' = [status EXCEPT ![s] = 1]
    /\ UNCHANGED << serverVars, file, pipeVars, client, torn >>

\* sessions, callbacks and the JsonAdapter are there: prepare_run begins.  The
\* counter is an unsigned short
BeginSearch(s) ==
    /\ pc[s] = "init"
    /\ port' = [port EXCEPT ![s] = StartPort % PortLimit]
    /\ Goto(s, "search")
    /\ UNCHANGED << bound, file, pipeVars, fgVars, client, torn >>

Free(p) == \A t \in Servers : bound[t] # p

\* mutant of BindPort: with the reuse_addr of boost's acceptor
BindPortShared(s) ==
    /\ pc[s] = "search"
    /\ port[s] <= EndPort
    /\ bound' = [bound EXCEPT ![s] = port[s]]
    /\ Goto(s, "bound")
    /\ UNCHANGED << port, file, pipeVars, fgVars, client, torn >>

\* the acceptor opens, binds and listens.  Port 0 means any
BindPort(s) ==
    /\ pc[s] = "search"
    /\ port[s] <= EndPort
    /\ \E p \in IF port[s] = 0 THEN Ephemeral ELSE {port[s]} :
          /\ Free(p)
          /\ bound' = [bound EXCEPT ![s] = p]
    /\ Goto(s, "bound")
    /\ UNCHANGED << port, file, pipeVars, fgVars, client, torn >>

\* mutant of NextPort: the counter stays
NextPortNot(s) ==
    /\ pc[s] = "search"
    /\ port[s] <= EndPort
    /\ port' = port
    /\ UNCHANGED << pc, bound, file, pipeVars, fgVars, client, torn >>

\* the acceptor throws: the port is used by somebody, lingers from former
\* connections, is not allowed, or the address is not ours
NextPort(s) ==
    /\ pc[s] = "search"
    /\ port[s] <= EndPort
    /\ port' = [port EXCEPT ![s] = (@ + 1) % PortLimit]
    /\ UNCHANGED << pc, bound, file, pipeVars, fgVars, client, torn >>

\* no web server: prepare_run throws
NoPortLeft(s) ==
    /\ pc[s] = "search"
    /\ port[s] > EndPort
    /\ Goto(s, "failing")
    /\ UNCHANGED << port, bound, file, pipeVars, fgVars, client, torn >>

-----------------------------------------------------------------------------
(* The token file: create_security_token, write_security_file *)

\* the port that the file of server s names: the one the web server was asked
\* to bind to
Named(s) == port[s]

\* how long the file of server s is
Size(s) == IF Named(s) < WidePort THEN 1 ELSE 2

Whole(s) == [i \in 1 .. Size(s) |-> s]

\* creat() truncates the file, whoever has written it
CreateFile(s) ==
    /\ pc[s] = "bound"
    /\ file' = << >>
    /\ Goto(s, "writing")
    /\ UNCHANGED << port, bound, pipeVars, fgVars, client, torn >>

\* creat() or the directory fails.  Nobody looks at the state of the ofstream
\* that is used on Windows
CreateFails(s) ==
    /\ pc[s] = "bound"
    /\ \/ Goto(s, "failing") /\ UNCHANGED torn
       \/ windows /\ Goto(s, "ready") /\ torn' = TRUE
    /\ UNCHANGED << port, bound, file, pipeVars, fgVars, client >>

\* the file after the first n bytes of server s were written at its start
Overwritten(s, n) ==
    [i \in 1 .. (IF Len(file) > n THEN Len(file) ELSE n) |->
        IF i <= n THEN s ELSE file[i]]

\* mutant of WriteFile: the bytes are added at the end
WriteFileAppend(s) ==
    /\ pc[s] = "writing"
    /\ file' = file \o Whole(s)
    /\ Goto(s, "ready")
    /\ UNCHANGED << port, bound, pipeVars, fgVars, client, torn >>

\* write() writes everything, and prepare_run keeps the token
WriteFile(s) ==
    /\ pc[s] = "writing"
    /\ file' = Overwritten(s, Size(s))
    /\ Goto(s, "ready")
    /\ UNCHANGED << port, bound, pipeVars, fgVars, client, torn >>

\* write() fails or writes less: the file is left as it is
WriteFails(s) ==
    /\ pc[s] = "writing"
    /\ \E n \in 0 .. Size(s) - 1 : file' = Overwritten(s, n)
    /\ torn' = TRUE
    /\ Goto(s, IF windows THEN "ready" ELSE "failing")
    /\ UNCHANGED << port, bound, pipeVars, fgVars, client >>

-----------------------------------------------------------------------------
(* main and daemonize_commit *)

\* what daemonize_commit writes; nothing except on Windows
Report(s, statuses) ==
    pipe' = IF windows THEN [pipe EXCEPT ![s] = @ \o statuses] ELSE pipe

\* ja.run()
Run(s) ==
    /\ pc[s] = "ready"
    /\ Goto(s, "started")
    /\ UNCHANGED << port, bound, file, pipeVars, fgVars, client, torn >>

\* ja.run() throws: there is no thread for the web server
RunFails(s) ==
    /\ pc[s] = "ready"
    /\ Goto(s, "failing")
    /\ UNCHANGED << port, bound, file, pipeVars, fgVars, client, torn >>

\* mutant of Commit: success is reported as soon as there is a port
CommitEarly(s) ==
    /\ pc[s] \in {"bound", "started"}
    /\ closed[s] = (pc[s] = "started")
    /\ Report(s, IF closed[s] THEN << >> ELSE << 0 >>)
    /\ closed' = [closed EXCEPT ![s] = TRUE]
    /\ pc' = IF closed[s] THEN [pc EXCEPT ![s] = "running"] ELSE pc
    /\ UNCHANGED << port, bound, file, code, fgVars, client, torn >>

\* daemonize_commit(0) writes the status and closes the pipe
Commit(s) ==
    /\ pc[s] = "started"
    /\ Report(s, << 0 >>)
    /\ closed' = [closed EXCEPT ![s] = TRUE]
    /\ Goto(s, "running")
    /\ UNCHANGED << port, bound, file, code, fgVars, client, torn >>

\* the process ends: the kernel closes its end of the pipe and its sockets
Dies(s, c) ==
    /\ Goto(s, "dying")
    /\ bound' = [bound EXCEPT ![s] = None]
    /\ closed' = [closed EXCEPT ![s] = TRUE]
    /\ code' = [code EXCEPT ![s] = c]

\* the status is written, but FreeConsole() fails and throws.  The handlers of
\* main call daemonize_commit(1), which throws for the same reason, the last
\* time out of main
CommitThrows(s) ==
    /\ windows
    /\ pc[s] = "started"
    /\ Report(s, << 0, 1, 1 >>)
    /\ Dies(s, Abort)
    /\ UNCHANGED << port, file, fgVars, client, torn >>

\* an exception before there is a JsonAdapter
InitFails(s) ==
    /\ pc[s] = "init"
    /\ Goto(s, "failing")
    /\ UNCHANGED << port, bound, file, pipeVars, fgVars, client, torn >>

\* a handler of main calls daemonize_commit(1)
CommitFailure(s) ==
    /\ pc[s] = "failing"
    /\ Report(s, << 1 >>)
    /\ closed' = [closed EXCEPT ![s] = TRUE]
    /\ Goto(s, "exiting")
    /\ UNCHANGED << port, bound, file, code, fgVars, client, torn >>

\* the same, when FreeConsole() fails there: in the outer handler, or in both
CommitFailureThrows(s) ==
    /\ windows
    /\ pc[s] = "failing"
    /\ Report(s, << 1 >>) \/ Report(s, << 1, 1 >>)
    /\ Dies(s, Abort)
    /\ UNCHANGED << port, file, fgVars, client, torn >>

\* all of it is closed, and the process has an exit code that others can see
Gone(s) ==
    /\ pc[s] = "dying"
    /\ Goto(s, "dead")
    /\ UNCHANGED << port, bound, file, pipeVars, fgVars, client, torn >>

Exit(s) ==
    /\ pc[s] = "exiting"
    /\ Dies(s, 1)
    /\ UNCHANGED << port, file, pipe, fgVars, client, torn >>

\* the loop of main ends after a shutdown.  Nobody removes the token file
Stop(s) ==
    /\ pc[s] = "running"
    /\ Dies(s, 0)
    /\ UNCHANGED << port, file, pipe, fgVars, client, torn >>

Crash(s) ==
    /\ pc[s] \notin {"off", "dying", "dead"}
    /\ Dies(s, Killed)
    /\ torn' = (torn \/ pc[s] = "writing")
    /\ UNCHANGED << port, file, pipe, fgVars, client >>

-----------------------------------------------------------------------------
(* The foreground process: the loops of daemonize() on Windows *)

\* ReadFile returns the status.  A status is written and read as a whole
ReadStatus(s) ==
    /\ fg[s] = "reading"
    /\ status[s] = None
    /\ pipe[s] # << >>
    /\ status' = [status EXCEPT ![s] = Head(pipe[s])]
    /\ pipe' = [pipe EXCEPT ![s] = Tail(@)]
    /\ UNCHANGED << serverVars, file, closed, code, fg, client, torn >>

\* ERROR_BROKEN_PIPE with a status.  The status being complete, the loop reads
\* 0 bytes at a time, which fails only when nothing is left in the pipe
ExitWithStatus(s) ==
    /\ fg[s] = "reading"
    /\ closed[s]
    /\ pipe[s] = << >>
    /\ status[s] # None
    /\ fg' = [fg EXCEPT ![s] = "exited"]
    /\ UNCHANGED << serverVars, file, pipeVars, status, client, torn >>

\* ERROR_BROKEN_PIPE without one: wait for the process
AwaitProcess(s) ==
    /\ fg[s] = "reading"
    /\ closed[s]
    /\ status[s] = None
    /\ pipe[s] = << >>
    /\ fg' = [fg EXCEPT ![s] = "waiting"]
    /\ UNCHANGED << serverVars, file, pipeVars, status, client, torn >>

\* GetExitCodeProcess says that it has ended
ExitWithCode(s) ==
    /\ fg[s] = "waiting"
    /\ pc[s] = "dead"
    /\ status' = [status EXCEPT ![s] = code[s]]
    /\ fg' = [fg EXCEPT ![s] = "exited"]
    /\ UNCHANGED << serverVars, file, pipeVars, client, torn >>

-----------------------------------------------------------------------------
(* Clients *)

\* a client reads the file, and can use it if it is one server's and complete
ReadFile(c) ==
    /\ client[c].at \notin {"read", "sent"}
    /\ \E s \in Servers :
          /\ file = Whole(s)
          /\ client' = [client EXCEPT ![c] = [at |-> "read", by |-> s, to |-> None]]
    /\ UNCHANGED << serverVars, file, pipeVars, fgVars, torn >>

\* it connects to the port in the file and sends a request with the token
Connect(c) ==
    /\ client[c].at = "read"
    /\ \/ \E t \in Servers :
             /\ bound[t] = Named(client[c].by)
             /\ client' = [client EXCEPT ![c].at = "sent", ![c].to = t]
       \/ /\ Free(Named(client[c].by))
          /\ client' = [client EXCEPT ![c].at = "refused"]
    /\ UNCHANGED << serverVars, file, pipeVars, fgVars, torn >>

\* verify_security_token
Verify(c) ==
    /\ client[c].at = "sent"
    /\ Serving(client[c].to)
    /\ client' = [client EXCEPT ![c].at =
                    IF client[c].by = client[c].to THEN "accepted" ELSE "rejected"]
    /\ UNCHANGED << serverVars, file, pipeVars, fgVars, torn >>

\* the server is gone before it has answered
Lose(c) ==
    /\ client[c].at = "sent"
    /\ pc[client[c].to] \in {"dying", "dead"}
    /\ client' = [client EXCEPT ![c].at = "lost"]
    /\ UNCHANGED << serverVars, file, pipeVars, fgVars, torn >>

-----------------------------------------------------------------------------

SearchStep(s) == BeginSearch(s) \/ BindPort(s) \/ NextPort(s) \/ NoPortLeft(s)
FileStep(s) == CreateFile(s) \/ CreateFails(s) \/ WriteFile(s) \/ WriteFails(s)
MainStep(s) ==
    \/ InitFails(s) \/ Run(s) \/ RunFails(s)
    \/ Commit(s) \/ CommitThrows(s) \/ CommitFailure(s) \/ CommitFailureThrows(s)
    \/ Exit(s) \/ Gone(s)
ForegroundStep(s) ==
    ReadStatus(s) \/ ExitWithStatus(s) \/ AwaitProcess(s) \/ ExitWithCode(s)
ClientStep(c) == ReadFile(c) \/ Connect(c) \/ Verify(c) \/ Lose(c)

Next ==
    /\ UNCHANGED windows
    /\ \/ \E s \in Servers :
             \/ Launch(s) \/ LaunchFails(s)
             \/ SearchStep(s) \/ FileStep(s) \/ MainStep(s)
             \/ Stop(s) \/ Crash(s)
             \/ ForegroundStep(s)
       \/ \E c \in Clients : ClientStep(c)

Spec == Init /\ [][Next]_vars

\* a process that was started goes on; nobody has to start, stop or call one
FairSpec ==
    /\ Spec
    /\ \A s \in Servers :
          /\ WF_vars(UNCHANGED windows /\ (SearchStep(s) \/ FileStep(s) \/ MainStep(s)))
          /\ WF_vars(UNCHANGED windows /\ ForegroundStep(s))

-----------------------------------------------------------------------------
(* Properties *)

(* Who has read the file of a server that lives gets to that server, to no *)
(* other one, and is not refused: a port is bound before it is written     *)
(* down and stays bound as long as the server lives.                       *)
\* json-adapter.cc:264-283, 360-369, README.md:654-657
ReachesTheWriter ==
    \A c \in Clients : client[c].by # None /\ Alive(client[c].by) =>
        /\ client[c].at \notin {"refused", "rejected", "lost"}
        /\ client[c].at = "sent" => client[c].to = client[c].by

(* When all who have written the file were able to finish, the file is the *)
(* complete file of one server, however their steps were mixed.  (Unless   *)
(* their files differ in length: a longer one shows behind a shorter one.) *)
\* security-token.cc:82-103
Written(s) == pc[s] \in {"ready", "started", "running"}

SameSize == \A s, t \in Servers : Size(s) = Size(t)

FileIsWhole ==
    /\ ~ torn
    /\ SameSize
    /\ \A s \in Servers : pc[s] # "writing"
    /\ \E s \in Servers : Written(s)
    => \E s \in Servers : file = Whole(s)

(* On Windows the exit code of the foreground process is the truth: 0 only *)
(* if the server serves or has done so; another one only if it is gone or  *)
(* about to go.                                                            *)
\* daemonize_windows.cc:103-141, mini-adapter-main.cc:158-182
StatusIsTruth ==
    \A s \in Servers : windows /\ fg[s] = "exited" =>
        IF status[s] = 0
          THEN pc[s] \in {"running", "dying", "dead"} /\ code[s] # 1
          ELSE ~ Alive(s)

(* What README.md:130-133 says of the file: it contains the port on which  *)
(* its server is listening.                                                *)
FileNamesPort ==
    \A s \in Servers : file = Whole(s) /\ Serving(s) => bound[s] = Named(s)

(* A server that was started comes to a decision: it serves, or it ends.   *)
(* The search for a port does not go on for ever, and neither does the     *)
(* foreground process, whatever happens to the server it has started:      *)
(* except that one which could not get rid of its console has written more *)
(* than one status, and nobody reads the rest.  (Unless --end-port is the  *)
(* greatest port or beyond: the counter never exceeds it, and when no port *)
(* can be bound, as with an address that is not ours, port 0 neither, the  *)
(* search has no end.)                                                     *)
\* json-adapter.cc:264-279, daemonize_windows.cc:103-141
StartEnds ==
    EndPort < PortLimit - 1 =>
        \A s \in Servers :
            /\ pc[s] = "init" ~> pc[s] \in {"running", "dead"}
            /\ fg[s] = "reading" ~> fg[s] = "exited" \/ code[s] = Abort

(* What the exception at json-adapter.cc:275-279 says: when no port between *)
(* the first and the last can be bound, the search ends and says so.        *)
SearchEnds == \A s \in Servers : pc[s] = "search" ~> pc[s] # "search"
=============================================================================
