------------------------ MODULE ServerStartupProofs ------------------------
(***************************************************************************)
(* Proofs about ServerStartup, for any number of servers and clients and   *)
(* any range of ports that stays below the greatest one: what the file, a  *)
(* client that has read it and the foreground process know of a server.    *)
(***************************************************************************)
EXTENDS ServerStartup, SequenceTheorems, TLAPS

(* The counter of the ports neither begins at 0 nor gets there: port 0 is  *)
(* any port, and the file would name none.                                 *)
NoWrap == StartPort \in 1 .. PortLimit - 1 /\ EndPort < PortLimit - 1

\* before a server has a port of its own, and before its file is written
Portless == {"off", "init", "search"}
Early == Portless \cup {"bound", "writing"}

(* A server that has a port keeps it as long as it lives, and never starts *)
(* anew.                                                                   *)
Progress(s) ==
    /\ pc[s] \notin Portless => port'[s] = port[s] /\ pc'[s] \notin Portless
    /\ pc[s] \notin Early => pc'[s] \notin Early
    /\ pc[s] \notin Early /\ Alive(s)' => Alive(s) /\ bound'[s] = bound[s]

(* A step that has nothing to do with the file: no one begins or ends      *)
(* writing, unless it is torn by that.                                     *)
Quiet ==
    /\ file' = file
    /\ torn => torn'
    /\ \A s \in Servers : ~ torn' =>
          /\ pc[s] = "writing" => pc'[s] = "writing"
          /\ Written(s)' => Written(s)

Mentioned(s) == \E i \in 1 .. Len(file) : file[i] = s

(* Of the file's servers and the clients' servers the port is bound.       *)
PortInv ==
    /\ \A s \in Servers : pc[s] = "search" => port[s] # 0
    /\ \A s \in Servers : pc[s] \in {"bound", "writing"} => bound[s] = port[s]
    /\ \A s, t \in Servers : bound[s] = bound[t] /\ bound[s] # None => s = t

MentionInv == \A s \in Servers : Mentioned(s) => pc[s] \notin Early

Reachable(s) == pc[s] \notin Early /\ (Alive(s) => bound[s] = port[s])

FileInv == \A s \in Servers : Mentioned(s) => Reachable(s)

ClientInv ==
    \A c \in Clients : client[c].by # None =>
        /\ Reachable(client[c].by)
        /\ Alive(client[c].by) =>
              /\ client[c].at \in {"read", "sent", "accepted"}
              /\ client[c].at = "sent" => client[c].to = client[c].by

(* The file is empty, with somebody about to write it or nobody who has    *)
(* written it, or complete: when the servers that have written it, which   *)
(* become more and more, agree on its length.                              *)
Agree ==
    \A s, t \in Servers : pc[s] \notin Early /\ pc[t] \notin Early => Size(s) = Size(t)

WholeInv ==
    ~ torn /\ Agree =>
        \/ /\ file = << >>
           /\ (\E s \in Servers : pc[s] = "writing") \/ (\A s \in Servers : ~ Written(s))
        \/ \E s \in Servers : file = Whole(s)

LEMMA ModInRange ==
  ASSUME NEW a \in Nat, NEW n \in Nat \ {0}
  PROVE  a % n \in 0 .. n - 1
  BY SMT

LEMMA ModSmall ==
  ASSUME NEW n \in Nat \ {0}, NEW a \in 0 .. n - 1
  PROVE  a % n = a
  BY SMT

LEMMA StartPortKept ==
  ASSUME NoWrap
  PROVE  StartPort % PortLimit = StartPort /\ StartPort # 0
<1>1. PortLimit \in Nat \ {0} /\ StartPort \in 0 .. PortLimit - 1 /\ StartPort # 0
  BY StartupAssumption DEF NoWrap
<1>2. QED
  BY <1>1, ModSmall

-----------------------------------------------------------------------------
(* Types *)

\* the file stays a sequence when a server writes over its start
LEMMA OverwrittenType ==
  ASSUME TypeOK, NEW s \in Servers, NEW n \in Nat
  PROVE  /\ Overwritten(s, n) \in Seq(Servers)
         /\ Len(Overwritten(s, n)) = IF Len(file) > n THEN Len(file) ELSE n
         /\ \A i \in 1 .. Len(Overwritten(s, n)) :
               Overwritten(s, n)[i] = IF i <= n THEN s ELSE file[i]
<1>1. file \in Seq(Servers) /\ Len(file) \in Nat
  BY DEF TypeOK
<1> DEFINE len == IF Len(file) > n THEN Len(file) ELSE n
<1>2. len \in Nat
  BY <1>1
<1>3. \A i \in 1 .. len : (IF i <= n THEN s ELSE file[i]) \in Servers
  BY <1>1
<1>4. QED
  BY <1>1, <1>2, <1>3 DEF Overwritten

LEMMA SizeType ==
  ASSUME NEW s \in Servers
  PROVE  Size(s) \in {1, 2}
  BY DEF Size

LEMMA ReportType ==
  ASSUME TypeOK, NEW s \in Servers, NEW statuses \in Seq({0, 1}), Report(s, statuses)
  PROVE  pipe' \in [Servers -> Seq({0, 1})]
<1>1. pipe[s] \o statuses \in Seq({0, 1})
  BY DEF TypeOK
<1>2. QED
  BY <1>1 DEF TypeOK, Report

LEMMA TypeInit == Init => TypeOK
<1>1. SUFFICES ASSUME Init PROVE TypeOK
  OBVIOUS
<1>2. 0 \in 0 .. PortLimit - 1
  BY StartupAssumption
<1>3. client \in [Clients -> ClientStates]
  <2>1. Idle \in ClientStates
    BY DEF Idle, ClientStates
  <2>2. QED
    BY <1>1, <2>1 DEF Init
<1>4. file \in Seq(Servers) /\ pipe \in [Servers -> Seq({0, 1})]
  BY <1>1 DEF Init
<1>5. /\ port \in [Servers -> 0 .. PortLimit - 1]
      /\ bound \in [Servers -> (0 .. PortLimit - 1) \cup {None}]
      /\ code \in [Servers -> {0, 1, Abort, Killed}]
      /\ status \in [Servers -> {0, 1, Abort, Killed, None}]
  BY <1>1, <1>2 DEF Init
<1>6. QED
  BY <1>1, <1>3, <1>4, <1>5 DEF Init, TypeOK

\* the steps of a server keep the types
LEMMA TypeServer ==
  ASSUME TypeOK, NEW s \in Servers, UNCHANGED windows,
         \/ Launch(s) \/ LaunchFails(s) \/ SearchStep(s) \/ FileStep(s)
         \/ MainStep(s) \/ Stop(s) \/ Crash(s) \/ ForegroundStep(s)
  PROVE  TypeOK'
<1>1. CASE Launch(s) \/ LaunchFails(s)
  BY <1>1 DEF TypeOK, Launch, LaunchFails, Goto, serverVars, pipeVars
<1>2. CASE BeginSearch(s) \/ NextPort(s)
  <2>1. StartPort % PortLimit \in 0 .. PortLimit - 1
    BY ModInRange, StartupAssumption
  <2>2. (port[s] + 1) % PortLimit \in 0 .. PortLimit - 1
    <3>1. port[s] + 1 \in Nat
      BY StartupAssumption DEF TypeOK
    <3>2. QED
      BY <3>1, ModInRange, StartupAssumption
  <2>3. QED
    BY <1>2, <2>1, <2>2 DEF TypeOK, BeginSearch, NextPort, Goto, pipeVars, fgVars
<1>3. CASE BindPort(s)
  <2>1. PICK p \in IF port[s] = 0 THEN Ephemeral ELSE {port[s]} : bound' = [bound EXCEPT ![s] = p]
    BY <1>3 DEF BindPort
  <2>2. p \in 0 .. PortLimit - 1
    BY <2>1, StartupAssumption DEF TypeOK
  <2>3. bound' \in [Servers -> (0 .. PortLimit - 1) \cup {None}]
    BY <2>1, <2>2 DEF TypeOK
  <2>4. /\ pc' = [pc EXCEPT ![s] = "bound"]
        /\ UNCHANGED << port, file, pipe, closed, code, fg, status, client, torn >>
    BY <1>3 DEF BindPort, Goto, pipeVars, fgVars
  <2>5. QED
    BY <2>3, <2>4 DEF TypeOK
<1>4. CASE NoPortLeft(s) \/ CreateFile(s) \/ CreateFails(s)
  <2>1. /\ \E l \in {"failing", "writing", "ready"} : pc' = [pc EXCEPT ![s] = l]
        /\ UNCHANGED << port, bound, pipe, closed, code, fg, status, client >>
    BY <1>4 DEF NoPortLeft, CreateFile, CreateFails, Goto, pipeVars, fgVars
  <2>2. file' \in Seq(Servers)
    <3>1. file' = file \/ file' = << >>
      BY <1>4 DEF NoPortLeft, CreateFile, CreateFails
    <3>2. file \in Seq(Servers) /\ << >> \in Seq(Servers)
      BY DEF TypeOK
    <3>3. QED
      BY <3>1, <3>2
  <2>3. torn' = torn \/ torn' = TRUE
    BY <1>4 DEF NoPortLeft, CreateFile, CreateFails
  <2>4. QED
    BY <2>1, <2>2, <2>3 DEF TypeOK
<1>5. CASE WriteFile(s) \/ WriteFails(s)
  <2>1. file' \in Seq(Servers)
    BY <1>5, OverwrittenType, SizeType DEF WriteFile, WriteFails
  <2>2. QED
    BY <1>5, <2>1 DEF TypeOK, WriteFile, WriteFails, Goto, pipeVars, fgVars
<1>6. CASE InitFails(s) \/ RunFails(s) \/ Run(s) \/ Gone(s)
  <2>1. /\ \E l \in {"failing", "started", "dead"} : pc' = [pc EXCEPT ![s] = l]
        /\ UNCHANGED << port, bound, file, pipe, closed, code, fg, status, client, torn >>
    BY <1>6 DEF InitFails, RunFails, Run, Gone, Goto, pipeVars, fgVars
  <2>2. QED
    BY <2>1 DEF TypeOK
<1>7. CASE Commit(s) \/ CommitFailure(s)
  <2>1. /\ \E l \in {"running", "exiting"} : pc' = [pc EXCEPT ![s] = l]
        /\ closed' = [closed EXCEPT ![s] = TRUE]
        /\ UNCHANGED << port, bound, file, code, fg, status, client, torn >>
    BY <1>7 DEF Commit, CommitFailure, Goto, fgVars
  <2>2. pipe' \in [Servers -> Seq({0, 1})]
    BY <1>7, ReportType, << 0 >> \in Seq({0, 1}), << 1 >> \in Seq({0, 1})
       DEF Commit, CommitFailure
  <2>3. QED
    BY <2>1, <2>2 DEF TypeOK
<1>8. CASE CommitThrows(s) \/ CommitFailureThrows(s)
  <2>1. << 0, 1, 1 >> \in Seq({0, 1}) /\ << 1, 1 >> \in Seq({0, 1}) /\ << 1 >> \in Seq({0, 1})
    OBVIOUS
  <2>2. pipe' \in [Servers -> Seq({0, 1})]
    BY <1>8, <2>1, ReportType DEF CommitThrows, CommitFailureThrows
  <2>3. Dies(s, Abort) /\ UNCHANGED << port, file, fg, status, client, torn >>
    BY <1>8 DEF CommitThrows, CommitFailureThrows, fgVars
  <2>4. QED
    BY <2>2, <2>3 DEF TypeOK, Dies, Goto
<1>9. CASE Exit(s) \/ Stop(s) \/ Crash(s)
  BY <1>9 DEF TypeOK, Exit, Stop, Crash, Dies, Goto, fgVars, Killed
<1>10. CASE ReadStatus(s)
  BY <1>10 DEF TypeOK, ReadStatus, serverVars
<1>11. CASE ExitWithStatus(s) \/ AwaitProcess(s) \/ ExitWithCode(s)
  BY <1>11 DEF TypeOK, ExitWithStatus, AwaitProcess, ExitWithCode, serverVars, pipeVars
<1>12. QED
  BY <1>1, <1>2, <1>3, <1>4, <1>5, <1>6, <1>7, <1>8, <1>9, <1>10, <1>11
     DEF SearchStep, FileStep, MainStep, ForegroundStep

\* and so do those of a client
LEMMA TypeClient ==
  ASSUME TypeOK, NEW c \in Clients, UNCHANGED windows, ClientStep(c)
  PROVE  TypeOK'
<1>1. UNCHANGED << pc, port, bound, file, pipe, closed, code, fg, status, torn, windows >>
  BY DEF ClientStep, ReadFile, Connect, Verify, Lose, serverVars, pipeVars, fgVars
<1>2. client' \in [Clients -> ClientStates]
  <2>1. client \in [Clients -> ClientStates]
    BY DEF TypeOK
  <2>2. CASE ReadFile(c)
    BY <2>1, <2>2 DEF ReadFile, ClientStates
  <2>3. CASE Connect(c)
    <3>1. \E x \in ClientStates : client' = [client EXCEPT ![c] = x]
      BY <2>1, <2>3 DEF Connect, ClientStates
    <3>2. QED
      BY <2>1, <3>1
  <2>4. CASE Verify(c)
    BY <2>1, <2>4 DEF Verify, ClientStates
  <2>5. CASE Lose(c)
    BY <2>1, <2>5 DEF Lose, ClientStates
  <2>6. QED
    BY <2>2, <2>3, <2>4, <2>5 DEF ClientStep
<1>3. QED
  BY <1>1, <1>2 DEF TypeOK

LEMMA TypeStep == TypeOK /\ [Next]_vars => TypeOK'
<1>1. SUFFICES ASSUME TypeOK, [Next]_vars PROVE TypeOK'
  OBVIOUS
<1>2. CASE UNCHANGED vars
  BY <1>1, <1>2 DEF TypeOK, vars, serverVars, pipeVars, fgVars
<1>3. QED
  BY <1>1, <1>2, TypeServer, TypeClient DEF Next

(* Every variable stays within its type.                                   *)
\* json-adapter.cc:264-283, security-token.cc:82-103, daemonize_windows.cc:103-141
THEOREM TypesHold == Spec => []TypeOK
  BY TypeInit, TypeStep, PTL DEF Spec

-----------------------------------------------------------------------------
(* What a step leaves to the servers *)

\* a server goes on, whatever step is taken
LEMMA ProgressStep ==
  ASSUME TypeOK, [Next]_vars
  PROVE  \A s \in Servers : Progress(s)
<1>1. CASE UNCHANGED vars \/ \E c \in Clients : ClientStep(c)
  <2>1. UNCHANGED << pc, port, bound >>
    BY <1>1 DEF ClientStep, ReadFile, Connect, Verify, Lose, vars, serverVars
  <2>2. QED
    BY <2>1 DEF Progress, Alive
<1>2. ASSUME NEW s \in Servers,
             \/ Launch(s) \/ LaunchFails(s) \/ SearchStep(s) \/ FileStep(s)
             \/ MainStep(s) \/ Stop(s) \/ Crash(s) \/ ForegroundStep(s)
      PROVE  \A t \in Servers : Progress(t)
  <2> USE DEF TypeOK, Progress, Portless, Early, Alive, Goto
  <2>1. CASE Launch(s) \/ LaunchFails(s)
    BY <1>2, <2>1 DEF Launch, LaunchFails, serverVars
  <2>2. CASE SearchStep(s)
    BY <1>2, <2>2 DEF SearchStep, BeginSearch, BindPort, NextPort, NoPortLeft
  <2>3. CASE FileStep(s)
    BY <1>2, <2>3 DEF FileStep, CreateFile, CreateFails, WriteFile, WriteFails
  <2>4. CASE InitFails(s) \/ RunFails(s) \/ Run(s) \/ Commit(s) \/ CommitFailure(s) \/ Gone(s)
    BY <1>2, <2>4 DEF InitFails, RunFails, Run, Commit, CommitFailure, Gone
  <2>5. CASE CommitThrows(s) \/ CommitFailureThrows(s) \/ Exit(s) \/ Stop(s) \/ Crash(s)
    BY <1>2, <2>5 DEF CommitThrows, CommitFailureThrows, Exit, Stop, Crash, Dies
  <2>6. CASE ForegroundStep(s)
    BY <1>2, <2>6 DEF ForegroundStep, ReadStatus, ExitWithStatus, AwaitProcess,
                      ExitWithCode, serverVars
  <2>7. QED
    BY <1>2, <2>1, <2>2, <2>3, <2>4, <2>5, <2>6 DEF MainStep
<1>3. QED
  BY <1>1, <1>2 DEF Next

\* only these three steps change the file
LEMMA QuietStep ==
  ASSUME TypeOK, [Next]_vars
  PROVE  Quiet \/ \E s \in Servers : CreateFile(s) \/ WriteFile(s) \/ WriteFails(s)
<1>1. CASE UNCHANGED vars \/ \E c \in Clients : ClientStep(c)
  <2>1. UNCHANGED << pc, file, torn >>
    BY <1>1 DEF ClientStep, ReadFile, Connect, Verify, Lose, vars, serverVars
  <2>2. QED
    BY <2>1 DEF Quiet, Written
<1>2. ASSUME NEW s \in Servers,
             \/ Launch(s) \/ LaunchFails(s) \/ SearchStep(s) \/ CreateFails(s)
             \/ MainStep(s) \/ Stop(s) \/ Crash(s) \/ ForegroundStep(s)
      PROVE  Quiet
  <2> USE DEF TypeOK, Quiet, Written, Goto
  <2>1. CASE Launch(s) \/ LaunchFails(s)
    BY <1>2, <2>1 DEF Launch, LaunchFails, serverVars
  <2>2. CASE SearchStep(s)
    BY <1>2, <2>2 DEF SearchStep, BeginSearch, BindPort, NextPort, NoPortLeft
  <2>3. CASE CreateFails(s)
    BY <1>2, <2>3 DEF CreateFails
  <2>4. CASE InitFails(s) \/ RunFails(s) \/ Run(s) \/ Commit(s) \/ CommitFailure(s) \/ Gone(s)
    BY <1>2, <2>4 DEF InitFails, RunFails, Run, Commit, CommitFailure, Gone
  <2>5. CASE CommitThrows(s) \/ CommitFailureThrows(s) \/ Exit(s) \/ Stop(s)
    BY <1>2, <2>5 DEF CommitThrows, CommitFailureThrows, Exit, Stop, Dies
  <2>6. CASE Crash(s)
    BY <1>2, <2>6 DEF Crash, Dies
  <2>7. CASE ForegroundStep(s)
    BY <1>2, <2>7 DEF ForegroundStep, ReadStatus, ExitWithStatus, AwaitProcess,
                      ExitWithCode, serverVars
  <2>8. QED
    BY <1>2, <2>1, <2>2, <2>3, <2>4, <2>5, <2>6, <2>7 DEF MainStep
<1>3. QED
  BY <1>1, <1>2 DEF Next, FileStep

-----------------------------------------------------------------------------
(* A port that was written down leads to its server *)

LEMMA PortStep ==
  ASSUME NoWrap, TypeOK, PortInv, [Next]_vars
  PROVE  PortInv'
<1>1. CASE UNCHANGED vars \/ \E c \in Clients : ClientStep(c)
  <2>1. UNCHANGED << pc, port, bound >>
    BY <1>1 DEF ClientStep, ReadFile, Connect, Verify, Lose, vars, serverVars
  <2>2. QED
    BY <2>1 DEF PortInv
<1>2. ASSUME NEW s \in Servers,
             \/ Launch(s) \/ LaunchFails(s) \/ SearchStep(s) \/ FileStep(s)
             \/ MainStep(s) \/ Stop(s) \/ Crash(s) \/ ForegroundStep(s)
      PROVE  PortInv'
  <2> USE DEF TypeOK, PortInv, Goto
  <2>1. CASE Launch(s) \/ LaunchFails(s)
    BY <2>1 DEF Launch, LaunchFails, serverVars
  <2>2. CASE BeginSearch(s)
    BY <2>2, StartPortKept DEF BeginSearch
  <2>3. CASE NextPort(s)
    <3>1. port[s] + 1 \in 1 .. PortLimit - 1
      BY <2>3, StartupAssumption DEF NextPort, NoWrap
    <3>2. (port[s] + 1) % PortLimit = port[s] + 1
      BY <3>1, ModSmall, StartupAssumption
    <3>3. QED
      BY <2>3, <3>1, <3>2 DEF NextPort
  <2>4. CASE BindPort(s)
    <3>1. Free(port[s]) /\ bound' = [bound EXCEPT ![s] = port[s]]
      BY <2>4 DEF BindPort
    <3>2. pc' = [pc EXCEPT ![s] = "bound"] /\ port' = port
      BY <2>4 DEF BindPort
    <3>3. QED
      BY <3>1, <3>2 DEF Free
  <2>5. CASE NoPortLeft(s) \/ FileStep(s)
    BY <2>5 DEF NoPortLeft, FileStep, CreateFile, CreateFails, WriteFile, WriteFails
  <2>6. CASE InitFails(s) \/ RunFails(s) \/ Run(s) \/ Commit(s) \/ CommitFailure(s) \/ Gone(s)
    BY <2>6 DEF InitFails, RunFails, Run, Commit, CommitFailure, Gone
  <2>7. CASE CommitThrows(s) \/ CommitFailureThrows(s) \/ Exit(s) \/ Stop(s) \/ Crash(s)
    BY <2>7 DEF CommitThrows, CommitFailureThrows, Exit, Stop, Crash, Dies
  <2>8. CASE ForegroundStep(s)
    BY <2>8 DEF ForegroundStep, ReadStatus, ExitWithStatus, AwaitProcess,
                ExitWithCode, serverVars
  <2>9. QED
    BY <1>2, <2>1, <2>2, <2>3, <2>4, <2>5, <2>6, <2>7, <2>8 DEF SearchStep, MainStep
<1>3. QED
  BY <1>1, <1>2 DEF Next

\* who is mentioned after a write was so before, or has written now
LEMMA MentionedAfterWrite ==
  ASSUME TypeOK, NEW s \in Servers, NEW n \in Nat, file' = Overwritten(s, n),
         NEW t \in Servers, t # s, Mentioned(t)'
  PROVE  Mentioned(t)
<1>1. PICK i \in 1 .. Len(file') : file'[i] = t
  BY DEF Mentioned
<1> DEFINE new == Overwritten(s, n)
<1>2. /\ Len(file) \in Nat
      /\ Len(new) = IF Len(file) > n THEN Len(file) ELSE n
      /\ \A k \in 1 .. Len(new) : new[k] = IF k <= n THEN s ELSE file[k]
  <2>1. Len(file) \in Nat
    BY DEF TypeOK
  <2>2. QED
    BY <2>1, OverwrittenType
<1> HIDE DEF new
<1>3. i > n /\ i \in 1 .. Len(file) /\ file[i] = t
  <2>1. file' = new
    BY DEF new
  <2>2. QED
    BY <1>1, <1>2, <2>1
<1>4. QED
  BY <1>3 DEF Mentioned

LEMMA MentionInvStep ==
  ASSUME TypeOK, MentionInv, [Next]_vars
  PROVE  MentionInv'
<1>1. \A t \in Servers : pc[t] \notin Early => pc'[t] \notin Early
  BY ProgressStep DEF Progress
<1>2. CASE Quiet
  BY <1>1, <1>2 DEF Quiet, MentionInv, Mentioned
<1>3. ASSUME NEW s \in Servers, CreateFile(s) PROVE MentionInv'
  BY <1>3 DEF CreateFile, MentionInv, Mentioned
<1>4. ASSUME NEW s \in Servers, WriteFile(s) \/ WriteFails(s) PROVE MentionInv'
  <2>1. PICK n \in Nat : file' = Overwritten(s, n)
    BY <1>4, SizeType DEF WriteFile, WriteFails
  <2>2. pc'[s] \notin Early
    BY <1>4 DEF TypeOK, WriteFile, WriteFails, Goto, Early, Portless
  <2>3. QED
    BY <1>1, <2>1, <2>2, MentionedAfterWrite DEF MentionInv
<1>5. QED
  BY <1>2, <1>3, <1>4, QuietStep

LEMMA FileInvStep ==
  ASSUME TypeOK, PortInv, FileInv, [Next]_vars
  PROVE  FileInv'
<1>1. \A t \in Servers : Reachable(t) => Reachable(t)'
  BY ProgressStep DEF Progress, Reachable, Portless, Early
<1>2. CASE Quiet
  BY <1>1, <1>2 DEF Quiet, FileInv, Mentioned
<1>3. ASSUME NEW s \in Servers, CreateFile(s) PROVE FileInv'
  BY <1>3 DEF CreateFile, FileInv, Mentioned
<1>4. ASSUME NEW s \in Servers, WriteFile(s) \/ WriteFails(s) PROVE FileInv'
  <2>1. PICK n \in Nat : file' = Overwritten(s, n)
    BY <1>4, SizeType DEF WriteFile, WriteFails
  <2>2. bound'[s] = port'[s] /\ pc'[s] \in {"ready", "failing"}
    BY <1>4 DEF TypeOK, PortInv, WriteFile, WriteFails, Goto
  <2>3. Reachable(s)'
    BY <2>2 DEF Reachable, Early, Portless
  <2>4. QED
    BY <1>1, <2>1, <2>3, MentionedAfterWrite DEF FileInv
<1>5. QED
  BY <1>2, <1>3, <1>4, QuietStep

LEMMA WholeMentions ==
  ASSUME NEW s \in Servers, file = Whole(s)
  PROVE  Mentioned(s)
  BY SizeType DEF Whole, Mentioned

LEMMA ClientInvStep ==
  ASSUME TypeOK, PortInv, FileInv, ClientInv, [Next]_vars
  PROVE  ClientInv'
<1>1. \A t \in Servers : Reachable(t) => Reachable(t)' /\ (Alive(t)' => Alive(t))
  BY ProgressStep DEF Progress, Reachable, Portless, Early
<1>2. CASE UNCHANGED client
  BY <1>1, <1>2 DEF ClientInv, TypeOK, ClientStates
<1>3. ASSUME NEW c \in Clients, ClientStep(c) PROVE ClientInv'
  <2>1. /\ UNCHANGED << pc, port, bound >>
        /\ \A d \in Clients \ {c} : client'[d] = client[d]
    BY <1>3 DEF ClientStep, ReadFile, Connect, Verify, Lose, serverVars, TypeOK
  <2>2. client \in [Clients -> ClientStates] /\ client[c] \in ClientStates
    BY DEF TypeOK
  <2>3. SUFFICES ASSUME client'[c].by # None
        PROVE  LET s == client'[c].by IN
               /\ Reachable(s)
               /\ Alive(s) => /\ client'[c].at \in {"read", "sent", "accepted"}
                              /\ client'[c].at = "sent" => client'[c].to = s
    BY <1>1, <2>1 DEF ClientInv, Reachable, Alive
  <2>4. CASE ReadFile(c)
    <3>1. PICK s \in Servers : /\ file = Whole(s)
                              /\ client'[c] = [at |-> "read", by |-> s, to |-> None]
      BY <2>2, <2>4 DEF ReadFile
    <3>2. QED
      BY <3>1, WholeMentions DEF FileInv
  <2>5. CASE Connect(c)
    <3>1. client'[c].by = client[c].by
      BY <2>2, <2>5 DEF Connect, ClientStates
    <3>2. client[c].by \in Servers
      BY <2>2, <2>3, <3>1 DEF ClientStates
    <3>3. Reachable(client[c].by)
      BY <2>3, <3>1 DEF ClientInv
    <3>4. CASE ~ Alive(client[c].by)
      BY <3>1, <3>3, <3>4
    <3>5. CASE Alive(client[c].by)
      <4>1. bound[client[c].by] = port[client[c].by] /\ port[client[c].by] # None
        BY <3>2, <3>3, <3>5, StartupAssumption DEF Reachable, TypeOK
      <4>2. PICK t \in Servers : /\ bound[t] = port[client[c].by]
                                /\ client' = [client EXCEPT ![c].at = "sent", ![c].to = t]
        BY <2>5, <3>2, <4>1 DEF Connect, Free, Named
      <4>3. t = client[c].by
        BY <3>2, <4>1, <4>2 DEF PortInv
      <4>4. client'[c].at = "sent" /\ client'[c].to = t
        BY <2>2, <4>2 DEF ClientStates
      <4>5. QED
        BY <3>1, <3>3, <4>3, <4>4
    <3>6. QED
      BY <3>4, <3>5
  <2>6. CASE Verify(c) \/ Lose(c)
    <3>1. /\ client'[c].by = client[c].by /\ client'[c].to = client[c].to
          /\ client[c].at = "sent"
          /\ client'[c].at \in {"accepted", "rejected", "lost"}
      BY <2>2, <2>6 DEF Verify, Lose, ClientStates
    <3>2. /\ client'[c].at = "rejected" => client[c].by # client[c].to
          /\ client'[c].at = "lost" => ~ Alive(client[c].to)
      BY <2>2, <2>6 DEF Verify, Lose, ClientStates, Alive
    <3>3. QED
      BY <2>3, <3>1, <3>2 DEF ClientInv
  <2>7. QED
    BY <1>3, <2>4, <2>5, <2>6 DEF ClientStep
<1>4. CASE \E s \in Servers : \/ Launch(s) \/ LaunchFails(s) \/ SearchStep(s) \/ FileStep(s)
                            \/ MainStep(s) \/ Stop(s) \/ Crash(s) \/ ForegroundStep(s)
  BY <1>2, <1>4
     DEF Launch, LaunchFails, SearchStep, BeginSearch, BindPort, NextPort, NoPortLeft,
         FileStep, CreateFile, CreateFails, WriteFile, WriteFails, MainStep, InitFails,
         Run, RunFails, Commit, CommitThrows, CommitFailure, CommitFailureThrows, Exit, Gone,
         Stop, Crash, ForegroundStep, ReadStatus, ExitWithStatus, AwaitProcess,
         ExitWithCode
<1>5. QED
  BY <1>2, <1>3, <1>4 DEF Next, vars

ReachInv == TypeOK /\ PortInv /\ FileInv /\ ClientInv

LEMMA ReachInit == Init => ReachInv
<1>1. SUFFICES ASSUME Init PROVE ReachInv
  OBVIOUS
<1>2. TypeOK
  BY <1>1, TypeInit
<1>3. PortInv /\ FileInv /\ ClientInv
  BY <1>1 DEF Init, PortInv, FileInv, ClientInv, Mentioned, Idle
<1>4. QED
  BY <1>2, <1>3 DEF ReachInv

(* Who has read the file of a server that lives gets to that server and is *)
(* accepted, if the counter of the ports does not come to 0.               *)
\* json-adapter.cc:264-283, 360-369, README.md:654-657
THEOREM ReachesTheWriterHolds ==
  ASSUME NoWrap
  PROVE  Spec => []ReachesTheWriter
<1>1. ReachInv /\ [Next]_vars => ReachInv'
  BY TypeStep, PortStep, FileInvStep, ClientInvStep DEF ReachInv
<1>2. ReachInv => ReachesTheWriter
  BY DEF ReachInv, ClientInv, ReachesTheWriter
<1>3. QED
  BY ReachInit, <1>1, <1>2, PTL DEF Spec

-----------------------------------------------------------------------------
(* The file is whole *)

LEMMA WholeInvStep ==
  ASSUME TypeOK, MentionInv, WholeInv, [Next]_vars
  PROVE  WholeInv'
<1>1. SUFFICES ASSUME ~ torn', Agree'
      PROVE  \/ /\ file' = << >>
                /\ \/ \E s \in Servers : pc'[s] = "writing"
                   \/ \A s \in Servers : ~ Written(s)'
             \/ \E s \in Servers : file' = Whole(s)'
  BY DEF WholeInv
<1>2. \A s \in Servers : pc[s] \notin Portless => Size(s)' = Size(s) /\ Whole(s)' = Whole(s)
  BY ProgressStep DEF Progress, Size, Named, Whole
<1>3. Agree
  <2>1. \A s \in Servers : pc[s] \notin Early => pc'[s] \notin Early /\ Size(s)' = Size(s)
    BY <1>2, ProgressStep DEF Progress, Early
  <2>2. QED
    BY <1>1, <2>1 DEF Agree
<1>4. CASE Quiet
  <2>1. ~ torn
    BY <1>1, <1>4 DEF Quiet
  <2>2. CASE \E s \in Servers : file = Whole(s)
    <3>1. PICK s \in Servers : file = Whole(s)
      BY <2>2
    <3>2. pc[s] \notin Portless
      BY <3>1, WholeMentions DEF MentionInv, Early
    <3>3. QED
      BY <1>2, <1>4, <3>1, <3>2 DEF Quiet
  <2>3. CASE ~ \E s \in Servers : file = Whole(s)
    BY <1>1, <1>3, <1>4, <2>1, <2>3 DEF Quiet, WholeInv
  <2>4. QED
    BY <2>2, <2>3
<1>5. ASSUME NEW s \in Servers, CreateFile(s)
      PROVE  file' = << >> /\ pc'[s] = "writing"
  BY <1>5 DEF CreateFile, Goto, TypeOK
<1>6. ASSUME NEW s \in Servers, WriteFails(s) PROVE FALSE
  BY <1>1, <1>6 DEF WriteFails
<1>7. ASSUME NEW s \in Servers, WriteFile(s)
      PROVE  file' = Whole(s)'
  <2>1. /\ pc[s] = "writing" /\ pc'[s] = "ready" /\ ~ torn
        /\ file' = Overwritten(s, Size(s)) /\ port' = port
    BY <1>1, <1>7 DEF WriteFile, Goto, TypeOK
  <2>2. Whole(s)' = Whole(s) /\ Size(s) \in Nat
    BY <2>1, SizeType DEF Whole, Size, Named
  <2>3. file = << >> \/ \E t \in Servers : file = Whole(t)
    BY <1>3, <2>1 DEF WholeInv
  <2>4. Len(file) \in {0, Size(s)}
    <3>1. CASE file = << >>
      BY <3>1
    <3>2. ASSUME NEW t \in Servers, file = Whole(t) PROVE Len(file) = Size(s)
      <4>1. pc[t] \notin Early
        BY <3>2, WholeMentions DEF MentionInv
      <4>2. pc'[t] \notin Early /\ pc'[s] \notin Early
        BY <2>1, <4>1, ProgressStep DEF Progress, Early, Portless
      <4>3. Size(t)' = Size(s)'
        BY <1>1, <4>2 DEF Agree
      <4>4. Size(t) = Size(s)
        BY <2>1, <4>3 DEF Size, Named
      <4>5. QED
        BY <2>2, <3>2, <4>4 DEF Whole
    <3>3. QED
      BY <2>3, <3>1, <3>2
  <2>5. file' = [i \in 1 .. Size(s) |-> s]
    BY <2>1, <2>2, <2>4 DEF Overwritten
  <2>6. QED
    BY <2>2, <2>5 DEF Whole
<1>8. QED
  BY <1>4, <1>5, <1>6, <1>7, QuietStep

(* However the steps of the servers that write it are mixed, the file is   *)
(* the complete file of one of them when all were able to finish; as long  *)
(* as their files have the same length.                                    *)
\* security-token.cc:82-103
THEOREM FileIsWholeHolds == Spec => []FileIsWhole
<1>1. Init => MentionInv /\ WholeInv
  BY DEF Init, MentionInv, Mentioned, WholeInv, Written
<1>2. TypeOK /\ MentionInv /\ WholeInv /\ [Next]_vars => MentionInv' /\ WholeInv'
  BY MentionInvStep, WholeInvStep
<1>3. WholeInv => FileIsWhole
  BY DEF WholeInv, FileIsWhole, SameSize, Agree
<1>4. QED
  BY TypesHold, <1>1, <1>2, <1>3, PTL DEF Spec

-----------------------------------------------------------------------------
(* The status that the foreground process exits with *)

(* The status that it has read or will read next.                          *)
FirstStatus(s) ==
    IF status[s] # None THEN status[s]
    ELSE IF pipe[s] # << >> THEN pipe[s][1] ELSE None

Truth(s, c) ==
    IF c = 0 THEN pc[s] \in {"running", "dying", "dead"} /\ code[s] # 1
             ELSE ~ Alive(s)

(* Before the server commits there is no status.  The first one is true,   *)
(* and stays so; when there is none at the end, the exit code takes its    *)
(* place.                                                                  *)
StatusInv ==
    windows => \A s \in Servers :
        /\ pc[s] \notin {"dying", "dead"} => code[s] = 0
        /\ pc[s] = "off" =>
              /\ fg[s] \in {"off", "exited"}
              /\ fg[s] = "exited" => status[s] = 1
              /\ fg[s] = "off" => status[s] = None
              /\ pipe[s] = << >> /\ ~ closed[s]
        /\ pc[s] \in {"init", "search", "bound", "writing", "ready", "started", "failing"} =>
              fg[s] = "reading" /\ status[s] = None /\ pipe[s] = << >> /\ ~ closed[s]
        /\ fg[s] \in {"reading", "exited"} /\ FirstStatus(s) # None => Truth(s, FirstStatus(s))
        /\ fg[s] = "exited" => status[s] # None

\* what is reported into an empty pipe
LEMMA ReportFirst ==
  ASSUME windows, NEW s \in Servers, pipe[s] = << >>,
         NEW statuses \in {<< 0 >>, << 1 >>, << 1, 1 >>, << 0, 1, 1 >>}, Report(s, statuses)
  PROVE  pipe' = [pipe EXCEPT ![s] = statuses]
<1>1. statuses \in Seq({0, 1})
  <2>1. << 0 >> \in Seq({0, 1}) /\ << 1 >> \in Seq({0, 1})
    OBVIOUS
  <2>2. << 1, 1 >> \in Seq({0, 1}) /\ << 0, 1, 1 >> \in Seq({0, 1})
    OBVIOUS
  <2>3. QED
    BY <2>1, <2>2
<1>2. << >> \o statuses = statuses
  BY <1>1, ConcatEmptySeq
<1>3. QED
  BY <1>2 DEF Report

LEMMA StatusInvStep ==
  ASSUME TypeOK, StatusInv, [Next]_vars
  PROVE  StatusInv'
<1>1. SUFFICES ASSUME windows, windows' PROVE StatusInv'
  BY DEF StatusInv, Next, vars
<1>2. CASE UNCHANGED vars \/ \E c \in Clients : ClientStep(c)
  <2>1. UNCHANGED << pc, pipe, closed, code, fg, status >>
    BY <1>2 DEF ClientStep, ReadFile, Connect, Verify, Lose, vars, serverVars, pipeVars, fgVars
  <2>2. QED
    BY <1>1, <2>1 DEF StatusInv, FirstStatus, Truth, Alive
<1>3. ASSUME NEW s \in Servers,
             \/ Launch(s) \/ LaunchFails(s) \/ SearchStep(s) \/ FileStep(s)
             \/ MainStep(s) \/ Stop(s) \/ Crash(s) \/ ForegroundStep(s)
      PROVE  StatusInv'
  <2>1. None \notin {0, 1, Abort, Killed}
    BY StartupAssumption DEF Abort, Killed
  <2> USE <1>1, <2>1 DEF TypeOK, StatusInv, FirstStatus, Truth, Alive, Goto
  <2>2. CASE Launch(s) \/ LaunchFails(s)
    <3>1. CASE Launch(s)
      <4>1. /\ pc' = [pc EXCEPT ![s] = "init"]
            /\ fg' = [fg EXCEPT ![s] = "reading"]
            /\ status' = [status EXCEPT ![s] = None]
            /\ UNCHANGED << pipe, closed, code >>
        BY <3>1 DEF Launch, pipeVars
      <4>2. pc[s] = "off" /\ pipe[s] = << >> /\ code[s] = 0 /\ ~ closed[s]
        BY <3>1 DEF Launch
      <4>3. QED
        BY <4>1, <4>2
    <3>2. CASE LaunchFails(s)
      BY <3>2 DEF LaunchFails, serverVars, pipeVars
    <3>3. QED
      BY <2>2, <3>1, <3>2
  <2>3. CASE SearchStep(s)
    BY <2>3 DEF SearchStep, BeginSearch, BindPort, NextPort, NoPortLeft, pipeVars, fgVars
  <2>4. CASE FileStep(s)
    BY <2>4 DEF FileStep, CreateFile, CreateFails, WriteFile, WriteFails, pipeVars, fgVars
  <2>5. CASE InitFails(s) \/ RunFails(s) \/ Run(s) \/ Gone(s)
    <3>1. CASE InitFails(s)
      BY <3>1 DEF InitFails, pipeVars, fgVars
    <3>2. CASE Run(s)
      BY <3>2 DEF Run, pipeVars, fgVars
    <3>3. CASE RunFails(s)
      BY <3>3 DEF RunFails, pipeVars, fgVars
    <3>4. CASE Gone(s)
      BY <3>4 DEF Gone, pipeVars, fgVars
    <3>5. QED
      BY <2>5, <3>1, <3>2, <3>3, <3>4
  <2>6. CASE Commit(s)
    <3>1. pipe' = [pipe EXCEPT ![s] = << 0 >>]
      BY <2>6, ReportFirst DEF Commit
    <3>2. QED
      BY <2>6, <3>1 DEF Commit, fgVars
  <2>7. CASE CommitFailure(s)
    <3>1. pipe' = [pipe EXCEPT ![s] = << 1 >>]
      BY <2>7, ReportFirst DEF CommitFailure
    <3>2. QED
      BY <2>7, <3>1 DEF CommitFailure, fgVars
  <2>8. CASE CommitThrows(s)
    <3>1. pipe' = [pipe EXCEPT ![s] = << 0, 1, 1 >>]
      BY <2>8, ReportFirst DEF CommitThrows
    <3>2. QED
      BY <2>8, <3>1 DEF CommitThrows, Dies, Abort, fgVars
  <2>9. CASE CommitFailureThrows(s)
    <3>1. pipe' = [pipe EXCEPT ![s] = << 1 >>] \/ pipe' = [pipe EXCEPT ![s] = << 1, 1 >>]
      BY <2>9, ReportFirst DEF CommitFailureThrows
    <3>2. QED
      BY <2>9, <3>1 DEF CommitFailureThrows, Dies, Abort, fgVars
  <2>10. CASE Exit(s) \/ Stop(s)
    BY <2>10 DEF Exit, Stop, Dies, fgVars
  <2>11. CASE Crash(s)
    BY <2>11 DEF Crash, Dies, fgVars, Killed
  <2>12. CASE ReadStatus(s)
    BY <2>12 DEF ReadStatus, serverVars
  <2>13. CASE ExitWithStatus(s) \/ AwaitProcess(s)
    BY <2>13 DEF ExitWithStatus, AwaitProcess, serverVars, pipeVars
  <2>14. CASE ExitWithCode(s)
    BY <2>14 DEF ExitWithCode, serverVars, pipeVars
  <2>15. QED
    BY <1>3, <2>2, <2>3, <2>4, <2>5, <2>6, <2>7, <2>8, <2>9, <2>10, <2>11, <2>12, <2>13,
       <2>14 DEF MainStep, ForegroundStep
<1>4. QED
  BY <1>2, <1>3 DEF Next

(* On Windows the exit code of the foreground process is the truth about   *)
(* the server, whatever fails and whenever the server dies.                *)
\* daemonize_windows.cc:103-141, mini-adapter-main.cc:158-182
THEOREM StatusIsTruthHolds == Spec => []StatusIsTruth
<1>1. Init => StatusInv
  BY StartupAssumption DEF Init, StatusInv, FirstStatus
<1>2. TypeOK /\ StatusInv /\ [Next]_vars => StatusInv'
  BY StatusInvStep
<1>3. StatusInv => StatusIsTruth
  BY DEF StatusInv, FirstStatus, Truth, StatusIsTruth
<1>4. QED
  BY TypesHold, <1>1, <1>2, <1>3, PTL DEF Spec
=============================================================================
