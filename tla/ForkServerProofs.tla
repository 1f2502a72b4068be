--------------------------- MODULE ForkServerProofs ---------------------------
(***************************************************************************)
(* Proofs about ForkServer, for any number of runs, any timeouts, ids and  *)
(* exit codes.  IInv is the inductive invariant.  It has two cases.  As    *)
(* long as no fork has failed (InService) each of its parts is the         *)
(* bookkeeping of one boundary: the timer, the handler, the death of the   *)
(* client, the pipe to the server, the current run, the client's view of   *)
(* it.  After a failed fork (AfterFailure) nothing is left but the alarm   *)
(* of the run before, until the server has exited.                         *)
(***************************************************************************)
EXTENDS ForkServer, TLAPS

\* The timer and a pending alarm belong to the last run, or - while the next
\* one is being set up - to the one before it.
TimerInv ==
  /\ itimer \in {0, put_pid} \/ (server = "SetTimer" /\ itimer = put_pid - 1)
  /\ sigalrm \in {0, put_pid}
       \/ (server \in {"SetTimer", "SetHandler"} /\ sigalrm = put_pid - 1)
  /\ server \in ServerEnded => itimer = 0 /\ sigalrm = 0
  /\ \A p \in {itimer, sigalrm} : p # 0 => image[p].settings.timeout_us # 0
  /\ \A p \in Runs : killer[p] # 0 => killer[p] \in {p - 1, p}

\* The handler is missing only before the first run has installed it.
HandlerInv ==
  /\ ~handler => \/ put_pid = 0
                 \/ put_pid = 1 /\ server \in {"SetTimer", "SetHandler"} \union ServerEnded
  /\ handler => put_pid > 0
  /\ \A p \in Runs : image[p].handler => p > 1
  /\ server = "KilledByAlarm" => put_pid = 1
  /\ server = "KilledByGroup" => put_pid > 1

\* As long as no fork has failed only a PUT with the handler kills the client, and
\* the server with it.
KilledInv ==
  client = "Killed" => server \in ServerEnded /\ put_pid > 1 /\ image[put_pid].handler

\* What the state of the server says of the PUTs.
RunInv ==
  /\ put_pid <= sent
  /\ \A p \in Runs : put[p] = "absent" <=> p > put_pid
  /\ \A p \in Runs : put[p] \in {"zombie", "reaped"} <=> status[p] # NoStatus
  /\ \A p \in Runs : put[p] \in PutLive \union {"zombie"} =>
        p = put_pid /\ p = sent /\ server \in (ServerInRun \ {"SendResponse"}) \union ServerEnded
  /\ server \in ServerInRun => put_pid > 0 /\ put_pid = sent /\ toServer = <<>>
  /\ server \in ServerInRun \ {"SendResponse"} => put[put_pid] # "reaped"
  /\ server = "SendResponse" => wstatus = status[put_pid]
  /\ server = "ExecutePUT" => put_pid + 1 = sent /\ toServer = <<>>
  /\ server # "ForkFailed"

\* Every u64 in the pipe follows the command that announces it, ExecutePUT is
\* last, and the server knows which of the two comes next.
FrameInv ==
  server \notin ServerEnded \union {"Standalone"} =>
    /\ \A i \in 1 .. Len(toServer) :
         /\ i > 1 => /\ toServer[i].type # "executor_id"
                     /\ toServer[i].type = "u64"
                          <=> toServer[i - 1] = Command(SetPUTExecutionTimeoutCommand)
         /\ toServer[i] = Command(ExecutePUTCommand) =>
              i = Len(toServer) /\ put_pid + 1 = sent
    /\ server \in {"Start", "WaitClientAttach"} => Len(toServer) <= 1
    /\ toServer # <<>> =>
         /\ toServer[1].type = "executor_id" <=> server \in {"Start", "WaitClientAttach"}
         /\ toServer[1].type = "u64" <=> server = "RecvU64"

\* Where the client is says where the server may be.
LastIsTimeoutCommand ==
  IF toServer = <<>> THEN server = "RecvU64"
  ELSE toServer[Len(toServer)] = Command(SetPUTExecutionTimeoutCommand)

ClientInv ==
  /\ client = "AttachToServer" =>
       /\ server \in {"Start", "WaitClientAttach", "Exited"}
       /\ toServer = <<>> /\ toClient = <<>>
       /\ sent = 0 /\ replies = <<>>
  /\ client = "KilledByPipe" => server = "Exited" /\ sent = 0
  /\ client = "WaitForkServerStart" =>
       /\ sent = 0 /\ replies = <<>>
       /\ \/ /\ server \in {"Start", "WaitClientAttach"}
             /\ toClient = <<>> /\ Len(toServer) = 1
          \/ /\ server \in {"TellClientServerHasStarted", "Standalone"}
             /\ toClient = <<>> /\ toServer = <<>>
          \/ server \in ServerEnded /\ toClient = <<>>
          \/ server = "WaitForAPICall" /\ toClient = <<ServerPid>> /\ toServer = <<>>
  /\ client \in {"Ready", "SendTimeoutValue"} =>
       /\ server \in {"WaitForAPICall", "RecvU64"}
       /\ toClient = <<>> /\ sent = put_pid /\ Len(replies) = sent
       /\ client = "SendTimeoutValue" <=> LastIsTimeoutCommand
  /\ client = "AwaitResponse" =>
       /\ Len(replies) + 1 = sent
       /\ \/ /\ server \in {"WaitForAPICall", "RecvU64"}
             /\ toClient = <<>> /\ toServer # <<>>
             /\ toServer[Len(toServer)] = Command(ExecutePUTCommand)
          \/ server = "ExecutePUT" /\ toClient = <<>>
          \/ server \in ServerInRun /\ toClient = <<>>
          \/ /\ server = "WaitForAPICall" /\ put_pid = sent /\ toServer = <<>>
             /\ toClient = <<ResponseOf(status[sent])>>
          \/ server \in ServerEnded /\ toClient = <<>> /\ put[sent] # "reaped"
  /\ client = "Aborted" => sent > 0 /\ server \in ServerEnded /\ put[sent] # "reaped"

\* What the client was told.
RepliesInv ==
  /\ Len(replies) <= put_pid
  /\ \A i \in 1 .. Len(replies) :
       put[i] = "reaped" /\ replies[i] = ResponseOf(status[i])

\* The settings of the server and what is in the pipe add up to what was asked.
Occurs(q, x) == \E i \in 1 .. Len(q) : q[i] = x

\* The timeout that the pipe leaves behind: the last u64 in it, or the old one.
TimeoutAddsUp(q, old, new) ==
  \/ old = new /\ \A i \in 1 .. Len(q) : q[i].type # "u64"
  \/ \E i \in 1 .. Len(q) : /\ q[i] = U64(new)
                            /\ \A j \in i + 1 .. Len(q) : q[j].type # "u64"

AddsUp ==
  /\ put_pid < sent => requested[sent] = asked
  /\ server \notin {"Start", "WaitClientAttach"} => settings.executor_id = asked.executor_id
  /\ server \in {"Start", "WaitClientAttach"} /\ toServer # <<>> =>
       Head(toServer) = Id(asked.executor_id)
  /\ asked.read_stdin <=> settings.read_stdin \/ Occurs(toServer, Command(ReadStdinCommand))
  /\ asked.save_stdout_stderr
       <=> settings.save_stdout_stderr \/ Occurs(toServer, Command(SaveStdoutStderrCommand))
  /\ TimeoutAddsUp(toServer, settings.timeout_us, asked.timeout_us)

SettingsInv ==
  /\ \A p \in Runs : p <= put_pid => image[p].settings = requested[p]
  /\ server = "SetTimer" => image[put_pid].settings = settings
  /\ server \notin ServerEnded \union {"Standalone"} => AddsUp

\* As long as no fork has failed.
InService ==
  /\ put_pid # -1
  /\ TypeOK /\ TimerInv /\ HandlerInv /\ KilledInv /\ RunInv
  /\ FrameInv /\ ClientInv /\ RepliesInv /\ SettingsInv

\* After a failed fork: no PUT is left, the client waits or has gone, and what may
\* still come is the alarm of the run before, which finds put_pid = -1.
AfterFailure ==
  /\ TypeOK
  /\ put_pid = -1 /\ server \in {"ForkFailed", "Exited"} /\ sent > 0
  /\ client \in {"AwaitResponse", "Exited", "Aborted", "Killed"}
  /\ client = "AwaitResponse" => toClient = <<>> /\ Len(replies) + 1 = sent
  /\ client = "Killed" => sent > 1 /\ requested[sent - 1].timeout_us # 0
  /\ toServer = <<>>
  /\ \A p \in {itimer, sigalrm} :
       p # 0 => p = sent - 1 /\ handler /\ requested[sent - 1].timeout_us # 0
  /\ \A p \in Runs : /\ put[p] = IF p < sent THEN "reaped" ELSE "absent"
                     /\ status[p] # NoStatus <=> p < sent
                     /\ p < sent => image[p].settings = requested[p]
                     /\ killer[p] # 0 => killer[p] \in {p - 1, p}
  /\ \A i \in 1 .. Len(replies) : i < sent /\ replies[i] = ResponseOf(status[i])

IInv == InService \/ AfterFailure

-------------------------------------------------------------------------------
(* Facts about the values a pipe carries and the records the steps build. *)

\* Commands and their values turn settings into settings.
LEMMA SettingsFacts ==
  /\ DefaultSettings \in Settings
  /\ \A s \in Settings, c \in Nat : Configured(s, c) \in Settings
  /\ \A s \in Settings, id \in ExecutorIds : [s EXCEPT !.executor_id = id] \in Settings
  /\ \A s \in Settings, us \in Timeouts : [s EXCEPT !.timeout_us = us] \in Settings
BY TimeoutAssumption DEF DefaultSettings, Settings, Configured

\* What the client may write, and how the three types of it differ.
LEMMA ItemFacts ==
  /\ \A id \in ExecutorIds : Id(id) \in Items
  /\ \A c \in 0 .. 4 : Command(c) \in Items
  /\ \A us \in Timeouts : U64(us) \in Items
  /\ ConfigCommands \subseteq 0 .. 4
  /\ \A x \in Items : \/ \E v \in ExecutorIds : x = Id(v)
                      \/ \E v \in 0 .. 4 : x = Command(v)
                      \/ \E v \in Timeouts : x = U64(v)
  /\ \A v : /\ Id(v).type = "executor_id" /\ Id(v).value = v
            /\ Command(v).type = "command" /\ Command(v).value = v
            /\ U64(v).type = "u64" /\ U64(v).value = v
<1>1. Items = {Id(v) : v \in ExecutorIds} \union {Command(v) : v \in 0 .. 4}
                \union {U64(v) : v \in Timeouts}
  BY DEF Items, InvalidCommand, ExecutePUTCommand
<1>2. ConfigCommands \subseteq 0 .. 4
  BY CommandAssumption DEF InvalidCommand, ReadStdinCommand, SaveStdoutStderrCommand
<1>3. \A v : /\ Id(v).type = "executor_id" /\ Id(v).value = v
             /\ Command(v).type = "command" /\ Command(v).value = v
             /\ U64(v).type = "u64" /\ U64(v).value = v
  BY DEF Id, Command, U64
<1> QED
  BY <1>1, <1>2, <1>3, Zenon

\* What waitpid() may report, and what a response makes of it.
LEMMA StatusFacts ==
  /\ \A c \in ExitCodes : Exited(c) \in Statuses
  /\ Exited(EXIT_FAILURE) \in Statuses
  /\ \A s \in CrashSignals : Signaled(s) \in Statuses
  /\ Signaled(SIGKILL) \in Statuses /\ Signaled(SIGALRM) \in Statuses
  /\ NoStatus \notin Statuses
  /\ \A s \in Statuses : ResponseOf(s) \in Responses /\ ResponseOf(s) # NoResponse
BY DEF Statuses, Exited, Signaled, NoStatus, EXIT_FAILURE, SIGKILL, SIGALRM, Responses,
       ResponseOf, NoResponse

\* What the server finds at the head of the pipe.
LEMMA HeadFacts ==
  ASSUME TypeOK, FrameInv, toServer # <<>>
  PROVE  /\ Head(toServer) \in Items /\ Tail(toServer) \in Seq(Items)
         /\ server = "WaitClientAttach" => \E id \in ExecutorIds : Head(toServer) = Id(id)
         /\ server = "WaitForAPICall" => \E c \in 0 .. 4 : Head(toServer) = Command(c)
         /\ server = "RecvU64" => \E us \in Timeouts : Head(toServer) = U64(us)
<1>1. Head(toServer) \in Items /\ Tail(toServer) \in Seq(Items) /\ Head(toServer) = toServer[1]
  BY DEF TypeOK, PipeTypeOK
<1>2. \/ \E v \in ExecutorIds : Head(toServer) = Id(v)
      \/ \E v \in 0 .. 4 : Head(toServer) = Command(v)
      \/ \E v \in Timeouts : Head(toServer) = U64(v)
  BY <1>1, ItemFacts
<1>3. server \in {"WaitClientAttach", "WaitForAPICall", "RecvU64"} =>
        /\ Head(toServer).type = "executor_id" <=> server = "WaitClientAttach"
        /\ Head(toServer).type = "u64" <=> server = "RecvU64"
  BY <1>1 DEF FrameInv, ServerEnded
<1> QED
  BY <1>1, <1>2, <1>3, ItemFacts

\* What the state of the server says of the last PUT.
LEMMA LastPut ==
  ASSUME TypeOK, RunInv, put_pid # -1
  PROVE  /\ server \in ServerInRun => put_pid \in Runs
         /\ server = "ExecutePUT" => put_pid + 1 \in Runs
         /\ server \notin ServerEnded \union ServerInRun =>
              \A p \in Runs : p <= put_pid => put[p] = "reaped"
         /\ server = "SendResponse" => put[put_pid] = "reaped"
         /\ \A p \in Runs : put[p] = "reaped" => status[p] \in Statuses
<1> USE BoundsAssumption DEF TypeOK, ClientTypeOK, ServerTypeOK, PutTypeOK, RunInv, Runs
<1>1. \A p \in Runs : put[p] \in PutLive \union {"absent", "zombie", "reaped"}
  BY DEF PutStates
<1>2. server \in ServerInRun => put_pid \in Runs
  OBVIOUS
<1>3. server = "ExecutePUT" => put_pid + 1 \in Runs
  OBVIOUS
<1>4. server \notin ServerEnded \union ServerInRun =>
        \A p \in Runs : p <= put_pid => put[p] = "reaped"
  BY <1>1
<1>5. server = "SendResponse" => put[put_pid] = "reaped"
  BY <1>1, <1>2 DEF ServerInRun, ServerEnded
<1>6. \A p \in Runs : put[p] = "reaped" => status[p] \in Statuses
  OBVIOUS
<1> QED
  BY <1>2, <1>3, <1>4, <1>5, <1>6

-------------------------------------------------------------------------------
(* What the groups of steps leave alone. *)

\* The client touches nothing of the server, the timer and the PUTs.
LEMMA ClientKeeps == ClientNext => UNCHANGED <<server, serverVars, itimer, sigalrm, putVars>>
BY DEF ClientNext, AttachToServer, SendConfigCommand, SendTimeoutCommand, SendTimeoutValue,
       SendExecutePUT, Send, WriteToNobody, WaitForkServerStart, ReadResponse, ReadEndOfFile,
       ClientLeaves

\* The server touches nothing of the client, and no fate of a PUT.
LEMMA ServerKeeps == ServerNext => UNCHANGED <<clientVars, status, killer>>
BY DEF ServerNext, StartForkServer, StartFails, ExitAfterFork, WaitClientAttach,
    TellClientServerHasStarted, Reply, WaitForAPICall,
       RecvU64, RecvEndOfFile, ExecutePUT, ForkFails, SetTimer, SetHandler, WaitEnded,
       WaitStopped, SendResponse, putVars

\* Timer and signals leave the client, the pipes' owners and the settings alone, as
\* long as no fork has failed.
LEMMA AlarmKeeps ==
  ASSUME InService, Expire \/ SignalNext
  PROVE  UNCHANGED <<clientVars, toServer, toClient, serverVars, image>>
BY DEF InService, Expire, SignalNext, PUTTimeoutHandler, AlarmWithoutHandler, putVars

\* A PUT changes nothing but itself, or the group it kills.
LEMMA PutKeeps ==
  PutNext => /\ UNCHANGED <<asked, left, sent, requested, replies, toServer, toClient>>
             /\ UNCHANGED <<serverVars, image, killer>>
BY DEF PutNext, PutSetup, PutSetupFails, PutExits, PutCrashes, PutStops, PutContinues,
       PutAlarm, KillClient, PutStep, PutEnds, KillClient, clientVars

\* A server that runs as a plain program just ends.
LEMMA StandaloneKeeps ==
  StandaloneEnds => UNCHANGED <<clientVars, toServer, toClient, serverVars, putVars>>
BY DEF StandaloneEnds

-------------------------------------------------------------------------------
(* Types. *)

\* The initial state has its types.
LEMMA TypeInit == Init => TypeOK
<1> SUFFICES ASSUME Init PROVE TypeOK
  OBVIOUS
<1>0. DefaultSettings \in Settings
  BY SettingsFacts
<1> USE <1>0, BoundsAssumption DEF Init
<1>1. ClientTypeOK
  BY DEF ClientTypeOK, ClientWriting
<1>2. PipeTypeOK
  BY DEF PipeTypeOK
<1>3. ServerTypeOK
  <2>1. server \in ServerStates /\ settings \in Settings /\ wstatus \in Statuses \union {NoStatus}
    BY DEF ServerStates
  <2>2. /\ put_pid \in -1 .. MaxRuns /\ itimer \in 0 .. MaxRuns /\ sigalrm \in 0 .. MaxRuns
    OBVIOUS
  <2>3. handler \in BOOLEAN
    BY Zenon
  <2> QED
    BY <2>1, <2>2, <2>3, Zenon DEF ServerTypeOK
<1>4. PutTypeOK
  BY DEF PutTypeOK, PutStates, Images
<1> QED
  BY <1>1, <1>2, <1>3, <1>4 DEF TypeOK

\* Each step keeps the types of the client's variables.
LEMMA ClientTypeStep == InService /\ [Next]_vars => ClientTypeOK'
<1> SUFFICES ASSUME InService, [Next]_vars PROVE ClientTypeOK'
  OBVIOUS
<1>1. client = "AwaitResponse" /\ toClient # <<>> => Head(toClient) \in Responses
  <2> SUFFICES ASSUME client = "AwaitResponse", toClient # <<>>
               PROVE  Head(toClient) \in Responses
    OBVIOUS
  <2>1. server = "WaitForAPICall" /\ put_pid = sent /\ toClient = <<ResponseOf(status[sent])>>
    BY DEF InService, ClientInv
  <2>2. sent \in Runs
    BY <2>1 DEF InService, ClientInv, TypeOK, ClientTypeOK, Runs
  <2>3. put[sent] = "reaped" /\ status[sent] \in Statuses
    BY <2>1, <2>2, LastPut DEF InService, ServerEnded, ServerInRun, TypeOK, ClientTypeOK
  <2> QED
    BY <2>1, <2>3, StatusFacts
<1>2. ClientTypeOK /\ PipeTypeOK
  BY DEF InService, TypeOK
<1>3. CASE UNCHANGED clientVars
  BY <1>2, <1>3 DEF ClientTypeOK, clientVars
<1> USE <1>2 DEF ClientTypeOK, ClientWriting, ClientReading, ClientEnded
<1>4. ASSUME NEW id \in ExecutorIds, AttachToServer(id) PROVE ClientTypeOK'
  BY <1>4, SettingsFacts DEF AttachToServer
<1>5. ASSUME NEW c \in ConfigCommands, SendConfigCommand(c) PROVE ClientTypeOK'
  <2>1. asked' \in Settings
    BY <1>5 DEF SendConfigCommand, Settings
  <2> QED
    BY <1>5, <2>1, BoundsAssumption DEF SendConfigCommand
<1>6. CASE SendTimeoutCommand
  BY <1>6, BoundsAssumption DEF SendTimeoutCommand
<1>7. ASSUME NEW us \in Timeouts, SendTimeoutValue(us) PROVE ClientTypeOK'
  BY <1>7, SettingsFacts DEF SendTimeoutValue
<1>8. CASE SendExecutePUT
  <2>1. requested' \in [Runs -> Settings]
    BY <1>8 DEF SendExecutePUT
  <2> QED
    BY <1>8, <2>1, BoundsAssumption DEF SendExecutePUT
<1>9. CASE ReadResponse
  <2>1. replies' \in Seq(Responses)
    BY <1>9, <1>1 DEF ReadResponse
  <2> QED
    BY <1>9, <2>1 DEF ReadResponse
<1>10. CASE WriteToNobody \/ WaitForkServerStart \/ ReadEndOfFile \/ ClientLeaves
  BY <1>10 DEF WriteToNobody, WaitForkServerStart, ReadEndOfFile, ClientLeaves
<1>11. ASSUME PutNext, client' # client PROVE ClientTypeOK'
  <2>1. client' = "Killed"
    BY <1>11 DEF PutNext, PutSetup, PutSetupFails, PutExits, PutCrashes, PutStops,
                 PutContinues, PutAlarm, KillClient, PutStep, PutEnds, clientVars
  <2> QED
    BY <1>11, <2>1, PutKeeps
<1>12. ASSUME PutNext, client' = client PROVE ClientTypeOK'
  BY <1>12, PutKeeps
<1> QED
  BY <1>3, <1>4, <1>5, <1>6, <1>7, <1>8, <1>9, <1>10, <1>11, <1>12, ServerKeeps, AlarmKeeps,
     StandaloneKeeps
  DEF Next, ClientNext, vars

\* Each step keeps the types of the pipes.
LEMMA PipeTypeStep == InService /\ [Next]_vars => PipeTypeOK'
<1> SUFFICES ASSUME InService, [Next]_vars PROVE PipeTypeOK'
  OBVIOUS
<1>1. PipeTypeOK
  BY DEF InService, TypeOK
<1>2. server = "SendResponse" => ResponseOf(wstatus) \in Responses
  BY LastPut, StatusFacts DEF InService, RunInv, ServerInRun
<1> USE <1>1 DEF PipeTypeOK
<1>3. CASE UNCHANGED <<toServer, toClient>>
  BY <1>3
<1>4. ASSUME NEW item \in Items, Send(item) PROVE PipeTypeOK'
  BY <1>4 DEF Send
<1>5. ASSUME toServer # <<>>, toServer' = Tail(toServer), toClient' = toClient
      PROVE  PipeTypeOK'
  BY <1>5
<1>6. ASSUME toClient # <<>>, toClient' = Tail(toClient), toServer' = toServer
      PROVE  PipeTypeOK'
  BY <1>6
<1>7. ASSUME NEW m \in Responses \union {ServerPid}, toClient' = Append(toClient, m),
             toServer' = toServer
      PROVE  PipeTypeOK'
  BY <1>7
<1>8. CASE ClientNext
  <2>1. CASE \E item \in Items : Send(item)
    BY <1>4, <2>1
  <2>2. CASE WaitForkServerStart \/ ReadResponse
    BY <1>6, <2>2 DEF WaitForkServerStart, ReadResponse
  <2>3. CASE WriteToNobody \/ ReadEndOfFile \/ ClientLeaves
    BY <1>3, <2>3 DEF WriteToNobody, ReadEndOfFile, ClientLeaves
  <2>4. CASE SendTimeoutCommand \/ SendExecutePUT
    BY <2>1, <2>4, ItemFacts
    DEF SendTimeoutCommand, SendExecutePUT, SetPUTExecutionTimeoutCommand, ExecutePUTCommand
  <2>5. CASE \E c \in ConfigCommands : SendConfigCommand(c)
    BY <2>1, <2>5, ItemFacts DEF SendConfigCommand
  <2>6. CASE \/ \E id \in ExecutorIds : AttachToServer(id)
             \/ \E us \in Timeouts : SendTimeoutValue(us)
    BY <2>1, <2>6, ItemFacts DEF AttachToServer, SendTimeoutValue
  <2> QED
    BY <1>8, <2>2, <2>3, <2>4, <2>5, <2>6 DEF ClientNext
<1>9. CASE WaitClientAttach \/ WaitForAPICall \/ RecvU64
  BY <1>3, <1>5, <1>9 DEF WaitClientAttach, WaitForAPICall, RecvU64
<1>10. CASE TellClientServerHasStarted \/ SendResponse
  BY <1>2, <1>3, <1>7, <1>10 DEF TellClientServerHasStarted, SendResponse, Reply, At
<1>11. CASE \/ StartForkServer \/ StartFails \/ ExitAfterFork \/ RecvEndOfFile
             \/ ExecutePUT \/ ForkFails \/ SetTimer \/ SetHandler
            \/ WaitEnded \/ WaitStopped
  BY <1>3, <1>11
  DEF StartForkServer, StartFails, RecvEndOfFile, ExecutePUT, ForkFails, ExitAfterFork,
      SetTimer, SetHandler, WaitEnded, WaitStopped
<1> QED
  BY <1>3, <1>8, <1>9, <1>10, <1>11, AlarmKeeps, PutKeeps, StandaloneKeeps
  DEF Next, ServerNext, vars

\* Each step keeps the types of the server's variables.
LEMMA ServerTypeStep == InService /\ [Next]_vars => ServerTypeOK'
<1> SUFFICES ASSUME InService, [Next]_vars PROVE ServerTypeOK'
  OBVIOUS
<1>1. toServer # <<>> =>
        /\ server = "WaitClientAttach" => Head(toServer).value \in ExecutorIds
        /\ server = "WaitForAPICall" => Head(toServer).value \in 0 .. 4
        /\ server = "RecvU64" => Head(toServer).value \in Timeouts
  BY HeadFacts, ItemFacts DEF InService
<1>2. /\ server \in ServerInRun => put_pid \in Runs
      /\ server = "ExecutePUT" => put_pid + 1 \in Runs
      /\ server = "WaitPUT" /\ put[put_pid] = "zombie" => status[put_pid] \in Statuses
  <2>1. /\ server \in ServerInRun => put_pid \in Runs
        /\ server = "ExecutePUT" => put_pid + 1 \in Runs
    BY LastPut DEF InService
  <2> QED
    BY <2>1 DEF InService, RunInv, ServerInRun, TypeOK, PutTypeOK
<1>3. ServerTypeOK
  BY DEF InService, TypeOK
<1>4. CASE UNCHANGED <<server, serverVars, itimer, sigalrm>>
  BY <1>3, <1>4 DEF ServerTypeOK, serverVars
<1> USE <1>3, BoundsAssumption DEF ServerTypeOK, ServerStates, ServerEnded, ServerInRun,
  serverVars
<1>5. ASSUME NEW how \in ServerEnded, ServerEnds(how), UNCHANGED serverVars PROVE ServerTypeOK'
  BY <1>5 DEF ServerEnds
<1>6. CASE WaitClientAttach
  BY <1>6, <1>1, SettingsFacts DEF WaitClientAttach, At
<1>7. CASE WaitForAPICall
  BY <1>7, <1>1, SettingsFacts DEF WaitForAPICall, At, AfterCommand
<1>8. CASE RecvU64
  BY <1>8, <1>1, SettingsFacts DEF RecvU64, At
<1>9. CASE TellClientServerHasStarted \/ SendResponse
  BY <1>5, <1>9 DEF TellClientServerHasStarted, SendResponse, Reply
<1>10. CASE \/ StartFails \/ RecvEndOfFile \/ ExitAfterFork \/ AlarmWithoutHandler
            \/ StandaloneEnds
  BY <1>5, <1>10
  DEF StartFails, RecvEndOfFile, ExitAfterFork, AlarmWithoutHandler, StandaloneEnds
<1>19. CASE StartForkServer
  BY <1>19 DEF StartForkServer
<1>20. CASE ForkFails
  <2>1. put_pid' = -1 /\ server' = "ForkFailed" /\
          UNCHANGED <<settings, wstatus, itimer, sigalrm>>
    BY <1>20 DEF ForkFails
  <2>2. handler' \in BOOLEAN
    BY <1>20 DEF ForkFails
  <2> QED
    BY <2>1, <2>2
<1>11. CASE ExecutePUT
  BY <1>11, <1>2 DEF ExecutePUT, At, Runs
<1>12. CASE SetTimer
  BY <1>12, <1>2 DEF SetTimer, Armed, Runs
<1>13. CASE SetHandler
  BY <1>13 DEF SetHandler
<1>14. CASE WaitEnded
  BY <1>14, <1>2 DEF WaitEnded, At
<1>15. CASE WaitStopped
  BY <1>4, <1>15 DEF WaitStopped
<1>16. CASE Expire
  BY <1>16 DEF Expire
<1>17. CASE PUTTimeoutHandler
  BY <1>17 DEF PUTTimeoutHandler
<1>18. CASE PutNext
  BY <1>4, <1>5, <1>18
  DEF PutNext, PutSetup, PutSetupFails, PutExits, PutCrashes, PutStops, PutContinues,
      PutAlarm, KillClient, PutStep, PutEnds
<1> QED
  BY <1>4, <1>6, <1>7, <1>8, <1>9, <1>10, <1>11, <1>12, <1>13, <1>14, <1>15, <1>16, <1>17,
     <1>18, <1>19, <1>20, ClientKeeps
  DEF Next, ServerNext, SignalNext, vars

\* Each step keeps the types of the PUTs.
LEMMA PutTypeStep == InService /\ [Next]_vars => PutTypeOK'
<1> SUFFICES ASSUME InService, [Next]_vars PROVE PutTypeOK'
  OBVIOUS
<1>1. PutTypeOK /\ settings \in Settings /\ handler \in BOOLEAN /\ sigalrm \in 0 .. MaxRuns
  BY DEF InService, TypeOK, ServerTypeOK
<1>2. CASE UNCHANGED putVars
  BY <1>1, <1>2 DEF PutTypeOK, putVars
<1> USE <1>1, StatusFacts DEF PutTypeOK, PutStates, PutLive
<1>3. CASE ExecutePUT
  <2>1. Inherited \in Images
    BY DEF Inherited, Images
  <2> QED
    BY <1>3, <2>1 DEF ExecutePUT
<1>4. CASE WaitEnded \/ WaitStopped
  BY <1>4 DEF WaitEnded, WaitStopped
<1>5. CASE PUTTimeoutHandler
  BY <1>5 DEF PUTTimeoutHandler, Kill, KillPuts
<1>6. ASSUME NEW p \in Runs, NEW from, NEW to \in PutStates, PutStep(p, from, to)
      PROVE  PutTypeOK'
  BY <1>6 DEF PutStep
<1>7. ASSUME NEW p \in Runs, NEW from, NEW s \in Statuses, PutEnds(p, from, s)
      PROVE  PutTypeOK'
  BY <1>7 DEF PutEnds
<1>8. ASSUME NEW p \in Runs, PutSetup(p) \/ PutStops(p) \/ PutContinues(p)
      PROVE  PutTypeOK'
  BY <1>6, <1>8 DEF PutSetup, PutStops, PutContinues
<1>9. ASSUME NEW p \in Runs,
             \/ PutSetupFails(p)
             \/ \E c \in ExitCodes : PutExits(p, c)
             \/ \E s \in CrashSignals : PutCrashes(p, s)
      PROVE  PutTypeOK'
  BY <1>7, <1>9 DEF PutSetupFails, PutExits, PutCrashes
<1>10. ASSUME NEW p \in Runs, PutAlarm(p) PROVE PutTypeOK'
  BY <1>7, <1>10 DEF PutAlarm, KillPuts
<1>11. CASE ServerNext /\ ~ExecutePUT /\ ~WaitEnded /\ ~WaitStopped
  BY <1>2, <1>11
  DEF ServerNext, StartForkServer, StartFails, ExitAfterFork, WaitClientAttach,
      TellClientServerHasStarted, Reply, WaitForAPICall,
      RecvU64, RecvEndOfFile, ForkFails, SetTimer, SetHandler, SendResponse
<1>12. CASE Expire \/ AlarmWithoutHandler
  BY <1>2, <1>12 DEF Expire, AlarmWithoutHandler
<1> QED
  BY <1>2, <1>3, <1>4, <1>5, <1>8, <1>9, <1>10, <1>11, <1>12, ClientKeeps, StandaloneKeeps
  DEF Next, SignalNext, PutNext, vars

\* Each step keeps all types.
LEMMA TypeStep == InService /\ [Next]_vars => TypeOK'
BY ClientTypeStep, PipeTypeStep, ServerTypeStep, PutTypeStep DEF TypeOK

-------------------------------------------------------------------------------
(* The timer and the handler. *)

\* Each step keeps the books of the timer: SetTimer is where it changes its run.
LEMMA TimerStep == InService /\ [Next]_vars /\ put_pid' # -1 => TimerInv'
<1> SUFFICES ASSUME InService, [Next]_vars, put_pid' # -1 PROVE TimerInv'
  OBVIOUS
<1>1. TimerInv /\ ServerTypeOK /\ MaxRuns \in Nat /\ put_pid # -1
  BY BoundsAssumption DEF InService, TypeOK
<1>2. /\ killer \in [Runs -> 0 .. MaxRuns] /\ image \in [Runs -> Images]
      /\ server \in ServerInRun => put_pid \in Runs
  BY LastPut DEF InService, TypeOK, PutTypeOK
<1>3. CASE UNCHANGED <<server, put_pid, itimer, sigalrm, killer, image>>
  BY <1>1, <1>3 DEF TimerInv
<1> USE <1>1, <1>2 DEF TimerInv, ServerTypeOK, ServerEnded
<1>4. ASSUME server' = server \/ server \notin {"SetTimer", "SetHandler"} \/ sigalrm = 0,
             server # "SetTimer",
             server' \notin ServerEnded,
             UNCHANGED <<put_pid, itimer, sigalrm, killer, image>>
      PROVE  TimerInv'
  BY <1>4
<1>5. ASSUME NEW how, ServerEnds(how), UNCHANGED <<put_pid, killer, image>> PROVE TimerInv'
  BY <1>5 DEF ServerEnds
<1>6. CASE ClientNext \/ StandaloneEnds
  BY <1>3, <1>5, <1>6, ClientKeeps DEF StandaloneEnds, serverVars, putVars
<1>7. CASE ExecutePUT
  <2>1. /\ server = "ExecutePUT" /\ server' = "SetTimer" /\ put_pid' = put_pid + 1
        /\ sigalrm = 0 /\ UNCHANGED <<itimer, sigalrm, killer>>
        /\ image' = [image EXCEPT ![put_pid + 1] = Inherited]
    BY <1>7 DEF ExecutePUT, At
  <2>2. itimer \in {0, put_pid} /\ put_pid + 1 \in Runs /\ put_pid \in 0 .. MaxRuns
    BY <2>1, LastPut DEF InService
  <2>3. itimer # 0 => image'[itimer] = image[itimer]
    BY <2>1, <2>2 DEF Runs
  <2> QED
    BY <2>1, <2>2, <2>3
<1>8. CASE SetTimer
  <2>1. settings.timeout_us # 0 => image[put_pid].settings.timeout_us # 0
    BY <1>8 DEF SetTimer, InService, SettingsInv
  <2> QED
    BY <1>8, <2>1 DEF SetTimer, Armed, serverVars, putVars
<1>9. CASE \/ StartForkServer \/ WaitClientAttach \/ TellClientServerHasStarted
           \/ WaitForAPICall \/ RecvU64 \/ SetHandler \/ WaitEnded \/ WaitStopped
           \/ SendResponse
  BY <1>4, <1>5, <1>9
  DEF StartForkServer, WaitClientAttach, TellClientServerHasStarted, WaitForAPICall, RecvU64,
      SetHandler, WaitEnded, WaitStopped, SendResponse, Reply, At, AfterCommand, serverVars,
      putVars
<1>10. CASE StartFails \/ RecvEndOfFile \/ ForkFails \/ ExitAfterFork \/ AlarmWithoutHandler
  BY <1>5, <1>10
  DEF StartFails, RecvEndOfFile, ForkFails, ExitAfterFork, AlarmWithoutHandler, serverVars,
      putVars
<1>11. CASE Expire
  BY <1>11 DEF Expire, serverVars, putVars
<1>12. CASE PUTTimeoutHandler
  BY <1>12 DEF PUTTimeoutHandler, Kill, serverVars, Runs
<1>13. CASE PutNext
  BY <1>3, <1>5, <1>13
  DEF PutNext, PutSetup, PutSetupFails, PutExits, PutCrashes, PutStops, PutContinues,
      PutAlarm, PutStep, PutEnds, serverVars
<1> QED
  BY <1>3, <1>6, <1>7, <1>8, <1>9, <1>10, <1>11, <1>12, <1>13
  DEF Next, ServerNext, SignalNext, vars, serverVars, putVars

\* Each step keeps the books of the handler: it is installed once, in the first run.
LEMMA HandlerStep == InService /\ [Next]_vars /\ put_pid' # -1 => HandlerInv'
<1> SUFFICES ASSUME InService, [Next]_vars, put_pid' # -1 PROVE HandlerInv'
  OBVIOUS
<1>1. /\ HandlerInv /\ ServerTypeOK /\ MaxRuns \in Nat /\ image \in [Runs -> Images]
      /\ put_pid # -1
  BY BoundsAssumption DEF InService, TypeOK, PutTypeOK
<1>2. /\ sigalrm # 0 => put_pid > 0
      /\ \A p \in Runs : put[p] = "running" => p <= put_pid
  BY <1>1 DEF InService, TimerInv, RunInv, ServerTypeOK, Runs
<1>3. CASE UNCHANGED <<server, put_pid, handler, image>>
  BY <1>1, <1>3 DEF HandlerInv
<1> USE <1>1, <1>2 DEF HandlerInv, ServerTypeOK, ServerEnded
<1>4. ASSUME server \notin {"SetTimer", "SetHandler"} \union ServerEnded,
             server' \notin {"KilledByAlarm", "KilledByGroup"},
             UNCHANGED <<put_pid, handler, image>>
      PROVE  HandlerInv'
  BY <1>4
<1>5. ASSUME ServerEnds("Exited") \/ ServerEnds("KilledByPipe"),
             UNCHANGED <<put_pid, handler, image>>
      PROVE  HandlerInv'
  BY <1>5 DEF ServerEnds
<1>6. CASE ClientNext \/ StandaloneEnds
  BY <1>3, <1>5, <1>6, ClientKeeps DEF StandaloneEnds, serverVars, putVars
<1>7. CASE ExecutePUT
  BY <1>7 DEF ExecutePUT, At, Inherited, Images, Runs
<1>8. CASE SetTimer
  BY <1>8 DEF SetTimer, serverVars, putVars
<1>9. CASE SetHandler
  <2>1. put_pid > 0
    BY <1>9, LastPut DEF SetHandler, At, InService, ServerInRun, Runs
  <2> QED
    BY <1>9, <2>1 DEF SetHandler, putVars
<1>10. CASE \/ StartForkServer \/ WaitClientAttach \/ TellClientServerHasStarted
            \/ WaitForAPICall \/ RecvU64 \/ WaitEnded \/ WaitStopped \/ SendResponse
  BY <1>4, <1>5, <1>10
  DEF StartForkServer, WaitClientAttach, TellClientServerHasStarted, WaitForAPICall, RecvU64,
      AfterCommand, WaitEnded, WaitStopped, SendResponse, Reply, At, serverVars, putVars
<1>11. CASE StartFails \/ RecvEndOfFile \/ ForkFails \/ ExitAfterFork
  BY <1>5, <1>11
  DEF StartFails, RecvEndOfFile, ForkFails, ExitAfterFork, serverVars, putVars
<1>12. CASE AlarmWithoutHandler
  BY <1>12 DEF AlarmWithoutHandler, ServerEnds, serverVars, putVars
<1>13. CASE Expire \/ PUTTimeoutHandler
  BY <1>3, <1>13, AlarmKeeps DEF Expire, PUTTimeoutHandler, SignalNext, serverVars
<1>14. ASSUME NEW p \in Runs, PutAlarm(p) PROVE HandlerInv'
  <2>1. CASE server' = server
    BY <1>3, <1>14, <2>1 DEF PutAlarm, PutEnds, serverVars
  <2>2. CASE server' # server
    <3>1. put[p] = "running" /\ image[p].handler /\ server' = "KilledByGroup"
      BY <1>14, <2>2 DEF PutAlarm, PutEnds, ServerEnds
    <3>2. p > 1 /\ p <= put_pid /\ UNCHANGED <<put_pid, handler, image>>
      BY <1>14, <3>1 DEF PutAlarm, PutEnds, serverVars
    <3>3. put_pid > 1
      BY <3>2 DEF Runs
    <3> QED
      BY <3>1, <3>2, <3>3
  <2> QED
    BY <2>1, <2>2
<1>15. ASSUME NEW p \in Runs,
              \/ PutSetup(p) \/ PutSetupFails(p) \/ PutStops(p) \/ PutContinues(p)
              \/ \E c \in ExitCodes : PutExits(p, c)
              \/ \E s \in CrashSignals : PutCrashes(p, s)
       PROVE  HandlerInv'
  BY <1>3, <1>15
  DEF PutSetup, PutSetupFails, PutExits, PutCrashes, PutStops, PutContinues, PutStep,
      PutEnds, serverVars
<1> QED
  BY <1>3, <1>6, <1>7, <1>8, <1>9, <1>10, <1>11, <1>12, <1>13, <1>14, <1>15
  DEF Next, ServerNext, SignalNext, PutNext, vars, serverVars, putVars

\* The client is killed, as long as no fork has failed, only by a PUT with the handler.
LEMMA KilledStep == InService /\ [Next]_vars /\ put_pid' # -1 => KilledInv'
<1> SUFFICES ASSUME InService, [Next]_vars, put_pid' # -1 PROVE KilledInv'
  OBVIOUS
<1>1. KilledInv /\ RunInv /\ HandlerInv /\ put_pid \in 0 .. MaxRuns /\ MaxRuns \in Nat
  BY BoundsAssumption DEF InService, TypeOK, ServerTypeOK
<1> USE <1>1 DEF KilledInv
<1>2. ASSUME UNCHANGED <<client, put_pid, image>>,
             server \in ServerEnded => server' \in ServerEnded
      PROVE  KilledInv'
  BY <1>2
<1>3. CASE ClientNext
  BY <1>2, <1>3, ClientKeeps
  DEF ClientNext, AttachToServer, SendConfigCommand, SendTimeoutCommand, SendTimeoutValue,
      SendExecutePUT, WriteToNobody, WaitForkServerStart, ReadResponse, ReadEndOfFile,
      ClientLeaves, serverVars, putVars
<1>4. CASE ServerNext
  <2>1. server \notin ServerEnded /\ client' = client
    BY <1>4, ServerKeeps
    DEF ServerNext, StartForkServer, StartFails, WaitClientAttach, TellClientServerHasStarted,
        Reply, WaitForAPICall, RecvU64, RecvEndOfFile, ExecutePUT, ForkFails, ExitAfterFork,
        SetTimer, SetHandler, WaitEnded, WaitStopped, SendResponse, At, ServerEnded, clientVars
  <2> QED
    BY <2>1
<1>5. CASE StandaloneEnds
  BY <1>2, <1>5 DEF StandaloneEnds, ServerEnds, ServerEnded, clientVars, serverVars, putVars
<1>6. CASE Expire \/ SignalNext
  <2>1. server' = server \/ server' \in ServerEnded
    BY <1>6 DEF Expire, SignalNext, PUTTimeoutHandler, AlarmWithoutHandler, ServerEnds,
        ServerEnded
  <2> QED
    BY <1>2, <1>6, <2>1, AlarmKeeps DEF clientVars, serverVars
<1>7. ASSUME NEW p \in Runs, PutAlarm(p), image[p].handler PROVE KilledInv'
  <2>1. /\ put[p] = "running" /\ UNCHANGED <<put_pid, image>>
        /\ \/ server' = server /\ server \in ServerEnded
           \/ server' = "KilledByGroup"
    BY <1>7 DEF PutAlarm, PutEnds, ServerEnds, serverVars
  <2>2. p = put_pid /\ p > 1
    BY <1>7, <2>1 DEF RunInv, HandlerInv, PutLive
  <2> QED
    BY <1>7, <2>1, <2>2 DEF ServerEnded
<1>8. ASSUME NEW p \in Runs,
             \/ PutSetup(p) \/ PutSetupFails(p) \/ PutStops(p) \/ PutContinues(p)
             \/ \E c \in ExitCodes : PutExits(p, c)
             \/ \E s \in CrashSignals : PutCrashes(p, s)
             \/ PutAlarm(p) /\ ~image[p].handler
      PROVE  KilledInv'
  BY <1>2, <1>8
  DEF PutSetup, PutSetupFails, PutExits, PutCrashes, PutStops, PutContinues, PutStep,
      PutEnds, PutAlarm, clientVars, serverVars
<1> QED
  BY <1>2, <1>3, <1>4, <1>5, <1>6, <1>7, <1>8
  DEF Next, PutNext, vars, clientVars, serverVars, putVars

-------------------------------------------------------------------------------
(* The runs. *)

\* What a step of a PUT, or a signal, does to each PUT.
LEMMA PutEffect ==
  ASSUME PutTypeOK, PutNext \/ SignalNext
  PROVE  \A q \in Runs :
           \/ put'[q] = put[q] /\ status'[q] = status[q]
           \/ put[q] \in PutLive /\ put'[q] = "zombie" /\ status'[q] \in Statuses
           \/ put[q] \in PutLive /\ put'[q] \in PutLive /\ status'[q] = status[q]
<1> USE StatusFacts DEF PutTypeOK
<1>1. CASE SignalNext
  BY <1>1 DEF SignalNext, PUTTimeoutHandler, AlarmWithoutHandler, Kill, KillPuts, putVars
<1>2. ASSUME NEW p \in Runs, NEW from \in SUBSET PutLive, NEW to \in PutLive,
             PutStep(p, from, to), NEW q \in Runs
      PROVE  \/ put'[q] = put[q] /\ status'[q] = status[q]
             \/ put[q] \in PutLive /\ put'[q] \in PutLive /\ status'[q] = status[q]
  BY <1>2 DEF PutStep
<1>3. ASSUME NEW p \in Runs, NEW from \in SUBSET PutLive, NEW s \in Statuses,
             PutEnds(p, from, s), NEW q \in Runs
      PROVE  \/ put'[q] = put[q] /\ status'[q] = status[q]
             \/ put[q] \in PutLive /\ put'[q] = "zombie" /\ status'[q] \in Statuses
  BY <1>3 DEF PutEnds
<1>4. ASSUME NEW p \in Runs, PutSetup(p) \/ PutStops(p) \/ PutContinues(p), NEW q \in Runs
      PROVE  \/ put'[q] = put[q] /\ status'[q] = status[q]
             \/ put[q] \in PutLive /\ put'[q] \in PutLive /\ status'[q] = status[q]
  BY <1>2, <1>4 DEF PutSetup, PutStops, PutContinues, PutLive
<1>5. ASSUME NEW p \in Runs,
             \/ PutSetupFails(p)
             \/ \E c \in ExitCodes : PutExits(p, c)
             \/ \E s \in CrashSignals : PutCrashes(p, s),
             NEW q \in Runs
      PROVE  \/ put'[q] = put[q] /\ status'[q] = status[q]
             \/ put[q] \in PutLive /\ put'[q] = "zombie" /\ status'[q] \in Statuses
  BY <1>3, <1>5 DEF PutSetupFails, PutExits, PutCrashes, PutLive
<1>6. ASSUME NEW p \in Runs, PutAlarm(p), NEW q \in Runs
      PROVE  \/ put'[q] = put[q] /\ status'[q] = status[q]
             \/ put[q] \in PutLive /\ put'[q] = "zombie" /\ status'[q] \in Statuses
  <2>1. CASE PutEnds(p, {"running"}, Signaled(SIGALRM))
    BY <1>3, <2>1 DEF PutLive
  <2>2. CASE ~PutEnds(p, {"running"}, Signaled(SIGALRM))
    BY <1>6, <2>2 DEF PutAlarm, KillPuts
  <2> QED
    BY <2>1, <2>2
<1> QED
  BY <1>1, <1>4, <1>5, <1>6 DEF PutNext

\* Each step keeps what the server's place says of the PUTs.
LEMMA RunStep == InService /\ [Next]_vars /\ put_pid' # -1 => RunInv'
<1> SUFFICES ASSUME InService, [Next]_vars, put_pid' # -1 PROVE RunInv'
  OBVIOUS
<1>1. RunInv /\ PutTypeOK /\ ServerTypeOK /\ sent \in 0 .. MaxRuns /\ MaxRuns \in Nat
      /\ toServer \in Seq(Items)
  BY BoundsAssumption DEF InService, TypeOK, ClientTypeOK, PipeTypeOK
<1>2. /\ \A p \in Runs : put[p] = "reaped" => status[p] \in Statuses
      /\ server \in ServerInRun => put_pid \in Runs
      /\ server = "ExecutePUT" => put_pid + 1 \in Runs
  BY LastPut DEF InService
<1>3. ASSUME UNCHANGED <<sent, put, status, put_pid, wstatus, toServer>>,
             \/ server' = server
             \/ /\ server' \notin {"ExecutePUT", "ForkFailed"} \union ServerInRun
                /\ server \notin ServerInRun
             \/ server = "SendResponse" /\ server' = "WaitForAPICall"
             \/ server = "SetTimer" /\ server' = "SetHandler"
             \/ server = "SetHandler" /\ server' = "WaitPUT"
             \/ server' \in ServerEnded,
             server \in ServerEnded => server' \in ServerEnded
      PROVE  RunInv'
  BY <1>1, <1>3 DEF RunInv, ServerInRun, ServerEnded
<1>4. CASE ClientNext
  <2>1. CASE UNCHANGED <<sent, toServer>>
    BY <1>3, <1>4, <2>1, ClientKeeps DEF serverVars, putVars
  <2>2. CASE client \in ClientWriting /\ sent' = sent
    <3>1. server \in {"Start", "WaitClientAttach", "WaitForAPICall", "RecvU64", "Exited"}
      BY <2>2 DEF ClientWriting, InService, ClientInv
    <3> QED
      BY <1>1, <1>4, <2>2, <3>1, ClientKeeps DEF RunInv, ServerInRun, serverVars, putVars
  <2>3. CASE SendExecutePUT
    <3>1. server \in {"WaitForAPICall", "RecvU64"} /\ sent = put_pid
      BY <2>3 DEF SendExecutePUT, InService, ClientInv
    <3>2. sent' = sent + 1
      BY <2>3 DEF SendExecutePUT
    <3> QED
      BY <1>1, <1>4, <3>1, <3>2, ClientKeeps
      DEF RunInv, ServerInRun, ServerEnded, serverVars, putVars, ServerTypeOK
  <2> QED
    BY <1>4, <2>1, <2>2, <2>3
    DEF ClientNext, AttachToServer, SendConfigCommand, SendTimeoutCommand, SendTimeoutValue,
        WriteToNobody, WaitForkServerStart, ReadResponse, ReadEndOfFile, ClientLeaves,
        ClientWriting
<1>5. CASE WaitClientAttach
  BY <1>1, <1>5
  DEF WaitClientAttach, At, RunInv, ServerInRun, ServerEnded, clientVars, putVars
<1>6. CASE RecvU64
  BY <1>1, <1>6 DEF RecvU64, At, RunInv, ServerInRun, ServerEnded, clientVars, putVars
<1>7. CASE WaitForAPICall
  <2>1. CASE server' = "ExecutePUT"
    <3>1. Head(toServer) = Command(ExecutePUTCommand) /\ toServer # <<>>
          /\ server = "WaitForAPICall"
      BY <1>7, <2>1, HeadFacts, ItemFacts
      DEF WaitForAPICall, At, AfterCommand, InService, ExecutePUTCommand
    <3>2. Len(toServer) = 1 /\ put_pid + 1 = sent
      <4>1. 1 \in 1 .. Len(toServer) /\ toServer[1] = Command(ExecutePUTCommand)
        BY <1>1, <3>1
      <4>2. server \notin ServerEnded \union {"Standalone"} /\ FrameInv
        BY <3>1 DEF InService, ServerEnded
      <4> QED
        BY <4>1, <4>2 DEF FrameInv
    <3>3. toServer' = <<>>
      BY <1>1, <1>7, <3>1, <3>2 DEF WaitForAPICall
    <3> QED
      BY <1>1, <1>7, <2>1, <3>1, <3>2, <3>3
      DEF WaitForAPICall, RunInv, ServerInRun, ServerEnded, clientVars, putVars
  <2>2. CASE server' # "ExecutePUT"
    BY <1>1, <1>7, <2>2
    DEF WaitForAPICall, At, AfterCommand, RunInv, ServerInRun, ServerEnded, clientVars, putVars
  <2> QED
    BY <2>1, <2>2
<1>8. CASE \/ TellClientServerHasStarted \/ SetTimer \/ SetHandler \/ SendResponse
           \/ StartForkServer \/ StartFails \/ RecvEndOfFile \/ ForkFails \/ ExitAfterFork
           \/ AlarmWithoutHandler \/ StandaloneEnds
  BY <1>3, <1>8
  DEF StartForkServer, StartFails, ExitAfterFork, TellClientServerHasStarted, SetTimer,
      SetHandler, SendResponse, Reply, RecvEndOfFile,
      ForkFails, AlarmWithoutHandler, StandaloneEnds, ServerEnds, At, ServerInRun, ServerEnded,
      clientVars, serverVars, putVars
<1>9. CASE ExecutePUT
  <2>1. /\ server = "ExecutePUT" /\ server' = "SetTimer" /\ put_pid' = put_pid + 1
        /\ put' = [put EXCEPT ![put_pid + 1] = "setup"]
        /\ UNCHANGED <<sent, toServer, status>>
    BY <1>9 DEF ExecutePUT, At, clientVars
  <2>2. put_pid + 1 = sent /\ toServer = <<>> /\ put_pid + 1 \in Runs
    BY <1>1, <1>2, <2>1 DEF RunInv
  <2>3. \A p \in Runs : p # put_pid + 1 => put'[p] = put[p]
    BY <1>1, <2>1 DEF PutTypeOK
  <2>4. put'[put_pid + 1] = "setup" /\ put[put_pid + 1] = "absent"
    BY <1>1, <2>1, <2>2 DEF PutTypeOK, ServerTypeOK, RunInv
  <2>5. \A p \in Runs : put[p] \notin PutLive \union {"zombie"}
    BY <1>1, <2>1 DEF RunInv, ServerInRun, ServerEnded
  <2> QED
    BY <1>1, <2>1, <2>2, <2>3, <2>4, <2>5
    DEF RunInv, ServerInRun, ServerEnded, PutLive, ServerTypeOK, Runs
<1>10. CASE WaitEnded
  BY <1>1, <1>2, <1>10
  DEF WaitEnded, At, RunInv, ServerInRun, ServerEnded, PutLive, PutTypeOK, ServerTypeOK,
      clientVars
<1>11. CASE WaitStopped
  BY <1>1, <1>2, <1>11
  DEF WaitStopped, At, RunInv, ServerInRun, ServerEnded, PutLive, PutTypeOK, serverVars,
      clientVars
<1>12. CASE Expire
  BY <1>3, <1>12 DEF Expire, clientVars, serverVars, putVars
<1>13. ASSUME PutNext \/ PUTTimeoutHandler PROVE RunInv'
  <2>1. \A q \in Runs :
          \/ put'[q] = put[q] /\ status'[q] = status[q]
          \/ put[q] \in PutLive /\ put'[q] = "zombie" /\ status'[q] \in Statuses
          \/ put[q] \in PutLive /\ put'[q] \in PutLive /\ status'[q] = status[q]
    BY <1>1, <1>13, PutEffect DEF SignalNext
  <2>2. UNCHANGED <<sent, toServer, put_pid, wstatus>>
    BY <1>13, PutKeeps, AlarmKeeps DEF SignalNext, serverVars, clientVars
  <2>3. server' = server \/ server' \in ServerEnded
    BY <1>13
    DEF PUTTimeoutHandler, PutNext, PutSetup, PutSetupFails, PutExits, PutCrashes, PutStops,
        PutContinues, PutAlarm, KillClient, PutStep, PutEnds, ServerEnds, ServerEnded
  <2>4. /\ \A p \in Runs : put'[p] = "absent" <=> put[p] = "absent"
        /\ \A p \in Runs : put'[p] = "reaped" <=> put[p] = "reaped"
        /\ \A p \in Runs : put'[p] \in PutLive \union {"zombie"} =>
                             put[p] \in PutLive \union {"zombie"}
    BY <2>1 DEF PutLive
  <2>5. \A p \in Runs : put'[p] \in {"zombie", "reaped"} <=> status'[p] # NoStatus
    BY <1>1, <2>1, StatusFacts DEF RunInv, PutLive
  <2>6. server = "SendResponse" => status'[put_pid] = status[put_pid]
    BY <1>1, <1>2, <2>1 DEF RunInv, ServerInRun, ServerEnded
  <2> QED
    BY <1>1, <1>2, <2>2, <2>3, <2>4, <2>5, <2>6 DEF RunInv, ServerInRun, ServerEnded
<1> QED
  BY <1>3, <1>4, <1>5, <1>6, <1>7, <1>8, <1>9, <1>10, <1>11, <1>12, <1>13
  DEF Next, ServerNext, SignalNext, vars, clientVars, serverVars, putVars

-------------------------------------------------------------------------------
(* The pipe to the server. *)

\* Each step keeps the pipe in frame: writes append a legal successor, reads take the head.
LEMMA FrameStep == InService /\ [Next]_vars /\ put_pid' # -1 => FrameInv'
<1> SUFFICES ASSUME InService, [Next]_vars, put_pid' # -1 PROVE FrameInv'
  OBVIOUS
<1>1. FrameInv /\ toServer \in Seq(Items)
  BY DEF InService, TypeOK, PipeTypeOK
<1>2. CASE UNCHANGED <<toServer, put_pid, sent, server>>
  BY <1>1, <1>2 DEF FrameInv
<1>3. CASE server' \in ServerEnded \union {"Standalone"}
  BY <1>3 DEF FrameInv
<1>4. ASSUME toServer' = <<>> PROVE FrameInv'
  BY <1>4 DEF FrameInv
<1>5. ASSUME server' \in {"WaitForAPICall", "RecvU64"}, toServer # <<>>,
             toServer' = Tail(toServer), UNCHANGED <<put_pid, sent>>,
             server \notin ServerEnded \union {"Standalone"},
             server' = "RecvU64" <=> Head(toServer) = Command(SetPUTExecutionTimeoutCommand)
      PROVE  FrameInv'
  <2>1. /\ Len(toServer') = Len(toServer) - 1 /\ Len(toServer) \in Nat
        /\ \A i \in 1 .. Len(toServer') : toServer'[i] = toServer[i + 1]
        /\ Head(toServer) = toServer[1]
        /\ toServer' # <<>> => 1 \in 1 .. Len(toServer')
    BY <1>1, <1>5
  <2>2. \A i \in 1 .. Len(toServer) :
          /\ i > 1 => /\ toServer[i].type # "executor_id"
                      /\ toServer[i].type = "u64"
                           <=> toServer[i - 1] = Command(SetPUTExecutionTimeoutCommand)
          /\ toServer[i] = Command(ExecutePUTCommand) =>
               i = Len(toServer) /\ put_pid + 1 = sent
    BY <1>1, <1>5 DEF FrameInv
  <2>3. ASSUME NEW i \in 1 .. Len(toServer')
        PROVE  /\ toServer'[i].type # "executor_id"
               /\ toServer'[i].type = "u64"
                    <=> toServer[i] = Command(SetPUTExecutionTimeoutCommand)
               /\ i > 1 => toServer[i] = toServer'[i - 1]
               /\ toServer'[i] = Command(ExecutePUTCommand) =>
                    i = Len(toServer') /\ put_pid + 1 = sent
    <3>1. i + 1 \in 1 .. Len(toServer) /\ i + 1 > 1 /\ (i + 1) - 1 = i
      BY <2>1
    <3>2. i > 1 => i - 1 \in 1 .. Len(toServer') /\ (i - 1) + 1 = i
      BY <2>1
    <3> QED
      BY <2>1, <2>2, <3>1, <3>2
  <2>4. toServer' # <<>> =>
          /\ toServer'[1].type # "executor_id"
          /\ toServer'[1].type = "u64" <=> server' = "RecvU64"
    BY <1>5, <2>1, <2>3
  <2> QED
    BY <1>5, <2>1, <2>3, <2>4 DEF FrameInv
<1>6. ASSUME NEW item \in Items, Send(item), client \in ClientWriting,
             item.type = "executor_id" <=> client = "AttachToServer",
             item.type = "u64" <=> client = "SendTimeoutValue",
             item = Command(ExecutePUTCommand) => sent' = sent + 1,
             sent' # sent => item = Command(ExecutePUTCommand)
      PROVE  FrameInv'
  <2>1. /\ toServer' = Append(toServer, item) /\ Len(toServer') = Len(toServer) + 1
        /\ toServer'[Len(toServer')] = item /\ Len(toServer) \in Nat
        /\ \A i \in 1 .. Len(toServer) : toServer'[i] = toServer[i]
        /\ UNCHANGED <<server, put_pid>>
    BY <1>1, <1>6 DEF Send, serverVars
  <2>2. CASE client = "AttachToServer"
    <3>1. server \in {"Start", "WaitClientAttach", "Exited"} /\ toServer = <<>>
      BY <2>2 DEF InService, ClientInv
    <3>2. item # Command(ExecutePUTCommand)
      BY <1>6, <2>2, ItemFacts
    <3> QED
      BY <1>6, <2>1, <2>2, <3>1, <3>2 DEF FrameInv, ServerEnded
  <2>3. CASE client \in {"Ready", "SendTimeoutValue"}
    <3>1. /\ server \in {"WaitForAPICall", "RecvU64"} /\ put_pid = sent
          /\ client = "SendTimeoutValue" <=> LastIsTimeoutCommand
      BY <2>3 DEF InService, ClientInv
    <3>2. \A i \in 1 .. Len(toServer) : toServer[i] # Command(ExecutePUTCommand)
      BY <1>1, <3>1 DEF FrameInv, ServerEnded, InService, TypeOK, ServerTypeOK
    <3>3. toServer = <<>> => item.type # "executor_id" /\
                             (item.type = "u64" <=> server = "RecvU64")
      BY <1>6, <2>3, <3>1 DEF LastIsTimeoutCommand
    <3>4. toServer # <<>> =>
            /\ item.type # "executor_id"
            /\ item.type = "u64"
                 <=> toServer[Len(toServer)] = Command(SetPUTExecutionTimeoutCommand)
      BY <1>6, <2>3, <3>1 DEF LastIsTimeoutCommand
    <3>5. item = Command(ExecutePUTCommand) => put_pid' + 1 = sent'
      BY <1>6, <2>1, <3>1
    <3>6. ASSUME NEW i \in 1 .. Len(toServer')
          PROVE  /\ i > 1 => /\ toServer'[i].type # "executor_id"
                             /\ toServer'[i].type = "u64"
                                  <=> toServer'[i - 1] = Command(SetPUTExecutionTimeoutCommand)
                 /\ toServer'[i] = Command(ExecutePUTCommand) =>
                      i = Len(toServer') /\ put_pid' + 1 = sent'
      <4>1. CASE i = Len(toServer')
        BY <2>1, <3>4, <3>5, <4>1
      <4>2. CASE i # Len(toServer')
        <5>1. i \in 1 .. Len(toServer) /\ toServer'[i] = toServer[i]
              /\ (i > 1 => toServer'[i - 1] = toServer[i - 1])
          BY <2>1, <4>2
        <5> QED
          BY <1>1, <3>1, <3>2, <5>1 DEF FrameInv, ServerEnded
      <4> QED
        BY <4>1, <4>2
    <3>7. toServer' # <<>>
              /\ (toServer'[1].type = "executor_id" <=>
                      server' \in {"Start", "WaitClientAttach"})
              /\ (toServer'[1].type = "u64" <=> server' = "RecvU64")
      <4>1. CASE toServer = <<>>
        BY <2>1, <3>1, <3>3, <4>1
      <4>2. CASE toServer # <<>>
        BY <1>1, <2>1, <3>1, <4>2 DEF FrameInv, ServerEnded
      <4> QED
        BY <4>1, <4>2
    <3> QED
      BY <2>1, <3>1, <3>6, <3>7 DEF FrameInv
  <2> QED
    BY <1>6, <2>2, <2>3 DEF ClientWriting
<1>7. CASE ClientNext
  <2>1. ASSUME NEW id \in ExecutorIds, AttachToServer(id) PROVE FrameInv'
    BY <1>6, <2>1, ItemFacts DEF AttachToServer, ClientWriting
  <2>2. ASSUME NEW c \in ConfigCommands, SendConfigCommand(c) PROVE FrameInv'
    <3>1. Command(c) \in Items /\ Command(c) # Command(ExecutePUTCommand)
      BY ItemFacts, CommandAssumption
      DEF InvalidCommand, ReadStdinCommand, SaveStdoutStderrCommand, ExecutePUTCommand
    <3> QED
      BY <1>6, <2>2, <3>1, ItemFacts DEF SendConfigCommand, ClientWriting
  <2>3. CASE SendTimeoutCommand
    <3>1. /\ Command(SetPUTExecutionTimeoutCommand) \in Items
          /\ Command(SetPUTExecutionTimeoutCommand) # Command(ExecutePUTCommand)
      BY ItemFacts DEF SetPUTExecutionTimeoutCommand, ExecutePUTCommand
    <3> QED
      BY <1>6, <2>3, <3>1, ItemFacts DEF SendTimeoutCommand, ClientWriting
  <2>4. ASSUME NEW us \in Timeouts, SendTimeoutValue(us) PROVE FrameInv'
    BY <1>6, <2>4, ItemFacts DEF SendTimeoutValue, ClientWriting
  <2>5. CASE SendExecutePUT
    <3>1. Command(ExecutePUTCommand) \in Items
      BY ItemFacts DEF ExecutePUTCommand
    <3> QED
      BY <1>6, <2>5, <3>1, ItemFacts DEF SendExecutePUT, ClientWriting
  <2>6. CASE \/ WriteToNobody \/ WaitForkServerStart \/ ReadResponse \/ ReadEndOfFile
             \/ ClientLeaves
    BY <1>2, <2>6
    DEF WriteToNobody, WaitForkServerStart, ReadResponse, ReadEndOfFile, ClientLeaves, serverVars
  <2> QED
    BY <1>7, <2>1, <2>2, <2>3, <2>4, <2>5, <2>6 DEF ClientNext
<1>8. CASE WaitClientAttach
  <2>1. CASE server' = "Standalone"
    BY <1>3, <2>1
  <2>2. CASE server' # "Standalone"
    <3>1. /\ server = "WaitClientAttach" /\ server' = "TellClientServerHasStarted"
          /\ toServer # <<>> /\ toServer' = Tail(toServer)
          /\ UNCHANGED <<put_pid, sent>>
      BY <1>8, <2>2 DEF WaitClientAttach, At, clientVars
    <3>2. Len(toServer) <= 1
      BY <1>1, <3>1 DEF FrameInv, ServerEnded
    <3>3. toServer' = <<>>
      BY <1>1, <3>1, <3>2
    <3> QED
      BY <1>4, <3>3
  <2> QED
    BY <2>1, <2>2
<1>9. CASE WaitForAPICall
  <2>1. /\ server = "WaitForAPICall" /\ toServer # <<>> /\ toServer' = Tail(toServer)
        /\ UNCHANGED <<put_pid, sent>>
    BY <1>9 DEF WaitForAPICall, At, clientVars
  <2>2. PICK c \in 0 .. 4 : Head(toServer) = Command(c)
    BY <2>1, HeadFacts DEF InService
  <2>3. server' = AfterCommand(c)
    BY <1>9, <2>2, ItemFacts DEF WaitForAPICall
  <2>4. CASE c = ExecutePUTCommand
    <3>1. 1 \in 1 .. Len(toServer) /\ toServer[1] = Command(ExecutePUTCommand)
      BY <1>1, <2>1, <2>2, <2>4
    <3>2. Len(toServer) = 1
      BY <1>1, <2>1, <3>1 DEF FrameInv, ServerEnded
    <3> QED
      BY <1>1, <1>4, <2>1, <3>2
  <2>5. CASE c # ExecutePUTCommand
    <3>1. server' \in {"WaitForAPICall", "RecvU64"}
          /\ (server' = "RecvU64" <=> c = SetPUTExecutionTimeoutCommand)
      BY <2>3, <2>5 DEF AfterCommand, SetPUTExecutionTimeoutCommand, ExecutePUTCommand
    <3>2. c = SetPUTExecutionTimeoutCommand
            <=> Head(toServer) = Command(SetPUTExecutionTimeoutCommand)
      BY <2>2, ItemFacts
    <3> QED
      BY <1>5, <2>1, <3>1, <3>2 DEF ServerEnded
  <2> QED
    BY <2>4, <2>5
<1>10. CASE RecvU64
  <2>1. /\ server = "RecvU64" /\ toServer # <<>> /\ toServer' = Tail(toServer)
        /\ server' = "WaitForAPICall" /\ UNCHANGED <<put_pid, sent>>
    BY <1>10 DEF RecvU64, At, clientVars
  <2>2. Head(toServer) # Command(SetPUTExecutionTimeoutCommand)
    BY <2>1, HeadFacts, ItemFacts DEF InService
  <2> QED
    BY <1>5, <2>1, <2>2 DEF ServerEnded
<1>11. CASE \/ StartFails \/ RecvEndOfFile \/ ForkFails \/ ExitAfterFork
             \/ AlarmWithoutHandler \/ StandaloneEnds
  BY <1>3, <1>11
  DEF StartForkServer, StartFails, RecvEndOfFile, ForkFails, ExitAfterFork, AlarmWithoutHandler,
      StandaloneEnds, ServerEnds, ServerEnded
<1>16. CASE StartForkServer
  BY <1>1, <1>16 DEF StartForkServer, FrameInv, ServerEnded, clientVars, serverVars
<1>12. CASE ExecutePUT \/ SetTimer \/ SetHandler \/ WaitEnded \/ SendResponse
  <2>1. toServer = <<>>
    BY <1>12
    DEF ExecutePUT, SetTimer, SetHandler, WaitEnded, SendResponse, Reply, At, InService, RunInv,
        ServerInRun
  <2>2. toServer' = toServer
    BY <1>12 DEF ExecutePUT, SetTimer, SetHandler, WaitEnded, SendResponse, Reply
  <2> QED
    BY <1>4, <2>1, <2>2
<1>13. CASE WaitStopped \/ Expire \/ PUTTimeoutHandler
  BY <1>2, <1>13 DEF WaitStopped, Expire, PUTTimeoutHandler, serverVars, clientVars
<1>14. CASE TellClientServerHasStarted
  <2>1. CASE server' \in ServerEnded
    BY <1>3, <2>1
  <2>2. CASE server' \notin ServerEnded
    <3>1. /\ server = "TellClientServerHasStarted" /\ ClientAlive /\ toServer' = toServer
      BY <1>14, <2>2 DEF TellClientServerHasStarted, Reply, At, ServerEnds, ServerEnded
    <3>2. toServer = <<>>
      BY <3>1
      DEF InService, ClientInv, ClientAlive, TypeOK, ClientTypeOK, ClientWriting, ClientReading,
          ServerInRun, ServerEnded
    <3> QED
      BY <1>4, <3>1, <3>2
  <2> QED
    BY <2>1, <2>2
<1>15. CASE PutNext
  <2>1. UNCHANGED <<toServer, put_pid, sent>>
    BY <1>15, PutKeeps DEF serverVars
  <2>2. server' = server \/ server' \in ServerEnded
    BY <1>15
    DEF PutNext, PutSetup, PutSetupFails, PutExits, PutCrashes, PutStops,
        PutContinues, PutAlarm, KillClient, PutStep, PutEnds, ServerEnds, ServerEnded
  <2> QED
    BY <1>2, <1>3, <2>1, <2>2
<1> QED
  BY <1>2, <1>7, <1>8, <1>9, <1>10, <1>11, <1>12, <1>13, <1>14, <1>15, <1>16
  DEF Next, ServerNext, SignalNext, vars, clientVars, serverVars

-------------------------------------------------------------------------------
(* The client's view. *)

\* Nothing happens to a PUT that has been waited for.
LEMMA ReapedStays ==
  ASSUME InService, [Next]_vars, NEW p \in Runs, put[p] = "reaped"
  PROVE  put'[p] = "reaped" /\ status'[p] = status[p]
<1> USE DEF InService, TypeOK, PutTypeOK
<1>1. CASE UNCHANGED putVars
  BY <1>1 DEF putVars
<1>2. CASE PutNext \/ SignalNext
  BY <1>2, PutEffect DEF PutLive
<1>3. CASE ExecutePUT \/ WaitEnded \/ WaitStopped
  <2>1. put[put_pid + 1] = "absent" \/ ~ExecutePUT
    BY LastPut DEF ExecutePUT, At, RunInv, ServerTypeOK, Runs
  <2> QED
    BY <1>3, <2>1 DEF ExecutePUT, WaitEnded, WaitStopped
<1>4. CASE ServerNext /\ ~ExecutePUT /\ ~WaitEnded /\ ~WaitStopped
  BY <1>1, <1>4
  DEF ServerNext, StartForkServer, StartFails, ExitAfterFork, WaitClientAttach,
      TellClientServerHasStarted, Reply, WaitForAPICall,
      RecvU64, RecvEndOfFile, ForkFails, SetTimer, SetHandler, SendResponse
<1>5. CASE Expire
  BY <1>1, <1>5 DEF Expire
<1> QED
  BY <1>1, <1>2, <1>3, <1>4, <1>5, ClientKeeps, StandaloneKeeps DEF Next, vars

\* The client is told the outcome of the run it asked for last.
LEMMA AnswerFacts ==
  ASSUME InService, client = "AwaitResponse", toClient # <<>>
  PROVE  /\ toClient = <<ResponseOf(status[sent])>> /\ put_pid = sent /\ sent \in Runs
         /\ server = "WaitForAPICall" /\ toServer = <<>>
         /\ put[sent] = "reaped" /\ status[sent] \in Statuses /\ Len(replies) + 1 = sent
<1>1. /\ server = "WaitForAPICall" /\ put_pid = sent /\ toClient = <<ResponseOf(status[sent])>>
      /\ toServer = <<>> /\ Len(replies) + 1 = sent
  BY DEF InService, ClientInv
<1>2. sent \in Runs
  BY <1>1 DEF InService, TypeOK, ClientTypeOK, Runs
<1>3. put[sent] = "reaped" /\ status[sent] \in Statuses
  BY <1>1, <1>2, LastPut DEF InService, ServerEnded, ServerInRun, TypeOK, ClientTypeOK
<1> QED
  BY <1>1, <1>2, <1>3

\* Each step keeps what the client was told true.
LEMMA RepliesStep == InService /\ [Next]_vars /\ put_pid' # -1 => RepliesInv'
<1> SUFFICES ASSUME InService, [Next]_vars, put_pid' # -1 PROVE RepliesInv'
  OBVIOUS
<1>1. RepliesInv /\ replies \in Seq(Responses) /\ put_pid \in 0 .. MaxRuns /\ MaxRuns \in Nat
  BY BoundsAssumption DEF InService, TypeOK, ClientTypeOK, ServerTypeOK
<1>2. \A i \in 1 .. Len(replies) :
        i \in Runs /\ put'[i] = "reaped" /\ replies[i] = ResponseOf(status'[i])
  BY <1>1, ReapedStays DEF RepliesInv, Runs
<1>3. put_pid' \in Int /\ put_pid' >= put_pid
  BY <1>1, ClientKeeps, AlarmKeeps, PutKeeps, StandaloneKeeps
  DEF Next, ServerNext, StartForkServer, StartFails, ExitAfterFork, WaitClientAttach,
      TellClientServerHasStarted, Reply, WaitForAPICall,
      RecvU64, RecvEndOfFile, ExecutePUT, ForkFails, SetTimer, SetHandler, WaitEnded,
      WaitStopped, SendResponse, serverVars, vars
<1>4. CASE ReadResponse
  <2>1. replies' = Append(replies, Head(toClient)) /\ UNCHANGED <<put, status, put_pid>>
    BY <1>4 DEF ReadResponse, serverVars, putVars
  <2>2. /\ toClient = <<ResponseOf(status[sent])>> /\ put_pid = sent /\ put[sent] = "reaped"
        /\ Len(replies) + 1 = sent
    BY <1>4, AnswerFacts DEF ReadResponse
  <2>3. /\ Len(replies') = Len(replies) + 1 /\ replies'[Len(replies) + 1] = ResponseOf(status[sent])
        /\ \A i \in 1 .. Len(replies) : replies'[i] = replies[i]
    BY <1>1, <2>1, <2>2
  <2>4. \A i \in 1 .. Len(replies') : i \in 1 .. Len(replies) \/ i = sent
    BY <1>1, <2>2, <2>3
  <2> QED
    BY <1>1, <1>2, <2>1, <2>2, <2>3, <2>4 DEF RepliesInv
<1>5. CASE ~ReadResponse
  <2>1. replies' = replies
    BY <1>5, ServerKeeps, AlarmKeeps, PutKeeps, StandaloneKeeps
    DEF Next, ClientNext, AttachToServer, SendConfigCommand, SendTimeoutCommand,
        SendTimeoutValue, SendExecutePUT, WriteToNobody, WaitForkServerStart, ReadEndOfFile,
        ClientLeaves, clientVars, vars
  <2> QED
    BY <1>1, <1>2, <1>3, <2>1 DEF RepliesInv
<1> QED
  BY <1>4, <1>5

\* Each step keeps the client's place consistent with the server's.
LEMMA ClientStep == InService /\ [Next]_vars /\ put_pid' # -1 => ClientInv'
<1> SUFFICES ASSUME InService, [Next]_vars, put_pid' # -1 PROVE ClientInv'
  OBVIOUS
<1>1. /\ ClientInv /\ ClientTypeOK /\ ServerTypeOK /\ put_pid <= sent /\ MaxRuns \in Nat
      /\ toServer \in Seq(Items) /\ toClient \in Seq(Responses \union {ServerPid})
  BY BoundsAssumption DEF InService, TypeOK, PipeTypeOK, RunInv
<1>2. CASE UNCHANGED <<client, sent, replies, toServer, toClient, server, put_pid, put, status>>
  BY <1>1, <1>2 DEF ClientInv, LastIsTimeoutCommand
<1>3. CASE client' \in {"Exited", "Killed"}
  BY <1>3 DEF ClientInv
<1>4. CASE ClientNext
  <2>1. UNCHANGED <<server, put_pid, put, status>>
    BY <1>4, ClientKeeps DEF serverVars, putVars
  <2>2. ASSUME NEW id \in ExecutorIds, AttachToServer(id) PROVE ClientInv'
    <3>1. toServer = <<>> /\ toServer' = Append(toServer, Id(id)) /\ toClient' = toClient
      BY <1>1, <2>2 DEF AttachToServer, Send, ClientInv
    <3>2. Len(toServer') = 1
      BY <3>1
    <3>3. server \in {"Start", "WaitClientAttach"}
      BY <1>1, <2>2 DEF AttachToServer, Send, PipesHeld, ClientInv, ServerEnded, InService,
          RunInv,
                        PutLive, Runs
    <3> QED
      BY <1>1, <2>1, <2>2, <3>1, <3>2, <3>3 DEF AttachToServer, ClientInv
  <2>3. ASSUME NEW item \in Items, Send(item), client \in {"Ready", "SendTimeoutValue"},
               client' \in {"Ready", "SendTimeoutValue"},
               client' = "SendTimeoutValue"
                 <=> item = Command(SetPUTExecutionTimeoutCommand),
               UNCHANGED <<sent, replies>>
        PROVE  ClientInv'
    <3>1. /\ toServer' # <<>> /\ toServer'[Len(toServer')] = item /\ toClient' = toClient
      BY <1>1, <2>3 DEF Send
    <3> QED
      BY <1>1, <2>1, <2>3, <3>1 DEF ClientInv, LastIsTimeoutCommand
  <2>4. ASSUME NEW c \in ConfigCommands, SendConfigCommand(c) PROVE ClientInv'
    <3>1. Command(c) \in Items /\ Command(c) # Command(SetPUTExecutionTimeoutCommand)
      BY ItemFacts, CommandAssumption
      DEF InvalidCommand, ReadStdinCommand, SaveStdoutStderrCommand, SetPUTExecutionTimeoutCommand
    <3> QED
      BY <2>3, <2>4, <3>1 DEF SendConfigCommand
  <2>5. CASE SendTimeoutCommand
    <3>1. Command(SetPUTExecutionTimeoutCommand) \in Items
      BY ItemFacts DEF SetPUTExecutionTimeoutCommand
    <3> QED
      BY <2>3, <2>5, <3>1 DEF SendTimeoutCommand
  <2>6. ASSUME NEW us \in Timeouts, SendTimeoutValue(us) PROVE ClientInv'
    <3>1. U64(us) \in Items /\ U64(us) # Command(SetPUTExecutionTimeoutCommand)
      BY ItemFacts
    <3> QED
      BY <2>3, <2>6, <3>1 DEF SendTimeoutValue
  <2>7. CASE SendExecutePUT
    <3>1. /\ toServer' = Append(toServer, Command(ExecutePUTCommand)) /\ toClient' = toClient
          /\ Command(ExecutePUTCommand) \in Items
      BY <2>7, ItemFacts DEF SendExecutePUT, Send, ExecutePUTCommand
    <3>2. toServer' # <<>> /\ toServer'[Len(toServer')] = Command(ExecutePUTCommand)
      BY <1>1, <3>1
    <3> QED
      BY <1>1, <2>1, <2>7, <3>1, <3>2 DEF SendExecutePUT, ClientInv
  <2>8. CASE WaitForkServerStart
    BY <1>1, <2>1, <2>8
    DEF WaitForkServerStart, ClientInv, LastIsTimeoutCommand, ServerTypeOK, ClientTypeOK
  <2>9. CASE ReadResponse
    <3>1. /\ toClient = <<ResponseOf(status[sent])>> /\ put_pid = sent
          /\ server = "WaitForAPICall" /\ toServer = <<>> /\ Len(replies) + 1 = sent
      BY <2>9, AnswerFacts DEF ReadResponse
    <3>2. toClient' = <<>> /\ Len(replies') = sent
      BY <1>1, <2>9, <3>1 DEF ReadResponse, ClientTypeOK
    <3> QED
      BY <2>1, <2>9, <3>1, <3>2 DEF ReadResponse, ClientInv, LastIsTimeoutCommand
  <2>10. CASE ReadEndOfFile
    BY <1>1, <1>3, <2>1, <2>10
    DEF ReadEndOfFile, PipesHeld, ClientInv, ClientReading, ClientTypeOK, ServerEnded, ServerInRun
  <2>11. CASE ClientLeaves
    BY <1>3, <2>11 DEF ClientLeaves
  <2>12. CASE WriteToNobody
    <3>1. client = "AttachToServer" /\ server = "Exited" /\ sent = 0
      BY <1>1, <2>12 DEF WriteToNobody, PipesHeld, ClientInv, ClientWriting, ServerEnded
    <3> QED
      BY <2>1, <2>12, <3>1 DEF WriteToNobody, ClientInv
  <2> QED
    BY <1>4, <2>2, <2>4, <2>5, <2>6, <2>7, <2>8, <2>9, <2>10, <2>11, <2>12 DEF ClientNext
<1>5. ASSUME UNCHANGED <<client, sent, replies>>, client \in {"Exited", "Killed"} PROVE ClientInv'
  BY <1>3, <1>5
<1>6. CASE WaitClientAttach
  <2>1. /\ UNCHANGED <<client, sent, replies, toClient>> /\ server = "WaitClientAttach"
        /\ server' \in {"TellClientServerHasStarted", "Standalone"}
        /\ (toServer # <<>> /\ toServer' = Tail(toServer)) \/ ~ClientAlive
    BY <1>6 DEF WaitClientAttach, At, EndOfFile, clientVars
  <2>2. ClientAlive => client = "WaitForkServerStart"
    BY <1>1, <2>1 DEF ClientInv, ClientAlive, ClientTypeOK, ClientWriting, ClientReading,
                      ServerInRun, ServerEnded
  <2>3. ClientAlive => toServer' = <<>> /\ toClient = <<>>
    BY <1>1, <2>1, <2>2 DEF ClientInv, ServerEnded
  <2>4. client \notin {"Aborted", "KilledByPipe"}
    BY <1>1, <2>1 DEF ClientInv, ServerEnded
  <2> QED
    BY <1>1, <1>5, <2>1, <2>2, <2>3, <2>4 DEF ClientInv, ClientAlive, ClientEnded
<1>7. CASE TellClientServerHasStarted
  <2>1. /\ UNCHANGED <<client, sent, replies, toServer>>
        /\ server = "TellClientServerHasStarted"
        /\ \/ ClientAlive /\ toClient' = Append(toClient, ServerPid) /\ server' = "WaitForAPICall"
           \/ ~ClientAlive
    BY <1>7 DEF TellClientServerHasStarted, Reply, At, clientVars
  <2>2. client \notin {"Aborted", "KilledByPipe"}
    BY <1>1, <2>1 DEF ClientInv, ServerEnded
  <2>3. ClientAlive => client = "WaitForkServerStart" /\ toClient = <<>> /\ toServer = <<>>
    BY <1>1, <2>1 DEF ClientInv, ClientAlive, ClientTypeOK, ClientWriting, ClientReading,
                      ServerInRun, ServerEnded
  <2> QED
    <3>1. CASE ClientAlive
      <4>1. toClient' = <<ServerPid>>
        BY <1>1, <2>1, <2>3, <3>1
      <4> QED
        BY <1>1, <2>1, <2>3, <3>1, <4>1 DEF ClientInv
    <3>2. CASE ~ClientAlive
      BY <1>5, <2>1, <2>2, <3>2 DEF ClientAlive, ClientEnded
    <3> QED
      BY <3>1, <3>2
<1>8. ASSUME server \in {"WaitForAPICall", "RecvU64"}, toServer # <<>>,
             toServer' = Tail(toServer),
             UNCHANGED <<client, sent, replies, toClient, put_pid, put, status>>,
             server' = "RecvU64" <=> Head(toServer) = Command(SetPUTExecutionTimeoutCommand),
             server' = "ExecutePUT" <=> Head(toServer) = Command(ExecutePUTCommand),
             server' \in {"WaitForAPICall", "RecvU64", "ExecutePUT"}
      PROVE  ClientInv'
  <2>0. /\ Len(toServer) \in Nat \ {0} /\ Len(toServer') = Len(toServer) - 1
        /\ toServer' = <<>> <=> Len(toServer') = 0
        /\ \A i \in 1 .. Len(toServer') : toServer'[i] = toServer[i + 1]
    <3>1. /\ Len(toServer) \in Nat \ {0} /\ Len(toServer') = Len(toServer) - 1
          /\ toServer' \in Seq(Items)
          /\ \A i \in 1 .. Len(toServer') : toServer'[i] = toServer[i + 1]
      BY <1>1, <1>8
    <3>2. toServer' = <<>> <=> Len(toServer') = 0
      BY <3>1
    <3> QED
      BY <3>1, <3>2
  <2>1. /\ Head(toServer) = toServer[1] /\ 1 \in 1 .. Len(toServer)
        /\ toServer' = <<>> => toServer[Len(toServer)] = toServer[1]
        /\ toServer' # <<>> => toServer'[Len(toServer')] = toServer[Len(toServer)]
    <3>1. Head(toServer) = toServer[1] /\ 1 \in 1 .. Len(toServer)
      BY <1>1, <1>8, <2>0
    <3>2. toServer' = <<>> => Len(toServer) = 1
      BY <2>0
    <3>3. toServer' # <<>> => Len(toServer') \in 1 .. Len(toServer')
                              /\ Len(toServer') + 1 = Len(toServer)
      BY <2>0
    <3> QED
      BY <2>0, <3>1, <3>2, <3>3
  <2>2. server' = "ExecutePUT" => put_pid + 1 = sent /\ 1 = Len(toServer)
    BY <1>8, <2>1 DEF InService, FrameInv, ServerEnded
  <2>3. CASE client \in {"Ready", "SendTimeoutValue"}
    <3>1. put_pid = sent /\ toClient = <<>> /\ Len(replies) = sent
          /\ (client = "SendTimeoutValue" <=> LastIsTimeoutCommand)
      BY <1>1, <2>3 DEF ClientInv
    <3>2. server' # "ExecutePUT"
      BY <1>1, <2>2, <3>1 DEF ClientTypeOK
    <3>3. LastIsTimeoutCommand' <=> LastIsTimeoutCommand
      BY <1>8, <2>1 DEF LastIsTimeoutCommand
    <3> QED
      BY <1>8, <2>3, <3>1, <3>2, <3>3 DEF ClientInv
  <2>4. CASE client = "AwaitResponse"
    <3>1. /\ toClient = <<>> /\ toServer[Len(toServer)] = Command(ExecutePUTCommand)
          /\ Len(replies) + 1 = sent
      BY <1>1, <1>8, <2>4 DEF ClientInv, ServerInRun, ServerEnded
    <3>2. CASE toServer' = <<>>
      BY <1>8, <2>1, <2>4, <3>1, <3>2 DEF ClientInv
    <3>3. CASE toServer' # <<>>
      <4>1. server' # "ExecutePUT"
        BY <1>1, <1>8, <2>2, <3>3
      <4> QED
        BY <1>8, <2>1, <2>4, <3>1, <3>3, <4>1 DEF ClientInv
    <3> QED
      BY <3>2, <3>3
  <2>5. client \notin {"AttachToServer", "WaitForkServerStart", "Aborted", "KilledByPipe"}
    BY <1>1, <1>8 DEF ClientInv, ServerEnded
  <2> QED
    BY <1>1, <1>5, <1>8, <2>3, <2>4, <2>5
    DEF ClientTypeOK, ClientWriting, ClientReading, ClientEnded
<1>9. CASE WaitForAPICall
  <2>1. /\ server = "WaitForAPICall" /\ toServer # <<>> /\ toServer' = Tail(toServer)
        /\ UNCHANGED <<client, sent, replies, toClient, put_pid, put, status>>
    BY <1>9 DEF WaitForAPICall, At, clientVars, putVars
  <2>2. PICK c \in 0 .. 4 : Head(toServer) = Command(c)
    BY <2>1, HeadFacts DEF InService
  <2>3. server' = AfterCommand(c)
    BY <1>9, <2>2, ItemFacts DEF WaitForAPICall
  <2>4. /\ c = SetPUTExecutionTimeoutCommand
             <=> Head(toServer) = Command(SetPUTExecutionTimeoutCommand)
        /\ c = ExecutePUTCommand <=> Head(toServer) = Command(ExecutePUTCommand)
    BY <2>2, ItemFacts
  <2>5. /\ server' \in {"WaitForAPICall", "RecvU64", "ExecutePUT"}
        /\ server' = "RecvU64" <=> c = SetPUTExecutionTimeoutCommand
        /\ server' = "ExecutePUT" <=> c = ExecutePUTCommand
    BY <2>3 DEF AfterCommand, SetPUTExecutionTimeoutCommand, ExecutePUTCommand
  <2> QED
    BY <1>8, <2>1, <2>4, <2>5
<1>10. CASE RecvU64
  <2>1. /\ server = "RecvU64" /\ toServer # <<>> /\ toServer' = Tail(toServer)
        /\ server' = "WaitForAPICall"
        /\ UNCHANGED <<client, sent, replies, toClient, put_pid, put, status>>
    BY <1>10 DEF RecvU64, At, clientVars, putVars
  <2>2. /\ Head(toServer) # Command(SetPUTExecutionTimeoutCommand)
        /\ Head(toServer) # Command(ExecutePUTCommand)
    BY <2>1, HeadFacts, ItemFacts DEF InService
  <2> QED
    BY <1>8, <2>1, <2>2
<1>11. CASE RecvEndOfFile
  BY <1>1, <1>3, <1>11
  DEF RecvEndOfFile, EndOfFile, ClientAlive, ClientEnded, ClientInv, At, ServerEnded, clientVars
<1>12. ASSUME server \in {"ExecutePUT"} \union ServerInRun,
              UNCHANGED <<client, sent, replies, toServer, toClient>>,
              server' \in ServerInRun \/ (server' \in ServerEnded /\ put'[sent] # "reaped")
       PROVE  ClientInv'
  BY <1>1, <1>12 DEF ClientInv, ServerInRun, ServerEnded
<1>13. CASE ExecutePUT \/ SetTimer \/ SetHandler \/ WaitEnded
  BY <1>12, <1>13
  DEF ExecutePUT, SetTimer, SetHandler, WaitEnded, At, ServerInRun, clientVars
<1>14. CASE ForkFails \/ ExitAfterFork
  BY <1>14 DEF ForkFails, ExitAfterFork, At, InService, RunInv
<1>23. CASE StartForkServer \/ StartFails
  BY <1>1, <1>23
  DEF StartForkServer, StartFails, ServerEnds, ServerEnded, ServerInRun, ClientInv, clientVars,
      putVars, serverVars
<1>15. CASE WaitStopped
  BY <1>12, <1>15 DEF WaitStopped, At, ServerInRun, clientVars
<1>16. CASE SendResponse
  <2>1. /\ server = "SendResponse" /\
          UNCHANGED <<client, sent, replies, toServer, put_pid, status>>
        /\ \/ /\ ClientAlive /\ server' = "WaitForAPICall"
              /\ toClient' = Append(toClient, ResponseOf(wstatus))
           \/ ~ClientAlive
    BY <1>16 DEF SendResponse, Reply, At, clientVars, serverVars, putVars
  <2>2. /\ put_pid = sent /\ toServer = <<>> /\ wstatus = status[sent]
    BY <2>1 DEF InService, RunInv, ServerInRun
  <2>3. client \notin {"Aborted", "KilledByPipe"}
    BY <1>1, <2>1 DEF ClientInv, ServerEnded
  <2>4. ClientAlive => client = "AwaitResponse" /\ toClient = <<>> /\ Len(replies) + 1 = sent
    BY <1>1, <2>1 DEF ClientInv, ClientAlive, ClientTypeOK, ClientWriting, ClientReading,
                      ServerInRun, ServerEnded
  <2> QED
    <3>1. CASE ClientAlive
      <4>1. toClient' = <<ResponseOf(status'[sent])>>
        BY <1>1, <2>1, <2>2, <2>4, <3>1
      <4> QED
        BY <1>1, <2>1, <2>2, <2>4, <3>1, <4>1 DEF ClientInv
    <3>2. CASE ~ClientAlive
      BY <1>5, <2>1, <2>3, <3>2 DEF ClientAlive, ClientEnded
    <3> QED
      BY <3>1, <3>2
<1>17. CASE StandaloneEnds
  BY <1>1, <1>17
  DEF StandaloneEnds, ServerEnds, ServerEnded, ServerInRun, ClientInv, clientVars, putVars,
      serverVars
<1>18. CASE Expire
  BY <1>2, <1>18 DEF Expire, clientVars, serverVars, putVars
<1>19. CASE AlarmWithoutHandler
  <2>1. server \in {"SetTimer", "SetHandler"}
    BY <1>1, <1>19 DEF AlarmWithoutHandler, InService, HandlerInv, TimerInv, ServerTypeOK
  <2>2. put[sent] # "reaped"
    BY <2>1 DEF InService, RunInv, ServerInRun
  <2> QED
    BY <1>12, <1>19, <2>1, <2>2
    DEF AlarmWithoutHandler, ServerEnds, ServerInRun, ServerEnded, clientVars, putVars
<1>20. ASSUME PutNext \/ PUTTimeoutHandler, server' = server, client' = client PROVE ClientInv'
  <2>1. UNCHANGED <<sent, replies, toServer, toClient, put_pid>>
    BY <1>20, PutKeeps, AlarmKeeps DEF SignalNext, clientVars, serverVars
  <2>2. sent > 0 /\ put[sent] # "reaped" => put'[sent] # "reaped"
    <3>1. PutTypeOK
      BY DEF InService, TypeOK
    <3>2. sent > 0 => sent \in Runs
      BY <1>1 DEF ClientTypeOK, Runs
    <3> QED
      BY <1>20, <3>1, <3>2, PutEffect DEF SignalNext, PutLive
  <2>3. sent > 0 /\ put[sent] = "reaped" => status'[sent] = status[sent]
    BY <1>1, ReapedStays DEF ClientTypeOK, Runs
  <2>4. client = "AwaitResponse" /\ toClient # <<>> => sent > 0 /\ put[sent] = "reaped"
    BY AnswerFacts DEF Runs
  <2>5. client = "AwaitResponse" => sent > 0
    BY <1>1 DEF ClientInv, ClientTypeOK
  <2> QED
    BY <1>1, <1>20, <2>1, <2>2, <2>3, <2>4, <2>5 DEF ClientInv, LastIsTimeoutCommand
<1>21. CASE PutNext
  <2>1. CASE client' = client /\ server' = server
    BY <1>20, <1>21, <2>1
  <2>2. CASE client' # client \/ server' # server
    <3>1. \/ client' = "Killed"
          \/ client \in ClientEnded /\ client' = client /\ server \notin ServerEnded
      BY <1>21, <2>2
      DEF PutNext, PutSetup, PutSetupFails, PutExits, PutCrashes, PutStops,
          PutContinues, PutAlarm, KillClient, PutStep, PutEnds, ClientAlive, clientVars
    <3>2. client \in {"Aborted", "KilledByPipe"} => server \in ServerEnded
      BY <1>1 DEF ClientInv, ServerEnded
    <3> QED
      BY <1>3, <3>1, <3>2 DEF ClientEnded
  <2> QED
    BY <2>1, <2>2
<1>22. CASE PUTTimeoutHandler
  BY <1>20, <1>22, AlarmKeeps DEF PUTTimeoutHandler, SignalNext, clientVars
<1> QED
  BY <1>2, <1>4, <1>6, <1>7, <1>9, <1>10, <1>11, <1>13, <1>14, <1>15, <1>16, <1>17, <1>18,
     <1>19, <1>21, <1>22, <1>23
  DEF Next, ServerNext, SignalNext, vars, clientVars, serverVars, putVars

-------------------------------------------------------------------------------
(* The settings. *)

\* An item other than the head is still in the pipe when the head has been read.
LEMMA OccursInTail ==
  ASSUME NEW q \in Seq(Items), q # <<>>, NEW x
  PROVE  Occurs(q, x) <=> Head(q) = x \/ Occurs(Tail(q), x)
<1>1. /\ Len(Tail(q)) = Len(q) - 1 /\ Len(q) \in Nat \ {0} /\ Head(q) = q[1]
      /\ \A i \in 1 .. Len(Tail(q)) : Tail(q)[i] = q[i + 1]
  OBVIOUS
<1>2. ASSUME NEW i \in 1 .. Len(q), q[i] = x
      PROVE  Head(q) = x \/ \E j \in 1 .. Len(Tail(q)) : Tail(q)[j] = x
  <2>1. CASE i = 1
    BY <1>1, <1>2, <2>1
  <2>2. CASE i # 1
    <3>1. i - 1 \in 1 .. Len(Tail(q)) /\ (i - 1) + 1 = i
      BY <1>1, <2>2
    <3>2. Tail(q)[i - 1] = x
      BY <1>1, <1>2, <3>1
    <3> QED
      BY <3>1, <3>2
  <2> QED
    BY <2>1, <2>2
<1>3. ASSUME NEW j \in 1 .. Len(Tail(q)), Tail(q)[j] = x PROVE \E i \in 1 .. Len(q) : q[i] = x
  <2>1. j + 1 \in 1 .. Len(q) /\ q[j + 1] = x
    BY <1>1, <1>3
  <2> QED
    BY <2>1
<1>4. Head(q) = x => \E i \in 1 .. Len(q) : q[i] = x
  <2>1. 1 \in 1 .. Len(q)
    BY <1>1
  <2> QED
    BY <1>1, <2>1
<1> QED
  BY <1>2, <1>3, <1>4 DEF Occurs

\* After a write, what occurs in the pipe is what did, and the item written.
LEMMA OccursInAppend ==
  ASSUME NEW q \in Seq(Items), NEW y \in Items, NEW x
  PROVE  Occurs(Append(q, y), x) <=> y = x \/ Occurs(q, x)
<1>1. /\ Len(Append(q, y)) = Len(q) + 1 /\ Len(q) \in Nat /\ Append(q, y)[Len(q) + 1] = y
      /\ \A i \in 1 .. Len(q) : Append(q, y)[i] = q[i]
  OBVIOUS
<1>2. \A i \in 1 .. Len(q) + 1 : i \in 1 .. Len(q) \/ i = Len(q) + 1
  BY <1>1
<1>3. Len(q) + 1 \in 1 .. Len(q) + 1 /\ \A i \in 1 .. Len(q) : i \in 1 .. Len(q) + 1
  BY <1>1
<1> QED
  BY <1>1, <1>2, <1>3 DEF Occurs

\* A timeout that is written is the one the pipe leaves behind.
LEMMA TimeoutAppend ==
  ASSUME NEW q \in Seq(Items), NEW y \in Items, NEW old, NEW new, NEW next,
         TimeoutAddsUp(q, old, new),
         IF y.type = "u64" THEN y = U64(next) ELSE next = new
  PROVE  TimeoutAddsUp(Append(q, y), old, next)
<1>1. /\ Len(Append(q, y)) = Len(q) + 1 /\ Len(q) \in Nat /\ Append(q, y)[Len(q) + 1] = y
      /\ \A i \in 1 .. Len(q) : Append(q, y)[i] = q[i]
  OBVIOUS
<1>2. CASE y.type = "u64"
  <2>1. Len(q) + 1 \in 1 .. Len(Append(q, y)) /\ (Len(q) + 1) + 1 .. Len(Append(q, y)) = {}
    BY <1>1
  <2> QED
    BY <1>1, <1>2, <2>1 DEF TimeoutAddsUp
<1>3. CASE y.type # "u64"
  <2>1. CASE old = new /\ \A i \in 1 .. Len(q) : q[i].type # "u64"
    <3>1. \A i \in 1 .. Len(Append(q, y)) : Append(q, y)[i].type # "u64"
      BY <1>1, <1>3, <2>1
    <3> QED
      BY <1>3, <2>1, <3>1 DEF TimeoutAddsUp
  <2>2. ASSUME NEW i \in 1 .. Len(q), q[i] = U64(new),
    \A j \in i + 1 .. Len(q) : q[j].type # "u64"
        PROVE  TimeoutAddsUp(Append(q, y), old, next)
    <3>1. i \in 1 .. Len(Append(q, y)) /\ Append(q, y)[i] = U64(new)
      BY <1>1, <2>2
    <3>2. \A j \in i + 1 .. Len(Append(q, y)) : Append(q, y)[j].type # "u64"
      BY <1>1, <1>3, <2>2
    <3> QED
      BY <1>3, <3>1, <3>2 DEF TimeoutAddsUp
  <2> QED
    BY <2>1, <2>2 DEF TimeoutAddsUp
<1> QED
  BY <1>2, <1>3

\* Reading the head leaves the same timeout behind.
LEMMA TimeoutTail ==
  ASSUME NEW q \in Seq(Items), q # <<>>, NEW old, NEW new, NEW next,
         TimeoutAddsUp(q, old, new),
         IF Head(q).type = "u64" THEN Head(q) = U64(next) ELSE next = old
  PROVE  TimeoutAddsUp(Tail(q), next, new)
<1>1. /\ Len(Tail(q)) = Len(q) - 1 /\ Len(q) \in Nat \ {0} /\ Head(q) = q[1]
      /\ \A i \in 1 .. Len(Tail(q)) : Tail(q)[i] = q[i + 1]
  OBVIOUS
<1>2. CASE old = new /\ \A i \in 1 .. Len(q) : q[i].type # "u64"
  <2>1. \A i \in 1 .. Len(Tail(q)) : i + 1 \in 1 .. Len(q)
    BY <1>1
  <2>2. q[1].type # "u64"
    BY <1>1, <1>2
  <2> QED
    BY <1>1, <1>2, <2>1, <2>2 DEF TimeoutAddsUp
<1>3. ASSUME NEW i \in 1 .. Len(q), q[i] = U64(new), \A j \in i + 1 .. Len(q) : q[j].type # "u64"
      PROVE  TimeoutAddsUp(Tail(q), next, new)
  <2>1. \A j \in 1 .. Len(Tail(q)) : j + 1 \in 1 .. Len(q) /\ (j >= i => j + 1 \in i + 1 .. Len(q))
    BY <1>1
  <2>2. \A j \in 1 .. Len(Tail(q)) : j >= i => Tail(q)[j].type # "u64"
    BY <1>1, <1>3, <2>1
  <2>3. CASE i = 1
    <3>1. Head(q) = U64(new) /\ Head(q).type = "u64"
      BY <1>1, <1>3, <2>3, ItemFacts
    <3>2. next = new
      BY <3>1, ItemFacts
    <3> QED
      BY <1>1, <2>2, <2>3, <3>2 DEF TimeoutAddsUp
  <2>4. CASE i # 1
    <3>1. i - 1 \in 1 .. Len(Tail(q)) /\ (i - 1) + 1 = i
      BY <1>1, <2>4
    <3>2. Tail(q)[i - 1] = U64(new)
      BY <1>1, <1>3, <3>1
    <3>3. \A j \in (i - 1) + 1 .. Len(Tail(q)) : Tail(q)[j].type # "u64"
      BY <1>1, <2>2, <3>1
    <3> QED
      BY <3>1, <3>2, <3>3 DEF TimeoutAddsUp
  <2> QED
    BY <2>3, <2>4
<1> QED
  BY <1>2, <1>3 DEF TimeoutAddsUp

\* Each step keeps settings and pipe adding up to what was asked.
LEMMA SettingsStep == InService /\ [Next]_vars /\ put_pid' # -1 => SettingsInv'
<1> SUFFICES ASSUME InService, [Next]_vars, put_pid' # -1 PROVE SettingsInv'
  OBVIOUS
<1>1. /\ SettingsInv /\ settings \in Settings /\ asked \in Settings
      /\ toServer \in Seq(Items) /\ put_pid \in 0 .. MaxRuns /\ sent \in 0 .. MaxRuns
      /\ MaxRuns \in Nat /\ put_pid <= sent
      /\ image \in [Runs -> Images] /\ requested \in [Runs -> Settings]
  BY BoundsAssumption DEF InService, TypeOK, ClientTypeOK, PipeTypeOK, ServerTypeOK, PutTypeOK,
      RunInv
<1>2. CASE UNCHANGED <<image, requested, put_pid, sent, server, settings, asked, toServer>>
  BY <1>1, <1>2 DEF SettingsInv, AddsUp
<1>3. ASSUME server' \in ServerEnded \union {"Standalone"},
              UNCHANGED <<image, requested, put_pid>>
      PROVE  SettingsInv'
  BY <1>1, <1>3 DEF SettingsInv, ServerEnded
<1>4. ASSUME UNCHANGED <<image, requested, put_pid, sent, settings, asked, toServer>>,
             server \notin ServerEnded \union {"Standalone", "Start", "WaitClientAttach"},
             server' \notin {"Start", "WaitClientAttach", "SetTimer"}
      PROVE  SettingsInv'
  BY <1>1, <1>4 DEF SettingsInv, AddsUp
<1>5. CASE ClientNext
  <2>1. UNCHANGED <<server, settings, put_pid, image>>
    BY <1>5, ClientKeeps DEF serverVars, putVars
  <2>2. ASSUME NEW item \in Items, Send(item), UNCHANGED <<requested, sent>>,
               client \in {"Ready", "SendTimeoutValue"},
               asked'.executor_id = asked.executor_id,
               asked'.read_stdin <=> asked.read_stdin \/ item = Command(ReadStdinCommand),
               asked'.save_stdout_stderr
                 <=> asked.save_stdout_stderr \/ item = Command(SaveStdoutStderrCommand),
               IF item.type = "u64" THEN item = U64(asked'.timeout_us)
                                    ELSE asked'.timeout_us = asked.timeout_us
        PROVE  SettingsInv'
    <3>1. toServer' = Append(toServer, item)
      BY <2>2 DEF Send
    <3>2. server \in {"WaitForAPICall", "RecvU64"} /\ put_pid = sent
      BY <2>2 DEF InService, ClientInv
    <3>3. AddsUp
      BY <1>1, <3>2 DEF SettingsInv, ServerEnded
    <3>4. TimeoutAddsUp(toServer', settings'.timeout_us, asked'.timeout_us)
      BY <1>1, <2>1, <2>2, <3>1, <3>3, TimeoutAppend DEF AddsUp
    <3>5. \A x : Occurs(toServer', x) <=> item = x \/ Occurs(toServer, x)
      BY <1>1, <3>1, OccursInAppend
    <3> QED
      BY <1>1, <2>1, <2>2, <3>2, <3>3, <3>4, <3>5 DEF SettingsInv, AddsUp
  <2>3. ASSUME NEW id \in ExecutorIds, AttachToServer(id) PROVE SettingsInv'
    <3>1. /\ server \in {"Start", "WaitClientAttach", "Exited"} /\ toServer = <<>> /\ sent = 0
      BY <2>3 DEF AttachToServer, InService, ClientInv
    <3>2. /\ toServer' = Append(toServer, Id(id)) /\ asked' = [asked EXCEPT !.executor_id = id]
          /\ Id(id) \in Items /\ UNCHANGED <<sent, requested>>
      BY <2>3, ItemFacts DEF AttachToServer, Send
    <3>3. /\ asked'.executor_id = id /\ asked'.read_stdin = asked.read_stdin
          /\ asked'.save_stdout_stderr = asked.save_stdout_stderr
          /\ asked'.timeout_us = asked.timeout_us
      BY <1>1, <3>2 DEF Settings
    <3>4. AddsUp /\ server # "Exited"
      BY <1>1, <2>3, <3>1
      DEF SettingsInv, ServerEnded, AttachToServer, Send, PipesHeld, InService, RunInv, PutLive
    <3>5. /\ Id(id) # Command(ReadStdinCommand) /\ Id(id) # Command(SaveStdoutStderrCommand)
          /\ Id(id).type # "u64"
      BY ItemFacts
    <3>6. TimeoutAddsUp(toServer', settings'.timeout_us, asked'.timeout_us)
      BY <1>1, <2>1, <3>2, <3>3, <3>4, <3>5, TimeoutAppend DEF AddsUp
    <3>7. \A x : Occurs(toServer', x) <=> Id(id) = x \/ Occurs(toServer, x)
      BY <1>1, <3>2, OccursInAppend
    <3>8. Head(toServer') = Id(id)
      BY <3>1, <3>2
    <3> QED
      BY <1>1, <2>1, <3>1, <3>2, <3>3, <3>4, <3>5, <3>6, <3>7, <3>8 DEF SettingsInv, AddsUp
  <2>4. ASSUME NEW c \in ConfigCommands, SendConfigCommand(c) PROVE SettingsInv'
    <3>1. /\ Command(c) \in Items /\ Command(c).type # "u64"
          /\ \A d : Command(c) = Command(d) <=> c = d
      BY ItemFacts
    <3>2. /\ asked'.executor_id = asked.executor_id /\ asked'.timeout_us = asked.timeout_us
          /\ asked'.read_stdin <=> asked.read_stdin \/ c = ReadStdinCommand
          /\ asked'.save_stdout_stderr <=> asked.save_stdout_stderr \/ c = SaveStdoutStderrCommand
      BY <1>1, <2>4 DEF SendConfigCommand, Settings
    <3> QED
      BY <2>2, <2>4, <3>1, <3>2 DEF SendConfigCommand
  <2>5. CASE SendTimeoutCommand
    <3>1. LET x == Command(SetPUTExecutionTimeoutCommand) IN
            /\ x \in Items /\ x.type # "u64"
            /\ x # Command(ReadStdinCommand) /\ x # Command(SaveStdoutStderrCommand)
      BY ItemFacts
      DEF SetPUTExecutionTimeoutCommand, ReadStdinCommand, SaveStdoutStderrCommand
    <3> QED
      BY <2>2, <2>5, <3>1 DEF SendTimeoutCommand
  <2>6. ASSUME NEW us \in Timeouts, SendTimeoutValue(us) PROVE SettingsInv'
    <3>1. /\ U64(us) \in Items /\ U64(us).type = "u64"
          /\ \A d : U64(us) # Command(d)
      BY ItemFacts
    <3>2. /\ asked'.executor_id = asked.executor_id /\ asked'.timeout_us = us
          /\ asked'.read_stdin = asked.read_stdin
          /\ asked'.save_stdout_stderr = asked.save_stdout_stderr
      BY <1>1, <2>6 DEF SendTimeoutValue, Settings
    <3> QED
      BY <2>2, <2>6, <3>1, <3>2 DEF SendTimeoutValue
  <2>7. CASE SendExecutePUT
    <3> DEFINE item == Command(ExecutePUTCommand)
    <3>1. /\ item \in Items /\ item.type # "u64"
          /\ item # Command(ReadStdinCommand) /\ item # Command(SaveStdoutStderrCommand)
      BY ItemFacts DEF ExecutePUTCommand, ReadStdinCommand, SaveStdoutStderrCommand
    <3>2. /\ toServer' = Append(toServer, item) /\ sent' = sent + 1 /\ asked' = asked
          /\ requested' = [requested EXCEPT ![sent + 1] = asked] /\ sent + 1 \in Runs
      BY <1>1, <2>7 DEF SendExecutePUT, Send, Runs
    <3>3. server \in {"WaitForAPICall", "RecvU64"} /\ put_pid = sent
      BY <2>7 DEF SendExecutePUT, InService, ClientInv
    <3>4. AddsUp
      BY <1>1, <3>3 DEF SettingsInv, ServerEnded
    <3>5. TimeoutAddsUp(toServer', settings'.timeout_us, asked'.timeout_us)
      BY <1>1, <2>1, <3>1, <3>2, <3>4, TimeoutAppend DEF AddsUp
    <3>6. \A x : Occurs(toServer', x) <=> item = x \/ Occurs(toServer, x)
      BY <1>1, <3>1, <3>2, OccursInAppend
    <3>7. requested'[sent'] = asked' /\ \A p \in Runs : p <= put_pid => requested'[p] = requested[p]
      BY <1>1, <3>2, <3>3
    <3> HIDE DEF item
    <3> QED
      BY <1>1, <2>1, <3>1, <3>2, <3>3, <3>4, <3>5, <3>6, <3>7 DEF SettingsInv, AddsUp
  <2>8. CASE \/ WriteToNobody \/ WaitForkServerStart \/ ReadResponse \/ ReadEndOfFile
             \/ ClientLeaves
    BY <1>2, <2>1, <2>8
    DEF WriteToNobody, WaitForkServerStart, ReadResponse, ReadEndOfFile, ClientLeaves
  <2> QED
    BY <1>5, <2>3, <2>4, <2>5, <2>6, <2>7, <2>8 DEF ClientNext
<1>6. ASSUME toServer # <<>>, toServer' = Tail(toServer), AddsUp,
             UNCHANGED <<image, requested, put_pid, sent, asked>>,
             server' \notin {"Start", "WaitClientAttach", "SetTimer"},
             settings'.executor_id = asked.executor_id,
             settings'.read_stdin <=> settings.read_stdin \/ Head(toServer) = Command(ReadStdinCommand),
             settings'.save_stdout_stderr
               <=> settings.save_stdout_stderr \/ Head(toServer) = Command(SaveStdoutStderrCommand),
             IF Head(toServer).type = "u64" THEN Head(toServer) = U64(settings'.timeout_us)
                                            ELSE settings'.timeout_us = settings.timeout_us
      PROVE  SettingsInv'
  <2>1. TimeoutAddsUp(toServer', settings'.timeout_us, asked.timeout_us)
    BY <1>1, <1>6, TimeoutTail DEF AddsUp
  <2>2. \A x : Occurs(toServer, x) <=> Head(toServer) = x \/ Occurs(toServer', x)
    BY <1>1, <1>6, OccursInTail
  <2> QED
    BY <1>1, <1>6, <2>1, <2>2 DEF SettingsInv, AddsUp
<1>7. CASE WaitClientAttach
  <2>1. CASE server' = "Standalone"
    BY <1>3, <1>7, <2>1 DEF WaitClientAttach, clientVars, putVars
  <2>2. CASE server' # "Standalone"
    <3>1. /\ server = "WaitClientAttach" /\ toServer # <<>> /\ toServer' = Tail(toServer)
          /\ server' = "TellClientServerHasStarted"
          /\ settings' = [settings EXCEPT !.executor_id = Head(toServer).value]
          /\ UNCHANGED <<image, requested, put_pid, sent, asked>>
      BY <1>7, <2>2 DEF WaitClientAttach, At, clientVars, putVars
    <3>2. AddsUp /\ Head(toServer) = Id(asked.executor_id)
      BY <1>1, <3>1 DEF SettingsInv, AddsUp, ServerEnded
    <3>3. /\ Head(toServer).value = asked.executor_id /\ Head(toServer).type # "u64"
          /\ \A d : Head(toServer) # Command(d)
      BY <3>2, ItemFacts
    <3> QED
      BY <1>1, <1>6, <3>1, <3>2, <3>3 DEF Settings
  <2> QED
    BY <2>1, <2>2
<1>8. CASE WaitForAPICall
  <2>1. /\ server = "WaitForAPICall" /\ toServer # <<>> /\ toServer' = Tail(toServer)
        /\ settings' = Configured(settings, Head(toServer).value)
        /\ server' = AfterCommand(Head(toServer).value)
        /\ UNCHANGED <<image, requested, put_pid, sent, asked>>
    BY <1>8 DEF WaitForAPICall, At, clientVars, putVars
  <2>2. PICK c \in 0 .. 4 : Head(toServer) = Command(c)
    BY <2>1, HeadFacts DEF InService
  <2>3. Head(toServer).value = c /\ Head(toServer).type # "u64"
        /\ \A d : Head(toServer) = Command(d) <=> c = d
    BY <2>2, ItemFacts
  <2>4. /\ settings'.executor_id = settings.executor_id
        /\ settings'.timeout_us = settings.timeout_us
        /\ settings'.read_stdin <=> settings.read_stdin \/ c = ReadStdinCommand
        /\ settings'.save_stdout_stderr <=> settings.save_stdout_stderr \/ c = SaveStdoutStderrCommand
    BY <1>1, <2>1, <2>3 DEF Configured, Settings
  <2>5. AddsUp /\ settings.executor_id = asked.executor_id
    BY <1>1, <2>1 DEF SettingsInv, AddsUp, ServerEnded
  <2>6. server' \notin {"Start", "WaitClientAttach", "SetTimer"}
    BY <2>1 DEF AfterCommand
  <2> QED
    BY <1>6, <2>1, <2>3, <2>4, <2>5, <2>6
<1>9. CASE RecvU64
  <2>1. /\ server = "RecvU64" /\ toServer # <<>> /\ toServer' = Tail(toServer)
        /\ settings' = [settings EXCEPT !.timeout_us = Head(toServer).value]
        /\ server' = "WaitForAPICall"
        /\ UNCHANGED <<image, requested, put_pid, sent, asked>>
    BY <1>9 DEF RecvU64, At, clientVars, putVars
  <2>2. PICK us \in Timeouts : Head(toServer) = U64(us)
    BY <2>1, HeadFacts DEF InService
  <2>3. Head(toServer).value = us /\ Head(toServer).type = "u64"
        /\ \A d : Head(toServer) # Command(d)
    BY <2>2, ItemFacts
  <2>4. /\ settings'.executor_id = settings.executor_id
        /\ settings'.timeout_us = us
        /\ settings'.read_stdin = settings.read_stdin
        /\ settings'.save_stdout_stderr = settings.save_stdout_stderr
    BY <1>1, <2>1, <2>3 DEF Settings
  <2>5. AddsUp /\ settings.executor_id = asked.executor_id
    BY <1>1, <2>1 DEF SettingsInv, AddsUp, ServerEnded
  <2> QED
    BY <1>6, <2>1, <2>2, <2>3, <2>4, <2>5
<1>10. CASE ExecutePUT
  <2>1. /\ server = "ExecutePUT" /\ server' = "SetTimer" /\ put_pid' = put_pid + 1
        /\ image' = [image EXCEPT ![put_pid + 1] = Inherited]
        /\ UNCHANGED <<requested, sent, asked, settings, toServer>>
    BY <1>10 DEF ExecutePUT, At, clientVars
  <2>2. put_pid + 1 = sent /\ toServer = <<>> /\ put_pid + 1 \in Runs
    BY <2>1, LastPut DEF InService, RunInv
  <2>3. AddsUp
    BY <1>1, <2>1 DEF SettingsInv, ServerEnded
  <2>4. \A x : ~Occurs(toServer, x)
    BY <2>2 DEF Occurs
  <2>5. settings.timeout_us = asked.timeout_us
    BY <2>2, <2>3 DEF AddsUp, TimeoutAddsUp
  <2>6. settings = asked /\ requested[sent] = asked
    <3>1. /\ settings.executor_id = asked.executor_id
          /\ settings.read_stdin = asked.read_stdin
          /\ settings.save_stdout_stderr = asked.save_stdout_stderr
      BY <1>1, <2>1, <2>3, <2>4 DEF AddsUp, Settings
    <3>2. settings = asked
      BY <1>1, <2>5, <3>1 DEF Settings
    <3> QED
      BY <1>1, <2>2, <2>3, <3>2 DEF AddsUp
  <2>7. image'[put_pid + 1].settings = settings
        /\ \A p \in Runs : p # put_pid + 1 => image'[p] = image[p]
    BY <1>1, <2>1, <2>2 DEF Inherited
  <2> QED
    BY <1>1, <2>1, <2>2, <2>3, <2>6, <2>7 DEF SettingsInv, AddsUp, Runs
<1>11. CASE \/ TellClientServerHasStarted \/ SetTimer \/ SetHandler \/ WaitEnded \/ WaitStopped
            \/ SendResponse
  BY <1>3, <1>4, <1>11
  DEF TellClientServerHasStarted, SetTimer, SetHandler, WaitEnded, WaitStopped, SendResponse,
      Reply, At, ServerEnds, ServerEnded, clientVars, serverVars, putVars
<1>12. CASE \/ StartFails \/ RecvEndOfFile \/ ForkFails \/ ExitAfterFork
             \/ StandaloneEnds \/ AlarmWithoutHandler
  BY <1>3, <1>12
  DEF StartForkServer, StartFails, RecvEndOfFile, ForkFails, ExitAfterFork, StandaloneEnds,
      AlarmWithoutHandler, ServerEnds, ServerEnded,
      clientVars, serverVars, putVars
<1>15. CASE StartForkServer
  BY <1>1, <1>15 DEF StartForkServer, SettingsInv, AddsUp, ServerEnded, clientVars, serverVars,
      putVars
<1>13. CASE Expire \/ PUTTimeoutHandler
  BY <1>2, <1>13, AlarmKeeps
  DEF Expire, PUTTimeoutHandler, SignalNext, InService, clientVars, serverVars, putVars
<1>14. CASE PutNext
  <2>1. UNCHANGED <<asked, sent, requested, toServer, put_pid, settings, image>>
    BY <1>14, PutKeeps DEF serverVars
  <2>2. server' = server \/ server' \in ServerEnded
    BY <1>14
    DEF PutNext, PutSetup, PutSetupFails, PutExits, PutCrashes, PutStops,
        PutContinues, PutAlarm, KillClient, PutStep, PutEnds, ServerEnds, ServerEnded
  <2> QED
    BY <1>2, <1>3, <2>1, <2>2
<1> QED
  BY <1>2, <1>5, <1>7, <1>8, <1>9, <1>10, <1>11, <1>12, <1>13, <1>14, <1>15
  DEF Next, ServerNext, SignalNext, vars, clientVars, serverVars, putVars

-------------------------------------------------------------------------------
(* The invariant and what follows from it. *)

\* IInv holds in the initial state.
LEMMA IInvInit == Init => IInv
<1> SUFFICES ASSUME Init PROVE IInv
  OBVIOUS
<1>0. TypeOK
  BY TypeInit
<1>1. TimerInv
  BY DEF Init, TimerInv, ServerEnded
<1>2. HandlerInv
  BY DEF Init, HandlerInv
<1>3. RunInv
  BY BoundsAssumption DEF Init, RunInv, Runs, PutLive, ServerInRun
<1>4. FrameInv
  BY DEF Init, FrameInv
<1>5. ClientInv
  BY DEF Init, ClientInv
<1>6. RepliesInv
  BY DEF Init, RepliesInv
<1>7. SettingsInv
  <2>1. \A p \in Runs : ~(p <= put_pid)
    BY BoundsAssumption DEF Init, Runs
  <2>2. ~Occurs(toServer, Command(ReadStdinCommand))
          /\ ~Occurs(toServer, Command(SaveStdoutStderrCommand))
    BY DEF Init, Occurs
  <2>3. TimeoutAddsUp(toServer, settings.timeout_us, asked.timeout_us)
    BY DEF Init, TimeoutAddsUp
  <2>4. AddsUp
    BY <2>2, <2>3 DEF Init, AddsUp, DefaultSettings
  <2> QED
    BY <2>1, <2>4 DEF Init, SettingsInv
<1>8. KilledInv /\ put_pid # -1
  BY DEF Init, KilledInv
<1> QED
  BY <1>0, <1>1, <1>2, <1>3, <1>4, <1>5, <1>6, <1>7, <1>8 DEF IInv, InService

\* InService goes on as long as no fork fails.
LEMMA InServiceStep == InService /\ [Next]_vars /\ put_pid' # -1 => InService'
BY TypeStep, TimerStep, HandlerStep, KilledStep, RunStep, FrameStep, ClientStep, RepliesStep,
    SettingsStep,
   Zenon DEF InService

\* Nothing but a failed fork stores -1 in put_pid.
LEMMA OnlyForkFails == InService /\ [Next]_vars /\ put_pid' = -1 => ForkFails
<1> SUFFICES ASSUME InService, [Next]_vars, put_pid' = -1 PROVE ForkFails
  OBVIOUS
<1>1. put_pid \in 0 .. MaxRuns
  BY DEF InService, TypeOK, ServerTypeOK
<1> QED
  BY <1>1, ClientKeeps, AlarmKeeps, PutKeeps, StandaloneKeeps
  DEF Next, ServerNext, StartForkServer, StartFails, ExitAfterFork, WaitClientAttach,
      TellClientServerHasStarted, Reply, WaitForAPICall, RecvU64, RecvEndOfFile, ExecutePUT,
      SetTimer, SetHandler, WaitEnded, WaitStopped, SendResponse, serverVars, vars

\* What a failed fork leaves behind.
LEMMA FailureStarts == InService /\ ForkFails => AfterFailure'
<1> SUFFICES ASSUME InService, ForkFails PROVE AfterFailure'
  OBVIOUS
<1>1. TypeOK'
  BY TypeStep DEF Next, ServerNext
<1>2. /\ server = "ExecutePUT" /\ server' = "ForkFailed" /\ put_pid' = -1
      /\ UNCHANGED <<client, sent, requested, replies, toServer, toClient>>
      /\ UNCHANGED <<handler, itimer, sigalrm, put, status, image, killer>>
  BY DEF ForkFails, At, clientVars, putVars
<1>3. /\ put_pid \in 0 .. MaxRuns /\ put_pid + 1 = sent /\ sent \in Runs /\ toServer = <<>>
      /\ replies \in Seq(Responses)
  BY <1>2, LastPut DEF InService, TypeOK, ServerTypeOK, ClientTypeOK, RunInv, Runs
<1>4. /\ client \in {"AwaitResponse", "Exited", "Aborted", "Killed"}
      /\ client \notin {"Aborted", "Killed"}
      /\ client = "AwaitResponse" => toClient = <<>> /\ Len(replies) + 1 = sent
  BY <1>2 DEF InService, ClientInv, KilledInv, TypeOK, ClientTypeOK, ClientWriting, ClientReading,
              ClientEnded, ServerEnded, ServerInRun
<1>5. \A p \in {itimer, sigalrm} :
        p # 0 => p = sent - 1 /\ handler /\ requested[sent - 1].timeout_us # 0
  BY <1>2, <1>3
  DEF InService, TimerInv, HandlerInv, SettingsInv, ServerEnded, Runs
<1>6. ASSUME NEW p \in Runs
      PROVE  /\ put[p] = IF p < sent THEN "reaped" ELSE "absent"
             /\ status[p] # NoStatus <=> p < sent
             /\ p < sent => image[p].settings = requested[p]
             /\ killer[p] # 0 => killer[p] \in {p - 1, p}
  <2>1. p < sent <=> p <= put_pid
    BY <1>3 DEF Runs
  <2>2. p <= put_pid => put[p] = "reaped"
    BY <1>2, LastPut DEF InService, ServerEnded, ServerInRun
  <2>3. p > put_pid => put[p] = "absent"
    BY DEF InService, RunInv
  <2>4. put[p] = IF p < sent THEN "reaped" ELSE "absent"
    BY <1>3, <2>1, <2>2, <2>3 DEF Runs
  <2>5. status[p] # NoStatus <=> p < sent
    BY <2>4 DEF InService, RunInv
  <2> QED
    BY <2>1, <2>4, <2>5 DEF InService, TimerInv, SettingsInv
<1>7. \A i \in 1 .. Len(replies) : i < sent /\ replies[i] = ResponseOf(status[i])
  BY <1>3 DEF InService, RepliesInv, Runs
<1> QED
  BY <1>1, <1>2, <1>3, <1>4, <1>5, <1>6, <1>7 DEF AfterFailure, Runs

\* After a failed fork only the client, the timer, its handler and exit() are left.
LEMMA LastSteps ==
  ASSUME AfterFailure, [Next]_vars
  PROVE  /\ \/ ReadEndOfFile \/ ClientLeaves \/ ExitAfterFork \/ Expire
            \/ PUTTimeoutHandler \/ UNCHANGED vars
         /\ UNCHANGED <<asked, left, sent, requested, replies, toServer, toClient>>
         /\ UNCHANGED <<serverVars, putVars>>
<1>1. /\ put_pid = -1 /\ server \in {"ForkFailed", "Exited"} /\ toServer = <<>>
      /\ client \in {"AwaitResponse", "Exited", "Aborted", "Killed"}
      /\ client = "AwaitResponse" => toClient = <<>>
      /\ sigalrm # 0 => handler
      /\ \A p \in Runs : put[p] \in {"reaped", "absent"}
      /\ put \in [Runs -> PutStates] /\ status \in [Runs -> Statuses \union {NoStatus}]
  BY DEF AfterFailure, TypeOK, PutTypeOK
<1>2. CASE ClientNext
  BY <1>1, <1>2
  DEF ClientNext, AttachToServer, SendConfigCommand, SendTimeoutCommand, SendTimeoutValue,
      SendExecutePUT, WriteToNobody, WaitForkServerStart, ReadResponse, ReadEndOfFile,
      ClientLeaves, ClientWriting, serverVars, putVars
<1>3. CASE ServerNext \/ StandaloneEnds
  BY <1>1, <1>3
  DEF ServerNext, StartForkServer, StartFails, WaitClientAttach, TellClientServerHasStarted,
      Reply, WaitForAPICall, RecvU64, RecvEndOfFile, ExecutePUT, ForkFails, ExitAfterFork,
      SetTimer, SetHandler, WaitEnded, WaitStopped, SendResponse, StandaloneEnds, At,
      clientVars, serverVars
<1>4. CASE Expire
  BY <1>4 DEF Expire, clientVars, serverVars
<1>5. CASE SignalNext
  <2>1. PUTTimeoutHandler
    BY <1>1, <1>5 DEF SignalNext, AlarmWithoutHandler
  <2>2. KillPuts /\ KillClient /\ UNCHANGED killer
    BY <1>1, <2>1 DEF PUTTimeoutHandler
  <2>3. put' = put /\ status' = status
    BY <1>1, <2>2 DEF KillPuts, PutLive
  <2> QED
    BY <2>1, <2>2, <2>3 DEF PUTTimeoutHandler, KillClient, serverVars, putVars
<1>6. CASE PutNext
  BY <1>1, <1>6
  DEF PutNext, PutSetup, PutSetupFails, PutExits, PutCrashes, PutStops, PutContinues,
      PutAlarm, KillClient, PutStep, PutEnds
<1> QED
  BY <1>2, <1>3, <1>4, <1>5, <1>6 DEF Next, vars, clientVars, serverVars

\* And what is left behind stays as it is, but for the client and the timer.
LEMMA AfterFailureStep == AfterFailure /\ [Next]_vars => AfterFailure'
<1> SUFFICES ASSUME AfterFailure, [Next]_vars PROVE AfterFailure'
  OBVIOUS
<1>1. /\ UNCHANGED <<asked, left, sent, requested, replies, toServer, toClient, serverVars>>
      /\ UNCHANGED <<put, status, image, killer>>
  BY LastSteps DEF putVars
<1>2. /\ client' \in {client, "Exited", "Aborted", "Killed"}
      /\ client' = "Killed" => client = "Killed" \/ sigalrm # 0
      /\ server' \in {server, "Exited"}
      /\ itimer' \in {0, itimer} /\ sigalrm' \in {0, itimer, sigalrm}
  BY LastSteps
  DEF ReadEndOfFile, ClientLeaves, ExitAfterFork, ServerEnds, Expire, PUTTimeoutHandler,
      KillClient, vars, clientVars
<1>3. TypeOK'
  <2>1. client' \in ClientWriting \union ClientReading \union ClientEnded
    BY <1>2 DEF AfterFailure, TypeOK, ClientTypeOK, ClientEnded
  <2>2. ClientTypeOK'
    BY <1>1, <2>1 DEF AfterFailure, TypeOK, ClientTypeOK
  <2>3. PipeTypeOK' /\ PutTypeOK'
    BY <1>1 DEF AfterFailure, TypeOK, PipeTypeOK, PutTypeOK
  <2>4. server' \in ServerStates /\ itimer' \in 0 .. MaxRuns /\ sigalrm' \in 0 .. MaxRuns
    BY <1>2, BoundsAssumption DEF AfterFailure, TypeOK, ServerTypeOK, ServerStates, ServerEnded
  <2>5. ServerTypeOK'
    BY <1>1, <2>4 DEF AfterFailure, TypeOK, ServerTypeOK, serverVars
  <2> QED
    BY <2>2, <2>3, <2>5 DEF TypeOK
<1>4. put_pid' = put_pid /\ handler' = handler
  BY <1>1 DEF serverVars
<1>5. sent \in Nat
  BY BoundsAssumption DEF AfterFailure, TypeOK, ClientTypeOK
<1>6. client' = "Killed" => sent > 1 /\ requested[sent - 1].timeout_us # 0
  <2>1. sigalrm # 0 => sent - 1 # 0 /\ requested[sent - 1].timeout_us # 0
    BY DEF AfterFailure
  <2> QED
    BY <1>2, <1>5, <2>1 DEF AfterFailure
<1>7. \A p \in {itimer', sigalrm'} :
        p # 0 => p = sent - 1 /\ handler /\ requested[sent - 1].timeout_us # 0
  BY <1>2 DEF AfterFailure
<1> QED
  BY <1>1, <1>2, <1>3, <1>4, <1>6, <1>7 DEF AfterFailure

\* IInv is inductive.
LEMMA IInvStep == IInv /\ [Next]_vars => IInv'
BY InServiceStep, OnlyForkFails, FailureStarts, AfterFailureStep DEF IInv

\* The books of all the boundaries stay in order, whatever the processes, the
\* timer and the programs under test do, and in whatever order.
THEOREM Invariance == Spec => []IInv
<1>1. Init => IInv
  BY IInvInit
<1>2. IInv /\ [Next]_vars => IInv'
  BY IInvStep
<1> QED
  BY <1>1, <1>2, PTL DEF Spec

\* Every variable keeps its type: no pid, status, response or setting out of
\* range is ever stored, though the server checks nothing it reads.
THEOREM TypeCorrect == Spec => []TypeOK
<1>1. IInv => TypeOK
  BY DEF IInv, InService, AfterFailure
<1> QED
  BY <1>1, Invariance, PTL

\* The server never takes a value for a command or a command for a value.
THEOREM InFrameAlways == Spec => []InFrame
<1>1. AfterFailure => InFrame
  BY DEF AfterFailure, InFrame
<1>2. InService => InFrame
  <2> SUFFICES ASSUME InService, toServer # <<>>, server \notin ServerEnded \union {"Standalone"}
               PROVE  InFrame
    BY DEF InFrame, ServerEnded
  <2>1. Head(toServer) \in Items /\ Head(toServer) = toServer[1]
    BY HeadFacts DEF InService, TypeOK, PipeTypeOK
  <2>2. Head(toServer).type \in {"executor_id", "command", "u64"}
    BY <2>1, ItemFacts
  <2>3. /\ Head(toServer).type = "executor_id" <=> server \in {"Start", "WaitClientAttach"}
        /\ Head(toServer).type = "u64" <=> server = "RecvU64"
    BY <2>1 DEF InService, FrameInv
  <2> QED
    BY <2>2, <2>3 DEF InFrame, ServerEnded
<1>3. IInv => InFrame
  BY <1>1, <1>2 DEF IInv
<1> QED
  BY <1>3, Invariance, PTL

\* Each response tells the fate of the run it answers.
THEOREM RepliesAreFatesAlways == Spec => []RepliesAreFates
<1>1. AfterFailure => RepliesAreFates
  <2> SUFFICES ASSUME AfterFailure, NEW i \in 1 .. Len(replies)
               PROVE  put[i] = "reaped" /\ status[i] # NoStatus
                        /\ replies[i] = ResponseOf(status[i])
    BY DEF RepliesAreFates
  <2>1. i \in Runs /\ i < sent
    BY BoundsAssumption DEF AfterFailure, TypeOK, ClientTypeOK, Runs
  <2> QED
    BY <2>1 DEF AfterFailure
<1>2. InService => RepliesAreFates
  <2> SUFFICES ASSUME InService, NEW i \in 1 .. Len(replies)
               PROVE  put[i] = "reaped" /\ status[i] # NoStatus
                        /\ replies[i] = ResponseOf(status[i])
    BY DEF RepliesAreFates
  <2>1. put[i] = "reaped" /\ replies[i] = ResponseOf(status[i])
    BY DEF InService, RepliesInv
  <2>2. i \in Runs
    BY BoundsAssumption
    DEF InService, RepliesInv, TypeOK, ClientTypeOK, ServerTypeOK, Runs
  <2> QED
    BY <2>1, <2>2 DEF InService, RunInv
<1>3. IInv => RepliesAreFates
  BY <1>1, <1>2 DEF IInv
<1> QED
  BY <1>3, Invariance, PTL

\* A client that may send never shares the machine with a run of before.
THEOREM ClientNeverOverlapsPutAlways == Spec => []ClientNeverOverlapsPut
<1>1. AfterFailure => ClientNeverOverlapsPut
  BY DEF AfterFailure, ClientNeverOverlapsPut
<1>2. InService => ClientNeverOverlapsPut
  <2> SUFFICES ASSUME InService, client \in {"Ready", "SendTimeoutValue"}, NEW p \in Runs
               PROVE  put[p] \in {"absent", "reaped"}
    BY DEF ClientNeverOverlapsPut
  <2>1. server \in {"WaitForAPICall", "RecvU64"}
    BY DEF InService, ClientInv
  <2>2. p <= put_pid => put[p] = "reaped"
    BY <2>1, LastPut DEF InService, ServerEnded, ServerInRun
  <2>3. p > put_pid => put[p] = "absent"
    BY DEF InService, RunInv
  <2> QED
    BY <2>2, <2>3 DEF InService, TypeOK, ServerTypeOK, Runs
<1>3. IInv => ClientNeverOverlapsPut
  BY <1>1, <1>2 DEF IInv
<1> QED
  BY <1>3, Invariance, PTL

\* Once the handshake is answered no command is written to a server that is not
\* there to read it; SIGPIPE reaches a client only at its very first write.
THEOREM WritesHaveReaderAlways == Spec => []WritesHaveReader
<1>1. AfterFailure => WritesHaveReader
  BY DEF AfterFailure, WritesHaveReader
<1>2. InService => WritesHaveReader
  BY DEF InService, ClientInv, RunInv, TypeOK, ServerTypeOK, WritesHaveReader
<1>3. IInv => WritesHaveReader
  BY <1>1, <1>2 DEF IInv
<1> QED
  BY <1>3, Invariance, PTL

\* Each run has the settings asked for before it, and no later ones.
THEOREM RunsAsRequestedAlways == Spec => []RunsAsRequested
<1>1. AfterFailure => RunsAsRequested
  BY DEF AfterFailure, RunsAsRequested
<1>2. InService => RunsAsRequested
  <2> SUFFICES ASSUME InService, NEW p \in Runs, put[p] # "absent"
               PROVE  image[p].settings = requested[p]
    BY DEF RunsAsRequested
  <2>1. p <= put_pid
    BY DEF InService, RunInv, TypeOK, ServerTypeOK, Runs
  <2> QED
    BY <2>1 DEF InService, SettingsInv
<1>3. IInv => RunsAsRequested
  BY <1>1, <1>2 DEF IInv
<1> QED
  BY <1>3, Invariance, PTL

\* What an alarm of one run can do to another is bounded: it may reach the next
\* run and no further, it ends the server only while the first run is being set
\* up, the first PUT cannot end the group, and kill(-1) of a failed fork needs a
\* run before it, with a timeout.
THEOREM AlarmsAreBounded == Spec => []AlarmsAreContained
<1>1. AfterFailure => AlarmsAreContained
  BY DEF AfterFailure, AlarmsAreContained
<1>2. InService => AlarmsAreContained
  BY DEF InService, TimerInv, HandlerInv, KilledInv, AlarmsAreContained
<1>3. IInv => AlarmsAreContained
  BY <1>1, <1>2 DEF IInv
<1> QED
  BY <1>3, Invariance, PTL

\* A client that gives up has lost no outcome the server had in hand.
THEOREM AbortedLosesNoOutcomeAlways == Spec => []AbortedLosesNoOutcome
<1>1. AfterFailure => AbortedLosesNoOutcome
  BY DEF AfterFailure, TypeOK, ClientTypeOK, Runs, AbortedLosesNoOutcome
<1>2. InService => AbortedLosesNoOutcome
  BY DEF InService, ClientInv, AbortedLosesNoOutcome
<1>3. IInv => AbortedLosesNoOutcome
  BY <1>1, <1>2 DEF IInv
<1> QED
  BY <1>3, Invariance, PTL

-------------------------------------------------------------------------------
(* The fork server implements PutService. *)

\* The end of a live PUT is the end of the run that was asked for last.
LEMMA EndOfRun ==
  ASSUME InService, NEW p \in Runs, put[p] \in PutLive, NEW s \in Statuses,
         status' = [status EXCEPT ![p] = s]
  PROVE  /\ p = sent /\ sent > 0
         /\ ResponseOf(s) \in Responses
         /\ [q \in Runs |-> Outcome(q)][sent] = NoResponse
         /\ [q \in Runs |-> Outcome(q)]'
              = [[q \in Runs |-> Outcome(q)] EXCEPT ![sent] = ResponseOf(s)]
<1>1. p = sent /\ sent > 0
  BY DEF InService, RunInv, Runs
<1>2. status[p] = NoStatus
  BY DEF InService, RunInv, PutLive
<1>3. s # NoStatus /\ ResponseOf(s) \in Responses
  BY StatusFacts
<1>4. status \in [Runs -> Statuses \union {NoStatus}]
  BY DEF InService, TypeOK, PutTypeOK
<1> QED
  BY <1>1, <1>2, <1>3, <1>4 DEF Outcome

\* The initial state is one of the service.
LEMMA ServiceInit == Init => Service!Init
<1> SUFFICES ASSUME Init PROVE Service!Init
  OBVIOUS
<1>1. [p \in Runs |-> Outcome(p)] = [p \in 1 .. MaxRuns |-> NoResponse]
  BY DEF Init, Outcome, Runs
<1> QED
  BY <1>1 DEF Init, Service!Init, ClientAlive, ClientEnded

\* Each step is one of the service, or invisible to it.
LEMMA InServiceServes == InService /\ [Next]_vars => [Service!Next]_(Service!vars)
<1> SUFFICES ASSUME InService, [Next]_vars PROVE [Service!Next]_(Service!vars)
  OBVIOUS
<1> DEFINE outcome == [q \in Runs |-> Outcome(q)]
<1>1. ASSUME UNCHANGED <<client, sent, replies, status>> PROVE [Service!Next]_(Service!vars)
  BY <1>1 DEF Service!vars, Outcome, ClientAlive
<1>2. CASE ClientNext
  <2>0. UNCHANGED status
    BY <1>2, ClientKeeps DEF putVars
  <2>1. UNCHANGED outcome
    BY <2>0 DEF Outcome
  <2>2. CASE SendExecutePUT
    <3>1. Len(replies) = sent
      BY <2>2 DEF SendExecutePUT, InService, ClientInv
    <3>2. Service!Request
      BY <2>1, <2>2, <3>1 DEF SendExecutePUT, Service!Request, ClientAlive, ClientEnded
    <3> QED
      BY <3>2 DEF Service!Next
  <2>3. CASE ReadResponse
    <3>1. /\ server = "WaitForAPICall" /\ put_pid = sent /\ Len(replies) + 1 = sent
          /\ toClient = <<ResponseOf(status[sent])>>
      BY <2>3 DEF ReadResponse, InService, ClientInv
    <3>2. sent \in Runs
      BY <3>1 DEF InService, TypeOK, ClientTypeOK, Runs
    <3>3. put[sent] = "reaped" /\ status[sent] \in Statuses
      BY <3>1, <3>2, LastPut DEF InService, ServerInRun, ServerEnded, TypeOK, ServerTypeOK, Runs
    <3>4. outcome[sent] = ResponseOf(status[sent]) /\ outcome[sent] # NoResponse
      BY <3>2, <3>3, StatusFacts DEF Outcome
    <3>5. Head(toClient) = ResponseOf(status[sent])
      BY <3>1
    <3>6. ClientAlive /\ ClientAlive'
      BY <2>3 DEF ReadResponse, ClientAlive, ClientEnded
    <3>7. Len(replies) < sent
      BY <3>1 DEF InService, TypeOK, ClientTypeOK
    <3>8. Service!Answer
      BY <2>1, <2>3, <3>4, <3>5, <3>6, <3>7 DEF ReadResponse, Service!Answer
    <3> QED
      BY <3>8 DEF Service!Next
  <2>4. ASSUME UNCHANGED <<sent, replies>> PROVE [Service!Next]_(Service!vars)
    <3>1. CASE ClientAlive' = ClientAlive
      BY <2>1, <2>4, <3>1 DEF Service!vars
    <3>2. CASE ClientAlive /\ ~ClientAlive'
      <4>1. Service!Detach
        BY <2>1, <2>4, <3>2 DEF Service!Detach
      <4> QED
        BY <4>1 DEF Service!Next
    <3>3. ClientAlive' => ClientAlive
      BY <1>2 DEF ClientNext, AttachToServer, SendConfigCommand, SendTimeoutCommand,
        SendTimeoutValue, SendExecutePUT, WriteToNobody, WaitForkServerStart, ReadResponse,
        ReadEndOfFile,
        ClientLeaves, ClientAlive, ClientEnded, ClientReading
    <3> QED
      BY <3>1, <3>2, <3>3 DEF ClientAlive
  <2>5. SendExecutePUT \/ ReadResponse \/ UNCHANGED <<sent, replies>>
    BY <1>2 DEF ClientNext, AttachToServer, SendConfigCommand, SendTimeoutCommand,
      SendTimeoutValue, WriteToNobody, WaitForkServerStart, ReadEndOfFile, ClientLeaves
  <2> QED
    BY <2>2, <2>3, <2>4, <2>5
<1>3. CASE ServerNext \/ StandaloneEnds \/ Expire
  BY <1>1, <1>3, ServerKeeps, StandaloneKeeps
  DEF clientVars, putVars, Expire
<1>4. CASE SignalNext
  <2>1. UNCHANGED clientVars
    BY <1>4, AlarmKeeps
  <2>2. UNCHANGED ClientAlive
    BY <2>1 DEF clientVars, ClientAlive
  <2>3. \/ UNCHANGED status
        \/ put[put_pid] \in PutLive /\ status' = [status EXCEPT ![put_pid] = Signaled(SIGKILL)]
    BY <1>4 DEF SignalNext, PUTTimeoutHandler, AlarmWithoutHandler, Kill, InService, putVars
  <2>4. CASE /\ put[put_pid] \in PutLive
             /\ status' = [status EXCEPT ![put_pid] = Signaled(SIGKILL)]
    <3>1. put_pid \in Runs
      BY <1>4 DEF InService, HandlerInv, TimerInv, TypeOK, ServerTypeOK, Runs, SignalNext,
        PUTTimeoutHandler, AlarmWithoutHandler, ServerEnds
    <3>2. Service!Finish(ResponseOf(Signaled(SIGKILL)))
      BY <2>1, <2>2, <2>4, <3>1, EndOfRun, StatusFacts DEF Service!Finish, clientVars
    <3> QED
      BY <3>1, <3>2, <2>4, EndOfRun, StatusFacts DEF Service!Next
  <2> QED
    BY <1>1, <2>1, <2>3, <2>4 DEF clientVars
<1>5. CASE PutNext
  <2> SUFFICES ASSUME NEW p \in Runs,
                      \/ PutSetup(p) \/ PutSetupFails(p)
                      \/ \E c \in ExitCodes : PutExits(p, c)
                      \/ \E s \in CrashSignals : PutCrashes(p, s)
                      \/ PutStops(p) \/ PutContinues(p) \/ PutAlarm(p)
               PROVE  [Service!Next]_(Service!vars)
    BY <1>5 DEF PutNext
  <2>1. UNCHANGED <<sent, replies>>
    BY <1>5, PutKeeps
  <2>2. ASSUME NEW s \in Statuses, put[p] \in PutLive, UNCHANGED client,
               status' = [status EXCEPT ![p] = s]
        PROVE  [Service!Next]_(Service!vars)
    <3>1. Service!Finish(ResponseOf(s)) /\ ResponseOf(s) \in Responses
      BY <2>1, <2>2, EndOfRun DEF Service!Finish, ClientAlive
    <3> QED
      BY <3>1 DEF Service!Next
  <2>3. CASE PutSetup(p) \/ PutStops(p) \/ PutContinues(p)
    BY <1>1, <2>3 DEF PutSetup, PutStops, PutContinues, PutStep, clientVars
  <2>4. CASE PutSetupFails(p)
    BY <2>2, <2>4, StatusFacts DEF PutSetupFails, PutEnds, PutLive, clientVars
  <2>5. CASE \E c \in ExitCodes : PutExits(p, c)
    BY <2>2, <2>5, StatusFacts DEF PutExits, PutEnds, PutLive, clientVars
  <2>6. CASE \E s \in CrashSignals : PutCrashes(p, s)
    BY <2>2, <2>6, StatusFacts DEF PutCrashes, PutEnds, PutLive, clientVars
  <2>7. CASE PutAlarm(p) /\ ~image[p].handler
    BY <2>2, <2>7, StatusFacts DEF PutAlarm, PutEnds, PutLive, clientVars
  <2>8. CASE PutAlarm(p) /\ image[p].handler
    <3>1. /\ put[p] \in PutLive
          /\ status' = [q \in Runs |-> IF put[q] \in PutLive THEN Signaled(SIGKILL)
                                                           ELSE status[q]]
          /\ client' = IF ClientAlive THEN "Killed" ELSE client
      BY <2>8 DEF PutAlarm, KillPuts, KillClient, PutLive
    <3>2. \A q \in Runs : put[q] \in PutLive <=> q = p
      BY <3>1 DEF InService, RunInv
    <3>3. status' = [status EXCEPT ![p] = Signaled(SIGKILL)]
      BY <3>1, <3>2 DEF InService, TypeOK, PutTypeOK
    <3>4. ~ClientAlive'
      BY <3>1 DEF ClientAlive, ClientEnded
    <3>5. CASE ~ClientAlive
      BY <2>2, <3>1, <3>3, <3>5, StatusFacts
    <3>6. CASE ClientAlive
      <4>1. Service!FinishAndDetach(ResponseOf(Signaled(SIGKILL)))
              /\ ResponseOf(Signaled(SIGKILL)) \in Responses
        BY <2>1, <3>1, <3>3, <3>4, <3>6, EndOfRun, StatusFacts DEF Service!FinishAndDetach
      <4> QED
        BY <4>1 DEF Service!Next
    <3> QED
      BY <3>5, <3>6
  <2> QED
    BY <2>3, <2>4, <2>5, <2>6, <2>7, <2>8
<1>6. CASE UNCHANGED vars
  BY <1>1, <1>6 DEF vars, clientVars, putVars
<1> QED
  BY <1>2, <1>3, <1>4, <1>5, <1>6 DEF Next

\* After a failed fork the service only loses its client.
LEMMA AfterFailureServes == AfterFailure /\ [Next]_vars => [Service!Next]_(Service!vars)
<1> SUFFICES ASSUME AfterFailure, [Next]_vars PROVE [Service!Next]_(Service!vars)
  OBVIOUS
<1>1. UNCHANGED <<sent, replies, status>>
  BY LastSteps DEF putVars
<1>2. UNCHANGED [q \in Runs |-> Outcome(q)]
  BY <1>1 DEF Outcome
<1>3. ClientAlive' => ClientAlive
  BY LastSteps
  DEF ReadEndOfFile, ClientLeaves, ExitAfterFork, Expire, PUTTimeoutHandler, Kill, KillClient,
      ClientAlive, ClientEnded, vars, clientVars
<1>4. CASE ClientAlive' = ClientAlive
  BY <1>1, <1>2, <1>4 DEF Service!vars
<1>5. CASE ClientAlive /\ ~ClientAlive'
  <2>1. Service!Detach
    BY <1>1, <1>2, <1>5 DEF Service!Detach
  <2> QED
    BY <2>1 DEF Service!Next
<1> QED
  BY <1>3, <1>4, <1>5 DEF ClientAlive

\* Each step is one of the service, or invisible to it.
LEMMA ServiceStep == IInv /\ [Next]_vars => [Service!Next]_(Service!vars)
BY InServiceServes, AfterFailureServes DEF IInv

\* Whatever the fork server does is a behaviour of the service it promises: one
\* run for each request, answered once, in order, with the way that run ended.
THEOREM Refinement == Spec => ImplementsService
<1>1. Init => Service!Init
  BY ServiceInit
<1>2. IInv /\ [Next]_vars => [Service!Next]_(Service!vars)
  BY ServiceStep
<1> QED
  BY <1>1, <1>2, Invariance, PTL DEF Spec, ImplementsService, Service!Spec
===============================================================================
