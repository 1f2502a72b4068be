------------------------------ MODULE ForkServer ------------------------------
(***************************************************************************)
(* The persistent fork server that features/forkserver/forkserver.c links  *)
(* into an instrumented program, the programs under test (PUTs) it forks,  *)
(* the ITIMER_REAL timer that bounds each run, the two pipes, and a client *)
(* of the kind of features/forkserver/benchmark_client.cc.                 *)
(*                                                                         *)
(* A step is one system call of one process together with the code up to   *)
(* the next one, so a signal may arrive between any two of them.  The k-th *)
(* fork returns the pid k: the kernel is assumed not to reuse a pid while  *)
(* the server still remembers it.                                          *)
(***************************************************************************)
EXTENDS Integers, Sequences

CONSTANTS
  MaxRuns,           \* bound: ExecutePUT commands a client sends
  MaxSettings,       \* bound: other commands a client sends
  Timeouts,          \* values a client gives to SetPUTExecutionTimeout
  DefaultTimeout,    \* 20 * 1000 in the code; any value not zero
  ExecutorIds,       \* ids a client attaches with
  HANDSHAKE_FAILED,  \* (uint64_t) -1
  ConfigCommands,    \* commands without argument a client sends
  ServerPid,         \* what the server writes to say that it has started
  ExitCodes,         \* exit codes of the programs under test
  CrashSignals,      \* signals that may kill a program under test
  ForkMayFail        \* whether fork() may return -1

\* enum ForkServerAPI
InvalidCommand == 0
SetPUTExecutionTimeoutCommand == 1
ReadStdinCommand == 2
SaveStdoutStderrCommand == 3
ExecutePUTCommand == 4

ASSUME BoundsAssumption == MaxRuns \in Nat \ {0} /\ MaxSettings \in Nat
ASSUME TimeoutAssumption == Timeouts \subseteq Nat /\ DefaultTimeout \in Nat \ {0}
ASSUME IdAssumption == ExecutorIds \subseteq Nat /\ HANDSHAKE_FAILED \in Nat \ {0}
ASSUME CommandAssumption ==
  ConfigCommands \subseteq {InvalidCommand, ReadStdinCommand, SaveStdoutStderrCommand}
ASSUME StatusAssumption ==
  ExitCodes \subseteq Nat /\ CrashSignals \subseteq Nat \ {0} /\ ForkMayFail \in BOOLEAN

EXIT_FAILURE == 1
SIGKILL == 9
SIGALRM == 14

Runs == 1 .. MaxRuns

\* RuntimeSettings
Settings == [executor_id : ExecutorIds \union {0},
             timeout_us : Timeouts \union {DefaultTimeout},
             read_stdin : BOOLEAN,
             save_stdout_stderr : BOOLEAN]

DefaultSettings == [executor_id |-> 0, timeout_us |-> DefaultTimeout,
                    read_stdin |-> FALSE, save_stdout_stderr |-> FALSE]

\* What waitpid() reports of a process that has ended.
Exited(code) == [kind |-> "exited", code |-> code]
Signaled(signal) == [kind |-> "signaled", code |-> signal]
NoStatus == [kind |-> "none", code |-> 0]
Statuses == {Exited(c) : c \in ExitCodes \union {EXIT_FAILURE}}
              \union {Signaled(s) : s \in CrashSignals \union {SIGKILL, SIGALRM}}

\* ExecutePUTAPIResponse, as ExecutePUT fills it in from wstatus; error is
\* always None in a response that is sent.
ResponseOf(wstatus) ==
  [error |-> "None",
   exit_code |-> wstatus.code,
   signal_number |-> IF wstatus.kind = "signaled" THEN wstatus.code ELSE 0]

Responses == {ResponseOf(s) : s \in Statuses}

\* The pipe to the server carries bytes.  An item is one write of the client:
\* its value, and the C type written, which the server does not see.
Id(v) == [type |-> "executor_id", value |-> v]
Command(v) == [type |-> "command", value |-> v]
U64(v) == [type |-> "u64", value |-> v]
Items == {Id(v) : v \in ExecutorIds}
           \union {Command(v) : v \in InvalidCommand .. ExecutePUTCommand}
           \union {U64(v) : v \in Timeouts}

VARIABLES
  client,     \* where the client is
  asked,      \* the settings the client has asked for so far
  left,       \* settings commands the client may still send
  sent,       \* ExecutePUT commands the client has sent
  requested,  \* [Runs -> Settings]: what was asked for when each was sent
  replies,    \* responses the client has read
  toServer,   \* pipe from the client to file descriptor 196
  toClient,   \* pipe from file descriptor 197 to the client
  server,     \* where the server is
  settings,   \* its RuntimeSettings
  put_pid,    \* its global: what fork() last returned, 0 before the first
  wstatus,    \* what waitpid() last returned of a PUT that has ended
  handler,    \* PUTTimeoutHandler is installed for SIGALRM
  itimer,     \* the run for which the timer is armed, 0 when disarmed
  sigalrm,    \* the run whose SIGALRM is pending in the server, 0 if none
  put,        \* [Runs -> state of the PUT]
  status,     \* [Runs -> how the PUT ended]
  image,      \* [Runs -> settings and signal handler inherited at fork]
  killer      \* [Runs -> run whose timer made the server kill the PUT, 0 if none]

clientVars == <<client, asked, left, sent, requested, replies>>
serverVars == <<settings, put_pid, wstatus, handler>>
putVars == <<put, status, image, killer>>
vars == <<clientVars, toServer, toClient, server, serverVars, itimer, sigalrm, putVars>>

ClientWriting == {"AttachToServer", "Ready", "SendTimeoutValue"}
ClientReading == {"WaitForkServerStart", "AwaitResponse"}
ClientEnded == {"Exited", "Aborted", "Killed", "KilledByPipe"}

ServerInRun == {"SetTimer", "SetHandler", "WaitPUT", "SendResponse"}
ServerEnded == {"Exited", "KilledByAlarm", "KilledByPipe", "KilledByGroup"}
ServerStates == {"Start", "WaitClientAttach", "TellClientServerHasStarted",
                 "WaitForAPICall", "RecvU64", "ExecutePUT", "ForkFailed", "Standalone"}
                  \union ServerInRun \union ServerEnded

PutLive == {"setup", "running", "stopped", "stopSeen"}
PutStates == PutLive \union {"absent", "zombie", "reaped"}

Images == [settings : Settings, handler : BOOLEAN]

ClientTypeOK ==
  /\ client \in ClientWriting \union ClientReading \union ClientEnded
  /\ asked \in Settings
  /\ left \in 0 .. MaxSettings
  /\ sent \in 0 .. MaxRuns
  /\ requested \in [Runs -> Settings]
  /\ replies \in Seq(Responses)

PipeTypeOK ==
  /\ toServer \in Seq(Items)
  /\ toClient \in Seq(Responses \union {ServerPid})

ServerTypeOK ==
  /\ server \in ServerStates
  /\ settings \in Settings
  /\ put_pid \in -1 .. MaxRuns
  /\ wstatus \in Statuses \union {NoStatus}
  /\ handler \in BOOLEAN
  /\ itimer \in 0 .. MaxRuns
  /\ sigalrm \in 0 .. MaxRuns

PutTypeOK ==
  /\ put \in [Runs -> PutStates]
  /\ status \in [Runs -> Statuses \union {NoStatus}]
  /\ image \in [Runs -> Images]
  /\ killer \in [Runs -> 0 .. MaxRuns]

TypeOK == ClientTypeOK /\ PipeTypeOK /\ ServerTypeOK /\ PutTypeOK

Init ==
  /\ client = "AttachToServer"
  /\ asked = DefaultSettings
  /\ left = MaxSettings
  /\ sent = 0
  /\ requested = [p \in Runs |-> DefaultSettings]
  /\ replies = <<>>
  /\ toServer = <<>>
  /\ toClient = <<>>
  /\ server = "Start"
  /\ settings = DefaultSettings
  /\ put_pid = 0
  /\ wstatus = NoStatus
  /\ handler = FALSE
  /\ itimer = 0
  /\ sigalrm = 0
  /\ put = [p \in Runs |-> "absent"]
  /\ status = [p \in Runs |-> NoStatus]
  /\ image = [p \in Runs |-> [settings |-> DefaultSettings, handler |-> FALSE]]
  /\ killer = [p \in Runs |-> 0]

\* Somebody still holds the server's ends of the two pipes: the server, or a
\* PUT that has not closed descriptors 196 and 197 yet.
PipesHeld == server \notin ServerEnded \/ \E p \in Runs : put[p] = "setup"

ClientAlive == client \notin ClientEnded

-------------------------------------------------------------------------------
(* The client. *)

\* One write to the server.
Send(item) ==
  /\ PipesHeld
  /\ toServer' = Append(toServer, item)
  /\ UNCHANGED <<toClient, server, serverVars, itimer, sigalrm, putVars>>

AttachToServer(id) ==
  /\ client = "AttachToServer"
  /\ client' = "WaitForkServerStart"
  /\ asked' = [asked EXCEPT !.executor_id = id]
  /\ Send(Id(id))
  /\ UNCHANGED <<left, sent, requested, replies>>

SendConfigCommand(c) ==
  /\ client = "Ready"
  /\ left > 0
  /\ left' = left - 1
  /\ asked' = [asked EXCEPT !.read_stdin = @ \/ c = ReadStdinCommand,
                            !.save_stdout_stderr = @ \/ c = SaveStdoutStderrCommand]
  /\ Send(Command(c))
  /\ UNCHANGED <<client, sent, requested, replies>>

\* SetPUTExecutionTimeout is two writes, the command and its value.
SendTimeoutCommand ==
  /\ client = "Ready"
  /\ left > 0
  /\ left' = left - 1
  /\ client' = "SendTimeoutValue"
  /\ Send(Command(SetPUTExecutionTimeoutCommand))
  /\ UNCHANGED <<asked, sent, requested, replies>>

SendTimeoutValue(us) ==
  /\ client = "SendTimeoutValue"
  /\ client' = "Ready"
  /\ asked' = [asked EXCEPT !.timeout_us = us]
  /\ Send(U64(us))
  /\ UNCHANGED <<left, sent, requested, replies>>

SendExecutePUT ==
  /\ client = "Ready"
  /\ sent < MaxRuns
  /\ sent' = sent + 1
  /\ requested' = [requested EXCEPT ![sent + 1] = asked]
  /\ client' = "AwaitResponse"
  /\ Send(Command(ExecutePUTCommand))
  /\ UNCHANGED <<asked, left, replies>>

\* A write when nobody holds the reading end any more: SIGPIPE.
WriteToNobody ==
  /\ client \in ClientWriting
  /\ ~PipesHeld
  /\ client' = "KilledByPipe"
  /\ UNCHANGED <<asked, left, sent, requested, replies, toServer, toClient, server,
                 serverVars, itimer, sigalrm, putVars>>

WaitForkServerStart ==
  /\ client = "WaitForkServerStart"
  /\ toClient # <<>>
  /\ client' = "Ready"
  /\ toClient' = Tail(toClient)
  /\ UNCHANGED <<asked, left, sent, requested, replies, toServer, server, serverVars,
                 itimer, sigalrm, putVars>>

ReadResponse ==
  /\ client = "AwaitResponse"
  /\ toClient # <<>>
  /\ client' = "Ready"
  /\ replies' = Append(replies, Head(toClient))
  /\ toClient' = Tail(toClient)
  /\ UNCHANGED <<asked, left, sent, requested, toServer, server, serverVars,
                 itimer, sigalrm, putVars>>

\* read() returns 0: a short handshake makes the client exit, a missing
\* response leaves NoResponseError and fails the assertion after it.
ReadEndOfFile ==
  /\ client \in ClientReading
  /\ toClient = <<>> /\ ~PipesHeld
  /\ client' = IF client = "AwaitResponse" THEN "Aborted" ELSE "Exited"
  /\ UNCHANGED <<asked, left, sent, requested, replies, toServer, toClient, server,
                 serverVars, itimer, sigalrm, putVars>>

\* The client finishes, or is stopped from outside, whatever it is doing.
ClientLeaves ==
  /\ ClientAlive
  /\ client' = "Exited"
  /\ UNCHANGED <<asked, left, sent, requested, replies, toServer, toClient, server,
                 serverVars, itimer, sigalrm, putVars>>

-------------------------------------------------------------------------------
(* The server.  A pending SIGALRM is handled before its next system call takes
   effect; only setitimer may still run first, which matters because the
   handler disarms the timer. *)

At(pc) == server = pc /\ sigalrm = 0

\* The process is gone, and its timer and pending signals with it.
ServerEnds(how) == server' = how /\ itimer' = 0 /\ sigalrm' = 0

EndOfFile == toServer = <<>> /\ ~ClientAlive

\* The child that the client forks becomes the program, whose constructor opens
\* its log file ...
StartForkServer ==
  /\ server = "Start"
  /\ server' = "WaitClientAttach"
  /\ UNCHANGED <<clientVars, toServer, toClient, serverVars, itimer, sigalrm, putVars>>

\* ... unless dup2(), execv() or fopen() fails.
StartFails ==
  /\ server = "Start"
  /\ ServerEnds("Exited")
  /\ UNCHANGED <<clientVars, toServer, toClient, serverVars, putVars>>

\* The descriptors stay open when the handshake fails: the program just runs.
WaitClientAttach ==
  /\ At("WaitClientAttach")
  /\ \/ /\ toServer # <<>>
        /\ Head(toServer).value # HANDSHAKE_FAILED
        /\ server' = "TellClientServerHasStarted"
        /\ settings' = [settings EXCEPT !.executor_id = Head(toServer).value]
        /\ toServer' = Tail(toServer)
     \/ /\ toServer # <<>>
        /\ Head(toServer).value = HANDSHAKE_FAILED
        /\ server' = "Standalone"
        /\ toServer' = Tail(toServer)
        /\ UNCHANGED settings
     \/ /\ EndOfFile
        /\ server' = "Standalone"
        /\ UNCHANGED <<settings, toServer>>
  /\ UNCHANGED <<clientVars, toClient, put_pid, wstatus, handler, itimer, sigalrm, putVars>>

StandaloneEnds ==
  /\ server = "Standalone"
  /\ ServerEnds("Exited")
  /\ UNCHANGED <<clientVars, toServer, toClient, serverVars, putVars>>

\* write() to the client, from state `from` to state `to`.
Reply(from, to, message) ==
  /\ At(from)
  /\ \/ /\ ClientAlive
        /\ toClient' = Append(toClient, message)
        /\ server' = to
        /\ UNCHANGED <<itimer, sigalrm>>
     \/ /\ ~ClientAlive
        /\ ServerEnds("KilledByPipe")
        /\ UNCHANGED toClient
  /\ UNCHANGED <<clientVars, toServer, serverVars, putVars>>

TellClientServerHasStarted ==
  Reply("TellClientServerHasStarted", "WaitForAPICall", ServerPid)

\* Mutant: the value of SetPUTExecutionTimeout is not read.
AfterCommandNoValue(c) == IF c = ExecutePUTCommand THEN "ExecutePUT" ELSE "WaitForAPICall"

\* The state to which the switch of StartForkServer goes with a command.
AfterCommand(c) ==
  CASE c = SetPUTExecutionTimeoutCommand -> "RecvU64"
    [] c = ExecutePUTCommand -> "ExecutePUT"
    [] OTHER -> "WaitForAPICall"

\* Mutant: a missing break; ReadStdin falls through to SaveStdoutStderr.
ConfiguredFallThrough(s, c) ==
  [s EXCEPT !.read_stdin = @ \/ c = ReadStdinCommand,
            !.save_stdout_stderr = @ \/ c \in {ReadStdinCommand, SaveStdoutStderrCommand}]

\* The settings that the switch leaves behind.
Configured(s, c) ==
  [s EXCEPT !.read_stdin = @ \/ c = ReadStdinCommand,
            !.save_stdout_stderr = @ \/ c = SaveStdoutStderrCommand]

WaitForAPICall ==
  /\ At("WaitForAPICall")
  /\ toServer # <<>>
  /\ server' = AfterCommand(Head(toServer).value)
  /\ settings' = Configured(settings, Head(toServer).value)
  /\ toServer' = Tail(toServer)
  /\ UNCHANGED <<clientVars, toClient, put_pid, wstatus, handler, itimer, sigalrm, putVars>>

RecvU64 ==
  /\ At("RecvU64")
  /\ toServer # <<>>
  /\ server' = "WaitForAPICall"
  /\ settings' = [settings EXCEPT !.timeout_us = Head(toServer).value]
  /\ toServer' = Tail(toServer)
  /\ UNCHANGED <<clientVars, toClient, put_pid, wstatus, handler, itimer, sigalrm, putVars>>

\* Mutant: a short read is taken for InvalidCommand.
RecvEndOfFileIgnored ==
  /\ At("WaitForAPICall") \/ At("RecvU64")
  /\ EndOfFile
  /\ server' = "WaitForAPICall"
  /\ UNCHANGED <<clientVars, toServer, toClient, serverVars, itimer, sigalrm, putVars>>

\* read() returns 0 before the whole command or value has come.
RecvEndOfFile ==
  /\ At("WaitForAPICall") \/ At("RecvU64")
  /\ EndOfFile
  /\ ServerEnds("Exited")
  /\ UNCHANGED <<clientVars, toServer, toClient, serverVars, putVars>>

\* The child inherits the settings and the signal handler, but neither the
\* timer nor a pending signal.
Inherited == [settings |-> settings, handler |-> handler]

\* SIGALRM between the return of fork() and the store to put_pid goes to the
\* old pid: it is the same as one that comes before fork().
ExecutePUT ==
  /\ At("ExecutePUT")
  /\ put_pid' = put_pid + 1
  /\ put' = [put EXCEPT ![put_pid + 1] = "setup"]
  /\ image' = [image EXCEPT ![put_pid + 1] = Inherited]
  /\ server' = "SetTimer"
  /\ UNCHANGED <<clientVars, toServer, toClient, settings, wstatus, handler, itimer,
                 sigalrm, status, killer>>

\* Mutant: -1 is taken for the pid of a child.
ForkFailsUnchecked ==
  /\ ForkMayFail
  /\ At("ExecutePUT")
  /\ put_pid' = -1
  /\ server' = "SetTimer"
  /\ UNCHANGED <<clientVars, toServer, toClient, settings, wstatus, handler, itimer,
                 sigalrm, putVars>>

\* fork() returns -1, which is stored before it is looked at.
ForkFails ==
  /\ ForkMayFail
  /\ At("ExecutePUT")
  /\ put_pid' = -1
  /\ server' = "ForkFailed"
  /\ UNCHANGED <<clientVars, toServer, toClient, settings, wstatus, handler, itimer,
                 sigalrm, putVars>>

\* perror() and exit(), with the timer of the last run still armed.
ExitAfterFork ==
  /\ At("ForkFailed")
  /\ ServerEnds("Exited")
  /\ UNCHANGED <<clientVars, toServer, toClient, serverVars, putVars>>

\* Mutant: a timer that is still armed is left as it is.
ArmedOnce ==
  IF itimer # 0 THEN itimer ELSE IF settings.timeout_us = 0 THEN 0 ELSE put_pid

\* What the timer is armed for after setitimer(); zero disarms it.
Armed == IF settings.timeout_us = 0 THEN 0 ELSE put_pid

SetTimer ==
  /\ server = "SetTimer"
  /\ itimer' = Armed
  /\ server' = "SetHandler"
  /\ UNCHANGED <<clientVars, toServer, toClient, serverVars, sigalrm, putVars>>

SetHandler ==
  /\ At("SetHandler")
  /\ handler' = TRUE
  /\ server' = "WaitPUT"
  /\ UNCHANGED <<clientVars, toServer, toClient, settings, put_pid, wstatus, itimer,
                 sigalrm, putVars>>

\* Mutant: only WIFEXITED is looked at; waitpid() then fails and the server exits.
WaitEndedExitedOnly ==
  /\ At("WaitPUT")
  /\ put[put_pid] = "zombie"
  /\ put' = [put EXCEPT ![put_pid] = "reaped"]
  /\ IF status[put_pid].kind = "exited"
     THEN /\ wstatus' = status[put_pid]
          /\ server' = "SendResponse"
          /\ UNCHANGED <<itimer, sigalrm>>
     ELSE ServerEnds("Exited") /\ UNCHANGED wstatus
  /\ UNCHANGED <<clientVars, toServer, toClient, settings, put_pid, handler, status,
                 image, killer>>

\* Mutant: the status of an earlier run is reported.
WaitEndedKeepsStatus ==
  /\ At("WaitPUT")
  /\ put[put_pid] = "zombie"
  /\ put' = [put EXCEPT ![put_pid] = "reaped"]
  /\ wstatus' = IF wstatus = NoStatus THEN status[put_pid] ELSE wstatus
  /\ server' = "SendResponse"
  /\ UNCHANGED <<clientVars, toServer, toClient, settings, put_pid, handler, itimer,
                 sigalrm, status, image, killer>>

\* Mutant: the default action of SIGALRM is restored when the run ends.
WaitEndedRestoresHandler ==
  /\ At("WaitPUT")
  /\ put[put_pid] = "zombie"
  /\ put' = [put EXCEPT ![put_pid] = "reaped"]
  /\ wstatus' = status[put_pid]
  /\ server' = "SendResponse"
  /\ handler' = FALSE
  /\ UNCHANGED <<clientVars, toServer, toClient, settings, put_pid, itimer, sigalrm,
                 status, image, killer>>

\* waitpid() returns a PUT that has ended: WIFEXITED | WIFSIGNALED.
WaitEnded ==
  /\ At("WaitPUT")
  /\ put[put_pid] = "zombie"
  /\ put' = [put EXCEPT ![put_pid] = "reaped"]
  /\ wstatus' = status[put_pid]
  /\ server' = "SendResponse"
  /\ UNCHANGED <<clientVars, toServer, toClient, settings, put_pid, handler, itimer,
                 sigalrm, status, image, killer>>

\* Mutant: any pid that waitpid() returns is answered for.
WaitStoppedAnswers ==
  /\ At("WaitPUT")
  /\ put[put_pid] = "stopped"
  /\ put' = [put EXCEPT ![put_pid] = "stopSeen"]
  /\ server' = "SendResponse"
  /\ UNCHANGED <<clientVars, toServer, toClient, serverVars, itimer, sigalrm,
                 status, image, killer>>

\* WUNTRACED: waitpid() returns once for a stop, and the loop goes on.
WaitStopped ==
  /\ At("WaitPUT")
  /\ put[put_pid] = "stopped"
  /\ put' = [put EXCEPT ![put_pid] = "stopSeen"]
  /\ UNCHANGED <<clientVars, toServer, toClient, server, serverVars, itimer, sigalrm,
                 status, image, killer>>

SendResponse == Reply("SendResponse", "WaitForAPICall", ResponseOf(wstatus))

-------------------------------------------------------------------------------
(* The timer and its signal. *)

\* Two alarms that are pending at once are one.
Expire ==
  /\ itimer # 0
  /\ itimer' = 0
  /\ sigalrm' = IF sigalrm = 0 THEN itimer ELSE sigalrm
  /\ UNCHANGED <<clientVars, toServer, toClient, server, serverVars, putVars>>

\* Mutant: a signal that a stopped process does not take.
KillRunning(p) ==
  IF put[p] \in {"setup", "running"}
  THEN /\ put' = [put EXCEPT ![p] = "zombie"]
       /\ status' = [status EXCEPT ![p] = Signaled(SIGKILL)]
       /\ killer' = [killer EXCEPT ![p] = sigalrm]
  ELSE UNCHANGED <<put, status, killer>>

\* kill(put_pid, SIGKILL); on a PUT that has ended it does nothing.
Kill(p) ==
  IF put[p] \in PutLive
  THEN /\ put' = [put EXCEPT ![p] = "zombie"]
       /\ status' = [status EXCEPT ![p] = Signaled(SIGKILL)]
       /\ killer' = [killer EXCEPT ![p] = sigalrm]
  ELSE UNCHANGED <<put, status, killer>>

\* What SIGKILL to a whole process group, or to every process, does to the PUTs.
KillPuts ==
  /\ put' = [q \in Runs |-> IF put[q] \in PutLive THEN "zombie" ELSE put[q]]
  /\ status' = [q \in Runs |-> IF put[q] \in PutLive THEN Signaled(SIGKILL)
                                                    ELSE status[q]]

\* SIGKILL of the client, which may have gone.
KillClient ==
  /\ client' = IF ClientAlive THEN "Killed" ELSE client
  /\ UNCHANGED <<asked, left, sent, requested, replies>>

\* After a failed fork put_pid is -1: kill(-1, SIGKILL) ends every process that
\* the server may signal, the client among them, except the server itself.
PUTTimeoutHandler ==
  /\ sigalrm # 0
  /\ handler
  /\ itimer' = 0
  /\ sigalrm' = 0
  /\ \/ put_pid # -1 /\ Kill(put_pid) /\ UNCHANGED clientVars
     \/ put_pid = -1 /\ KillPuts /\ KillClient /\ UNCHANGED killer
  /\ UNCHANGED <<toServer, toClient, server, serverVars, image>>

\* The default action of SIGALRM.
AlarmWithoutHandler ==
  /\ sigalrm # 0
  /\ ~handler
  /\ ServerEnds("KilledByAlarm")
  /\ UNCHANGED <<clientVars, toServer, toClient, serverVars, putVars>>

-------------------------------------------------------------------------------
(* The programs under test. *)

PutStep(p, from, to) ==
  /\ put[p] \in from
  /\ put' = [put EXCEPT ![p] = to]
  /\ UNCHANGED <<clientVars, toServer, toClient, server, serverVars, itimer, sigalrm,
                 status, image, killer>>

PutEnds(p, from, s) ==
  /\ put[p] \in from
  /\ put' = [put EXCEPT ![p] = "zombie"]
  /\ status' = [status EXCEPT ![p] = s]
  /\ UNCHANGED <<clientVars, toServer, toClient, server, serverVars, itimer, sigalrm,
                 image, killer>>

\* AttachStdxxxFiles and the closing of the two descriptors.
PutSetup(p) == PutStep(p, {"setup"}, "running")

PutSetupFails(p) ==
  /\ image[p].settings.read_stdin \/ image[p].settings.save_stdout_stderr
  /\ PutEnds(p, {"setup"}, Exited(EXIT_FAILURE))

PutExits(p, c) == PutEnds(p, {"running"}, Exited(c))
PutCrashes(p, s) == PutEnds(p, {"running"}, Signaled(s))
PutStops(p) == PutStep(p, {"running"}, "stopped")
PutContinues(p) == PutStep(p, {"stopped", "stopSeen"}, "running")

\* SIGALRM of the PUT itself (it may use alarm(2)).  A PUT forked after the
\* handler was installed runs PUTTimeoutHandler with its own put_pid, which
\* fork() left at 0: kill(0, SIGKILL) ends the whole process group.
PutAlarm(p) ==
  \/ /\ ~image[p].handler
     /\ PutEnds(p, {"running"}, Signaled(SIGALRM))
  \/ /\ image[p].handler
     /\ put[p] = "running"
     /\ KillPuts
     /\ KillClient
     /\ IF server \in ServerEnded THEN UNCHANGED <<server, itimer, sigalrm>>
                                  ELSE ServerEnds("KilledByGroup")
     /\ UNCHANGED <<toServer, toClient, serverVars, image, killer>>

-------------------------------------------------------------------------------
ClientNext ==
  \/ \E id \in ExecutorIds : AttachToServer(id)
  \/ \E c \in ConfigCommands : SendConfigCommand(c)
  \/ SendTimeoutCommand
  \/ \E us \in Timeouts : SendTimeoutValue(us)
  \/ SendExecutePUT
  \/ WriteToNobody
  \/ WaitForkServerStart
  \/ ReadResponse
  \/ ReadEndOfFile
  \/ ClientLeaves

\* The steps the server takes by itself.
ServerNext ==
  \/ StartForkServer
  \/ StartFails
  \/ WaitClientAttach
  \/ TellClientServerHasStarted
  \/ WaitForAPICall
  \/ RecvU64
  \/ RecvEndOfFile
  \/ ExecutePUT
  \/ ForkFails
  \/ ExitAfterFork
  \/ SetTimer
  \/ SetHandler
  \/ WaitEnded
  \/ WaitStopped
  \/ SendResponse

SignalNext == PUTTimeoutHandler \/ AlarmWithoutHandler

PutNext ==
  \E p \in Runs :
    \/ PutSetup(p)
    \/ PutSetupFails(p)
    \/ \E c \in ExitCodes : PutExits(p, c)
    \/ \E s \in CrashSignals : PutCrashes(p, s)
    \/ PutStops(p)
    \/ PutContinues(p)
    \/ PutAlarm(p)

Next == ClientNext \/ ServerNext \/ StandaloneEnds \/ Expire \/ SignalNext \/ PutNext

Spec == Init /\ [][Next]_vars

(* The kernel runs every process that can run, delivers signals and lets timers
   expire.  Nothing obliges a client to send or to leave, or a PUT to end. *)
Fairness ==
  /\ WF_vars(ServerNext)
  /\ WF_vars(Expire)
  /\ WF_vars(SignalNext)
  /\ WF_vars(WaitForkServerStart \/ ReadResponse \/ ReadEndOfFile)
  /\ \A p \in Runs : WF_vars(PutSetup(p) \/ PutSetupFails(p))

FairSpec == Spec /\ Fairness

-------------------------------------------------------------------------------
(* What must hold. *)

\* The server reads each write of the client as what it was written as, so no
\* value is ever taken for a command (RecvU64 after SetPUTExecutionTimeout).
InFrame ==
  toServer # <<>> =>
    CASE server \in {"Start", "WaitClientAttach"} -> Head(toServer).type = "executor_id"
      [] server = "RecvU64" -> Head(toServer).type = "u64"
      [] server \in ServerEnded \union {"Standalone"} -> TRUE
      [] OTHER -> Head(toServer).type = "command"

\* The i-th response the client reads says how the i-th PUT ended, whatever
\* stopped, timed out or failed in between.
RepliesAreFates ==
  \A i \in 1 .. Len(replies) :
    put[i] = "reaped" /\ status[i] # NoStatus /\ replies[i] = ResponseOf(status[i])

\* While the client may send, no PUT is alive or unreaped: a new run never
\* overlaps an old one, even after the server has gone.
ClientNeverOverlapsPut ==
  client \in {"Ready", "SendTimeoutValue"} =>
    \A p \in Runs : put[p] \in {"absent", "reaped"}

\* The only write that may find nobody at the other end is the first one, when the
\* program or its log file could not be opened.  Once the handshake is answered the
\* client writes only while the server waits for it: whatever ends the server (a
\* failed fork, an alarm, a kill of the group) does so while the client waits.
WritesHaveReader ==
  /\ client \in {"Ready", "SendTimeoutValue"} => server \in {"WaitForAPICall", "RecvU64"}
  /\ client = "KilledByPipe" => server = "Exited" /\ put_pid = 0 /\ sent = 0

\* A PUT runs under the settings its client had asked for when it sent the
\* ExecutePUT command, though commands are pipelined and not acknowledged.
RunsAsRequested ==
  \A p \in Runs : put[p] # "absent" => image[p].settings = requested[p]

\* The timer of a run is never disarmed when the run ends.  Still, its SIGALRM
\* kills no PUT but its own and the next one; it ends the server itself only
\* while the first run has not yet installed the handler; and it ends the client
\* only through a PUT that has inherited the handler, which the first has not, or
\* when the next fork fails, and then only if the run before it had a timeout.
AlarmsAreContained ==
  /\ \A p \in Runs : killer[p] # 0 => killer[p] \in {p - 1, p}
  /\ server = "KilledByAlarm" => put_pid = 1
  /\ server = "KilledByGroup" => put_pid > 1
  /\ client = "Killed" =>
       \/ put_pid > 1 /\ image[put_pid].handler
       \/ put_pid = -1 /\ sent > 1 /\ requested[sent - 1].timeout_us # 0

\* When the response is missing and the client aborts, the PUT of that run was
\* never waited for: no outcome the server had in hand is lost.
AbortedLosesNoOutcome == client = "Aborted" => put[sent] # "reaped"

\* A run with a timeout does not keep its client waiting for ever.
AnsweredOrFailed ==
  (client = "AwaitResponse" /\ requested[sent].timeout_us # 0)
    ~> (client # "AwaitResponse")

\* Once the client has gone the server ends for good, unless it runs as a plain
\* program or waits for ever for a PUT without a timeout.
ServerFollowsClient ==
  ~ClientAlive ~>
    [](\/ server \in ServerEnded \union {"Standalone"}
       \/ server = "WaitPUT" /\ settings.timeout_us = 0)

\* The service a client sees: a request is an ExecutePUT command, a run ends
\* when its PUT does, and the answer is the response the client reads.
NoResponse == [error |-> "NoResponseError", exit_code |-> 0, signal_number |-> 0]
Outcome(p) == IF status[p] = NoStatus THEN NoResponse ELSE ResponseOf(status[p])

Service == INSTANCE PutService WITH
  Outcomes <- Responses,
  NoOutcome <- NoResponse,
  requests <- sent,
  outcome <- [p \in Runs |-> Outcome(p)],
  answers <- replies,
  attached <- ClientAlive

ImplementsService == Service!Spec
-------------------------------------------------------------------------------
(* What the repository says of the program and the code does not do. *)

\* benchmark_client.cc asserts of every run that a response has come:
\* assert(response.error == None).
EveryRunAnswered == client # "Aborted"

\* forkserver.c arms the timer after each fork() to "Set timeout of PUT
\* execution": a PUT is killed for its own time alone.
KilledOnlyByOwnTimer == \A p \in Runs : killer[p] \in {0, p}
===============================================================================
