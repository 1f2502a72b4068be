------------------------------- MODULE Executor -------------------------------
(***************************************************************************)
(* The test executor of src/utils/executor.cpp: an object that starts a    *)
(* fork server, feeds it test cases through a file, collects the response  *)
(* and the two outputs of each run with epoll, and tears everything down.  *)
(* The fork server is seen here from outside, and does no more than        *)
(* ForkServer allows: it ends only while a run is under way, by a failed   *)
(* fork, or by an alarm in the first run.  The alarms that end the         *)
(* executor with it (ForkServer!AlarmsAreContained says which) are left    *)
(* out: nothing is left then to return from a call.                        *)
(*                                                                         *)
(* Each executor lives in a process of its own.  All of them use executor  *)
(* id 1, hence the same stdin file.                                        *)
(***************************************************************************)
EXTENDS Integers, Sequences

CONSTANTS
  Executors,  \* the executors
  NoFile,     \* what the stdin path leads to when there is no file
  MaxCalls,   \* bound: calls of operator() on each of them
  TestCases,  \* standard inputs
  Length,     \* [TestCases -> length in bytes]
  MaxChunks,  \* bound: writes of a PUT to each of its outputs
  PipeSize    \* bound: writes that an output pipe can hold

ASSUME CallAssumption == MaxCalls \in Nat \ {0} /\ MaxChunks \in Nat /\ PipeSize \in Nat \ {0}
ASSUME InputAssumption == Length \in [TestCases -> Nat] /\ NoFile \notin Executors

Outputs == {"stdout", "stderr"}
Events == Outputs \union {"response"}

\* The pipes of an executor, and the two processes that fork() shares them between.
Pipes == {"to_fork_server", "from_fork_server"} \union Outputs
Processes == {"executor", "server"}
Ends == {"read", "write"}

\* ExecutePUTAPIResponse: the run it is about, and whether the PUT ended or its
\* child could not open the stdin file.  The other two are no responses.
Fates == {"ended", "noStdin"}
Responses == (1 .. MaxCalls) \X Fates
NoResponseError == <<0, "NoResponseError">>
Pid == <<0, "pid">>

\* What the stdin file holds: the test case written last, and the size.
Contents == [test : TestCases \union {"none"}, size : Nat]
Exactly(t) == [test |-> t, size |-> Length[t]]
NoContents == [test |-> "none", size |-> 0]

\* A PUT has not read yet.  A file that nobody has written to is NoContents, and
\* reading it is reading an empty input.
Unread == [test |-> "unread", size |-> 0]

\* A write of a PUT: its run, and its place among the writes of that run.
Chunks == (1 .. MaxCalls) \X (1 .. MaxChunks)
NoOutput == [o \in Outputs |-> <<>>]

VARIABLES
  phase,       \* where the executor is in its constructor, a call, its destructor
  calls,       \* calls made
  testcase,    \* argument of the last call
  wait_for,    \* the timeout given to epoll_wait, -1 or 0
  registered,  \* descriptors in the epoll set
  response,    \* the response of the last call
  collected,   \* [Outputs -> what the last call has read of each]
  ends,        \* [Executors -> [process -> [Pipes -> ends that it has open]]]
  stdin_fd,    \* the file that target_stdin_fd refers to
  path,        \* the file that the stdin path leads to, named by who created it
  file,        \* [Executors -> contents of the file it created]
  toServer,    \* commands that the server has not read
  fromServer,  \* the pid and the responses that the executor has not read
  output,      \* [Outputs -> what is in the pipe]
  server,      \* the fork server
  put,         \* its PUT
  put_stdin,   \* the file the PUT reads
  input,       \* what the PUT has read
  written      \* [Outputs -> what the PUT has written]

callVars == <<calls, testcase, wait_for, registered, response, collected>>
ioVars == <<ends, stdin_fd, path, file>>
putVars == <<put, put_stdin, input, written>>
vars == <<phase, callVars, ioVars, toServer, fromServer, output, server, putVars>>

Phases == {"absent", "SetExecutorId", "ReadPid", "OpenStdin", "ready", "Truncate", "epoll_wait",
           "WaitServer", "destroyed", "thrown", "terminated"}
ServerStates == {"absent", "forked", "starting", "WaitForAPICall", "WaitPUT", "dead"}
PutStates == {"absent", "setup", "running"} \union Fates

TypeOK ==
  /\ phase \in [Executors -> Phases]
  /\ calls \in [Executors -> 0 .. MaxCalls]
  /\ testcase \in [Executors -> TestCases \union {"none"}]
  /\ wait_for \in [Executors -> {-1, 0}]
  /\ registered \in [Executors -> SUBSET Events]
  /\ response \in [Executors -> Responses \union {NoResponseError}]
  /\ collected \in [Executors -> [Outputs -> Seq(Chunks)]]
  /\ ends \in [Executors -> [Processes -> [Pipes -> SUBSET Ends]]]
  /\ stdin_fd \in [Executors -> Executors \union {NoFile}]
  /\ path \in Executors \union {NoFile}
  /\ file \in [Executors -> Contents]
  /\ toServer \in [Executors -> Seq({"ReadStdin", "ExecutePUT"})]
  /\ fromServer \in [Executors -> Seq(Responses \union {Pid})]
  /\ output \in [Executors -> [Outputs -> Seq(Chunks)]]
  /\ server \in [Executors -> ServerStates]
  /\ put \in [Executors -> PutStates]
  /\ put_stdin \in [Executors -> Executors \union {NoFile}]
  /\ input \in [Executors -> Contents \union {Unread}]
  /\ written \in [Executors -> [Outputs -> Seq(Chunks)]]

Init ==
  /\ phase = [e \in Executors |-> "absent"]
  /\ calls = [e \in Executors |-> 0]
  /\ testcase = [e \in Executors |-> "none"]
  /\ wait_for = [e \in Executors |-> -1]
  /\ registered = [e \in Executors |-> {}]
  /\ response = [e \in Executors |-> NoResponseError]
  /\ collected = [e \in Executors |-> NoOutput]
  /\ ends = [e \in Executors |-> [q \in Processes |-> [p \in Pipes |-> {}]]]
  /\ stdin_fd = [e \in Executors |-> NoFile]
  /\ path = NoFile
  /\ file = [e \in Executors |-> NoContents]
  /\ toServer = [e \in Executors |-> <<>>]
  /\ fromServer = [e \in Executors |-> <<>>]
  /\ output = [e \in Executors |-> NoOutput]
  /\ server = [e \in Executors |-> "absent"]
  /\ put = [e \in Executors |-> "absent"]
  /\ put_stdin = [e \in Executors |-> NoFile]
  /\ input = [e \in Executors |-> Unread]
  /\ written = [e \in Executors |-> NoOutput]

GoTo(e, p) == phase' = [phase EXCEPT ![e] = p]

-------------------------------------------------------------------------------
(* Pipe.  A process has the ends open[p] of pipe p open. *)

Readonly(open, P) == [p \in Pipes |-> IF p \in P THEN open[p] \ {"write"} ELSE open[p]]
Writeonly(open, P) == [p \in Pipes |-> IF p \in P THEN open[p] \ {"read"} ELSE open[p]]
CloseBoth(open, P) == Readonly(Writeonly(open, P), P)

\* Mutant: dup2() and nothing else.
PipeToFdDuplicates(open, P) == open

\* dup2() keeps an end open, the other one is closed.
PipeToFd(open, P) == Readonly(open, P)
FdToPipe(open, P) == Writeonly(open, P)

\* Somebody has the writing end of a pipe open.  A live PUT has what its server
\* had: it closes the numbers 196 and 197, which are duplicates.
WriterAlive(e, p) ==
  \/ "write" \in ends[e]["executor"][p]
  \/ /\ "write" \in ends[e]["server"][p]
     /\ server[e] \notin {"absent", "dead"} \/ put[e] \in {"setup", "running"}

\* The end of the process, or the destructors of its pipes.
AllClosed(e) == ends' = [ends EXCEPT ![e]["executor"] = CloseBoth(@, Pipes)]

-------------------------------------------------------------------------------
(* The constructor. *)

\* The pipes, and fork().
StartServer(e) ==
  /\ phase[e] = "absent"
  /\ GoTo(e, "SetExecutorId")
  /\ server' = [server EXCEPT ![e] = "forked"]
  /\ ends' = [ends EXCEPT ![e] = [q \in Processes |-> [p \in Pipes |-> Ends]]]
  /\ UNCHANGED <<callVars, stdin_fd, path, file, toServer, fromServer, output, putVars>>

\* The executor keeps one end of each pipe and writes its id, which the server
\* does not read yet.  SIGPIPE, if nobody is left to read it.
SetExecutorId(e) ==
  /\ phase[e] = "SetExecutorId"
  /\ IF server[e] = "dead"
     THEN GoTo(e, "terminated") /\ AllClosed(e)
     ELSE /\ GoTo(e, "ReadPid")
          /\ ends' = [ends EXCEPT ![e]["executor"] =
                         Readonly(Writeonly(@, {"to_fork_server"}),
                                  {"from_fork_server"} \union Outputs)]
  /\ UNCHANGED <<callVars, stdin_fd, path, file, toServer, fromServer, output, server, putVars>>

\* Mutant: the pid is not taken out of the pipe.
ReadPidPeeks(e) ==
  /\ phase[e] = "ReadPid"
  /\ fromServer[e] # <<>>
  /\ GoTo(e, "OpenStdin")
  /\ UNCHANGED <<callVars, ioVars, toServer, fromServer, output, server, putVars>>

ReadPid(e) ==
  /\ phase[e] = "ReadPid"
  /\ fromServer[e] # <<>>
  /\ fromServer' = [fromServer EXCEPT ![e] = Tail(@)]
  /\ GoTo(e, "OpenStdin")
  /\ UNCHANGED <<callVars, ioVars, toServer, output, server, putVars>>

\* "Fork server closed connection unexpectedly"
ReadPidFails(e) ==
  /\ phase[e] = "ReadPid"
  /\ fromServer[e] = <<>> /\ ~WriterAlive(e, "from_fork_server")
  /\ GoTo(e, "thrown") /\ AllClosed(e)
  /\ UNCHANGED <<callVars, stdin_fd, path, file, toServer, fromServer, output, server, putVars>>

CallForkServerAPI(e, command) == toServer' = [toServer EXCEPT ![e] = Append(@, command)]

\* OpenStdin, the ReadStdin command, and the epoll set.
OpenStdin(e) ==
  /\ phase[e] = "OpenStdin"
  /\ path' = IF path = NoFile THEN e ELSE path
  /\ stdin_fd' = [stdin_fd EXCEPT ![e] = path']
  /\ CallForkServerAPI(e, "ReadStdin")
  /\ registered' = [registered EXCEPT ![e] = Events]
  /\ GoTo(e, "ready")
  /\ UNCHANGED <<calls, testcase, wait_for, response, collected, ends, file, fromServer,
                 output, server, putVars>>

-------------------------------------------------------------------------------
(* A call of operator(). *)

\* lseek() and write() in WriteTestcaseToStdin leave the tail of a longer file.
Write(e, t) ==
  /\ phase[e] = "ready"
  /\ calls[e] < MaxCalls
  /\ calls' = [calls EXCEPT ![e] = @ + 1]
  /\ testcase' = [testcase EXCEPT ![e] = t]
  /\ file' = [file EXCEPT ![stdin_fd[e]] =
                [test |-> t, size |-> IF Length[t] > @.size THEN Length[t] ELSE @.size]]
  /\ GoTo(e, "Truncate")
  /\ UNCHANGED <<wait_for, registered, response, collected, ends, stdin_fd, path, toServer,
                 fromServer, output, server, putVars>>

\* Mutant: no ftruncate().
TruncatedNever(e) == file

\* ftruncate()
Truncated(e) == [file EXCEPT ![stdin_fd[e]].size = Length[testcase[e]]]

Truncate(e) ==
  /\ phase[e] = "Truncate"
  /\ file' = Truncated(e)
  /\ CallForkServerAPI(e, "ExecutePUT")
  /\ wait_for' = [wait_for EXCEPT ![e] = -1]
  /\ response' = [response EXCEPT ![e] = NoResponseError]
  /\ collected' = [collected EXCEPT ![e] = NoOutput]
  /\ GoTo(e, "epoll_wait")
  /\ UNCHANGED <<calls, testcase, registered, ends, stdin_fd, path, fromServer, output,
                 server, putVars>>

\* What epoll_wait reports as readable.
Readable(e, x) == x \in registered[e] /\ IF x = "response" THEN fromServer[e] # <<>>
                                                          ELSE output[e][x] # <<>>

\* EPOLLHUP alone: nothing left to read and nobody left to write.
HungUp(e, x) ==
  /\ x \in registered[e] /\ ~Readable(e, x)
  /\ ~WriterAlive(e, IF x = "response" THEN "from_fork_server" ELSE x)

ReadOutput(e, o) ==
  /\ phase[e] = "epoll_wait"
  /\ Readable(e, o)
  /\ collected' = [collected EXCEPT ![e][o] = Append(@, Head(output[e][o]))]
  /\ output' = [output EXCEPT ![e][o] = Tail(@)]
  /\ UNCHANGED <<phase, calls, testcase, wait_for, registered, response, ioVars,
                 toServer, fromServer, server, putVars>>

\* Mutant: epoll_wait keeps blocking after the response.
ReadResponseKeepsWaiting(e) ==
  /\ phase[e] = "epoll_wait"
  /\ Readable(e, "response")
  /\ response' = [response EXCEPT ![e] = Head(fromServer[e])]
  /\ fromServer' = [fromServer EXCEPT ![e] = Tail(@)]
  /\ UNCHANGED <<phase, calls, testcase, wait_for, registered, collected, ioVars,
                 toServer, output, server, putVars>>

\* Mutant: the loop ends with the response.
ReadResponseBreaks(e) ==
  /\ phase[e] = "epoll_wait"
  /\ Readable(e, "response")
  /\ response' = [response EXCEPT ![e] = Head(fromServer[e])]
  /\ fromServer' = [fromServer EXCEPT ![e] = Tail(@)]
  /\ GoTo(e, "ready")
  /\ UNCHANGED <<calls, testcase, wait_for, registered, collected, ioVars, toServer,
                 output, server, putVars>>

\* From here on epoll_wait only polls.
ReadResponse(e) ==
  /\ phase[e] = "epoll_wait"
  /\ Readable(e, "response")
  /\ response' = [response EXCEPT ![e] = Head(fromServer[e])]
  /\ fromServer' = [fromServer EXCEPT ![e] = Tail(@)]
  /\ wait_for' = [wait_for EXCEPT ![e] = 0]
  /\ UNCHANGED <<phase, calls, testcase, registered, collected, ioVars, toServer,
                 output, server, putVars>>

\* A descriptor that only hangs up is detached for good.
Detach(e, x) ==
  /\ phase[e] = "epoll_wait"
  /\ HungUp(e, x)
  /\ registered' = [registered EXCEPT ![e] = @ \ {x}]
  /\ UNCHANGED <<phase, calls, testcase, wait_for, response, collected, ioVars,
                 toServer, fromServer, output, server, putVars>>

\* Mutant: wait_for keeps the 0 of an earlier call.
PollingFromSecondCall(e) == calls[e] > 1 \/ wait_for[e] = 0

\* epoll_wait may return 0 only when it does not block.
Polling(e) == wait_for[e] = 0

Return(e) ==
  /\ phase[e] = "epoll_wait"
  /\ Polling(e)
  /\ \A x \in Events : ~Readable(e, x) /\ ~HungUp(e, x)
  /\ GoTo(e, "ready")
  /\ UNCHANGED <<callVars, ioVars, toServer, fromServer, output, server, putVars>>

-------------------------------------------------------------------------------
(* The destructor. *)

\* The file is removed, whoever made it.
CloseStdin(e) == path' = NoFile /\ stdin_fd' = [stdin_fd EXCEPT ![e] = NoFile]

\* remove() fails on a file that is gone, and the exception leaves a destructor.
\* Otherwise the pipes are closed.
Destroy(e) ==
  /\ phase[e] = "ready"
  /\ CloseStdin(e)
  /\ AllClosed(e)
  /\ GoTo(e, IF path = NoFile THEN "terminated" ELSE "WaitServer")
  /\ UNCHANGED <<callVars, file, toServer, fromServer, output, server, putVars>>

\* waitpid() of the fork server.
WaitServer(e) ==
  /\ phase[e] = "WaitServer"
  /\ server[e] = "dead"
  /\ GoTo(e, "destroyed")
  /\ UNCHANGED <<callVars, ioVars, toServer, fromServer, output, server, putVars>>

-------------------------------------------------------------------------------
(* The fork server, from outside. *)

ServerOnly == <<phase, callVars, ioVars, output>>

\* In the child of fork(): the pipes become 196, 197, 1 and 2, and execve().
ServerExecs(e) ==
  /\ server[e] = "forked"
  /\ server' = [server EXCEPT ![e] = "starting"]
  /\ ends' = [ends EXCEPT ![e]["server"] =
                 FdToPipe(PipeToFd(@, {"to_fork_server"}), {"from_fork_server"} \union Outputs)]
  /\ UNCHANGED <<phase, callVars, stdin_fd, path, file, output, toServer, fromServer, putVars>>

ServerStarts(e) ==
  /\ server[e] = "starting"
  /\ server' = [server EXCEPT ![e] = "WaitForAPICall"]
  /\ fromServer' = [fromServer EXCEPT ![e] = Append(@, Pid)]
  /\ UNCHANGED <<ServerOnly, toServer, putVars>>

\* execve() fails, or the program ends before its handshake.
ServerFailsToStart(e) ==
  /\ server[e] = "starting"
  /\ server' = [server EXCEPT ![e] = "dead"]
  /\ UNCHANGED <<ServerOnly, toServer, fromServer, putVars>>

ServerReadsCommand(e) ==
  /\ server[e] = "WaitForAPICall"
  /\ toServer[e] # <<>>
  /\ toServer' = [toServer EXCEPT ![e] = Tail(@)]
  /\ IF Head(toServer[e]) = "ExecutePUT"
     THEN /\ server' = [server EXCEPT ![e] = "WaitPUT"]
          /\ put' = [put EXCEPT ![e] = "setup"]
          /\ input' = [input EXCEPT ![e] = Unread]
          /\ written' = [written EXCEPT ![e] = NoOutput]
     ELSE UNCHANGED <<server, put, input, written>>
  /\ UNCHANGED <<ServerOnly, fromServer, put_stdin>>

ServerForkFails(e) ==
  /\ server[e] = "WaitForAPICall"
  /\ toServer[e] # <<>> /\ Head(toServer[e]) = "ExecutePUT"
  /\ server' = [server EXCEPT ![e] = "dead"]
  /\ toServer' = [toServer EXCEPT ![e] = Tail(@)]
  /\ UNCHANGED <<ServerOnly, fromServer, putVars>>

\* The alarm that comes before its handler, in the first run.
ServerKilledByAlarm(e) ==
  /\ server[e] = "WaitPUT"
  /\ calls[e] = 1
  /\ server' = [server EXCEPT ![e] = "dead"]
  /\ UNCHANGED <<ServerOnly, toServer, fromServer, putVars>>

ServerAnswers(e) ==
  /\ server[e] = "WaitPUT"
  /\ put[e] \in Fates
  /\ fromServer' = [fromServer EXCEPT ![e] = Append(@, <<calls[e], put[e]>>)]
  /\ server' = [server EXCEPT ![e] = "WaitForAPICall"]
  /\ put' = [put EXCEPT ![e] = "absent"]
  /\ UNCHANGED <<ServerOnly, toServer, put_stdin, input, written>>

ServerReadsEndOfFile(e) ==
  /\ server[e] = "WaitForAPICall"
  /\ toServer[e] = <<>> /\ ~WriterAlive(e, "to_fork_server")
  /\ server' = [server EXCEPT ![e] = "dead"]
  /\ UNCHANGED <<ServerOnly, toServer, fromServer, putVars>>

-------------------------------------------------------------------------------
(* The program under test. *)

PutOnly == <<phase, callVars, ioVars, toServer, fromServer, server>>

\* AttachStdxxxFiles opens the path as it is now.
PutOpensStdin(e) ==
  /\ put[e] = "setup"
  /\ put_stdin' = [put_stdin EXCEPT ![e] = path]
  /\ put' = [put EXCEPT ![e] = IF path = NoFile THEN "noStdin" ELSE "running"]
  /\ UNCHANGED <<PutOnly, output, input, written>>

PutReads(e) ==
  /\ put[e] = "running"
  /\ input[e] = Unread
  /\ input' = [input EXCEPT ![e] = file[put_stdin[e]]]
  /\ UNCHANGED <<PutOnly, output, put, put_stdin, written>>

\* A write blocks while the pipe is full.
PutWrites(e, o) ==
  /\ put[e] = "running"
  /\ Len(written[e][o]) < MaxChunks
  /\ Len(output[e][o]) < PipeSize
  /\ LET chunk == <<calls[e], Len(written[e][o]) + 1>> IN
       /\ written' = [written EXCEPT ![e][o] = Append(@, chunk)]
       /\ output' = [output EXCEPT ![e][o] = Append(@, chunk)]
  /\ UNCHANGED <<PutOnly, put, put_stdin, input>>

\* By itself, by a crash, or by the timeout of the server.
PutEnds(e) ==
  /\ put[e] = "running"
  /\ put' = [put EXCEPT ![e] = "ended"]
  /\ UNCHANGED <<PutOnly, output, put_stdin, input, written>>

-------------------------------------------------------------------------------
ExecutorStep(e) ==
  \/ SetExecutorId(e)
  \/ ReadPid(e)
  \/ ReadPidFails(e)
  \/ OpenStdin(e)
  \/ Truncate(e)
  \/ \E o \in Outputs : ReadOutput(e, o)
  \/ ReadResponse(e)
  \/ \E x \in Events : Detach(e, x)
  \/ Return(e)
  \/ WaitServer(e)

ServerStep(e) ==
  \/ ServerExecs(e)
  \/ ServerStarts(e)
  \/ ServerFailsToStart(e)
  \/ ServerReadsCommand(e)
  \/ ServerForkFails(e)
  \/ ServerAnswers(e)
  \/ ServerReadsEndOfFile(e)

PutStep(e) ==
  \/ PutOpensStdin(e)
  \/ PutReads(e)
  \/ \E o \in Outputs : PutWrites(e, o)
  \/ PutEnds(e)

Next ==
  \E e \in Executors :
    \/ StartServer(e)
    \/ \E t \in TestCases : Write(e, t)
    \/ Destroy(e)
    \/ ExecutorStep(e)
    \/ ServerStep(e)
    \/ ServerKilledByAlarm(e)
    \/ PutStep(e)

Spec == Init /\ [][Next]_vars

(* The kernel runs the executor and the server.  A PUT ends while its server
   waits for it, if need be because the timeout, never 0 here, makes the server
   kill it.  Nobody has to make a call or to destroy the executor. *)
Fairness(e) ==
  /\ WF_vars(ExecutorStep(e))
  /\ WF_vars(ServerStep(e))
  /\ WF_vars(PutOpensStdin(e))
  /\ WF_vars(server[e] = "WaitPUT" /\ PutEnds(e))

FairSpec == Spec /\ \A e \in Executors : Fairness(e)

-------------------------------------------------------------------------------
(* What the repository says of the executor and the code does not do. *)

\* executor.hpp: "Run PUT once ... @return tuple of execution result, ...".
CallReturns == \A e \in Executors : phase[e] = "epoll_wait" ~> phase[e] # "epoll_wait"
===============================================================================
