----------------------------- MODULE HarnessProofs -----------------------------
(***************************************************************************)
(* Proofs about Harness, for any executors, calls, test cases, pipes and   *)
(* memory.                                                                 *)
(***************************************************************************)
EXTENDS Harness, SequenceTheorems, TLAPS

-------------------------------------------------------------------------------
(* Types of what an executor, its server and its programs do. *)

\* The ends of pipes that processes have open.
EndsOpen == [Processes -> [Pipes -> SUBSET Ends]]

\* Closing descriptors leaves ends of pipes.
LEMMA EndsTypes ==
  ASSUME ends \in [Executors -> EndsOpen], NEW e \in Executors, NEW q \in Processes, NEW P,
         NEW R
  PROVE  /\ Readonly(ends[e][q], P) \in [Pipes -> SUBSET Ends]
         /\ Readonly(Writeonly(ends[e][q], P), R) \in [Pipes -> SUBSET Ends]
         /\ CloseBoth(ends[e][q], P) \in [Pipes -> SUBSET Ends]
         /\ FdToPipe(PipeToFd(ends[e][q], P), R) \in [Pipes -> SUBSET Ends]
BY DEF EndsOpen, Readonly, Writeonly, CloseBoth, FdToPipe, PipeToFd

\* Types after the executor has dropped its ends, or everything.
LEMMA SetExecutorIdTypes ==
  ASSUME TypeOK, NEW e \in Executors, SetExecutorId(e) \/ ReadPidFails(e)
  PROVE  TypeOK'
<1>1. phase' \in [Executors -> Phases]
  <2>1. \/ phase' = [phase EXCEPT ![e] = "terminated"]
        \/ phase' = [phase EXCEPT ![e] = "ReadPid"]
        \/ phase' = [phase EXCEPT ![e] = "thrown"]
    BY Zenon DEF SetExecutorId, ReadPidFails, GoTo
  <2> QED
    BY <2>1 DEF TypeOK, Phases
<1>2. ends \in [Executors -> EndsOpen] /\ "executor" \in Processes
  BY DEF TypeOK, EndsOpen, Processes
<1>3. CASE ends' = [ends EXCEPT ![e]["executor"] = CloseBoth(@, Pipes)]
  <2>1. ends' \in [Executors -> EndsOpen]
    BY <1>2, <1>3, EndsTypes DEF EndsOpen
  <2> QED
    BY <1>1, <2>1 DEF TypeOK, SetExecutorId, ReadPidFails, callVars, putVars, EndsOpen
<1>4. CASE ends' = [ends EXCEPT ![e]["executor"] =
                         Readonly(Writeonly(@, {"to_fork_server"}),
                                  {"from_fork_server"} \union Outputs)]
  <2>1. ends' \in [Executors -> EndsOpen]
    BY <1>2, <1>4, EndsTypes DEF EndsOpen
  <2> QED
    BY <1>1, <2>1 DEF TypeOK, SetExecutorId, ReadPidFails, callVars, putVars, EndsOpen
<1> QED
  BY <1>3, <1>4 DEF SetExecutorId, ReadPidFails, AllClosed

\* Types after the pid was read.
LEMMA ReadPidTypes ==
  ASSUME TypeOK, NEW e \in Executors, ReadPid(e)
  PROVE  TypeOK'
<1>1. phase' \in [Executors -> Phases]
  BY DEF TypeOK, ReadPid, GoTo, Phases
<1>2. Tail(fromServer[e]) \in Seq(Responses \union {Pid})
  BY HeadTailProperties DEF TypeOK, ReadPid
<1>3. fromServer' \in [Executors -> Seq(Responses \union {Pid})]
  BY <1>2 DEF TypeOK, ReadPid
<1> QED
  BY <1>1, <1>3 DEF TypeOK, ReadPid, callVars, ioVars, putVars

\* A command at the end of the pipe.
LEMMA CommandTypes ==
  ASSUME TypeOK, NEW e \in Executors, NEW c \in {"ReadStdin", "ExecutePUT"}, CallForkServerAPI(e, c)
  PROVE  toServer' \in [Executors -> Seq({"ReadStdin", "ExecutePUT"})]
<1>1. Append(toServer[e], c) \in Seq({"ReadStdin", "ExecutePUT"})
  BY AppendProperties DEF TypeOK
<1> QED
  BY <1>1 DEF TypeOK, CallForkServerAPI

\* Types after the file was opened and announced.
LEMMA OpenStdinTypes ==
  ASSUME TypeOK, NEW e \in Executors, OpenStdin(e)
  PROVE  TypeOK'
<1>1. phase' \in [Executors -> Phases]
  BY DEF TypeOK, OpenStdin, GoTo, Phases
<1>2. path' \in Executors \union {NoFile} /\ stdin_fd' \in [Executors -> Executors \union {NoFile}]
  BY DEF TypeOK, OpenStdin
<1>3. toServer' \in [Executors -> Seq({"ReadStdin", "ExecutePUT"})]
  BY CommandTypes DEF OpenStdin
<1>4. registered' \in [Executors -> SUBSET Events]
  BY DEF TypeOK, OpenStdin
<1> QED
  BY <1>1, <1>2, <1>3, <1>4 DEF TypeOK, OpenStdin, putVars

\* Types after the test case was written.
LEMMA WriteTypes ==
  ASSUME TypeOK, NEW e \in Executors, NEW t \in TestCases, Write(e, t)
  PROVE  TypeOK'
<1>1. phase' \in [Executors -> Phases]
  BY DEF TypeOK, Write, GoTo, Phases
<1>2. calls' \in [Executors -> 0 .. MaxCalls]
  BY CallAssumption DEF TypeOK, Write
<1>3. testcase' \in [Executors -> TestCases \union {"none"}]
  BY DEF TypeOK, Write
<1>4. file' \in [Executors -> Contents]
  BY InputAssumption DEF TypeOK, Write, Contents
<1> QED
  BY <1>1, <1>2, <1>3, <1>4 DEF TypeOK, Write, putVars

\* Types after the run was asked for: the test case has a length.
LEMMA TruncateTypes ==
  ASSUME TypeOK, NEW e \in Executors, testcase[e] \in TestCases, Truncate(e)
  PROVE  TypeOK'
<1>1. phase' \in [Executors -> Phases]
  BY DEF TypeOK, Truncate, GoTo, Phases
<1>2. file' \in [Executors -> Contents]
  <2>1. file' = [file EXCEPT ![stdin_fd[e]] = [@ EXCEPT !.size = Length[testcase[e]]]]
    BY Zenon DEF Truncate, Truncated
  <2>2. ASSUME NEW r \in Contents
        PROVE  [r EXCEPT !.size = Length[testcase[e]]] \in Contents
    BY InputAssumption DEF Contents
  <2>3. file \in [Executors -> Contents]
    BY DEF TypeOK
  <2> QED
    BY <2>1, <2>2, <2>3
<1>3. toServer' \in [Executors -> Seq({"ReadStdin", "ExecutePUT"})]
  BY CommandTypes DEF Truncate
<1>4. wait_for' \in [Executors -> {-1, 0}]
      /\ response' \in [Executors -> Responses \union {NoResponseError}]
  BY DEF TypeOK, Truncate
<1>5. collected' \in [Executors -> [Outputs -> Seq(Chunks)]]
  <2>1. NoOutput \in [Outputs -> Seq(Chunks)]
    BY DEF NoOutput
  <2> QED
    BY <2>1 DEF TypeOK, Truncate
<1> QED
  BY <1>1, <1>2, <1>3, <1>4, <1>5 DEF TypeOK, Truncate, putVars

\* Types after a chunk was read.
LEMMA ReadOutputTypes ==
  ASSUME TypeOK, NEW e \in Executors, NEW o \in Outputs, ReadOutput(e, o)
  PROVE  TypeOK'
<1>1. output[e][o] \in Seq(Chunks) /\ output[e][o] # <<>> /\ collected[e][o] \in Seq(Chunks)
  BY DEF TypeOK, ReadOutput, Readable, Outputs
<1>2. Tail(output[e][o]) \in Seq(Chunks)
      /\ Append(collected[e][o], Head(output[e][o])) \in Seq(Chunks)
  BY <1>1, HeadTailProperties, AppendProperties
<1>3. output' \in [Executors -> [Outputs -> Seq(Chunks)]]
  BY <1>2 DEF TypeOK, ReadOutput
<1>4. collected' \in [Executors -> [Outputs -> Seq(Chunks)]]
  BY <1>2 DEF TypeOK, ReadOutput
<1> QED
  BY <1>3, <1>4 DEF TypeOK, ReadOutput, ioVars, putVars

\* Types after the response was read: it is no pid.
LEMMA ReadResponseTypes ==
  ASSUME TypeOK, NEW e \in Executors, Head(fromServer[e]) \in Responses, ReadResponse(e)
  PROVE  TypeOK'
<1>1. Tail(fromServer[e]) \in Seq(Responses \union {Pid})
  BY HeadTailProperties DEF TypeOK, ReadResponse, Readable
<1>2. fromServer' \in [Executors -> Seq(Responses \union {Pid})]
  BY <1>1 DEF TypeOK, ReadResponse
<1>3. wait_for' \in [Executors -> {-1, 0}]
      /\ response' \in [Executors -> Responses \union {NoResponseError}]
  BY DEF TypeOK, ReadResponse
<1> QED
  BY <1>2, <1>3 DEF TypeOK, ReadResponse, ioVars, putVars

\* Types after the steps that only wait.
LEMMA WaitTypes ==
  ASSUME TypeOK, NEW e \in Executors,
         \/ \E x \in Events : Detach(e, x)
         \/ Return(e)
         \/ WaitServer(e)
  PROVE  TypeOK'
<1>1. ASSUME NEW x \in Events, Detach(e, x) PROVE TypeOK'
  BY <1>1 DEF TypeOK, Detach, ioVars, putVars
<1>2. CASE Return(e)
  BY <1>2 DEF TypeOK, Return, GoTo, Phases, callVars, ioVars, putVars
<1>3. CASE WaitServer(e)
  BY <1>3 DEF TypeOK, WaitServer, GoTo, Phases, callVars, ioVars, putVars
<1> QED
  BY <1>1, <1>2, <1>3

\* Types after the destructor has closed everything.
LEMMA DestroyTypes ==
  ASSUME TypeOK, NEW e \in Executors, Destroy(e)
  PROVE  TypeOK'
<1>1. phase' \in [Executors -> Phases]
  BY DEF TypeOK, Destroy, GoTo, Phases
<1>2. path' \in Executors \union {NoFile} /\ stdin_fd' \in [Executors -> Executors \union {NoFile}]
  BY DEF TypeOK, Destroy, CloseStdin
<1>3. ends' \in [Executors -> EndsOpen]
  BY EndsTypes DEF TypeOK, Destroy, AllClosed, EndsOpen, Processes
<1> QED
  BY <1>1, <1>2, <1>3 DEF TypeOK, Destroy, callVars, putVars, EndsOpen

\* Types after fork().
LEMMA StartServerTypes ==
  ASSUME TypeOK, NEW e \in Executors, StartServer(e)
  PROVE  TypeOK'
<1>1. ends' \in [Executors -> EndsOpen]
  BY DEF TypeOK, StartServer, EndsOpen
<1>2. phase' \in [Executors -> Phases] /\ server' \in [Executors -> ServerStates]
  BY DEF TypeOK, StartServer, GoTo, Phases, ServerStates
<1>3. UNCHANGED <<callVars, stdin_fd, path, file, toServer, fromServer, output, putVars>>
  BY DEF StartServer
<1> QED
  BY <1>1, <1>2, <1>3 DEF TypeOK, callVars, putVars, EndsOpen

\* Types after a step of the server that is no reading and no answer.
LEMMA ServerTypes ==
  ASSUME TypeOK, NEW e \in Executors,
         \/ ServerExecs(e) \/ ServerStarts(e) \/ ServerFailsToStart(e) \/ ServerForkFails(e)
         \/ ServerKilledByAlarm(e) \/ ServerReadsEndOfFile(e)
  PROVE  TypeOK'
<1>1. server' \in [Executors -> ServerStates]
  BY DEF TypeOK, ServerExecs, ServerStarts, ServerFailsToStart, ServerForkFails,
         ServerKilledByAlarm,
         ServerReadsEndOfFile, ServerStates
<1>2. CASE ServerExecs(e)
  <2>1. ends' \in [Executors -> EndsOpen]
    BY <1>2, EndsTypes DEF TypeOK, ServerExecs, EndsOpen, Processes
  <2> QED
    BY <1>1, <1>2, <2>1 DEF TypeOK, ServerExecs, callVars, putVars, EndsOpen
<1>3. CASE ServerStarts(e)
  <2>1. Append(fromServer[e], Pid) \in Seq(Responses \union {Pid})
    BY AppendProperties DEF TypeOK
  <2>2. fromServer' \in [Executors -> Seq(Responses \union {Pid})]
    BY <1>3, <2>1 DEF TypeOK, ServerStarts
  <2> QED
    BY <1>1, <1>3, <2>2 DEF TypeOK, ServerStarts, ServerOnly, callVars, ioVars, putVars
<1>4. CASE ServerForkFails(e)
  <2>1. Tail(toServer[e]) \in Seq({"ReadStdin", "ExecutePUT"})
    BY <1>4, HeadTailProperties DEF TypeOK, ServerForkFails
  <2>2. toServer' \in [Executors -> Seq({"ReadStdin", "ExecutePUT"})]
    BY <1>4, <2>1 DEF TypeOK, ServerForkFails
  <2> QED
    BY <1>1, <1>4, <2>2 DEF TypeOK, ServerForkFails, ServerOnly, callVars, ioVars, putVars
<1>5. CASE ServerFailsToStart(e) \/ ServerKilledByAlarm(e) \/ ServerReadsEndOfFile(e)
  BY <1>1, <1>5 DEF TypeOK, ServerFailsToStart, ServerKilledByAlarm, ServerReadsEndOfFile,
                    ServerOnly,
                    callVars, ioVars, putVars
<1> QED
  BY <1>2, <1>3, <1>4, <1>5

\* Types after the server has read a command.
LEMMA ServerReadsCommandTypes ==
  ASSUME TypeOK, NEW e \in Executors, ServerReadsCommand(e)
  PROVE  TypeOK'
<1>1. Tail(toServer[e]) \in Seq({"ReadStdin", "ExecutePUT"})
  BY HeadTailProperties DEF TypeOK, ServerReadsCommand
<1>2. toServer' \in [Executors -> Seq({"ReadStdin", "ExecutePUT"})]
  BY <1>1 DEF TypeOK, ServerReadsCommand
<1>3. server' \in [Executors -> ServerStates] /\ put' \in [Executors -> PutStates]
  BY DEF TypeOK, ServerReadsCommand, ServerStates, PutStates
<1>4. NoOutput \in [Outputs -> Seq(Chunks)]
  BY DEF NoOutput
<1>5. \/ input' = [input EXCEPT ![e] = Unread] /\ written' = [written EXCEPT ![e] = NoOutput]
      \/ input' = input /\ written' = written
  BY DEF ServerReadsCommand
<1>6. input' \in [Executors -> Contents \union {Unread}]
  BY <1>5 DEF TypeOK
<1>7. written' \in [Executors -> [Outputs -> Seq(Chunks)]]
  BY <1>4, <1>5 DEF TypeOK
<1> QED
  BY <1>2, <1>3, <1>6, <1>7 DEF TypeOK, ServerReadsCommand, ServerOnly, callVars, ioVars

\* Types after the response: runs are counted from 1.
LEMMA ServerAnswersTypes ==
  ASSUME TypeOK, NEW e \in Executors, calls[e] > 0, ServerAnswers(e)
  PROVE  TypeOK'
<1>1. <<calls[e], put[e]>> \in Responses
  BY DEF TypeOK, ServerAnswers, Responses
<1>2. Append(fromServer[e], <<calls[e], put[e]>>) \in Seq(Responses \union {Pid})
  BY <1>1, AppendProperties DEF TypeOK
<1>3. fromServer' \in [Executors -> Seq(Responses \union {Pid})]
  BY <1>2 DEF TypeOK, ServerAnswers
<1>4. server' \in [Executors -> ServerStates] /\ put' \in [Executors -> PutStates]
  BY DEF TypeOK, ServerAnswers, ServerStates, PutStates
<1> QED
  BY <1>3, <1>4 DEF TypeOK, ServerAnswers, ServerOnly, callVars, ioVars

\* Types after the program has opened, read or ended: it reads an open file.
LEMMA PutTypes ==
  ASSUME TypeOK, NEW e \in Executors,
         PutOpensStdin(e) \/ PutEnds(e) \/ (put_stdin[e] \in Executors /\ PutReads(e))
  PROVE  TypeOK'
<1>1. CASE PutOpensStdin(e)
  BY <1>1 DEF TypeOK, PutOpensStdin, PutOnly, PutStates, Fates, callVars, ioVars
<1>2. CASE PutEnds(e)
  BY <1>2 DEF TypeOK, PutEnds, PutOnly, PutStates, Fates, callVars, ioVars
<1>3. CASE put_stdin[e] \in Executors /\ PutReads(e)
  BY <1>3 DEF TypeOK, PutReads, PutOnly, callVars, ioVars
<1> QED
  BY <1>1, <1>2, <1>3

\* Types after a chunk was written: runs and chunks are counted from 1.
LEMMA PutWritesTypes ==
  ASSUME TypeOK, NEW e \in Executors, calls[e] > 0, NEW o \in Outputs, PutWrites(e, o)
  PROVE  TypeOK'
<1> DEFINE chunk == <<calls[e], Len(written[e][o]) + 1>>
<1>1. output[e][o] \in Seq(Chunks) /\ written[e][o] \in Seq(Chunks)
  BY DEF TypeOK
<1>2. Len(written[e][o]) \in Nat
  BY <1>1, LenProperties
<1>3. chunk \in Chunks
  <2>1. calls[e] \in 1 .. MaxCalls
    BY CallAssumption DEF TypeOK
  <2>2. Len(written[e][o]) + 1 \in 1 .. MaxChunks
    BY <1>2, CallAssumption DEF PutWrites
  <2> QED
    BY <2>1, <2>2 DEF Chunks
<1>4. Append(output[e][o], chunk) \in Seq(Chunks) /\ Append(written[e][o], chunk) \in Seq(Chunks)
  BY <1>1, <1>3, AppendProperties
<1>5. output' = [output EXCEPT ![e][o] = Append(@, chunk)]
      /\ written' = [written EXCEPT ![e][o] = Append(@, chunk)]
  BY DEF PutWrites
<1> HIDE DEF chunk
<1>6. output' \in [Executors -> [Outputs -> Seq(Chunks)]]
      /\ written' \in [Executors -> [Outputs -> Seq(Chunks)]]
  BY <1>4, <1>5 DEF TypeOK
<1> QED
  BY <1>6 DEF TypeOK, PutWrites, PutOnly, callVars, ioVars

-------------------------------------------------------------------------------
(* The invariant. *)

\* An executor that has written a test case has been called with it.
OthersInv == \A e \in Executors :
  phase[e] = "Truncate" => calls[e] > 0 /\ testcase[e] \in TestCases

\* Where the test program is says where its executor may be.
PlaceInv ==
  /\ hpc \in {"create", "created", "clear", "construct"} => phase[executor] = "absent"
  /\ hpc = "start" => phase[executor] \in
       {"SetExecutorId", "ReadPid", "OpenStdin", "ready", "thrown", "terminated"}
  /\ hpc \in {"fill", "call", "read", "next"} => phase[executor] = "ready"
  /\ hpc = "wait" => phase[executor] \in {"Truncate", "epoll_wait", "ready"}
  /\ hpc = "destroy" => phase[executor] \in {"WaitServer", "destroyed", "terminated"}
  /\ hpc \in {"release", "returned"} => phase[executor] \in {"destroyed", "thrown"}
  /\ hpc = "crashed" => phase[executor] \in {"absent", "thrown", "terminated"}

\* The handshake: what is in the pipe, and who is alive, before the first call.
StartInv ==
  /\ phase[executor] = "absent" => server[executor] = "absent"
  /\ server[executor] = "absent" => phase[executor] = "absent"
  /\ server[executor] \in {"forked", "starting"} =>
       phase[executor] \in {"SetExecutorId", "ReadPid"} /\ fromServer[executor] = <<>>
  /\ phase[executor] \in {"SetExecutorId", "ReadPid"} => fromServer[executor] \in {<<>>, <<Pid>>}
  /\ phase[executor] \in {"absent", "SetExecutorId", "ReadPid", "OpenStdin"} =>
       calls[executor] = 0 /\ toServer[executor] = <<>>
  /\ phase[executor] \in {"thrown", "destroyed"} => server[executor] = "dead"
  /\ server[executor] # "absent" =>
       \A p \in {"from_fork_server"} \cup Outputs : "write" \in ends[executor]["server"][p]

\* Between calls nothing runs, and the pipes are empty, but for commands to ignore.
QuietInv ==
  phase[executor] # "epoll_wait" =>
    /\ toServer[executor] \in {<<>>, <<"ReadStdin">>}
    /\ put[executor] = "absent" /\ server[executor] # "WaitPUT"
    /\ \A o \in Outputs : output[executor][o] = <<>>
    /\ phase[executor] \in {"absent", "OpenStdin", "ready", "Truncate"} => fromServer[executor] = <<>>

\* c is a run, w what it has written, k and p what of this is read and in the pipe.
Balanced(c, w, k, p) ==
  /\ Len(w) = Len(k) + Len(p)
  /\ \A i \in 1 .. Len(w) : w[i] = <<c, i>>
  /\ \A i \in 1 .. Len(k) : k[i] = <<c, i>>
  /\ \A i \in 1 .. Len(p) : p[i] = <<c, Len(k) + i>>

\* Of each output, what is written is what is read and what is in the pipe.
Books ==
  \A o \in Outputs : Balanced(calls[executor], written[executor][o], collected[executor][o],
                              output[executor][o])

\* A call waits: the command is in the pipe.
Asked ==
  /\ toServer[executor] \in {<<"ReadStdin", "ExecutePUT">>, <<"ExecutePUT">>}
  /\ server[executor] # "WaitPUT" /\ put[executor] = "absent"
  /\ fromServer[executor] = <<>> /\ wait_for[executor] = -1
  /\ \A o \in Outputs : collected[executor][o] = <<>> /\ output[executor][o] = <<>>

\* A call waits: its program is alive, or ended and not yet reaped.
Running ==
  /\ toServer[executor] = <<>> /\ server[executor] = "WaitPUT" /\ put[executor] # "absent"
  /\ fromServer[executor] = <<>> /\ wait_for[executor] = -1
  /\ Books

\* A call waits: the response is in the pipe.
Answered ==
  /\ toServer[executor] = <<>> /\ server[executor] # "WaitPUT" /\ put[executor] = "absent"
  /\ \E f \in Fates : fromServer[executor] = << <<calls[executor], f>> >>
  /\ wait_for[executor] = -1
  /\ Books

\* A call has its response, and reads what is left in the outputs.
Told ==
  /\ toServer[executor] = <<>> /\ server[executor] # "WaitPUT" /\ put[executor] = "absent"
  /\ fromServer[executor] = <<>> /\ wait_for[executor] = 0
  /\ response[executor] \in {calls[executor]} \X Fates
  /\ Books

\* A call waits for a server that has died.
Lost ==
  /\ server[executor] = "dead" /\ wait_for[executor] = -1
  /\ toServer[executor] = <<>> /\ fromServer[executor] = <<>>

\* A call is in one of these stages, and one that has returned was told.
CallInv ==
  /\ phase[executor] = "epoll_wait" => /\ calls[executor] > 0
                                       /\ Asked \/ Running \/ Answered \/ Told \/ Lost
  /\ Returned => /\ response[executor] \in {calls[executor]} \X Fates
                 /\ toServer[executor] = <<>>
                 /\ Books

\* An output that was detached has no writer left.
DetachedInv ==
  phase[executor] \in {"ready", "Truncate", "epoll_wait"} =>
    \A o \in Outputs : o \notin registered[executor] =>
      /\ output[executor][o] = <<>>
      /\ server[executor] = "dead" /\ put[executor] \notin {"setup", "running"}

\* How many iterators there are at each place, and what that means for the segment.
SegmentInv ==
  /\ hpc = "create" => owners = 0 /\ ~attached /\ segment = "none"
  /\ hpc \in {"create", "created", "clear", "construct"} => ~mapped
  /\ hpc \in {"created", "construct", "start", "call", "wait", "next", "destroy"} => owners = 2
  /\ hpc \in {"clear", "fill", "read"} => owners = 4
  /\ hpc = "release" => owners \in 1 .. 2
  /\ hpc = "returned" => owners = 0 /\ ~attached /\ segment = "removed"
  /\ hpc # "crashed" /\ owners > 0 => attached /\ segment = "present"

\* What the memory holds: outside the loops that clear it, what was written since
\* it was cleared last.  While a call is under way and until the next one, its
\* number is in the bytes that its run has touched, and only there.
MemoryInv ==
  /\ hpc \in {"clear", "fill"} =>
       since = {} /\ \A i \in Indices : i < position => bytes[i] = Clear
  /\ hpc \in {"create", "created", "construct", "start", "call", "wait", "read", "next"} =>
       \A i \in Indices : bytes[i] \in {Clear} \cup since
  /\ \A c \in since : c <= calls[executor]
  /\ ByServer \in since => bytes[0] # Clear
  /\ hpc \in {"wait", "read", "next"} =>
       /\ calls[executor] \in since
       /\ \A i \in Indices : bytes[i] = calls[executor] <=> i \in touched
  /\ hpc = "wait" => seen = <<>>
  /\ hpc = "read" => Len(seen) = position
  /\ hpc = "next" => Len(seen) = Size
  /\ hpc \in {"read", "next"} => \A i \in 1 .. Len(seen) : seen[i] = bytes[i - 1]

\* No other test program has been called.
OthersIdle == \A e \in Executors \ {executor} : calls[e] = 0

\* The destructor of another executor has removed the path.
Removed == \E e \in Executors \ {executor} : phase[e] \in {"WaitServer", "terminated"}

\* Only the file of the executor has contents, those of its test case, and it is
\* the file that a program opens unless the path has been removed.
FileInv ==
  /\ put[executor] = "setup" => input[executor] = Unread
  /\ put[executor] = "running" => put_stdin[executor] \in Executors
  /\ phase[executor] \in {"ready", "Truncate", "epoll_wait"} =>
       stdin_fd[executor] \in Executors /\ (path = stdin_fd[executor] \/ Removed)
  /\ put[executor] = "running" => put_stdin[executor] = stdin_fd[executor] \/ Removed
  /\ OthersIdle =>
       /\ phase[executor] \notin {"WaitServer", "destroyed", "terminated"} =>
            \A f \in Executors \ {stdin_fd[executor]} : file[f] = NoContents
       /\ phase[executor] \in {"absent", "SetExecutorId", "ReadPid", "OpenStdin"} =>
            \A f \in Executors : file[f] = NoContents
       /\ phase[executor] = "Truncate" => file[stdin_fd[executor]].test = testcase[executor]
       /\ phase[executor] = "epoll_wait" => file[stdin_fd[executor]] = Exactly(testcase[executor])
       /\ put[executor] = "running" /\ input[executor] # Unread =>
            input[executor] = IF put_stdin[executor] = stdin_fd[executor]
                              THEN Exactly(testcase[executor]) ELSE NoContents

\* What the steps of executor, server and program keep.
ExecutorInv == TypeOK /\ OthersInv /\ StartInv /\ QuietInv /\ CallInv /\ DetachedInv /\ FileInv
\* The whole of it.
IInv == HarnessTypeOK /\ ExecutorInv /\ PlaceInv /\ SegmentInv /\ MemoryInv

-------------------------------------------------------------------------------
(* Facts that several steps need. *)

\* Sequences of one and two elements.
LEMMA SmallSequences ==
  ASSUME NEW x, NEW y
  PROVE  /\ Append(<<>>, x) = <<x>> /\ Append(<<x>>, y) = <<x, y>>
         /\ Head(<<x>>) = x /\ Tail(<<x>>) = <<>> /\ <<x>> # <<>>
         /\ Head(<<x, y>>) = x /\ Tail(<<x, y>>) = <<y>> /\ <<x, y>> # <<>>
<1>1. Append(<<>>, x) = <<x>>
  OBVIOUS
<1>2. Append(<<x>>, y) = <<x, y>>
  <2>1. <<x>> \in Seq({x, y}) /\ <<x, y>> \in Seq({x, y}) /\ Len(<<x>>) = 1 /\ Len(<<x, y>>) = 2
    OBVIOUS
  <2>2. Append(<<x>>, y) \in Seq({x, y}) /\ Len(Append(<<x>>, y)) = 2
     BY <2>1, AppendProperties
  <2>3. Append(<<x>>, y)[1] = x /\ Append(<<x>>, y)[2] = y
     BY <2>1, AppendProperties
  <2>4. \A i \in 1 .. 2 : Append(<<x>>, y)[i] = <<x, y>>[i]
    BY <2>3
  <2> QED
    BY <2>1, <2>2, <2>4, SeqEqual
<1>3. Head(<<x>>) = x /\ <<x>> # <<>>
  OBVIOUS
<1>4. Tail(<<x>>) = <<>>
  OBVIOUS
<1>5. Tail(<<x,y>>) = <<y>>
  OBVIOUS
<1>6. Head(<<x,y>>) = x /\ <<x, y>> # <<>>
  OBVIOUS
<1> QED BY <1>1,<1>2, <1>3, <1>4, <1>5, <1>6

\* What one process of the executor closes stays open in the other.
LEMMA ServerKeepsEnds ==
  ASSUME TypeOK, NEW v, ends' = [ends EXCEPT ![executor]["executor"] = v]
  PROVE  ends'[executor]["server"] = ends[executor]["server"]
BY HarnessAssumption DEF TypeOK, Processes

\* The books are kept by steps that leave the pipes alone.
LEMMA BooksKept ==
  ASSUME Books, written'[executor] = written[executor], collected'[executor] = collected[executor],
         output'[executor] = output[executor], calls'[executor] = calls[executor]
  PROVE  Books'
BY DEF Books

\* Nothing the executor does itself says whether another one has removed the path.
LEMMA RemovedKept ==
  ASSUME phase \in [Executors -> Phases],
         UNCHANGED phase \/ \E p : phase' = [phase EXCEPT ![executor] = p]
  PROVE  Removed' <=> Removed
BY HarnessAssumption DEF Removed

\* Between its calls an executor has nothing to keep.
LEMMA OutsideCalls ==
  ASSUME phase'[executor] # "epoll_wait", phase'[executor] # "ready" \/ calls'[executor] = 0
  PROVE  CallInv'
BY DEF CallInv, Returned

\* What is appended, of whatever set.
LEMMA AppendIs ==
  ASSUME NEW S, NEW s \in Seq(S), NEW x
  PROVE  /\ Len(Append(s, x)) = Len(s) + 1
         /\ \A i \in 1 .. Len(s) : Append(s, x)[i] = s[i]
         /\ Append(s, x)[Len(s) + 1] = x
BY SeqMonotonic, AppendProperties, LenProperties

\* The books of a run that has written nothing.
LEMMA BalancedBegin ==
  ASSUME NEW c
  PROVE  Balanced(c, <<>>, <<>>, <<>>)
BY DEF Balanced

\* The books after the first chunk in the pipe was read.
LEMMA BalancedRead ==
  ASSUME NEW c, NEW S, NEW w, NEW k \in Seq(S), NEW p \in Seq(S), p # <<>>, Balanced(c, w, k, p)
  PROVE  Balanced(c, w, Append(k, Head(p)), Tail(p))
<1>1. Len(p) \in Nat /\ Len(p) > 0 /\ Len(k) \in Nat
  BY LenProperties, EmptySeq
<1>2. Len(Tail(p)) = Len(p) - 1 /\ \A i \in 1 .. Len(Tail(p)) : Tail(p)[i] = p[i + 1]
  BY HeadTailProperties
<1>3. Head(p) = <<c, Len(k) + 1>>
  <2>1. Head(p) = p[1]
    OBVIOUS
  <2> QED
    BY <1>1, <2>1 DEF Balanced
<1>4. /\ Len(Append(k, Head(p))) = Len(k) + 1
      /\ \A i \in 1 .. Len(k) : Append(k, Head(p))[i] = k[i]
      /\ Append(k, Head(p))[Len(k) + 1] = Head(p)
  BY AppendIs
<1>5. \A i \in 1 .. Len(k) + 1 : Append(k, Head(p))[i] = <<c, i>>
  <2>1. ASSUME NEW i \in 1 .. Len(k) PROVE Append(k, Head(p))[i] = <<c, i>>
    BY <1>4 DEF Balanced
  <2> QED
    BY <1>1, <1>3, <1>4, <2>1
<1>6. \A i \in 1 .. Len(Tail(p)) : Tail(p)[i] = <<c, Len(k) + 1 + i>>
  <2>1. ASSUME NEW i \in 1 .. Len(Tail(p)) PROVE Tail(p)[i] = <<c, Len(k) + 1 + i>>
    <3>1. i + 1 \in 1 .. Len(p)
      BY <1>1, <1>2
    <3>2. p[i + 1] = <<c, Len(k) + (i + 1)>>
      BY <3>1 DEF Balanced
    <3>3. Len(k) + (i + 1) = Len(k) + 1 + i
      BY <1>1
    <3> QED
      BY <1>2, <3>2, <3>3
  <2> QED
    BY <2>1
<1>7. Len(w) = Len(k) + 1 + Len(Tail(p))
  BY <1>1, <1>2 DEF Balanced
<1> QED
  BY <1>4, <1>5, <1>6, <1>7 DEF Balanced

\* The books after a chunk was written.
LEMMA BalancedWrite ==
  ASSUME NEW c, NEW S, NEW w \in Seq(S), NEW k \in Seq(S), NEW p \in Seq(S), Balanced(c, w, k, p)
  PROVE  Balanced(c, Append(w, <<c, Len(w) + 1>>), k, Append(p, <<c, Len(w) + 1>>))
<1> DEFINE x == <<c, Len(w) + 1>>
<1>1. Len(p) \in Nat /\ Len(w) \in Nat /\ Len(k) \in Nat /\ Len(w) = Len(k) + Len(p)
  BY LenProperties DEF Balanced
<1>2. x = <<c, Len(k) + (Len(p) + 1)>>
  BY <1>1
<1>3. /\ Len(Append(w, x)) = Len(w) + 1 /\ Len(Append(p, x)) = Len(p) + 1
      /\ \A i \in 1 .. Len(w) : Append(w, x)[i] = w[i]
      /\ \A i \in 1 .. Len(p) : Append(p, x)[i] = p[i]
      /\ Append(w, x)[Len(w) + 1] = <<c, Len(w) + 1>>
      /\ Append(p, x)[Len(p) + 1] = <<c, Len(k) + (Len(p) + 1)>>
  BY <1>2, AppendIs
<1> HIDE DEF x
<1>4. \A i \in 1 .. Len(w) + 1 : Append(w, x)[i] = <<c, i>>
  <2>1. ASSUME NEW i \in 1 .. Len(w) PROVE Append(w, x)[i] = <<c, i>>
    BY <1>3 DEF Balanced
  <2> QED
    BY <1>1, <1>3, <2>1
<1>5. \A i \in 1 .. Len(p) + 1 : Append(p, x)[i] = <<c, Len(k) + i>>
  <2>1. ASSUME NEW i \in 1 .. Len(p) PROVE Append(p, x)[i] = <<c, Len(k) + i>>
    BY <1>3 DEF Balanced
  <2>2. ASSUME NEW i \in 1 .. Len(p) + 1, i \notin 1 .. Len(p) PROVE i = Len(p) + 1
    BY <1>1, <2>2
  <2> QED
    BY <1>3, <2>1, <2>2
<1>6. Len(Append(w, x)) = Len(k) + Len(Append(p, x))
  BY <1>1, <1>3
<1>7. Balanced(c, Append(w, x), k, Append(p, x))
  BY <1>3, <1>4, <1>5, <1>6 DEF Balanced
<1> QED
  BY <1>7 DEF x

-------------------------------------------------------------------------------
(* The steps of the executor, the server and the program under test. *)

\* fork() in the constructor: the server has both ends of every pipe.
LEMMA StartServerStep ==
  ASSUME ExecutorInv, StartServer(executor)
  PROVE  ExecutorInv'
<1> USE HarnessAssumption
<1>1. TypeOK'
  BY StartServerTypes DEF ExecutorInv
<1>2. OthersInv'
  BY DEF ExecutorInv, OthersInv, StartServer, GoTo, callVars
<1>3. StartInv'
  <2>1. /\ phase'[executor] = "SetExecutorId" /\ server'[executor] = "forked"
        /\ fromServer'[executor] = <<>> /\ calls'[executor] = 0 /\ toServer'[executor] = <<>>
    BY DEF ExecutorInv, TypeOK, StartInv, QuietInv, StartServer, GoTo, callVars
  <2>2. \A p \in Pipes : ends'[executor]["server"][p] = Ends
    BY DEF ExecutorInv, TypeOK, StartServer, Processes
  <2> QED
    BY <2>1, <2>2 DEF StartInv, Pipes, Ends
<1>4. QuietInv'
  BY DEF ExecutorInv, QuietInv, StartServer, putVars
<1>5. CallInv'
  BY DEF CallInv, Returned, StartServer, GoTo
<1>6. DetachedInv'
  BY DEF DetachedInv, StartServer, GoTo
<1>7. FileInv'
  BY DEF ExecutorInv, TypeOK, FileInv, Removed, OthersIdle, StartServer, GoTo, callVars, putVars
<1> QED
  BY <1>1, <1>2, <1>3, <1>4, <1>5, <1>6, <1>7 DEF ExecutorInv

\* The executor keeps its ends, or dies of SIGPIPE.
LEMMA SetExecutorIdStep ==
  ASSUME ExecutorInv, SetExecutorId(executor)
  PROVE  ExecutorInv'
<1> USE HarnessAssumption
<1>1. TypeOK'
  BY SetExecutorIdTypes DEF ExecutorInv
<1>2. OthersInv'
  BY DEF ExecutorInv, TypeOK, OthersInv, SetExecutorId, GoTo, callVars
<1>3. StartInv'
  <2>1. ends'[executor]["server"] = ends[executor]["server"]
    BY ServerKeepsEnds, Zenon DEF ExecutorInv, SetExecutorId, AllClosed
  <2>2. phase'[executor] \in {"ReadPid", "terminated"}
        /\ (phase'[executor] = "terminated" => server[executor] = "dead")
    BY DEF ExecutorInv, TypeOK, SetExecutorId, GoTo
  <2>3. UNCHANGED <<server, fromServer, calls, toServer>>
    BY DEF SetExecutorId, callVars
  <2> QED
    BY <2>1, <2>2, <2>3 DEF ExecutorInv, StartInv, SetExecutorId
<1>4. QuietInv'
  BY DEF ExecutorInv, TypeOK, QuietInv, SetExecutorId, GoTo, putVars
<1>5. CallInv'
  BY DEF ExecutorInv, TypeOK, CallInv, Returned, SetExecutorId, GoTo
<1>6. DetachedInv'
  BY DEF ExecutorInv, TypeOK, DetachedInv, SetExecutorId, GoTo
<1>7. FileInv'
  BY DEF ExecutorInv, TypeOK, FileInv, Removed, OthersIdle, SetExecutorId, GoTo, callVars, putVars
<1> QED
  BY <1>1, <1>2, <1>3, <1>4, <1>5, <1>6, <1>7 DEF ExecutorInv

\* The pid is all that the pipe holds.
LEMMA ReadPidStep ==
  ASSUME ExecutorInv, ReadPid(executor)
  PROVE  ExecutorInv'
<1> USE HarnessAssumption
<1>1. TypeOK'
  BY ReadPidTypes DEF ExecutorInv
<1>2. OthersInv'
  BY DEF ExecutorInv, OthersInv, ReadPid, GoTo, callVars
<1>3. StartInv'
  BY DEF ExecutorInv, TypeOK, StartInv, ReadPid, GoTo, callVars, ioVars
<1>4. QuietInv'
  <2>1. fromServer[executor] = <<Pid>>
    BY DEF ExecutorInv, StartInv, ReadPid
  <2>2. fromServer'[executor] = <<>>
    BY <2>1, SmallSequences DEF ExecutorInv, TypeOK, ReadPid
  <2>3. phase'[executor] = "OpenStdin"
    BY DEF ExecutorInv, TypeOK, ReadPid, GoTo
  <2> QED
    BY <2>2, <2>3 DEF ExecutorInv, QuietInv, ReadPid, putVars
<1>5. CallInv'
  BY DEF CallInv, Returned, ReadPid, GoTo
<1>6. DetachedInv'
  BY DEF DetachedInv, ReadPid, GoTo
<1>7. FileInv'
  BY DEF ExecutorInv, TypeOK, FileInv, Removed, OthersIdle, ReadPid, GoTo, callVars, ioVars, putVars
<1> QED
  BY <1>1, <1>2, <1>3, <1>4, <1>5, <1>6, <1>7 DEF ExecutorInv

\* A constructor that throws leaves a dead server.
LEMMA ReadPidFailsStep ==
  ASSUME ExecutorInv, ReadPidFails(executor)
  PROVE  ExecutorInv'
<1> USE HarnessAssumption
<1>1. TypeOK'
  BY SetExecutorIdTypes DEF ExecutorInv
<1>2. OthersInv'
  BY DEF ExecutorInv, OthersInv, ReadPidFails, GoTo, callVars
<1>3. StartInv'
  BY DEF ExecutorInv, TypeOK, StartInv, ReadPidFails, AllClosed, WriterAlive, GoTo
<1>4. QuietInv'
  BY DEF ExecutorInv, QuietInv, ReadPidFails, putVars
<1>5. CallInv'
  BY DEF CallInv, Returned, ReadPidFails, GoTo
<1>6. DetachedInv'
  BY DEF DetachedInv, ReadPidFails, GoTo
<1>7. FileInv'
  BY DEF ExecutorInv, TypeOK, FileInv, Removed, OthersIdle, ReadPidFails, GoTo, callVars, putVars
<1> QED
  BY <1>1, <1>2, <1>3, <1>4, <1>5, <1>6, <1>7 DEF ExecutorInv

\* The file of the executor, and the first command.
LEMMA OpenStdinStep ==
  ASSUME ExecutorInv, OpenStdin(executor)
  PROVE  ExecutorInv'
<1> USE HarnessAssumption
<1>1. TypeOK'
  BY OpenStdinTypes DEF ExecutorInv
<1>2. OthersInv'
  BY DEF ExecutorInv, OthersInv, OpenStdin, GoTo
<1>3. StartInv'
  BY DEF ExecutorInv, TypeOK, StartInv, OpenStdin, GoTo
<1>4. QuietInv'
  <2>1. toServer'[executor] = <<"ReadStdin">>
    BY SmallSequences DEF ExecutorInv, TypeOK, StartInv, OpenStdin, CallForkServerAPI
  <2>2. phase'[executor] = "ready"
    BY DEF ExecutorInv, TypeOK, OpenStdin, GoTo
  <2> QED
    BY <2>1, <2>2 DEF ExecutorInv, QuietInv, OpenStdin, putVars
<1>5. CallInv'
  <2>1. calls'[executor] = 0 /\ phase'[executor] = "ready"
    BY DEF ExecutorInv, TypeOK, StartInv, OpenStdin, GoTo
  <2> QED
    BY <2>1, OutsideCalls
<1>6. DetachedInv'
  <2>1. registered'[executor] = Events
    BY DEF ExecutorInv, TypeOK, OpenStdin
  <2> QED
    BY <2>1 DEF DetachedInv, Events
<1>7. FileInv'
  <2>1. /\ stdin_fd' = [stdin_fd EXCEPT ![executor] = path']
        /\ path' = IF path = NoFile THEN executor ELSE path
        /\ UNCHANGED <<put, put_stdin, input, file, calls, testcase>>
    BY DEF OpenStdin, putVars
  <2>2. phase'[executor] = "ready" /\ phase[executor] = "OpenStdin" /\ put[executor] = "absent"
    BY DEF ExecutorInv, TypeOK, QuietInv, OpenStdin, GoTo
  <2>3. stdin_fd'[executor] = path' /\ path' \in Executors
    BY <2>1 DEF ExecutorInv, TypeOK
  <2> QED
    BY <2>1, <2>2, <2>3 DEF ExecutorInv, FileInv, OthersIdle
<1> QED
  BY <1>1, <1>2, <1>3, <1>4, <1>5, <1>6, <1>7 DEF ExecutorInv

\* A call begins: nothing of an earlier one is in a pipe.
LEMMA WriteStep ==
  ASSUME ExecutorInv, NEW t \in TestCases, Write(executor, t)
  PROVE  ExecutorInv'
<1> USE HarnessAssumption
<1>1. TypeOK'
  BY WriteTypes DEF ExecutorInv
<1>2. OthersInv'
  BY DEF ExecutorInv, TypeOK, OthersInv, Write, GoTo
<1>3. StartInv'
  BY DEF ExecutorInv, StartInv, Write, GoTo
<1>4. QuietInv'
  BY DEF ExecutorInv, QuietInv, Write, putVars
<1>5. CallInv'
  BY DEF ExecutorInv, TypeOK, CallInv, Returned, Write, GoTo
<1>6. DetachedInv'
  BY DEF ExecutorInv, DetachedInv, Write, putVars
<1>7. FileInv'
  <2>1. stdin_fd[executor] \in Executors /\ put[executor] = "absent"
    BY DEF ExecutorInv, FileInv, QuietInv, Write
  <2>2. file'[stdin_fd[executor]].test = t
    BY <2>1 DEF ExecutorInv, TypeOK, Write, Contents
  <2>3. \A f \in Executors \ {stdin_fd[executor]} : file'[f] = file[f]
    BY DEF ExecutorInv, TypeOK, Write
  <2>4. testcase'[executor] = t /\ phase'[executor] = "Truncate"
    BY DEF ExecutorInv, TypeOK, Write, GoTo
  <2>5. OthersIdle' => OthersIdle
    BY DEF ExecutorInv, TypeOK, OthersIdle, Write
  <2>6. UNCHANGED <<put, put_stdin, stdin_fd, path, input>> /\ phase[executor] = "ready"
    BY DEF Write, putVars
  <2>7. Removed' <=> Removed
    BY RemovedKept DEF ExecutorInv, TypeOK, Write, GoTo
  <2> QED
    BY <2>1, <2>2, <2>3, <2>4, <2>5, <2>6, <2>7 DEF ExecutorInv, FileInv
<1> QED
  BY <1>1, <1>2, <1>3, <1>4, <1>5, <1>6, <1>7 DEF ExecutorInv

\* The file holds the test case, and the run is asked for.
LEMMA TruncateStep ==
  ASSUME ExecutorInv, Truncate(executor)
  PROVE  ExecutorInv'
<1> USE HarnessAssumption
<1>1. TypeOK'
  BY TruncateTypes DEF ExecutorInv, OthersInv, Truncate
<1>2. OthersInv'
  BY DEF ExecutorInv, OthersInv, Truncate, GoTo
<1>3. StartInv'
  BY DEF ExecutorInv, StartInv, Truncate, GoTo
<1>4. QuietInv'
  BY DEF ExecutorInv, TypeOK, QuietInv, Truncate, GoTo
<1>5. CallInv'
  <2>1. toServer'[executor] \in {<<"ReadStdin", "ExecutePUT">>, <<"ExecutePUT">>}
    <3>1. toServer[executor] \in {<<>>, <<"ReadStdin">>}
      BY DEF ExecutorInv, QuietInv, Truncate
    <3>2. toServer'[executor] = Append(toServer[executor], "ExecutePUT")
      BY DEF ExecutorInv, TypeOK, Truncate, CallForkServerAPI
    <3>3. Append(<<>>, "ExecutePUT") = <<"ExecutePUT">>
      BY SmallSequences
    <3>4. Append(<<"ReadStdin">>, "ExecutePUT") = <<"ReadStdin", "ExecutePUT">>
      BY SmallSequences
    <3> QED
      BY <3>1, <3>2, <3>3, <3>4
  <2>2. wait_for'[executor] = -1 /\ collected'[executor] = NoOutput /\ phase'[executor] = "epoll_wait"
    BY DEF ExecutorInv, TypeOK, Truncate, GoTo
  <2>3. \A o \in Outputs : collected'[executor][o] = <<>>
    BY <2>2 DEF NoOutput
  <2>4. calls'[executor] > 0
    BY DEF ExecutorInv, OthersInv, Truncate
  <2>5. Asked'
    BY <2>1, <2>2, <2>3 DEF Asked, ExecutorInv, QuietInv, Truncate, putVars
  <2> QED
    BY <2>2, <2>4, <2>5 DEF CallInv, Returned
<1>6. DetachedInv'
  BY DEF ExecutorInv, DetachedInv, Truncate, putVars
<1>7. FileInv'
  <2> DEFINE fd == stdin_fd[executor]
  <2>1. fd \in Executors /\ put[executor] = "absent"
    BY DEF ExecutorInv, FileInv, QuietInv, Truncate
  <2>2. file'[fd] = [file[fd] EXCEPT !.size = Length[testcase[executor]]]
    BY <2>1 DEF ExecutorInv, TypeOK, Truncate, Truncated
  <2>3. OthersIdle => file'[fd] = Exactly(testcase[executor])
    <3>1. file[fd] \in [test : TestCases \union {"none"}, size : Nat]
      BY <2>1 DEF ExecutorInv, TypeOK, Contents
    <3>2. OthersIdle => file[fd].test = testcase[executor]
      BY DEF ExecutorInv, FileInv, Truncate
    <3> QED
      BY <2>2, <3>1, <3>2 DEF Exactly
  <2>4. \A f \in Executors \ {fd} : file'[f] = file[f]
    BY DEF ExecutorInv, TypeOK, Truncate, Truncated
  <2>5. phase'[executor] = "epoll_wait"
    BY DEF ExecutorInv, TypeOK, Truncate, GoTo
  <2>6. UNCHANGED <<put, put_stdin, stdin_fd, path, input, testcase, calls>>
        /\ phase[executor] = "Truncate"
    BY DEF Truncate, putVars
  <2>7. Removed' <=> Removed
    BY RemovedKept DEF ExecutorInv, TypeOK, Truncate, GoTo
  <2> QED
    BY <2>1, <2>3, <2>4, <2>5, <2>6, <2>7 DEF ExecutorInv, FileInv, OthersIdle
<1> QED
  BY <1>1, <1>2, <1>3, <1>4, <1>5, <1>6, <1>7 DEF ExecutorInv

\* A chunk moves from the pipe to what the call returns.
LEMMA ReadOutputStep ==
  ASSUME ExecutorInv, NEW o \in Outputs, ReadOutput(executor, o)
  PROVE  ExecutorInv'
<1> USE HarnessAssumption
<1>1. TypeOK'
  BY ReadOutputTypes DEF ExecutorInv
<1>2. OthersInv'
  BY DEF ExecutorInv, OthersInv, ReadOutput
<1>3. StartInv'
  BY DEF ExecutorInv, StartInv, ReadOutput, ioVars
<1>4. QuietInv'
  BY DEF QuietInv, ReadOutput
<1>5. CallInv'
  <2>1. output[executor][o] # <<>> /\ output[executor][o] \in Seq(Chunks)
        /\ collected[executor][o] \in Seq(Chunks)
    BY DEF ExecutorInv, TypeOK, ReadOutput, Readable, Outputs
  <2>2. /\ output'[executor][o] = Tail(output[executor][o])
        /\ collected'[executor][o] = Append(collected[executor][o], Head(output[executor][o]))
        /\ \A q \in Outputs \ {o} : output'[executor][q] = output[executor][q]
                                    /\ collected'[executor][q] = collected[executor][q]
    BY DEF ExecutorInv, TypeOK, ReadOutput
  <2>3. ASSUME Books PROVE Books'
    <3>1. Balanced(calls[executor], written[executor][o], collected'[executor][o], output'[executor][o])
      BY <2>1, <2>2, <2>3, BalancedRead DEF Books
    <3>2. UNCHANGED <<written, calls>>
      BY DEF ReadOutput, putVars
    <3> QED
      BY <2>2, <2>3, <3>1, <3>2 DEF Books
  <2>4. ~Asked
    BY <2>1 DEF Asked
  <2>5. UNCHANGED <<phase, calls, wait_for, response, toServer, fromServer, server, put>>
    BY DEF ReadOutput, putVars
  <2>6. phase[executor] = "epoll_wait"
    BY DEF ReadOutput
  <2> QED
    BY <2>3, <2>4, <2>5, <2>6 DEF ExecutorInv, CallInv, Running, Answered, Told, Lost, Returned
<1>6. DetachedInv'
  BY DEF ExecutorInv, DetachedInv, ReadOutput, putVars
<1>7. FileInv'
  BY DEF ExecutorInv, TypeOK, FileInv, Removed, OthersIdle, ReadOutput, ioVars, putVars
<1> QED
  BY <1>1, <1>2, <1>3, <1>4, <1>5, <1>6, <1>7 DEF ExecutorInv

\* What is read is the response of the run, not the pid.
LEMMA ReadResponseStep ==
  ASSUME ExecutorInv, ReadResponse(executor)
  PROVE  ExecutorInv'
<1> USE HarnessAssumption
<1>1. TypeOK'
  <2>1. fromServer[executor] # <<>> /\ calls[executor] > 0
    BY DEF ExecutorInv, CallInv, ReadResponse, Readable
  <2>2. Answered
    BY <2>1 DEF ExecutorInv, CallInv, Asked, Running, Told, Lost, ReadResponse
  <2>3. Head(fromServer[executor]) \in {calls[executor]} \X Fates
    BY <2>2, SmallSequences DEF Answered
  <2>4. Head(fromServer[executor]) \in Responses
    BY <2>1, <2>3, CallAssumption DEF Responses, ExecutorInv, TypeOK
  <2> QED
    BY <2>4, ReadResponseTypes DEF ExecutorInv
<1>2. OthersInv'
  BY DEF ExecutorInv, OthersInv, ReadResponse
<1>3. StartInv'
  BY DEF ExecutorInv, StartInv, ReadResponse, ioVars
<1>4. QuietInv'
  BY DEF QuietInv, ReadResponse
<1>5. CallInv'
  <2>1. fromServer[executor] # <<>> /\ phase[executor] = "epoll_wait"
    BY DEF ReadResponse, Readable
  <2>2. Answered
    BY <2>1 DEF ExecutorInv, CallInv, Asked, Running, Told, Lost
  <2>3. Head(fromServer[executor]) \in {calls[executor]} \X Fates
        /\ Tail(fromServer[executor]) = <<>>
    BY <2>2, SmallSequences DEF Answered
  <2>4. /\ response'[executor] = Head(fromServer[executor]) /\ fromServer'[executor] = Tail(fromServer[executor])
        /\ wait_for'[executor] = 0
    BY DEF ExecutorInv, TypeOK, ReadResponse
  <2>5. UNCHANGED <<phase, calls, collected, toServer, server, output, written, put>>
    BY DEF ReadResponse, putVars
  <2>6. Told'
    BY <2>2, <2>3, <2>4, <2>5, BooksKept DEF Answered, Told
  <2> QED
    BY <2>1, <2>5, <2>6 DEF ExecutorInv, CallInv, Returned
<1>6. DetachedInv'
  BY DEF ExecutorInv, DetachedInv, ReadResponse, putVars
<1>7. FileInv'
  BY DEF ExecutorInv, TypeOK, FileInv, Removed, OthersIdle, ReadResponse, ioVars, putVars
<1> QED
  BY <1>1, <1>2, <1>3, <1>4, <1>5, <1>6, <1>7 DEF ExecutorInv

\* Only a dead server without a live program hangs up.
LEMMA DetachStep ==
  ASSUME ExecutorInv, NEW x \in Events, Detach(executor, x)
  PROVE  ExecutorInv'
<1> USE HarnessAssumption
<1>1. TypeOK'
  BY WaitTypes DEF ExecutorInv
<1>2. OthersInv'
  BY DEF ExecutorInv, OthersInv, Detach
<1>3. StartInv'
  BY DEF ExecutorInv, StartInv, Detach, ioVars
<1>4. QuietInv'
  BY DEF QuietInv, Detach
<1>5. CallInv'
  BY DEF ExecutorInv, CallInv, Asked, Running, Answered, Told, Lost, Books, Returned, Detach,
         putVars
<1>6. DetachedInv'
  <2>1. registered'[executor] = registered[executor] \ {x}
    BY DEF ExecutorInv, TypeOK, Detach
  <2>2. UNCHANGED <<phase, output, server, put, ends, fromServer>>
    BY DEF Detach, ioVars, putVars
  <2>3. ASSUME x \in Outputs
        PROVE  output[executor][x] = <<>> /\ server[executor] = "dead"
               /\ put[executor] \notin {"setup", "running"}
    <3>1. x # "response" /\ output[executor][x] = <<>> /\ ~WriterAlive(executor, x)
      BY <2>3 DEF Detach, HungUp, Readable, Outputs
    <3>2. server[executor] # "absent" /\ phase[executor] = "epoll_wait"
      BY DEF ExecutorInv, StartInv, Detach
    <3>3. "write" \in ends[executor]["server"][x]
      BY <2>3, <3>2 DEF ExecutorInv, StartInv
    <3> QED
      BY <3>1, <3>2, <3>3 DEF WriterAlive
  <2> QED
    BY <2>1, <2>2, <2>3 DEF ExecutorInv, DetachedInv
<1>7. FileInv'
  BY DEF ExecutorInv, TypeOK, FileInv, Removed, OthersIdle, Detach, ioVars, putVars
<1> QED
  BY <1>1, <1>2, <1>3, <1>4, <1>5, <1>6, <1>7 DEF ExecutorInv

\* Nothing is left to read when epoll_wait finds nothing.
LEMMA ReturnStep ==
  ASSUME ExecutorInv, Return(executor)
  PROVE  ExecutorInv'
<1> USE HarnessAssumption
<1>1. TypeOK'
  BY WaitTypes DEF ExecutorInv
<1>2. OthersInv'
  BY DEF ExecutorInv, OthersInv, Return, GoTo, callVars
<1>3. StartInv'
  BY DEF ExecutorInv, StartInv, Return, GoTo, ioVars
<1>4. QuietInv'
  <2>1. phase[executor] = "epoll_wait" /\ wait_for[executor] = 0
    BY DEF Return, Polling
  <2>2. Told
    BY <2>1 DEF ExecutorInv, CallInv, Asked, Running, Answered, Lost
  <2>3. \A o \in Outputs : output[executor][o] = <<>>
    <3>1. \A o \in Outputs : ~Readable(executor, o) /\ o # "response"
      BY DEF Return, Events, Outputs
    <3> QED
      BY <2>1, <3>1 DEF ExecutorInv, DetachedInv, Readable
  <2>4. phase'[executor] = "ready"
    BY DEF ExecutorInv, TypeOK, Return, GoTo
  <2>5. UNCHANGED <<toServer, fromServer, output, server, put>>
    BY DEF Return, putVars
  <2> QED
    BY <2>2, <2>3, <2>4, <2>5 DEF Told, QuietInv
<1>5. CallInv'
  <2>1. phase[executor] = "epoll_wait" /\ wait_for[executor] = 0
    BY DEF Return, Polling
  <2>2. Told
    BY <2>1 DEF ExecutorInv, CallInv, Asked, Running, Answered, Lost
  <2>3. phase'[executor] = "ready"
    BY DEF ExecutorInv, TypeOK, Return, GoTo
  <2>4. UNCHANGED <<calls, response, collected, toServer, output, written>>
    BY DEF Return, callVars, putVars
  <2>5. Books'
    BY <2>2, <2>4, BooksKept DEF Told
  <2> QED
    BY <2>2, <2>3, <2>4, <2>5 DEF Told, CallInv
<1>6. DetachedInv'
  BY DEF ExecutorInv, DetachedInv, Return, callVars, putVars
<1>7. FileInv'
  BY DEF ExecutorInv, TypeOK, FileInv, Removed, OthersIdle, Return, GoTo, callVars, ioVars, putVars
<1> QED
  BY <1>1, <1>2, <1>3, <1>4, <1>5, <1>6, <1>7 DEF ExecutorInv

\* The executor ends between two calls.
LEMMA DestroyStep ==
  ASSUME ExecutorInv, Destroy(executor)
  PROVE  ExecutorInv'
<1> USE HarnessAssumption
<1>1. TypeOK'
  BY DestroyTypes DEF ExecutorInv
<1>2. OthersInv'
  BY DEF ExecutorInv, OthersInv, Destroy, GoTo, callVars
<1>3. StartInv'
  BY DEF ExecutorInv, StartInv, Destroy, AllClosed, GoTo
<1>4. QuietInv'
  BY DEF ExecutorInv, QuietInv, Destroy, putVars
<1>5. CallInv'
  BY DEF ExecutorInv, TypeOK, CallInv, Returned, Destroy, GoTo
<1>6. DetachedInv'
  BY DEF ExecutorInv, TypeOK, DetachedInv, Destroy, GoTo
<1>7. FileInv'
  <2>1. phase'[executor] \in {"WaitServer", "terminated"} /\ put[executor] = "absent"
    BY DEF ExecutorInv, TypeOK, QuietInv, Destroy, GoTo
  <2>2. UNCHANGED <<put, put_stdin, input, file, calls, testcase>>
    BY DEF Destroy, callVars, putVars
  <2> QED
    BY <2>1, <2>2 DEF ExecutorInv, FileInv, OthersIdle
<1> QED
  BY <1>1, <1>2, <1>3, <1>4, <1>5, <1>6, <1>7 DEF ExecutorInv

\* waitpid() returns for a dead server.
LEMMA WaitServerStep ==
  ASSUME ExecutorInv, WaitServer(executor)
  PROVE  ExecutorInv'
<1> USE HarnessAssumption
<1>1. TypeOK'
  BY WaitTypes DEF ExecutorInv
<1>2. OthersInv'
  BY DEF ExecutorInv, OthersInv, WaitServer, GoTo, callVars
<1>3. StartInv'
  BY DEF ExecutorInv, StartInv, WaitServer, GoTo, ioVars
<1>4. QuietInv'
  BY DEF ExecutorInv, QuietInv, WaitServer, GoTo, putVars
<1>5. CallInv'
  BY DEF CallInv, Returned, WaitServer, GoTo
<1>6. DetachedInv'
  BY DEF DetachedInv, WaitServer, GoTo
<1>7. FileInv'
  <2>1. phase'[executor] = "destroyed" /\ put[executor] = "absent"
    BY DEF ExecutorInv, TypeOK, QuietInv, WaitServer, GoTo
  <2>2. UNCHANGED <<put, put_stdin, input, file, calls, testcase>>
    BY DEF WaitServer, callVars, putVars, ioVars
  <2> QED
    BY <2>1, <2>2 DEF ExecutorInv, FileInv, OthersIdle
<1> QED
  BY <1>1, <1>2, <1>3, <1>4, <1>5, <1>6, <1>7 DEF ExecutorInv

\* The server keeps the ends that it writes to.
LEMMA ServerExecsStep ==
  ASSUME ExecutorInv, ServerExecs(executor)
  PROVE  ExecutorInv'
<1> USE HarnessAssumption
<1>1. TypeOK'
  BY ServerTypes DEF ExecutorInv
<1>2. OthersInv'
  BY DEF ExecutorInv, OthersInv, ServerExecs, callVars
<1>3. StartInv'
  <2>1. ends'[executor]["server"] =
          FdToPipe(PipeToFd(ends[executor]["server"], {"to_fork_server"}),
                    {"from_fork_server"} \union Outputs)
    BY DEF ExecutorInv, TypeOK, ServerExecs, Processes
  <2>2. \A p \in {"from_fork_server"} \union Outputs : p \in Pipes /\ p # "to_fork_server"
    BY DEF Pipes, Outputs
  <2>3. \A p \in {"from_fork_server"} \union Outputs : "write" \in ends[executor]["server"][p]
    BY DEF ExecutorInv, StartInv, ServerExecs
  <2>4. \A p \in {"from_fork_server"} \union Outputs : "write" \in ends'[executor]["server"][p]
    BY <2>1, <2>2, <2>3 DEF FdToPipe, PipeToFd, Readonly, Writeonly
  <2>5. server'[executor] = "starting" /\ server[executor] = "forked"
    BY DEF ExecutorInv, TypeOK, ServerExecs
  <2>6. UNCHANGED <<phase, calls, toServer, fromServer>>
    BY DEF ServerExecs, callVars
  <2> QED
    BY <2>4, <2>5, <2>6 DEF ExecutorInv, StartInv
<1>4. QuietInv'
  BY DEF ExecutorInv, QuietInv, ServerExecs, putVars
<1>5. CallInv'
  BY DEF ExecutorInv, CallInv, Asked, Running, Answered, Told, Lost, Books, Returned, ServerExecs,
         callVars, putVars
<1>6. DetachedInv'
  BY DEF ExecutorInv, DetachedInv, ServerExecs, callVars
<1>7. FileInv'
  BY DEF ExecutorInv, TypeOK, FileInv, Removed, OthersIdle, ServerExecs, callVars, putVars
<1> QED
  BY <1>1, <1>2, <1>3, <1>4, <1>5, <1>6, <1>7 DEF ExecutorInv

\* The pid is the first thing in the pipe.
LEMMA ServerStartsStep ==
  ASSUME ExecutorInv, ServerStarts(executor)
  PROVE  ExecutorInv'
<1> USE HarnessAssumption
<1>1. TypeOK'
  BY ServerTypes DEF ExecutorInv
<1>2. OthersInv'
  BY DEF ExecutorInv, OthersInv, ServerStarts, ServerOnly, callVars
<1>3. StartInv'
  BY DEF ExecutorInv, TypeOK, StartInv, ServerStarts, ServerOnly, callVars, ioVars
<1>4. QuietInv'
  <2>1. phase[executor] \in {"SetExecutorId", "ReadPid"}
    BY DEF ExecutorInv, StartInv, ServerStarts
  <2>2. server'[executor] = "WaitForAPICall"
    BY DEF ExecutorInv, TypeOK, ServerStarts
  <2>3. UNCHANGED <<phase, toServer, put, output>>
    BY DEF ServerStarts, ServerOnly, putVars
  <2> QED
    BY <2>1, <2>2, <2>3 DEF ExecutorInv, QuietInv
<1>5. CallInv'
  <2>1. phase[executor] \in {"SetExecutorId", "ReadPid"} /\ UNCHANGED phase
    BY DEF ExecutorInv, StartInv, ServerStarts, ServerOnly
  <2> QED
    BY <2>1, OutsideCalls
<1>6. DetachedInv'
  BY DEF ExecutorInv, DetachedInv, ServerStarts, ServerOnly, callVars
<1>7. FileInv'
  BY DEF ExecutorInv, TypeOK, FileInv, Removed, OthersIdle, ServerStarts, ServerOnly, callVars, ioVars, putVars
<1> QED
  BY <1>1, <1>2, <1>3, <1>4, <1>5, <1>6, <1>7 DEF ExecutorInv

\* A server that does not start has not answered.
LEMMA ServerFailsToStartStep ==
  ASSUME ExecutorInv, ServerFailsToStart(executor)
  PROVE  ExecutorInv'
<1> USE HarnessAssumption
<1>1. TypeOK'
  BY ServerTypes DEF ExecutorInv
<1>2. OthersInv'
  BY DEF ExecutorInv, OthersInv, ServerFailsToStart, ServerOnly, callVars
<1>3. StartInv'
  BY DEF ExecutorInv, StartInv, ServerFailsToStart, ServerOnly, callVars, ioVars
<1>4. QuietInv'
  BY DEF ExecutorInv, QuietInv, ServerFailsToStart, ServerOnly, putVars
<1>5. CallInv'
  BY DEF ExecutorInv, CallInv, Asked, Running, Answered, Told, Lost, Books, Returned,
         ServerFailsToStart, ServerOnly, callVars, putVars
<1>6. DetachedInv'
  BY DEF ExecutorInv, DetachedInv, ServerFailsToStart, ServerOnly, callVars
<1>7. FileInv'
  BY DEF ExecutorInv, TypeOK, FileInv, Removed, OthersIdle, ServerFailsToStart, ServerOnly, callVars, ioVars,
         putVars
<1> QED
  BY <1>1, <1>2, <1>3, <1>4, <1>5, <1>6, <1>7 DEF ExecutorInv

\* ReadStdin changes nothing, ExecutePUT starts the run of the call.
LEMMA ServerReadsCommandStep ==
  ASSUME ExecutorInv, ServerReadsCommand(executor)
  PROVE  ExecutorInv'
<1> USE HarnessAssumption
<1>1. TypeOK'
  BY ServerReadsCommandTypes DEF ExecutorInv
<1>2. OthersInv'
  BY DEF ExecutorInv, OthersInv, ServerReadsCommand, ServerOnly, callVars
<1>3. StartInv'
  BY DEF ExecutorInv, TypeOK, StartInv, ServerReadsCommand, ServerOnly, ioVars
<1>4. QuietInv'
  <2>1. ASSUME phase[executor] # "epoll_wait"
        PROVE  toServer'[executor] = <<>> /\ UNCHANGED <<server, put>>
    <3>1. toServer[executor] = <<"ReadStdin">>
      BY <2>1 DEF ExecutorInv, QuietInv, ServerReadsCommand
    <3>2. Head(toServer[executor]) # "ExecutePUT" /\ Tail(toServer[executor]) = <<>>
      BY <3>1, SmallSequences
    <3> QED
      BY <3>2 DEF ExecutorInv, TypeOK, ServerReadsCommand
  <2>2. UNCHANGED <<phase, output, fromServer>>
    BY DEF ServerReadsCommand, ServerOnly
  <2> QED
    BY <2>1, <2>2 DEF ExecutorInv, QuietInv
<1>5. CallInv'
  <2>1. UNCHANGED <<phase, calls, wait_for, response, collected, fromServer, output>>
    BY DEF ServerReadsCommand, ServerOnly, callVars
  <2>2. toServer[executor] # <<>> /\ server[executor] = "WaitForAPICall"
    BY DEF ServerReadsCommand
  <2>3. toServer'[executor] = Tail(toServer[executor])
    BY DEF ExecutorInv, TypeOK, ServerReadsCommand
  <2>4. ASSUME phase[executor] = "epoll_wait"
        PROVE  CallInv'
    <3>1. Asked
      BY <2>2, <2>4 DEF ExecutorInv, CallInv, Running, Answered, Told, Lost
    <3>2. CASE toServer[executor] = <<"ReadStdin", "ExecutePUT">>
      <4>1. Head(toServer[executor]) # "ExecutePUT" /\ Tail(toServer[executor]) = <<"ExecutePUT">>
        BY <3>2, SmallSequences
      <4>2. UNCHANGED <<server, put>>
        BY <4>1 DEF ServerReadsCommand
      <4> QED
        BY <2>1, <2>3, <2>4, <3>1, <4>1, <4>2 DEF Asked, ExecutorInv, CallInv, Returned
    <3>3. CASE toServer[executor] = <<"ExecutePUT">>
      <4>1. Head(toServer[executor]) = "ExecutePUT" /\ Tail(toServer[executor]) = <<>>
        BY <3>3, SmallSequences
      <4>2. server'[executor] = "WaitPUT" /\ put'[executor] = "setup" /\ written'[executor] = NoOutput
        BY <4>1 DEF ExecutorInv, TypeOK, ServerReadsCommand
      <4>3. Books'
        BY <2>1, <3>1, <4>2, BalancedBegin DEF Books, Asked, NoOutput
      <4>4. Running'
        BY <2>1, <2>3, <3>1, <4>1, <4>2, <4>3 DEF Asked, Running
      <4> QED
        BY <2>1, <2>4, <4>4 DEF ExecutorInv, CallInv, Returned
    <3> QED
      BY <3>1, <3>2, <3>3 DEF Asked
  <2>5. ASSUME phase[executor] # "epoll_wait"
        PROVE  CallInv'
    <3>1. toServer[executor] = <<"ReadStdin">>
      BY <2>2, <2>5 DEF ExecutorInv, QuietInv
    <3>2. Head(toServer[executor]) # "ExecutePUT"
      BY <3>1, SmallSequences
    <3>3. UNCHANGED written
      BY <3>2 DEF ServerReadsCommand
    <3>4. calls[executor] = 0 \/ phase[executor] # "ready"
      BY <3>1, SmallSequences DEF ExecutorInv, TypeOK, CallInv, Returned
    <3> QED
      BY <2>1, <2>5, <3>4, OutsideCalls
  <2> QED
    BY <2>4, <2>5
<1>6. DetachedInv'
  BY DEF ExecutorInv, DetachedInv, ServerReadsCommand, ServerOnly, callVars
<1>7. FileInv'
  <2>1. \/ put'[executor] = "setup" /\ input'[executor] = Unread
        \/ UNCHANGED <<put, input>>
    BY DEF ExecutorInv, TypeOK, ServerReadsCommand
  <2>2. UNCHANGED <<phase, calls, testcase, put_stdin, stdin_fd, path, file>>
    BY DEF ServerReadsCommand, ServerOnly, callVars, ioVars
  <2>3. Removed' <=> Removed
    BY <2>2 DEF Removed
  <2> QED
    BY <2>1, <2>2, <2>3 DEF ExecutorInv, FileInv, OthersIdle
<1> QED
  BY <1>1, <1>2, <1>3, <1>4, <1>5, <1>6, <1>7 DEF ExecutorInv

\* The call is lost with the server.
LEMMA ServerForkFailsStep ==
  ASSUME ExecutorInv, ServerForkFails(executor)
  PROVE  ExecutorInv'
<1> USE HarnessAssumption
<1>1. TypeOK'
  BY ServerTypes DEF ExecutorInv
<1>2. OthersInv'
  BY DEF ExecutorInv, OthersInv, ServerForkFails, ServerOnly, callVars
<1>3. StartInv'
  BY DEF ExecutorInv, StartInv, ServerForkFails, ServerOnly, ioVars
<1>4. QuietInv'
  BY DEF ExecutorInv, QuietInv, ServerForkFails, ServerOnly
<1>5. CallInv'
  <2>1. phase[executor] = "epoll_wait" /\ Asked
    <3>1. toServer[executor] # <<>> /\ toServer[executor] # <<"ReadStdin">>
      BY SmallSequences DEF ServerForkFails
    <3>2. phase[executor] = "epoll_wait"
      BY <3>1 DEF ExecutorInv, QuietInv
    <3> QED
      BY <3>1, <3>2 DEF ExecutorInv, CallInv, Running, Answered, Told, Lost
  <2>2. toServer'[executor] = <<>>
    <3>1. toServer[executor] = <<"ExecutePUT">>
      BY <2>1, SmallSequences DEF Asked, ServerForkFails
    <3> QED
      BY <3>1, SmallSequences DEF ExecutorInv, TypeOK, ServerForkFails
  <2>3. server'[executor] = "dead"
    BY DEF ExecutorInv, TypeOK, ServerForkFails
  <2>4. UNCHANGED <<phase, calls, wait_for, fromServer>>
    BY DEF ServerForkFails, ServerOnly, callVars
  <2> QED
    BY <2>1, <2>2, <2>3, <2>4 DEF ExecutorInv, CallInv, Asked, Lost, Returned
<1>6. DetachedInv'
  BY DEF ExecutorInv, DetachedInv, ServerForkFails, ServerOnly, callVars
<1>7. FileInv'
  BY DEF ExecutorInv, TypeOK, FileInv, Removed, OthersIdle, ServerForkFails, ServerOnly, callVars, ioVars, putVars
<1> QED
  BY <1>1, <1>2, <1>3, <1>4, <1>5, <1>6, <1>7 DEF ExecutorInv

\* The call is lost with the server, and the program may live on.
LEMMA ServerKilledByAlarmStep ==
  ASSUME ExecutorInv, ServerKilledByAlarm(executor)
  PROVE  ExecutorInv'
<1> USE HarnessAssumption
<1>1. TypeOK'
  BY ServerTypes DEF ExecutorInv
<1>2. OthersInv'
  BY DEF ExecutorInv, OthersInv, ServerKilledByAlarm, ServerOnly, callVars
<1>3. StartInv'
  BY DEF ExecutorInv, StartInv, ServerKilledByAlarm, ServerOnly, ioVars
<1>4. QuietInv'
  BY DEF ExecutorInv, QuietInv, ServerKilledByAlarm, ServerOnly
<1>5. CallInv'
  BY DEF ExecutorInv, CallInv, Asked, Running, Answered, Told, Lost, Books, Returned,
         ServerKilledByAlarm, ServerOnly, callVars, putVars
<1>6. DetachedInv'
  BY DEF ExecutorInv, DetachedInv, ServerKilledByAlarm, ServerOnly, callVars
<1>7. FileInv'
  BY DEF ExecutorInv, TypeOK, FileInv, Removed, OthersIdle, ServerKilledByAlarm, ServerOnly, callVars, ioVars,
         putVars
<1> QED
  BY <1>1, <1>2, <1>3, <1>4, <1>5, <1>6, <1>7 DEF ExecutorInv

\* The response is that of the call.
LEMMA ServerAnswersStep ==
  ASSUME ExecutorInv, ServerAnswers(executor)
  PROVE  ExecutorInv'
<1> USE HarnessAssumption
<1>1. TypeOK'
  <2>1. calls[executor] > 0
    BY DEF ExecutorInv, QuietInv, CallInv, ServerAnswers
  <2> QED
    BY <2>1, ServerAnswersTypes DEF ExecutorInv
<1>2. OthersInv'
  BY DEF ExecutorInv, OthersInv, ServerAnswers, ServerOnly, callVars
<1>3. StartInv'
  <2>1. phase[executor] = "epoll_wait"
    BY DEF ExecutorInv, QuietInv, ServerAnswers
  <2>2. server'[executor] = "WaitForAPICall"
    BY DEF ExecutorInv, TypeOK, ServerAnswers
  <2>3. UNCHANGED <<phase, ends, toServer, calls>> /\ server[executor] # "absent"
    BY DEF ServerAnswers, ServerOnly, ioVars, callVars
  <2> QED
    BY <2>1, <2>2, <2>3 DEF ExecutorInv, StartInv
<1>4. QuietInv'
  BY DEF ExecutorInv, QuietInv, ServerAnswers, ServerOnly
<1>5. CallInv'
  <2>1. phase[executor] = "epoll_wait"
    BY DEF ExecutorInv, QuietInv, ServerAnswers
  <2>2. Running
    BY <2>1 DEF ExecutorInv, CallInv, Asked, Answered, Told, Lost, ServerAnswers
  <2>3. fromServer'[executor] = << <<calls[executor], put[executor]>> >>
    BY <2>2, SmallSequences DEF ExecutorInv, TypeOK, Running, ServerAnswers
  <2>4. server'[executor] = "WaitForAPICall" /\ put'[executor] = "absent" /\ put[executor] \in Fates
    BY DEF ExecutorInv, TypeOK, ServerAnswers
  <2>5. UNCHANGED <<phase, calls, wait_for, collected, output, written, toServer>>
    BY DEF ServerAnswers, ServerOnly, callVars
  <2>6. Answered'
    BY <2>2, <2>3, <2>4, <2>5, BooksKept DEF Running, Answered
  <2> QED
    BY <2>1, <2>5, <2>6 DEF ExecutorInv, CallInv, Returned
<1>6. DetachedInv'
  BY DEF ExecutorInv, DetachedInv, ServerAnswers, ServerOnly, callVars
<1>7. FileInv'
  BY DEF ExecutorInv, TypeOK, FileInv, Removed, OthersIdle, ServerAnswers, ServerOnly, callVars, ioVars
<1> QED
  BY <1>1, <1>2, <1>3, <1>4, <1>5, <1>6, <1>7 DEF ExecutorInv

\* The executor has closed its end, or is gone.
LEMMA ServerReadsEndOfFileStep ==
  ASSUME ExecutorInv, ServerReadsEndOfFile(executor)
  PROVE  ExecutorInv'
<1> USE HarnessAssumption
<1>1. TypeOK'
  BY ServerTypes DEF ExecutorInv
<1>2. OthersInv'
  BY DEF ExecutorInv, OthersInv, ServerReadsEndOfFile, ServerOnly, callVars
<1>3. StartInv'
  BY DEF ExecutorInv, StartInv, ServerReadsEndOfFile, ServerOnly, callVars, ioVars
<1>4. QuietInv'
  BY DEF ExecutorInv, QuietInv, ServerReadsEndOfFile, ServerOnly, putVars
<1>5. CallInv'
  BY DEF ExecutorInv, CallInv, Asked, Running, Answered, Told, Lost, Books, Returned,
         ServerReadsEndOfFile, ServerOnly, callVars, putVars
<1>6. DetachedInv'
  BY DEF ExecutorInv, DetachedInv, ServerReadsEndOfFile, ServerOnly, callVars
<1>7. FileInv'
  BY DEF ExecutorInv, TypeOK, FileInv, Removed, OthersIdle, ServerReadsEndOfFile, ServerOnly, callVars, ioVars,
         putVars
<1> QED
  BY <1>1, <1>2, <1>3, <1>4, <1>5, <1>6, <1>7 DEF ExecutorInv

\* The path leads to the file of some executor.
LEMMA PutOpensStdinStep ==
  ASSUME ExecutorInv, PutOpensStdin(executor)
  PROVE  ExecutorInv'
<1> USE HarnessAssumption
<1>1. TypeOK'
  BY PutTypes DEF ExecutorInv
<1>2. OthersInv'
  BY DEF ExecutorInv, OthersInv, PutOpensStdin, PutOnly, callVars
<1>3. StartInv'
  BY DEF ExecutorInv, StartInv, PutOpensStdin, PutOnly, callVars, ioVars
<1>4. QuietInv'
  BY DEF ExecutorInv, QuietInv, PutOpensStdin, PutOnly
<1>5. CallInv'
  BY DEF ExecutorInv, CallInv, Asked, Running, Answered, Told, Lost, Books, Returned,
         PutOpensStdin, PutOnly, callVars
<1>6. DetachedInv'
  BY DEF ExecutorInv, DetachedInv, PutOpensStdin, PutOnly, callVars
<1>7. FileInv'
  <2>1. put[executor] = "setup" /\ input[executor] = Unread
    BY DEF ExecutorInv, FileInv, PutOpensStdin
  <2>2. UNCHANGED <<phase, calls, testcase, stdin_fd, path, file, input>>
    BY DEF PutOpensStdin, PutOnly, callVars, ioVars
  <2>3. put_stdin'[executor] = path /\ path \in Executors \union {NoFile}
        /\ put'[executor] = IF path = NoFile THEN "noStdin" ELSE "running"
    BY DEF ExecutorInv, TypeOK, PutOpensStdin
  <2>4. phase[executor] = "epoll_wait"
    BY <2>1 DEF ExecutorInv, QuietInv
  <2>5. Removed' <=> Removed
    BY <2>2 DEF Removed
  <2> QED
    BY <2>1, <2>2, <2>3, <2>4, <2>5 DEF ExecutorInv, FileInv, OthersIdle
<1> QED
  BY <1>1, <1>2, <1>3, <1>4, <1>5, <1>6, <1>7 DEF ExecutorInv

\* The program reads the file that it has opened.
LEMMA PutReadsStep ==
  ASSUME ExecutorInv, PutReads(executor)
  PROVE  ExecutorInv'
<1> USE HarnessAssumption
<1>1. TypeOK'
  <2>1. put_stdin[executor] \in Executors
    BY DEF ExecutorInv, FileInv, PutReads
  <2> QED
    BY <2>1, PutTypes DEF ExecutorInv
<1>2. OthersInv'
  BY DEF ExecutorInv, OthersInv, PutReads, PutOnly, callVars
<1>3. StartInv'
  BY DEF ExecutorInv, StartInv, PutReads, PutOnly, callVars, ioVars
<1>4. QuietInv'
  BY DEF ExecutorInv, QuietInv, PutReads, PutOnly
<1>5. CallInv'
  BY DEF ExecutorInv, CallInv, Asked, Running, Answered, Told, Lost, Books, Returned, PutReads,
         PutOnly, callVars
<1>6. DetachedInv'
  BY DEF ExecutorInv, DetachedInv, PutReads, PutOnly, callVars
<1>7. FileInv'
  <2>1. put_stdin[executor] \in Executors /\ put[executor] = "running"
    BY DEF ExecutorInv, FileInv, PutReads
  <2>2. phase[executor] = "epoll_wait"
    BY <2>1 DEF ExecutorInv, QuietInv
  <2>3. input'[executor] = file[put_stdin[executor]]
    BY DEF ExecutorInv, TypeOK, PutReads
  <2>4. OthersIdle => input'[executor] = IF put_stdin[executor] = stdin_fd[executor]
                                         THEN Exactly(testcase[executor]) ELSE NoContents
    BY <2>1, <2>2, <2>3 DEF ExecutorInv, FileInv
  <2>5. UNCHANGED <<phase, calls, testcase, put, put_stdin, stdin_fd, path, file>>
    BY DEF PutReads, PutOnly, callVars, ioVars
  <2>6. Removed' <=> Removed
    BY <2>5 DEF Removed
  <2> QED
    BY <2>1, <2>4, <2>5, <2>6 DEF ExecutorInv, FileInv, OthersIdle
<1> QED
  BY <1>1, <1>2, <1>3, <1>4, <1>5, <1>6, <1>7 DEF ExecutorInv

\* A chunk is counted in the pipe and in what the run has written.
LEMMA PutWritesStep ==
  ASSUME ExecutorInv, NEW o \in Outputs, PutWrites(executor, o)
  PROVE  ExecutorInv'
<1> USE HarnessAssumption
<1>1. TypeOK'
  <2>1. calls[executor] > 0
    BY DEF ExecutorInv, QuietInv, CallInv, PutWrites
  <2> QED
    BY <2>1, PutWritesTypes DEF ExecutorInv
<1>2. OthersInv'
  BY DEF ExecutorInv, OthersInv, PutWrites, PutOnly, callVars
<1>3. StartInv'
  BY DEF ExecutorInv, StartInv, PutWrites, PutOnly, callVars, ioVars
<1>4. QuietInv'
  BY DEF ExecutorInv, QuietInv, PutWrites, PutOnly
<1>5. CallInv'
  <2> DEFINE chunk == <<calls[executor], Len(written[executor][o]) + 1>>
  <2>1. output[executor][o] \in Seq(Chunks) /\ written[executor][o] \in Seq(Chunks)
        /\ collected[executor][o] \in Seq(Chunks)
    BY DEF ExecutorInv, TypeOK
  <2>2. /\ output'[executor][o] = Append(output[executor][o], chunk)
        /\ written'[executor][o] = Append(written[executor][o], chunk)
        /\ \A q \in Outputs \ {o} : output'[executor][q] = output[executor][q]
                                    /\ written'[executor][q] = written[executor][q]
    BY DEF ExecutorInv, TypeOK, PutWrites
  <2>3. UNCHANGED <<phase, calls, wait_for, response, collected, toServer, fromServer, server, put>>
    BY DEF PutWrites, PutOnly, callVars
  <2>5. ASSUME Books PROVE Books'
    <3>1. Balanced(calls[executor], written'[executor][o], collected[executor][o], output'[executor][o])
      BY <2>1, <2>2, <2>5, BalancedWrite DEF Books
    <3> QED
      BY <2>2, <2>3, <2>5, <3>1 DEF Books
  <2>6. put[executor] # "absent"
    BY DEF PutWrites
  <2>7. phase[executor] = "epoll_wait"
    BY <2>6 DEF ExecutorInv, QuietInv
  <2>8. Running \/ Lost
    BY <2>6, <2>7 DEF ExecutorInv, CallInv, Asked, Answered, Told
  <2> QED
    BY <2>3, <2>5, <2>7, <2>8 DEF ExecutorInv, CallInv, Running, Lost, Returned
<1>6. DetachedInv'
  BY DEF ExecutorInv, DetachedInv, PutWrites, PutOnly, callVars
<1>7. FileInv'
  BY DEF ExecutorInv, TypeOK, FileInv, Removed, OthersIdle, PutWrites, PutOnly, callVars, ioVars
<1> QED
  BY <1>1, <1>2, <1>3, <1>4, <1>5, <1>6, <1>7 DEF ExecutorInv

\* The program keeps what it has read and written.
LEMMA PutEndsStep ==
  ASSUME ExecutorInv, PutEnds(executor)
  PROVE  ExecutorInv'
<1> USE HarnessAssumption
<1>1. TypeOK'
  BY PutTypes DEF ExecutorInv
<1>2. OthersInv'
  BY DEF ExecutorInv, OthersInv, PutEnds, PutOnly, callVars
<1>3. StartInv'
  BY DEF ExecutorInv, StartInv, PutEnds, PutOnly, callVars, ioVars
<1>4. QuietInv'
  BY DEF ExecutorInv, QuietInv, PutEnds, PutOnly
<1>5. CallInv'
  BY DEF ExecutorInv, CallInv, Asked, Running, Answered, Told, Lost, Books, Returned, PutEnds,
         PutOnly, callVars
<1>6. DetachedInv'
  BY DEF ExecutorInv, DetachedInv, PutEnds, PutOnly, callVars
<1>7. FileInv'
  BY DEF ExecutorInv, TypeOK, FileInv, Removed, OthersIdle, PutEnds, PutOnly, callVars, ioVars
<1> QED
  BY <1>1, <1>2, <1>3, <1>4, <1>5, <1>6, <1>7 DEF ExecutorInv

-------------------------------------------------------------------------------
(* Steps of others, and of the test program alone. *)

\* What the invariant says of the executor of the test program depends on its own
\* part of each variable.
LEMMA OwnPart ==
  ASSUME StartInv, QuietInv, CallInv, DetachedInv,
         phase'[executor] = phase[executor], calls'[executor] = calls[executor],
         wait_for'[executor] = wait_for[executor], registered'[executor] = registered[executor],
         response'[executor] = response[executor], collected'[executor] = collected[executor],
         ends'[executor] = ends[executor], toServer'[executor] = toServer[executor],
         fromServer'[executor] = fromServer[executor], output'[executor] = output[executor],
         server'[executor] = server[executor], put'[executor] = put[executor],
         written'[executor] = written[executor]
  PROVE  StartInv' /\ QuietInv' /\ CallInv' /\ DetachedInv'
<1>1. Books <=> Books'
  BY DEF Books
<1>2. StartInv' /\ QuietInv' /\ DetachedInv'
  BY DEF StartInv, QuietInv, DetachedInv
<1>3. CallInv'
  BY <1>1 DEF CallInv, Asked, Running, Answered, Told, Lost, Returned
<1> QED
  BY <1>2, <1>3

\* A step of the test program or the memory alone.
LEMMA ExecutorUnchanged ==
  ASSUME ExecutorInv, UNCHANGED vars
  PROVE  ExecutorInv'
<1>1. UNCHANGED <<phase, callVars, ioVars, toServer, fromServer, output, server, putVars>>
  BY DEF vars
<1>2. StartInv' /\ QuietInv' /\ CallInv' /\ DetachedInv'
  BY <1>1, OwnPart DEF ExecutorInv, callVars, ioVars, putVars
<1>3. TypeOK'
  BY <1>1 DEF ExecutorInv, TypeOK, callVars, ioVars, putVars
<1>4. OthersInv' /\ FileInv'
  BY <1>1 DEF ExecutorInv, OthersInv, FileInv, Removed, OthersIdle, callVars, ioVars, putVars
<1> QED
  BY <1>2, <1>3, <1>4 DEF ExecutorInv

\* Another executor opens, writes, truncates or removes the file.
LEMMA InterferenceStep ==
  ASSUME ExecutorInv, NEW e \in Executors \ {executor},
         \/ OtherStarts(e)
         \/ OpenStdin(e)
         \/ \E t \in TestCases : Write(e, t)
         \/ Truncate(e)
         \/ OtherReturns(e)
         \/ Destroy(e)
  PROVE  ExecutorInv'
<1> USE HarnessAssumption
<1>1. CASE OtherStarts(e) \/ OtherReturns(e)
  <2>1. UNCHANGED <<callVars, ioVars, toServer, fromServer, output, server, putVars>>
    BY <1>1 DEF OtherStarts, OtherReturns
  <2>2. phase' = [phase EXCEPT ![e] = "OpenStdin"] \/ phase' = [phase EXCEPT ![e] = "ready"]
    BY <1>1 DEF OtherStarts, OtherReturns, GoTo
  <2>3. phase'[executor] = phase[executor] /\ phase' \in [Executors -> Phases]
    BY <2>2 DEF ExecutorInv, TypeOK, Phases
  <2>4. TypeOK'
    BY <2>1, <2>3 DEF ExecutorInv, TypeOK, callVars, ioVars, putVars
  <2>5. StartInv' /\ QuietInv' /\ CallInv' /\ DetachedInv'
    BY <2>1, <2>3, OwnPart DEF ExecutorInv, callVars, ioVars, putVars
  <2>6. OthersInv'
    BY <2>1, <2>2 DEF ExecutorInv, TypeOK, OthersInv, callVars
  <2>7. Removed => Removed'
    BY <1>1, <2>2 DEF ExecutorInv, TypeOK, Removed, OtherStarts, OtherReturns
  <2>8. FileInv'
    BY <2>1, <2>3, <2>7 DEF ExecutorInv, FileInv, OthersIdle, callVars, ioVars, putVars
  <2> QED
    BY <2>4, <2>5, <2>6, <2>8 DEF ExecutorInv
<1>2. CASE OpenStdin(e)
  <2>1. TypeOK'
    BY <1>2, OpenStdinTypes DEF ExecutorInv
  <2>2. /\ phase' = [phase EXCEPT ![e] = "ready"] /\ stdin_fd' = [stdin_fd EXCEPT ![e] = path']
        /\ toServer' = [toServer EXCEPT ![e] = Append(@, "ReadStdin")]
        /\ registered' = [registered EXCEPT ![e] = Events]
        /\ UNCHANGED <<calls, testcase, wait_for, response, collected, ends, file, fromServer,
                       output, server, putVars>>
    BY <1>2 DEF OpenStdin, GoTo, CallForkServerAPI
  <2>3. /\ phase'[executor] = phase[executor] /\ toServer'[executor] = toServer[executor]
        /\ registered'[executor] = registered[executor] /\ stdin_fd'[executor] = stdin_fd[executor]
    BY <2>2 DEF ExecutorInv, TypeOK
  <2>4. StartInv' /\ QuietInv' /\ CallInv' /\ DetachedInv'
    BY <2>2, <2>3, OwnPart DEF ExecutorInv, putVars
  <2>5. OthersInv'
    BY <2>2 DEF ExecutorInv, TypeOK, OthersInv
  <2>6. Removed => Removed'
    BY <1>2, <2>2 DEF ExecutorInv, TypeOK, Removed, OpenStdin
  <2>7. path # NoFile => path' = path
    BY <1>2 DEF OpenStdin
  <2>8. FileInv'
    BY <2>2, <2>3, <2>6, <2>7, InputAssumption DEF ExecutorInv, FileInv, OthersIdle, putVars
  <2> QED
    BY <2>1, <2>4, <2>5, <2>8 DEF ExecutorInv
<1>3. ASSUME NEW t \in TestCases, Write(e, t) PROVE ExecutorInv'
  <2>1. TypeOK'
    BY <1>3, WriteTypes DEF ExecutorInv
  <2>2. /\ phase' = [phase EXCEPT ![e] = "Truncate"] /\ calls' = [calls EXCEPT ![e] = @ + 1]
        /\ testcase' = [testcase EXCEPT ![e] = t]
        /\ UNCHANGED <<wait_for, registered, response, collected, ends, stdin_fd, path, toServer,
                       fromServer, output, server, putVars>>
    BY <1>3 DEF Write, GoTo
  <2>3. /\ phase'[executor] = phase[executor] /\ calls'[executor] = calls[executor]
        /\ calls'[e] > 0 /\ testcase'[e] = t
    BY <2>2 DEF ExecutorInv, TypeOK
  <2>4. StartInv' /\ QuietInv' /\ CallInv' /\ DetachedInv'
    BY <2>2, <2>3, OwnPart DEF ExecutorInv, putVars
  <2>5. OthersInv'
    BY <2>2, <2>3 DEF ExecutorInv, TypeOK, OthersInv
  <2>6. ~OthersIdle'
    BY <2>3 DEF OthersIdle
  <2>7. Removed => Removed'
    BY <1>3, <2>2 DEF ExecutorInv, TypeOK, Removed, Write
  <2>8. FileInv'
    BY <2>2, <2>3, <2>6, <2>7 DEF ExecutorInv, FileInv, putVars
  <2> QED
    BY <2>1, <2>4, <2>5, <2>8 DEF ExecutorInv
<1>4. CASE Truncate(e)
  <2>1. calls[e] > 0 /\ testcase[e] \in TestCases
    BY <1>4 DEF ExecutorInv, OthersInv, Truncate
  <2>2. TypeOK'
    BY <1>4, <2>1, TruncateTypes DEF ExecutorInv
  <2>3. /\ phase' = [phase EXCEPT ![e] = "epoll_wait"] /\ wait_for' = [wait_for EXCEPT ![e] = -1]
        /\ response' = [response EXCEPT ![e] = NoResponseError]
        /\ collected' = [collected EXCEPT ![e] = NoOutput]
        /\ toServer' = [toServer EXCEPT ![e] = Append(@, "ExecutePUT")]
        /\ UNCHANGED <<calls, testcase, registered, ends, stdin_fd, path, fromServer, output,
                       server, putVars>>
    BY <1>4 DEF Truncate, GoTo, CallForkServerAPI
  <2>4. /\ phase'[executor] = phase[executor] /\ wait_for'[executor] = wait_for[executor]
        /\ response'[executor] = response[executor] /\ collected'[executor] = collected[executor]
        /\ toServer'[executor] = toServer[executor]
    BY <2>3 DEF ExecutorInv, TypeOK
  <2>5. StartInv' /\ QuietInv' /\ CallInv' /\ DetachedInv'
    BY <2>3, <2>4, OwnPart DEF ExecutorInv, putVars
  <2>6. OthersInv'
    BY <2>3 DEF ExecutorInv, TypeOK, OthersInv
  <2>7. ~OthersIdle'
    BY <2>1, <2>3 DEF OthersIdle
  <2>8. Removed => Removed'
    BY <1>4, <2>3 DEF ExecutorInv, TypeOK, Removed, Truncate
  <2>9. FileInv'
    BY <2>3, <2>4, <2>7, <2>8 DEF ExecutorInv, FileInv, putVars
  <2> QED
    BY <2>2, <2>5, <2>6, <2>9 DEF ExecutorInv
<1>5. CASE Destroy(e)
  <2>1. TypeOK'
    BY <1>5, DestroyTypes DEF ExecutorInv
  <2>2. /\ phase' = [phase EXCEPT ![e] = "terminated"] \/ phase' = [phase EXCEPT ![e] = "WaitServer"]
        /\ stdin_fd' = [stdin_fd EXCEPT ![e] = NoFile]
        /\ UNCHANGED <<callVars, file, toServer, fromServer, output, server, putVars>>
    BY <1>5 DEF Destroy, GoTo, CloseStdin
  <2>3. phase'[executor] = phase[executor] /\ stdin_fd'[executor] = stdin_fd[executor]
    BY <2>2 DEF ExecutorInv, TypeOK
  <2>4. ends'[executor] = ends[executor]
    BY <1>5 DEF ExecutorInv, TypeOK, Destroy, AllClosed
  <2>5. StartInv' /\ QuietInv' /\ CallInv' /\ DetachedInv'
    BY <2>2, <2>3, <2>4, OwnPart DEF ExecutorInv, callVars, putVars
  <2>6. OthersInv'
    BY <2>2 DEF ExecutorInv, TypeOK, OthersInv, callVars
  <2>7. FileInv'
    BY <2>2, <2>3 DEF ExecutorInv, TypeOK, FileInv, Removed, OthersIdle, callVars, putVars
  <2> QED
    BY <2>1, <2>5, <2>6, <2>7 DEF ExecutorInv
<1> QED
  BY <1>1, <1>2, <1>3, <1>4, <1>5

-------------------------------------------------------------------------------
(* The test program and its memory. *)

\* The executor moves on without a new call, and nobody touches the memory.
LEMMA MemoryKept ==
  ASSUME IInv, ExecutorInv', UNCHANGED <<hpc, memVars>>, calls'[executor] = calls[executor],
         \/ phase'[executor] = phase[executor]
         \/ phase[executor] = "SetExecutorId" /\ phase'[executor] \in {"ReadPid", "terminated"}
         \/ phase[executor] = "ReadPid" /\ phase'[executor] \in {"OpenStdin", "thrown"}
         \/ phase[executor] = "OpenStdin" /\ phase'[executor] = "ready"
         \/ phase[executor] = "Truncate" /\ phase'[executor] = "epoll_wait"
         \/ phase[executor] = "epoll_wait" /\ phase'[executor] = "ready"
         \/ phase[executor] = "WaitServer" /\ phase'[executor] = "destroyed"
  PROVE  IInv'
<1>1. UNCHANGED <<hpc, attacher, mapped, segment, attached, owners, position, bytes, seen, touched, since>>
  BY DEF memVars
<1>2. HarnessTypeOK'
  BY <1>1 DEF IInv, HarnessTypeOK, ExecutorInv
<1>3. PlaceInv'
  BY <1>1 DEF IInv, PlaceInv
<1>4. SegmentInv' /\ MemoryInv'
  BY <1>1 DEF IInv, SegmentInv, MemoryInv
<1> QED
  BY <1>2, <1>3, <1>4 DEF IInv

\* The steps of executor, server and program that leave the memory alone.
LEMMA OthersStep ==
  ASSUME IInv, Others
  PROVE  IInv'
<1> USE HarnessAssumption
<1> DEFINE Goal == /\ ExecutorInv' /\ calls'[executor] = calls[executor]
                   /\ \/ phase'[executor] = phase[executor]
                      \/ phase[executor] = "SetExecutorId" /\ phase'[executor] \in {"ReadPid", "terminated"}
                      \/ phase[executor] = "ReadPid" /\ phase'[executor] \in {"OpenStdin", "thrown"}
                      \/ phase[executor] = "OpenStdin" /\ phase'[executor] = "ready"
                      \/ phase[executor] = "Truncate" /\ phase'[executor] = "epoll_wait"
                      \/ phase[executor] = "epoll_wait" /\ phase'[executor] = "ready"
                      \/ phase[executor] = "WaitServer" /\ phase'[executor] = "destroyed"
<1> SUFFICES Goal
  BY MemoryKept DEF Others
<1>1. ExecutorInv /\ phase \in [Executors -> Phases]
  BY DEF IInv, ExecutorInv, TypeOK
<1>2. CASE SetExecutorId(executor)
  BY <1>1, <1>2, SetExecutorIdStep DEF SetExecutorId, GoTo, callVars
<1>3. CASE ReadPid(executor)
  BY <1>1, <1>3, ReadPidStep DEF ReadPid, GoTo, callVars
<1>4. CASE ReadPidFails(executor)
  BY <1>1, <1>4, ReadPidFailsStep DEF ReadPidFails, GoTo, callVars
<1>5. CASE OpenStdin(executor)
  BY <1>1, <1>5, OpenStdinStep DEF OpenStdin, GoTo
<1>6. CASE Truncate(executor)
  BY <1>1, <1>6, TruncateStep DEF Truncate, GoTo
<1>7. ASSUME NEW o \in Outputs, ReadOutput(executor, o) PROVE Goal
  BY <1>1, <1>7, ReadOutputStep DEF ReadOutput
<1>8. CASE ReadResponse(executor)
  BY <1>1, <1>8, ReadResponseStep DEF ReadResponse
<1>9. ASSUME NEW x \in Events, Detach(executor, x) PROVE Goal
  BY <1>1, <1>9, DetachStep DEF Detach
<1>10. CASE Return(executor)
  BY <1>1, <1>10, ReturnStep DEF Return, GoTo, callVars
<1>11. CASE WaitServer(executor)
  BY <1>1, <1>11, WaitServerStep DEF WaitServer, GoTo, callVars
<1>12. CASE ServerExecs(executor)
  BY <1>1, <1>12, ServerExecsStep DEF ServerExecs, callVars
<1>13. CASE ServerFailsToStart(executor)
  BY <1>1, <1>13, ServerFailsToStartStep DEF ServerFailsToStart, ServerOnly, callVars
<1>14. CASE ServerReadsCommand(executor)
  BY <1>1, <1>14, ServerReadsCommandStep DEF ServerReadsCommand, ServerOnly, callVars
<1>15. CASE ServerForkFails(executor)
  BY <1>1, <1>15, ServerForkFailsStep DEF ServerForkFails, ServerOnly, callVars
<1>16. CASE ServerAnswers(executor)
  BY <1>1, <1>16, ServerAnswersStep DEF ServerAnswers, ServerOnly, callVars
<1>17. CASE ServerReadsEndOfFile(executor)
  BY <1>1, <1>17, ServerReadsEndOfFileStep DEF ServerReadsEndOfFile, ServerOnly, callVars
<1>18. CASE ServerKilledByAlarm(executor)
  BY <1>1, <1>18, ServerKilledByAlarmStep DEF ServerKilledByAlarm, ServerOnly, callVars
<1>19. CASE PutReads(executor)
  BY <1>1, <1>19, PutReadsStep DEF PutReads, PutOnly, callVars
<1>20. ASSUME NEW o \in Outputs, PutWrites(executor, o) PROVE Goal
  BY <1>1, <1>20, PutWritesStep DEF PutWrites, PutOnly, callVars
<1>21. CASE PutEnds(executor)
  BY <1>1, <1>21, PutEndsStep DEF PutEnds, PutOnly, callVars
<1> QED
  BY <1>2, <1>3, <1>4, <1>5, <1>6, <1>7, <1>8, <1>9, <1>10, <1>11, <1>12, <1>13, <1>14, <1>15, <1>16,
     <1>17, <1>18, <1>19, <1>20, <1>21 DEF Others, ExecutorStep

\* Another test program does not reach the memory or the executor.
LEMMA InterferenceKeepsInv ==
  ASSUME IInv, Interference
  PROVE  IInv'
<1>1. PICK e \in Executors \ {executor} :
         \/ OtherStarts(e)
         \/ OpenStdin(e)
         \/ \E t \in TestCases : Write(e, t)
         \/ Truncate(e)
         \/ OtherReturns(e)
         \/ Destroy(e)
  BY DEF Interference
<1>2. ExecutorInv'
  BY <1>1, InterferenceStep DEF IInv
<1>3. \/ UNCHANGED phase
      \/ \E p : phase' = [phase EXCEPT ![e] = p]
  BY <1>1 DEF OtherStarts, OpenStdin, Write, Truncate, OtherReturns, Destroy, GoTo
<1>4. \/ UNCHANGED calls
      \/ calls' = [calls EXCEPT ![e] = @ + 1]
  BY <1>1 DEF OtherStarts, OpenStdin, Write, Truncate, OtherReturns, Destroy, callVars
<1>5. phase'[executor] = phase[executor] /\ calls'[executor] = calls[executor]
  BY <1>3, <1>4, HarnessAssumption DEF IInv, ExecutorInv, TypeOK
<1> QED
  BY <1>2, <1>5, MemoryKept DEF Interference

\* The memory is unmapped and removed with the last iterator, and not before.
LEMMA ReleaseKeeps ==
  ASSUME owners \in Nat, attached = TRUE, segment = "present", NEW n \in Nat, n <= owners, Release(n)
  PROVE  /\ owners' = owners - n
         /\ n < owners => attached' = TRUE /\ segment' = "present"
         /\ n = owners => attached' = FALSE /\ segment' = "removed"
<1>1. owners' = owners - n /\ owners' \in Nat
  BY DEF Release
<1>2. ASSUME n < owners PROVE attached' = TRUE /\ segment' = "present"
  <2>1. owners' > 0
    BY <1>1, <1>2
  <2> QED
    BY <2>1 DEF Release
<1>3. ASSUME n = owners PROVE attached' = FALSE /\ segment' = "removed"
  <2>1. ~(owners' > 0)
    BY <1>1, <1>3
  <2> QED
    BY <2>1 DEF Release
<1> QED
  BY <1>1, <1>2, <1>3

\* The steps of the test program that leave its executor alone.
LEMMA ProgramStep ==
  ASSUME IInv,
         \/ CreateSharedMemory
         \/ CreateSharedMemoryFails
         \/ BeginClear
         \/ BeginFill
         \/ Fill
         \/ EndLoop("clear", "construct")
         \/ EndLoop("fill", "call")
         \/ BeginRead
         \/ EndLoop("read", "next")
         \/ LeaveScope
         \/ Terminate
         \/ ReleaseIterator
  PROVE  IInv'
<1> USE HarnessAssumption
<1>1. UNCHANGED vars
  BY DEF CreateSharedMemory, CreateSharedMemoryFails, BeginClear, BeginFill, Fill, EndLoop, BeginRead,
         LeaveScope,
         Terminate, ReleaseIterator
<1>2. ExecutorInv' /\ phase' = phase /\ calls' = calls
  BY <1>1, ExecutorUnchanged DEF IInv, vars, callVars
<1>3. TypeOK'
  BY <1>2 DEF ExecutorInv
<1>4. CASE CreateSharedMemory
  <2>1. HarnessTypeOK'
    BY <1>3, <1>4 DEF IInv, HarnessTypeOK, CreateSharedMemory
  <2>2. PlaceInv' /\ SegmentInv' /\ MemoryInv'
    BY <1>2, <1>4 DEF IInv, PlaceInv, SegmentInv, MemoryInv, CreateSharedMemory
  <2> QED
    BY <1>2, <2>1, <2>2 DEF IInv
<1>5. CASE CreateSharedMemoryFails
  <2>1. HarnessTypeOK'
    BY <1>3, <1>5 DEF IInv, HarnessTypeOK, CreateSharedMemoryFails
  <2>2. PlaceInv' /\ SegmentInv' /\ MemoryInv'
    BY <1>2, <1>5 DEF IInv, PlaceInv, SegmentInv, MemoryInv, CreateSharedMemoryFails
  <2> QED
    BY <1>2, <2>1, <2>2 DEF IInv
<1>6. CASE BeginClear \/ BeginFill
  <2>1. /\ owners = 2 /\ owners' = 4 /\ position' = 0 /\ since' = {}
        /\ \/ hpc = "created" /\ hpc' = "clear"
           \/ hpc \in {"start", "next"} /\ phase[executor] = "ready" /\ hpc' = "fill"
        /\ UNCHANGED <<attacher, mapped, segment, attached, bytes, seen, touched>>
    BY <1>6 DEF IInv, SegmentInv, BeginClear, BeginFill, BeginLoop
  <2>2. HarnessTypeOK'
    BY <1>3, <2>1 DEF IInv, HarnessTypeOK
  <2>3. PlaceInv' /\ SegmentInv'
    BY <1>2, <2>1 DEF IInv, PlaceInv, SegmentInv
  <2>4. MemoryInv'
    BY <2>1 DEF MemoryInv, Indices
  <2> QED
    BY <1>2, <2>2, <2>3, <2>4 DEF IInv
<1>7. CASE Fill
  <2>1. hpc \in {"clear", "fill"} /\ position \in Indices /\ bytes \in [Indices -> ByServer .. MaxCalls]
    BY <1>7 DEF IInv, HarnessTypeOK, Fill, InLoop, Indices
  <2>2. bytes' = [bytes EXCEPT ![position] = Clear] /\ position' = position + 1
        /\ UNCHANGED <<hpc, attacher, mapped, segment, attached, owners, seen, touched, since>>
    BY <1>7 DEF Fill
  <2>3. bytes' \in [Indices -> ByServer .. MaxCalls]
    BY <2>1, <2>2, CallAssumption DEF ByServer, Clear
  <2>4. position' \in 0 .. Size
    BY <2>1, <2>2 DEF Indices
  <2>5. HarnessTypeOK'
    BY <1>3, <2>2, <2>3, <2>4 DEF IInv, HarnessTypeOK
  <2>6. \A i \in Indices : i < position + 1 => bytes'[i] = Clear
    BY <2>1, <2>2 DEF IInv, MemoryInv, Indices
  <2>7. PlaceInv' /\ SegmentInv' /\ MemoryInv'
    BY <1>2, <2>1, <2>2, <2>6 DEF IInv, PlaceInv, SegmentInv, MemoryInv
  <2> QED
    BY <1>2, <2>5, <2>7 DEF IInv
<1>8. CASE EndLoop("clear", "construct") \/ EndLoop("fill", "call")
  <2>1. /\ owners = 4 /\ owners' = 2 /\ position = Size
        /\ \/ hpc = "clear" /\ hpc' = "construct"
           \/ hpc = "fill" /\ hpc' = "call"
        /\ UNCHANGED <<attacher, mapped, segment, attached, position, bytes, seen, touched, since>>
    <3>1. hpc \in {"clear", "fill"} /\ owners = 4 /\ attached = TRUE /\ segment = "present"
          /\ Release(2)
      BY <1>8 DEF IInv, HarnessTypeOK, SegmentInv, EndLoop
    <3>2. owners \in Nat /\ 2 \in Nat /\ 2 <= owners /\ 2 < owners /\ owners - 2 = 2
      BY <3>1
    <3>3. owners' = 2 /\ attached' = TRUE /\ segment' = "present"
      BY <3>1, <3>2, ReleaseKeeps, Zenon
    <3> QED
      BY <1>8, <3>1, <3>3 DEF EndLoop
  <2>2. HarnessTypeOK'
    BY <1>3, <2>1 DEF IInv, HarnessTypeOK
  <2>3. \A i \in Indices : bytes[i] = Clear
    BY <2>1 DEF IInv, MemoryInv, Indices
  <2>4. PlaceInv' /\ SegmentInv'
    BY <1>2, <2>1 DEF IInv, PlaceInv, SegmentInv
  <2>5. MemoryInv'
    BY <1>2, <2>1, <2>3 DEF IInv, MemoryInv
  <2> QED
    BY <1>2, <2>2, <2>4, <2>5 DEF IInv
<1>9. CASE BeginRead
  <2>1. hpc = "wait" /\ hpc' = "read" /\ owners = 2 /\ owners' = 4 /\ position' = 0 /\ seen = <<>>
        /\ phase[executor] = "ready"
        /\ UNCHANGED <<attacher, mapped, segment, attached, bytes, seen, touched, since>>
    BY <1>9 DEF IInv, SegmentInv, MemoryInv, BeginRead, BeginLoop
  <2>2. HarnessTypeOK'
    BY <1>3, <2>1 DEF IInv, HarnessTypeOK
  <2>3. PlaceInv' /\ SegmentInv'
    BY <1>2, <2>1 DEF IInv, PlaceInv, SegmentInv
  <2>4. MemoryInv'
    BY <1>2, <2>1 DEF IInv, MemoryInv
  <2> QED
    BY <1>2, <2>2, <2>3, <2>4 DEF IInv
<1>10. CASE EndLoop("read", "next")
  <2>1. hpc = "read" /\ hpc' = "next" /\ owners = 4 /\ owners' = 2 /\ position = Size
        /\ UNCHANGED <<attacher, mapped, segment, attached, position, bytes, seen, touched, since>>
    <3>1. hpc = "read" /\ owners = 4 /\ attached = TRUE /\ segment = "present" /\ Release(2)
      BY <1>10 DEF IInv, HarnessTypeOK, SegmentInv, EndLoop
    <3>2. owners \in Nat /\ 2 \in Nat /\ 2 <= owners /\ 2 < owners /\ owners - 2 = 2
      BY <3>1
    <3>3. owners' = 2 /\ attached' = TRUE /\ segment' = "present"
      BY <3>1, <3>2, ReleaseKeeps, Zenon
    <3> QED
      BY <1>10, <3>1, <3>3 DEF EndLoop
  <2>2. HarnessTypeOK'
    BY <1>3, <2>1 DEF IInv, HarnessTypeOK
  <2>3. PlaceInv' /\ SegmentInv'
    BY <1>2, <2>1 DEF IInv, PlaceInv, SegmentInv
  <2>4. MemoryInv'
    BY <1>2, <2>1 DEF IInv, MemoryInv
  <2> QED
    BY <1>2, <2>2, <2>3, <2>4 DEF IInv
<1>11. CASE LeaveScope
  <2>1. hpc' = "release" /\ hpc \in {"start", "destroy"} /\ owners = 2
        /\ UNCHANGED <<attacher, mapped, segment, attached, owners, position, bytes, seen, touched, since>>
    BY <1>11 DEF IInv, SegmentInv, LeaveScope, memVars
  <2>2. HarnessTypeOK'
    BY <1>3, <2>1 DEF IInv, HarnessTypeOK
  <2>3. PlaceInv'
    BY <1>2, <1>11, <2>1 DEF IInv, PlaceInv, LeaveScope
  <2>4. SegmentInv' /\ MemoryInv'
    BY <1>2, <2>1 DEF IInv, SegmentInv, MemoryInv
  <2> QED
    BY <1>2, <2>2, <2>3, <2>4 DEF IInv
<1>12. CASE Terminate
  <2>1. HarnessTypeOK'
    BY <1>3, <1>12 DEF IInv, HarnessTypeOK, Terminate
  <2>2. PlaceInv' /\ SegmentInv' /\ MemoryInv'
    BY <1>2, <1>12 DEF IInv, PlaceInv, SegmentInv, MemoryInv, Terminate
  <2> QED
    BY <1>2, <2>1, <2>2 DEF IInv
<1>13. CASE ReleaseIterator
  <2>1. hpc = "release" /\ owners \in 1 .. 2 /\ attached = TRUE /\ segment = "present" /\ Release(1)
    BY <1>13 DEF IInv, HarnessTypeOK, SegmentInv, ReleaseIterator
  <2>2. CASE owners = 1
    <3> owners \in Nat /\ 1 \in Nat /\ 1 <= owners /\ 1 = owners /\ owners - 1 = 0
      BY <2>2
    <3> owners' = 0 /\ attached' = FALSE /\ segment' = "removed"
      BY <2>1, ReleaseKeeps, Zenon
    <3>1. hpc' = "returned" /\ UNCHANGED <<attacher, mapped, position, bytes, seen, touched, since>>
      BY <1>13 DEF ReleaseIterator
    <3> attached' \in BOOLEAN /\ segment' \in {"none", "present", "removed"}
      BY Zenon
    <3> owners' \in 0 .. 4
      OBVIOUS
    <3>2. HarnessTypeOK'
      BY <1>3, <3>1 DEF IInv, HarnessTypeOK
    <3>3. PlaceInv'
      BY <1>2, <2>1, <3>1 DEF IInv, PlaceInv
    <3>4. SegmentInv' /\ MemoryInv'
      BY <1>2, <2>1, <3>1 DEF IInv, SegmentInv, MemoryInv
    <3> QED
      BY <1>2, <3>2, <3>3, <3>4 DEF IInv
  <2>3. CASE owners = 2
    <3> owners \in Nat /\ 1 \in Nat /\ 1 <= owners /\ 1 < owners /\ owners - 1 = 1
      BY <2>3
    <3> owners' = 1 /\ attached' = TRUE /\ segment' = "present"
      BY <2>1, ReleaseKeeps, Zenon
    <3>1. hpc' = "release" /\ UNCHANGED <<attacher, mapped, position, bytes, seen, touched, since>>
      BY <1>13 DEF ReleaseIterator
    <3>2. HarnessTypeOK'
      BY <1>3, <3>1 DEF IInv, HarnessTypeOK
    <3>3. PlaceInv'
      BY <1>2, <2>1, <3>1 DEF IInv, PlaceInv
    <3>4. SegmentInv' /\ MemoryInv'
      BY <1>2, <2>1, <3>1 DEF IInv, SegmentInv, MemoryInv
    <3> QED
      BY <1>2, <3>2, <3>3, <3>4 DEF IInv
  <2> QED
    BY <2>1, <2>2, <2>3
<1> QED
  BY <1>4, <1>5, <1>6, <1>7, <1>8, <1>9, <1>10, <1>11, <1>12, <1>13

\* A new executor: what the memory holds does not depend on it.
LEMMA ConstructStep ==
  ASSUME IInv, ConstructExecutor
  PROVE  IInv'
<1> USE HarnessAssumption
<1>1. ExecutorInv' /\ phase'[executor] = "SetExecutorId"
  BY StartServerStep DEF IInv, ExecutorInv, TypeOK, ConstructExecutor, StartServer, GoTo
<1>2. hpc \in {"created", "construct"} /\ hpc' = "start"
      /\ UNCHANGED <<attacher, mapped, segment, attached, owners, position, bytes, seen, touched, since>>
  BY DEF ConstructExecutor, memVars
<1>3. HarnessTypeOK'
  BY <1>1, <1>2 DEF IInv, HarnessTypeOK, ExecutorInv
<1>4. PlaceInv' /\ SegmentInv' /\ MemoryInv'
  BY <1>1, <1>2 DEF IInv, PlaceInv, SegmentInv, MemoryInv, ConstructExecutor, StartServer,
                    DestroyExecutor, Destroy, callVars
<1> QED
  BY <1>1, <1>3, <1>4 DEF IInv

\* No byte has the number of a call that begins.
LEMMA CallStep ==
  ASSUME IInv, CallExecutor
  PROVE  IInv'
<1> USE HarnessAssumption
<1>1. PICK t \in TestCases : Write(executor, t)
  BY DEF CallExecutor
<1>2. ExecutorInv' /\ phase'[executor] = "Truncate"
  BY <1>1, WriteStep DEF IInv, ExecutorInv, TypeOK, Write, GoTo
<1>3. /\ hpc \in {"start", "next", "call"} /\ hpc' = "wait" /\ touched' = {} /\ seen' = <<>>
      /\ since' = since \cup {calls'[executor]}
      /\ UNCHANGED <<attacher, mapped, segment, attached, owners, position, bytes>>
  BY DEF CallExecutor
<1>4. calls'[executor] = calls[executor] + 1 /\ calls[executor] \in Nat
      /\ calls'[executor] \in 1 .. MaxCalls
  BY <1>1, CallAssumption DEF IInv, ExecutorInv, TypeOK, Write
<1>5. HarnessTypeOK'
  <2>1. since' \subseteq ByServer .. MaxCalls
    BY <1>3, <1>4 DEF IInv, HarnessTypeOK, ByServer
  <2> QED
    BY <1>2, <1>3, <2>1 DEF IInv, HarnessTypeOK, ExecutorInv
<1>6. PlaceInv' /\ SegmentInv'
  BY <1>2, <1>3 DEF IInv, PlaceInv, SegmentInv
<1>7. \A i \in Indices : bytes[i] \in {Clear} \cup since /\ bytes[i] # calls'[executor]
  BY <1>3, <1>4 DEF IInv, MemoryInv, HarnessTypeOK, Clear, ByServer
<1>8. \A c \in since' : c <= calls'[executor]
  BY <1>3, <1>4 DEF IInv, MemoryInv, HarnessTypeOK, ByServer
<1>9. ByServer \in since' => bytes'[0] # Clear
  BY <1>3, <1>4 DEF IInv, MemoryInv, ByServer
<1>10. MemoryInv'
  BY <1>3, <1>7, <1>8, <1>9 DEF MemoryInv
<1> QED
  BY <1>2, <1>5, <1>6, <1>10 DEF IInv

\* The executor goes before the memory does.
LEMMA DestroyExecutorStep ==
  ASSUME IInv, DestroyExecutor
  PROVE  IInv'
<1> USE HarnessAssumption
<1>1. ExecutorInv' /\ phase'[executor] \in {"WaitServer", "terminated"}
  BY DestroyStep DEF IInv, ExecutorInv, TypeOK, DestroyExecutor, Destroy, GoTo
<1>2. hpc \in {"start", "next"} /\ hpc' = "destroy"
      /\ UNCHANGED <<attacher, mapped, segment, attached, owners, position, bytes, seen, touched, since>>
  BY DEF DestroyExecutor, memVars
<1>3. HarnessTypeOK'
  BY <1>1, <1>2 DEF IInv, HarnessTypeOK, ExecutorInv
<1>4. PlaceInv' /\ SegmentInv' /\ MemoryInv'
  BY <1>1, <1>2 DEF IInv, PlaceInv, SegmentInv, MemoryInv, ConstructExecutor, StartServer,
                    DestroyExecutor, Destroy, callVars
<1> QED
  BY <1>1, <1>3, <1>4 DEF IInv

\* One more byte of the memory is read.
LEMMA ReadMemoryStep ==
  ASSUME IInv, Read
  PROVE  IInv'
<1> USE HarnessAssumption
<1>1. ExecutorInv' /\ phase' = phase /\ calls' = calls
  BY ExecutorUnchanged DEF IInv, Read, vars, callVars
<1>2. hpc = "read" /\ position \in Indices /\ Len(seen) = position
      /\ seen \in Seq(ByServer .. MaxCalls)
      /\ bytes[position] \in ByServer .. MaxCalls
  BY DEF IInv, HarnessTypeOK, MemoryInv, Read, InLoop, Indices
<1>3. seen' = Append(seen, bytes[position]) /\ position' = position + 1
      /\ UNCHANGED <<hpc, attacher, mapped, segment, attached, owners, bytes, touched, since>>
  BY DEF Read
<1>4. /\ seen' \in Seq(ByServer .. MaxCalls)
      /\ Len(seen') = position + 1
      /\ \A i \in 1 .. Len(seen) : seen'[i] = seen[i]
      /\ seen'[position + 1] = bytes[position]
  BY <1>2, <1>3, AppendIs, AppendProperties
<1>5. HarnessTypeOK'
  BY <1>1, <1>2, <1>3, <1>4 DEF IInv, HarnessTypeOK, ExecutorInv, Indices
<1>6. PlaceInv' /\ SegmentInv'
  BY <1>1, <1>3 DEF IInv, PlaceInv, SegmentInv
<1>7. \A i \in 1 .. position + 1 : seen'[i] = bytes'[i - 1]
  <2>1. ASSUME NEW i \in 1 .. position PROVE seen'[i] = bytes'[i - 1]
    BY <1>2, <1>3, <1>4 DEF IInv, MemoryInv
  <2>2. ASSUME NEW i \in 1 .. position + 1, i \notin 1 .. position
        PROVE  i = position + 1 /\ i - 1 = position
    BY <1>2, <2>2 DEF Indices
  <2> QED
    BY <1>2, <1>3, <1>4, <2>1, <2>2
<1>8. MemoryInv'
  BY <1>1, <1>2, <1>3, <1>4, <1>7 DEF IInv, MemoryInv
<1> QED
  BY <1>1, <1>5, <1>6, <1>8 DEF IInv

-------------------------------------------------------------------------------
(* The runtime in the server and in its children. *)

\* A server that starts has not been called: its mark is there when it is.
LEMMA ServerMapsStep ==
  ASSUME IInv, ServerMaps
  PROVE  IInv'
<1> USE HarnessAssumption
<1>1. ExecutorInv' /\ phase' = phase /\ calls' = calls
  BY ExecutorUnchanged DEF IInv, ServerMaps, vars, callVars
<1>2. server[executor] = "starting" /\ mapped' = TRUE /\ bytes' = [bytes EXCEPT ![0] = ByServer]
      /\ since' = since \cup {ByServer}
      /\ UNCHANGED <<hpc, attacher, segment, attached, owners, position, seen, touched>>
  BY DEF ServerMaps
<1>3. hpc \notin {"create", "created", "clear", "construct", "fill", "call", "wait", "read",
                  "next"}
  BY <1>2 DEF IInv, ExecutorInv, StartInv, PlaceInv
<1>4. bytes' \in [Indices -> ByServer .. MaxCalls] /\ since' \subseteq ByServer .. MaxCalls
  <2>1. ByServer \in ByServer .. MaxCalls
    BY CallAssumption DEF ByServer
  <2> QED
    BY <1>2, <2>1 DEF IInv, HarnessTypeOK
<1>5. HarnessTypeOK'
  BY <1>1, <1>2, <1>4 DEF IInv, HarnessTypeOK, ExecutorInv
<1>6. PlaceInv' /\ SegmentInv'
  BY <1>1, <1>2, <1>3 DEF IInv, PlaceInv, SegmentInv
<1>7. 0 \in Indices /\ bytes'[0] = ByServer
      /\ \A i \in Indices : bytes'[i] \in {bytes[i], ByServer}
  BY <1>2 DEF IInv, HarnessTypeOK, Indices
<1>8. ByServer <= calls'[executor] /\ ByServer # Clear
  BY <1>1, CallAssumption DEF IInv, ExecutorInv, TypeOK, ByServer, Clear
<1>9. MemoryInv'
  BY <1>1, <1>2, <1>3, <1>7, <1>8 DEF IInv, MemoryInv
<1> QED
  BY <1>1, <1>5, <1>6, <1>9 DEF IInv

\* A program that is alive runs for the call that waits.
LEMMA AliveInCall ==
  ASSUME IInv, put[executor] # "absent"
  PROVE  hpc = "wait" /\ phase[executor] = "epoll_wait" /\ calls[executor] \in 1 .. MaxCalls
<1>1. phase[executor] = "epoll_wait" /\ calls[executor] > 0
  BY DEF IInv, ExecutorInv, QuietInv, CallInv
<1>2. hpc = "wait"
  BY <1>1 DEF IInv, PlaceInv, HarnessTypeOK
<1>3. calls[executor] \in 1 .. MaxCalls
  BY <1>1, HarnessAssumption, CallAssumption DEF IInv, ExecutorInv, TypeOK
<1> QED
  BY <1>1, <1>2, <1>3

\* One byte is marked with the call.
LEMMA MarkStep ==
  ASSUME IInv, ExecutorInv', put[executor] # "absent", NEW i \in Indices,
         UNCHANGED <<hpc, attacher, mapped, segment, attached, owners, position, seen, since>>,
         phase' = phase, calls' = calls,
         bytes' = [bytes EXCEPT ![i] = calls[executor]], touched' = touched \cup {i}
  PROVE  IInv'
<1> USE HarnessAssumption
<1>1. hpc = "wait" /\ calls[executor] \in 1 .. MaxCalls
  BY AliveInCall
<1>2. bytes' \in [Indices -> ByServer .. MaxCalls]
  BY <1>1, CallAssumption DEF IInv, HarnessTypeOK, ByServer
<1>3. HarnessTypeOK'
  BY <1>2 DEF IInv, HarnessTypeOK, ExecutorInv
<1>4. PlaceInv' /\ SegmentInv'
  BY DEF IInv, PlaceInv, SegmentInv
<1>5. \A j \in Indices : bytes'[j] = IF j = i THEN calls[executor] ELSE bytes[j]
  BY DEF IInv, HarnessTypeOK
<1>6. MemoryInv'
  <2>1. calls[executor] \in since /\ calls[executor] # Clear
    BY <1>1 DEF IInv, MemoryInv, Clear
  <2>2. \A j \in Indices : bytes'[j] \in {Clear} \cup since
    BY <1>1, <1>5, <2>1 DEF IInv, MemoryInv
  <2>3. \A j \in Indices : bytes'[j] = calls[executor] <=> j \in touched'
    BY <1>1, <1>5 DEF IInv, MemoryInv
  <2>4. ByServer \in since => bytes'[0] # Clear
    BY <1>5, <2>1 DEF IInv, MemoryInv, Indices
  <2> QED
    BY <1>1, <2>1, <2>2, <2>3, <2>4 DEF IInv, MemoryInv
<1> QED
  BY <1>3, <1>4, <1>6 DEF IInv

\* The server starts, and programs under test write to the memory.
LEMMA RuntimeStep ==
  ASSUME IInv, StartMapped \/ OpenMapped \/ \E i \in Indices : PutTouches(i)
  PROVE  IInv'
<1> USE HarnessAssumption
<1>1. CASE StartMapped
  <2>1. ExecutorInv'
    BY <1>1, ServerStartsStep DEF IInv, StartMapped
  <2>2. phase' = phase /\ calls' = calls
    BY <1>1 DEF StartMapped, ServerStarts, ServerOnly, callVars
  <2> QED
    BY <1>1, <2>1, <2>2, MemoryKept DEF StartMapped
<1>2. CASE OpenMapped
  <2>1. ExecutorInv'
    BY <1>2, PutOpensStdinStep DEF IInv, OpenMapped
  <2>2. phase' = phase /\ calls' = calls /\ put[executor] = "setup"
    BY <1>2 DEF OpenMapped, PutOpensStdin, PutOnly, callVars
  <2>3. CASE UNCHANGED <<bytes, touched>>
    BY <1>2, <2>1, <2>2, <2>3, MemoryKept DEF OpenMapped, memVars
  <2>4. CASE bytes' = [bytes EXCEPT ![0] = calls[executor]] /\ touched' = touched \cup {0}
    <3>1. 0 \in Indices
      BY DEF Indices
    <3> QED
      BY <1>2, <2>1, <2>2, <2>4, <3>1, MarkStep DEF OpenMapped
  <2> QED
    BY <1>2, <2>3, <2>4 DEF OpenMapped
<1>3. ASSUME NEW i \in Indices, PutTouches(i) PROVE IInv'
  <2>1. ExecutorInv' /\ phase' = phase /\ calls' = calls
    BY <1>3, ExecutorUnchanged DEF IInv, PutTouches, vars, callVars
  <2> QED
    BY <1>3, <2>1, MarkStep DEF PutTouches
<1> QED
  BY <1>1, <1>2, <1>3

-------------------------------------------------------------------------------
(* The invariant holds. *)

\* The invariant holds before the memory is made.
LEMMA InitIInv ==
  ASSUME HInit
  PROVE  IInv
<1> USE HarnessAssumption DEF HInit
<1>1. TypeOK
  <2>1. NoOutput \in [Outputs -> Seq(Chunks)] /\ NoContents \in Contents
    BY DEF NoOutput, NoContents, Contents
  <2> QED
    BY <2>1, CallAssumption DEF Init, TypeOK, Phases, ServerStates, PutStates, Events
<1>2. HarnessTypeOK
  <2>1. bytes \in [Indices -> ByServer .. MaxCalls]
    BY CallAssumption DEF Clear, ByServer
  <2>2. seen \in Seq(ByServer .. MaxCalls) /\ Len(seen) <= Size
    OBVIOUS
  <2>3. /\ attacher \in {"server", "child"} /\ mapped \in BOOLEAN /\ attached \in BOOLEAN
        /\ touched \subseteq Indices /\ since \subseteq ByServer .. MaxCalls
    BY Zenon
  <2>4. owners \in 0 .. 4 /\ position \in 0 .. Size
    OBVIOUS
  <2> QED
    BY <1>1, <2>1, <2>2, <2>3, <2>4 DEF HarnessTypeOK
<1>3. OthersInv /\ StartInv /\ QuietInv
  BY DEF Init, OthersInv, StartInv, QuietInv, NoOutput
<1>4. CallInv /\ DetachedInv
  BY DEF Init, CallInv, DetachedInv, Returned
<1>5. FileInv
  BY DEF Init, FileInv, NoContents
<1>6. PlaceInv /\ SegmentInv /\ MemoryInv
  BY DEF Init, PlaceInv, SegmentInv, MemoryInv
<1> QED
  BY <1>1, <1>2, <1>3, <1>4, <1>5, <1>6 DEF IInv, ExecutorInv

\* Every step keeps the invariant.
LEMMA NextIInv ==
  ASSUME IInv, [HNext]_hvars
  PROVE  IInv'
<1>1. CASE HarnessStep
  BY <1>1, ProgramStep, ConstructStep, CallStep, DestroyExecutorStep, ReadMemoryStep DEF
     HarnessStep
<1>2. CASE ServerMaps
  BY <1>2, ServerMapsStep
<1>3. CASE StartMapped \/ OpenMapped \/ \E i \in Indices : PutTouches(i)
  BY <1>3, RuntimeStep
<1>4. CASE Others
  BY <1>4, OthersStep
<1>5. CASE Interference
  BY <1>5, InterferenceKeepsInv
<1>6. CASE UNCHANGED hvars
  <2>1. ExecutorInv' /\ phase' = phase /\ calls' = calls
    BY <1>6, ExecutorUnchanged DEF IInv, hvars, vars, callVars
  <2> QED
    BY <1>6, <2>1, MemoryKept DEF hvars
<1> QED
  BY <1>1, <1>2, <1>3, <1>4, <1>5, <1>6 DEF HNext

\* The invariant that the properties follow from: where the test program, its
\* executor, the server and the program under test are together, the books of the
\* outputs, what the memory and the stdin file hold, and who owns the segment.
THEOREM Invariance == HSpec => []IInv
<1>1. HInit => IInv
  BY InitIInv
<1>2. IInv /\ [HNext]_hvars => IInv'
  BY NextIInv
<1> QED
  BY <1>1, <1>2, PTL DEF HSpec

-------------------------------------------------------------------------------
(* The properties. *)

\* Every variable of the test program, of the executors, of the server and of the
\* program under test keeps its type (executor.cpp, create_shared_memory.cpp).
THEOREM HarnessTypeCorrect == HSpec => []HarnessTypeOK
<1>1. IInv => HarnessTypeOK
  BY DEF IInv
<1> QED
  BY <1>1, Invariance, PTL

\* Whatever the order in which epoll_wait (executor.cpp) reports the outputs and
\* the response, however much a run writes and however small the pipes are, a call
\* returns both outputs of its own run, complete and in order.
THEOREM OutputsAlwaysComplete == HSpec => []OutputsComplete
<1>1. ASSUME IInv, Returned, NEW o \in Outputs
      PROVE  /\ collected[executor][o] = written[executor][o]
             /\ \A i \in 1 .. Len(collected[executor][o]) :
                  collected[executor][o][i] = <<calls[executor], i>>
  <2> DEFINE k == collected[executor][o]
             w == written[executor][o]
  <2>1. Balanced(calls[executor], w, k, output[executor][o])
    BY <1>1 DEF IInv, ExecutorInv, CallInv, Books
  <2>2. output[executor][o] = <<>>
    BY <1>1 DEF IInv, ExecutorInv, QuietInv, Returned
  <2>3. k \in Seq(Chunks) /\ w \in Seq(Chunks)
    BY <1>1, HarnessAssumption DEF IInv, ExecutorInv, TypeOK
  <2>4. Len(k) \in Nat /\ Len(output[executor][o]) = 0
    BY <2>2, <2>3, LenProperties
  <2> HIDE DEF k, w
  <2>5. Len(w) = Len(k) /\ (\A i \in 1 .. Len(w) : w[i] = k[i])
        /\ \A i \in 1 .. Len(k) : k[i] = <<calls[executor], i>>
    BY <2>1, <2>4 DEF Balanced
  <2>6. k = w
    BY <2>3, <2>5, SeqEqual
  <2> QED
    BY <2>5, <2>6 DEF k, w
<1>2. IInv => OutputsComplete
  BY <1>1 DEF OutputsComplete
<1> QED
  BY <1>2, Invariance, PTL

\* A call (executor.cpp) never returns without the response of its own run, and
\* leaves neither a response nor a command nor a live program for the next call.
THEOREM AlwaysReturnsItsResponse == HSpec => []ReturnsItsResponse
<1>1. IInv => ReturnsItsResponse
  BY DEF IInv, ExecutorInv, CallInv, QuietInv, ReturnsItsResponse, Returned
<1> QED
  BY <1>1, Invariance, PTL

\* However executors of other test programs open and remove the stdin file, as
\* long as none of them has been called a program under test reads the test case
\* of the call that it runs for, and nothing of an earlier one.  It reads nothing
\* at all if the file was removed and a third executor has made it anew.
THEOREM InputAlwaysTestcase == HSpec => []InputIsTestcase
<1>1. ASSUME IInv, OthersIdle, put[executor] = "running", input[executor] # Unread
      PROVE  input[executor] = IF FileReplaced THEN NoContents ELSE Exactly(testcase[executor])
  <2>1. FileReplaced <=> put_stdin[executor] # stdin_fd[executor]
    BY <1>1 DEF IInv, ExecutorInv, FileInv, FileReplaced, Removed
  <2> QED
    BY <1>1, <2>1 DEF IInv, ExecutorInv, FileInv
<1>2. IInv => InputIsTestcase
  BY <1>1 DEF OthersIdle, InputIsTestcase
<1> QED
  BY <1>2, Invariance, PTL

\* What the loop over the memory (range_traits.hpp, shared_range.hpp) has read
\* after a call is all that its run wrote, and elsewhere only what was written
\* since the memory was last cleared, the mark of the attaching server included,
\* for any size of the memory and however often the test program clears it.
THEOREM CoverageAlwaysOfCall == HSpec => []CoverageIsOfCall
<1>1. ASSUME IInv, hpc = "next"
      PROVE  /\ Len(seen) = Size
             /\ \A i \in 1 .. Size : /\ seen[i] \in {Clear} \cup since
                                    /\ seen[i] = calls[executor] <=> i - 1 \in touched
             /\ ByServer \in since => seen[1] # Clear
  <2>1. Len(seen) = Size /\ Size >= 1
    BY <1>1, HarnessAssumption DEF IInv, MemoryInv
  <2>2. \A i \in 1 .. Size : i - 1 \in Indices /\ seen[i] = bytes[i - 1]
    BY <1>1, <2>1, HarnessAssumption DEF IInv, MemoryInv, Indices
  <2>3. seen[1] = bytes[0]
    BY <2>1, <2>2, HarnessAssumption
  <2> QED
    BY <1>1, <2>1, <2>2, <2>3 DEF IInv, MemoryInv
<1>2. IInv => CoverageIsOfCall
  BY <1>1 DEF CoverageIsOfCall
<1> QED
  BY <1>2, Invariance, PTL

\* The memory stays mapped as long as an iterator is left, the segment is there as
\* long as the server or a program under test uses it, and a test program that
\* leaves its scope leaves no segment behind (create_shared_memory.cpp).
THEOREM SegmentAlwaysLives == HSpec => []SegmentLifetime
<1>1. ASSUME IInv, hpc # "crashed" PROVE attached <=> owners > 0
  BY <1>1 DEF IInv, SegmentInv, HarnessTypeOK
<1>2. ASSUME IInv, hpc # "crashed", Users # {} PROVE segment = "present" /\ hpc # "returned"
  <2>1. CASE mapped /\ server[executor] # "dead"
    <3>1. hpc \notin {"create", "created", "clear", "construct", "release", "returned"}
      BY <1>2, <2>1 DEF IInv, SegmentInv, PlaceInv, ExecutorInv, StartInv
    <3> QED
      BY <1>2, <3>1 DEF IInv, SegmentInv, HarnessTypeOK
  <2>2. CASE put[executor] \in {"setup", "running"}
    <3>1. hpc = "wait"
      BY <1>2, <2>2, AliveInCall
    <3> QED
      BY <1>2, <3>1 DEF IInv, SegmentInv
  <2> QED
    BY <1>2, <2>1, <2>2 DEF Users
<1>3. ASSUME IInv, hpc = "returned" PROVE segment = "removed"
  BY <1>3 DEF IInv, SegmentInv
<1>4. IInv => SegmentLifetime
  BY <1>1, <1>2, <1>3 DEF SegmentLifetime
<1> QED
  BY <1>4, Invariance, PTL
===============================================================================
