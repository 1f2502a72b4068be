-------------------------------- MODULE Harness --------------------------------
(***************************************************************************)
(* A test program that uses one Executor and a piece of shared memory, as  *)
(* tool/dump_ijon_shm.cpp and the programs of test/features/bitmap do: it  *)
(* makes the memory (create_shared_memory.cpp), starts the executor, calls *)
(* it and reads the memory.  It clears the memory before the executor is   *)
(* made (dump_ijon_shm.cpp), before each call (bitmap.cpp), or never       *)
(* (update_method.cpp).  The runtime in the server or in its children      *)
(* attaches the same memory, and programs under test write to it.  Other test programs run on the same   *)
(* machine: their executors use the same stdin file.  Executor has          *)
(* everything else.                                                        *)
(***************************************************************************)
EXTENDS Executor

CONSTANTS
  executor,   \* the one of the test program
  OtherCalls, \* bound: calls of each of the others
  Size        \* bytes of the shared memory

ASSUME HarnessAssumption == executor \in Executors /\ OtherCalls \in Nat /\ Size \in Nat \ {0}

VARIABLES
  hpc,        \* where the test program is
  attacher,   \* who attaches: the server before it forks, or each child (link order)
  mapped,     \* whether the server has
  segment,    \* the segment in the kernel
  attached,   \* whether the test program has it mapped
  owners,     \* shared iterators that own the mapping
  position,   \* of the iterator in the loop under way
  bytes,      \* the run that wrote each byte last
  seen,       \* bytes that the loop over the memory has read
  touched,    \* history: bytes that the run of the last call has written
  since       \* history: the runs, and the server, since the memory was last cleared

memVars ==
  <<attacher, mapped, segment, attached, owners, position, bytes, seen, touched, since>>
hvars == <<hpc, memVars, vars>>

Clear == 0
ByServer == -1
Indices == 0 .. Size - 1

HarnessTypeOK ==
  /\ TypeOK
  /\ hpc \in {"create", "created", "clear", "construct", "start", "fill",
               "call", "wait", "read", "next", "destroy",
              "release", "returned", "crashed"}
  /\ attacher \in {"server", "child"}
  /\ mapped \in BOOLEAN
  /\ segment \in {"none", "present", "removed"}
  /\ attached \in BOOLEAN
  /\ owners \in 0 .. 4
  /\ position \in 0 .. Size
  /\ bytes \in [Indices -> ByServer .. MaxCalls]
  /\ seen \in Seq(ByServer .. MaxCalls) /\ Len(seen) <= Size
  /\ touched \subseteq Indices
  /\ since \subseteq ByServer .. MaxCalls

HInit ==
  /\ Init
  /\ hpc = "create"
  /\ attacher \in {"server", "child"} /\ mapped = FALSE
  /\ segment = "none" /\ attached = FALSE /\ owners = 0
  /\ position = 0
  /\ bytes = [i \in Indices |-> Clear]
  /\ seen = <<>>
  /\ touched = {}
  /\ since = {}

-------------------------------------------------------------------------------
(* create_shared_memory, and the iterators that it returns. *)

\* Two iterators are left: begin and end.
CreateSharedMemory ==
  /\ hpc = "create"
  /\ segment' = "present" /\ attached' = TRUE
  /\ owners' = 2
  /\ hpc' = "created"
  /\ UNCHANGED <<attacher, mapped, position, bytes, seen, touched, since, vars>>

\* shmget or shmat returns -1.  The tests for 0 and nullptr let it pass, and
\* std::fill writes at an address that is not mapped; what shmget made stays.
CreateSharedMemoryFails ==
  /\ hpc = "create"
  /\ segment' \in {"none", "present"}
  /\ hpc' = "crashed"
  /\ UNCHANGED <<attacher, mapped, attached, owners, position, bytes, seen, touched, since,
                 vars>>

\* Mutant: one of the iterators is enough to run the deleter.
ReleaseFirst(n) ==
  /\ owners' = owners - n
  /\ attached' = FALSE
  /\ segment' = "removed"

\* n iterators are destroyed; with the last one the deleter runs.
Release(n) ==
  /\ owners' = owners - n
  /\ attached' = (attached /\ owners' > 0)
  /\ segment' = IF owners' > 0 THEN segment ELSE "removed"

\* A loop over the range holds copies of both iterators.
BeginLoop(loop) ==
  /\ owners' = owners + 2
  /\ position' = 0
  /\ hpc' = loop

\* position # end
InLoop(loop) == hpc = loop /\ position < Size

EndLoop(loop, next) ==
  /\ hpc = loop /\ position = Size
  /\ Release(2)
  /\ hpc' = next
  /\ UNCHANGED <<attacher, mapped, position, bytes, seen, touched, since, vars>>

-------------------------------------------------------------------------------
(* The test program. *)

ConstructExecutor ==
  /\ hpc \in {"created", "construct"}
  /\ StartServer(executor)
  /\ hpc' = "start"
  /\ UNCHANGED memVars

\* std::fill(shm.begin(), shm.end(), 0), before there is an executor.
BeginClear ==
  /\ hpc = "created"
  /\ BeginLoop("clear")
  /\ since' = {}
  /\ UNCHANGED <<attacher, mapped, segment, attached, bytes, seen, touched, vars>>

\* The same before a call.
BeginFill ==
  /\ hpc \in {"start", "next"} /\ phase[executor] = "ready" /\ calls[executor] < MaxCalls
  /\ BeginLoop("fill")
  /\ since' = {}
  /\ UNCHANGED <<attacher, mapped, segment, attached, bytes, seen, touched, vars>>

Fill ==
  /\ InLoop("clear") \/ InLoop("fill")
  /\ bytes' = [bytes EXCEPT ![position] = Clear]
  /\ position' = position + 1
  /\ UNCHANGED <<hpc, attacher, mapped, segment, attached, owners, seen, touched, since, vars>>

\* Cleared for this call or not.  What a run writes is counted from its call on.
CallExecutor ==
  /\ hpc \in {"start", "next", "call"} /\ phase[executor] = "ready"
  /\ \E t \in TestCases : Write(executor, t)
  /\ touched' = {} /\ seen' = <<>>
  /\ since' = since \cup {calls'[executor]}
  /\ hpc' = "wait"
  /\ UNCHANGED <<attacher, mapped, segment, attached, owners, position, bytes>>

\* for (const auto v : shm)
BeginRead ==
  /\ hpc = "wait" /\ phase[executor] = "ready"
  /\ BeginLoop("read")
  /\ UNCHANGED <<attacher, mapped, segment, attached, bytes, seen, touched, since, vars>>

Read ==
  /\ InLoop("read")
  /\ seen' = Append(seen, bytes[position])
  /\ position' = position + 1
  /\ UNCHANGED <<hpc, attacher, mapped, segment, attached, owners, bytes, touched, since, vars>>

\* The executor is destroyed before the memory: it was made after it.
DestroyExecutor ==
  /\ hpc \in {"start", "next"} /\ phase[executor] = "ready"
  /\ Destroy(executor)
  /\ hpc' = "destroy"
  /\ UNCHANGED memVars

\* After the destructor, or when the constructor has thrown and is caught.
LeaveScope ==
  /\ hpc \in {"start", "destroy"} /\ phase[executor] \in {"destroyed", "thrown"}
  /\ hpc' = "release"
  /\ UNCHANGED <<memVars, vars>>

\* Nobody catches what the constructor throws, a signal ends the program, or an
\* exception leaves the destructor: nothing is destroyed.
Terminate ==
  /\ hpc \in {"start", "destroy"} /\ phase[executor] \in {"thrown", "terminated"}
  /\ hpc' = "crashed" /\ attached' = FALSE
  /\ UNCHANGED <<attacher, mapped, segment, owners, position, bytes, seen, touched, since, vars>>

ReleaseIterator ==
  /\ hpc = "release"
  /\ Release(1)
  /\ hpc' = IF owners' = 0 THEN "returned" ELSE "release"
  /\ UNCHANGED <<attacher, mapped, position, bytes, seen, touched, since, vars>>

-------------------------------------------------------------------------------
(* The runtime in the server and in its children. *)

\* The constructor of the runtime, before the server starts: it marks a byte.
ServerMaps ==
  /\ server[executor] = "starting" /\ attacher = "server" /\ ~mapped
  /\ mapped' = TRUE
  /\ bytes' = [bytes EXCEPT ![0] = ByServer]
  /\ since' = since \cup {ByServer}
  /\ UNCHANGED <<hpc, attacher, segment, attached, owners, position, seen, touched, vars>>

StartMapped ==
  /\ attacher = "server" => mapped
  /\ ServerStarts(executor)
  /\ UNCHANGED <<hpc, memVars>>

OpenMapped ==
  /\ PutOpensStdin(executor)
  /\ IF attacher = "child" /\ put'[executor] = "running"
     THEN bytes' = [bytes EXCEPT ![0] = calls[executor]] /\ touched' = touched \cup {0}
     ELSE UNCHANGED <<bytes, touched>>
  /\ UNCHANGED <<hpc, attacher, mapped, segment, attached, owners, position, seen, since>>

PutTouches(i) ==
  /\ put[executor] = "running"
  /\ bytes' = [bytes EXCEPT ![i] = calls[executor]]
  /\ touched' = touched \cup {i}
  /\ UNCHANGED <<hpc, attacher, mapped, segment, attached, owners, position, seen, since, vars>>

\* The steps of the executor, the server and the program that leave memory alone.
Others ==
  /\ \/ ExecutorStep(executor)
     \/ ServerExecs(executor)
     \/ ServerFailsToStart(executor)
     \/ ServerReadsCommand(executor)
     \/ ServerForkFails(executor)
     \/ ServerAnswers(executor)
     \/ ServerReadsEndOfFile(executor)
     \/ ServerKilledByAlarm(executor)
     \/ PutReads(executor)
     \/ \E o \in Outputs : PutWrites(executor, o)
     \/ PutEnds(executor)
  /\ UNCHANGED <<hpc, memVars>>

-------------------------------------------------------------------------------
(* Another test program, of which only the stdin file is shared: its server and
   its programs under test are left out. *)

OtherStarts(e) == phase[e] = "absent" /\ GoTo(e, "OpenStdin") /\ UNCHANGED <<callVars, ioVars,
                    toServer, fromServer, output, server, putVars>>

OtherReturns(e) == phase[e] = "epoll_wait" /\ GoTo(e, "ready") /\ UNCHANGED <<callVars, ioVars,
                     toServer, fromServer, output, server, putVars>>

Interference ==
  /\ \E e \in Executors \ {executor} :
       \/ OtherStarts(e)
       \/ OpenStdin(e)
       \/ calls[e] < OtherCalls /\ \E t \in TestCases : Write(e, t)
       \/ Truncate(e)
       \/ OtherReturns(e)
       \/ Destroy(e)
  /\ UNCHANGED <<hpc, memVars>>

-------------------------------------------------------------------------------
HarnessStep ==
  \/ CreateSharedMemory
  \/ CreateSharedMemoryFails
  \/ BeginClear
  \/ ConstructExecutor
  \/ BeginFill
  \/ Fill
  \/ EndLoop("clear", "construct")
  \/ EndLoop("fill", "call")
  \/ CallExecutor
  \/ BeginRead
  \/ Read
  \/ EndLoop("read", "next")
  \/ DestroyExecutor
  \/ LeaveScope
  \/ Terminate
  \/ ReleaseIterator

HNext ==
  \/ HarnessStep
  \/ ServerMaps
  \/ StartMapped
  \/ OpenMapped
  \/ \E i \in Indices : PutTouches(i)
  \/ Others
  \/ Interference

HSpec == HInit /\ [][HNext]_hvars

\* The test program is scheduled, and so are its server and its programs.
FairHSpec == HSpec /\ Fairness(executor) /\ WF_hvars(HarnessStep) /\ WF_hvars(ServerMaps)

-------------------------------------------------------------------------------
(* Properties. *)

Returned == phase[executor] = "ready" /\ calls[executor] > 0

\* A call returns everything its run wrote to either output, in order, and
\* nothing of another run, though the response may be read before the outputs,
\* and whatever other executors do to the stdin file.
OutputsComplete ==
  Returned => \A o \in Outputs :
    /\ collected[executor][o] = written[executor][o]
    /\ \A i \in 1 .. Len(collected[executor][o]) :
         collected[executor][o][i] = <<calls[executor], i>>

\* A call never returns without the response of its own run, and leaves nothing
\* behind for the next one: no response, no command, no PUT.
ReturnsItsResponse ==
  Returned =>
    /\ response[executor] \in {calls[executor]} \X Fates
    /\ fromServer[executor] = <<>> /\ toServer[executor] = <<>>
    /\ put[executor] = "absent"

\* The destructor of another executor has removed the file that the executor
\* writes to, and a third one has made a new one.
FileReplaced ==
  /\ put_stdin[executor] # stdin_fd[executor]
  /\ \E e \in Executors \ {executor} : phase[e] \in {"WaitServer", "terminated"}

\* As long as no other executor has written a test case, a PUT reads that of the
\* call it runs for, all of it and nothing that an earlier, longer one has left
\* in the file, even if others have opened or removed the file.  The exception is
\* a file that was removed and made anew: then it reads nothing at all.
InputIsTestcase ==
  /\ \A e \in Executors \ {executor} : calls[e] = 0
  /\ put[executor] = "running" /\ input[executor] # Unread
  => input[executor] = IF FileReplaced THEN NoContents ELSE Exactly(testcase[executor])

\* What the test program reads after a call is all that the run of that call
\* wrote, and elsewhere only what was written since it cleared the memory last,
\* by earlier runs or by the attaching server.  So if it clears before each call
\* it reads that run alone; and if it does not, the mark of the server is there.
CoverageIsOfCall ==
  hpc = "next" =>
    /\ Len(seen) = Size
    /\ \A i \in 1 .. Size : /\ seen[i] \in {Clear} \cup since
                           /\ seen[i] = calls[executor] <=> i - 1 \in touched
    /\ ByServer \in since => seen[1] # Clear

Users == {p \in {"server", "put"} :
            \/ p = "server" /\ mapped /\ server[executor] # "dead"
            \/ p = "put" /\ put[executor] \in {"setup", "running"}}

\* The memory is mapped as long as an iterator of it is there, the segment is
\* there as long as the server or a program uses it, and a test program that
\* leaves its scope, through an exception or not, leaves no segment behind.
SegmentLifetime ==
  hpc # "crashed" =>
    /\ attached <=> owners > 0
    /\ Users # {} => segment = "present"
    /\ hpc = "returned" => segment = "removed" /\ Users = {}

\* A call whose server survives returns.
CallReturnsIfServerLives ==
  phase[executor] = "epoll_wait" ~> (phase[executor] # "epoll_wait" \/ server[executor] = "dead")

\* A test program that has made its memory ends, unless the fork server dies
\* during a call.
HarnessEnds ==
  hpc = "created" ~> \/ hpc \in {"returned", "crashed"}
                     \/ phase[executor] = "epoll_wait" /\ server[executor] = "dead"
===============================================================================
