-------------------------------- MODULE Bitmap --------------------------------
(***************************************************************************)
(* The coverage bitmap: what the code does that bitmap-llvm-pass.so.cc     *)
(* puts at the head of each block, the runtime that maps the bitmap        *)
(* (bitmap-llvm-rt.o.c), and the runs of an instrumented program that has  *)
(* a fork server: a server that stops in its last constructor, and one     *)
(* child at a time that goes on from there, with as many threads as it     *)
(* likes.  The client clears the bitmap between runs, or does not.         *)
(***************************************************************************)
EXTENDS Integers, Sequences, FiniteSets

CONSTANTS
  Threads,     \* threads of the program
  Main,        \* the one that fork() copies
  Blocks,      \* instrumented blocks
  MapSize,     \* MAP_SIZE, bytes of the bitmap
  IdMapSize,   \* --bb-id-assigner-map-size, or the blocks if they are numbered
  IdSpace,     \* 2^31: ids, which are not negative, and what is computed from them
  ByteValues,  \* 256: values of a counter
  BitXor(_, _), \* bitwise exclusive or
  MaxBlocks,   \* bound: blocks that a thread executes in a run
  MaxRuns      \* bound: runs

Locations == 0 .. MapSize - 1
Ids == 0 .. IdSpace - 1
Bytes == 0 .. ByteValues - 1

ASSUME SizeAssumption ==
  /\ IdSpace \in Nat /\ MapSize \in 1 .. IdSpace /\ IdMapSize \in 1 .. IdSpace
  /\ ByteValues \in Nat /\ ByteValues > 1
ASSUME ThreadAssumption == Main \in Threads
ASSUME BlockAssumption == MaxBlocks \in Nat /\ MaxRuns \in Nat
\* Both sizes are powers of two.  The size that ids are drawn from need not be.
ASSUME XorAssumption ==
  /\ \A a, b \in Ids : BitXor(a, b) \in Ids
  /\ \A a, b \in Locations : BitXor(a, b) \in Locations

InstrumentationMethods == {"HASHED_EDGE", "NODE"}
UpdateMethods == {"NAIVE", "AVOID_ZERO", "CAP_FF"}

VARIABLES
  program,   \* how it was instrumented, the ids of its blocks, its environment
  phase,     \* how far the server has come, or whether a child runs
  server,    \* what fork() copies: the globals of the server
  area_ptr,  \* __bitmap_area_ptr of the running process: "initial" or "shm"
  init_done, \* in __bitmap_manual_init
  prev_loc,  \* [Threads -> __bitmap_prev_loc]
  pc,        \* [Threads -> where the thread is in the code of its block]
  loc,       \* [Threads -> BitMapLoc]
  counter,   \* [Threads -> Counter]
  shm,       \* the shared memory
  runs,      \* runs so far
  cleared,   \* history: the client cleared the bitmap before this run
  visits,    \* history: [Locations -> updates since the bitmap was cleared]
  path       \* history: [Threads -> blocks executed in this run]

globals == <<area_ptr, init_done>>
registers == <<loc, counter>>
vars == <<program, phase, server, globals, prev_loc, pc, registers, shm, runs, cleared,
          visits, path>>

Programs == [instrumentation : InstrumentationMethods, update : UpdateMethods,
             id : [Blocks -> 0 .. IdMapSize - 1], deferred : BOOLEAN, shm_id : BOOLEAN]

Phases == {"early", "constructors", "idle", "run", "exited"}
\* A thread is about to access what lies past the end of the area it has loaded.
Past == {"past_initial", "past_shm"}
Nobody == [t \in Threads |-> "none"]
OnlyMain == [Nobody EXCEPT ![Main] = "block"]
Zeros(S) == [x \in S |-> 0]

TypeOK ==
  /\ program \in Programs
  /\ phase \in Phases
  /\ server \in [area_ptr : {"initial", "shm"}, init_done : BOOLEAN, prev_loc : Ids]
  /\ area_ptr \in {"initial", "shm"}
  /\ init_done \in BOOLEAN
  /\ prev_loc \in [Threads -> Ids]
  /\ pc \in [Threads -> {"none", "block", "load", "store", "mark"} \cup Past]
  /\ loc \in [Threads -> Locations]
  /\ counter \in [Threads -> Bytes]
  /\ shm \in [Locations -> Bytes]
  /\ runs \in 0 .. MaxRuns
  /\ cleared \in BOOLEAN
  /\ visits \in [Locations -> Nat]
  /\ path \in [Threads -> Seq(Blocks)]

\* The bb-id-assigner draws ids at random below its map size, or numbers the blocks
\* of a module.  Two blocks may have the same id, and no id needs to be below
\* MAP_SIZE.
Init ==
  /\ program \in Programs
  /\ phase = "early"
  /\ server = [area_ptr |-> "initial", init_done |-> FALSE, prev_loc |-> 0]
  /\ area_ptr = "initial"
  /\ init_done = FALSE
  /\ prev_loc = Zeros(Threads)
  /\ pc = OnlyMain
  /\ loc = Zeros(Threads)
  /\ counter = Zeros(Threads)
  /\ shm = Zeros(Locations)
  /\ runs = 0
  /\ cleared = FALSE
  /\ visits = Zeros(Locations)
  /\ path = [t \in Threads |-> <<>>]

-------------------------------------------------------------------------------
(* The instrumentation of a block. *)

Naive(c) == (c + 1) % ByteValues

\* Mutant: ICmpNE for ICmpEQ.
AvoidZeroInverted(c) == IF Naive(c) = 0 THEN 0 ELSE Naive(Naive(c))

AvoidZero(c) == IF Naive(c) = 0 THEN 1 ELSE Naive(c)

CapFF(c) == IF c # ByteValues - 1 THEN c + 1 ELSE c

\* updateBitmap
Updated(c) ==
  [NAIVE |-> Naive(c), AVOID_ZERO |-> AvoidZero(c), CAP_FF |-> CapFF(c)][program.update]

\* cur_loc >> 1
Shifted(b) == program.id[b] \div 2

\* Mutant: __bitmap_prev_loc is not thread-local.
PrevLocGlobal(t, b) ==
  IF program.instrumentation = "HASHED_EDGE" THEN [u \in Threads |-> Shifted(b)] ELSE prev_loc

PrevLocAfter(t, b) ==
  IF program.instrumentation = "HASHED_EDGE" THEN [prev_loc EXCEPT ![t] = Shifted(b)] ELSE prev_loc

\* Mutant: a sum for the exclusive or.
BitMapLocSum(t, b) ==
  IF program.instrumentation = "HASHED_EDGE" THEN prev_loc[t] + program.id[b] ELSE program.id[b]

BitMapLoc(t, b) ==
  IF program.instrumentation = "HASHED_EDGE" THEN BitXor(prev_loc[t], program.id[b])
                                             ELSE program.id[b]

\* getBitmapLocation, whose state belongs to the thread, and the load of
\* __bitmap_area_ptr.  Nobody looks at the bytes of __bitmap_area_initial, and
\* nothing compares the location with MAP_SIZE.
EnterBlock(t, b) ==
  /\ pc[t] = "block"
  /\ Len(path[t]) < MaxBlocks
  /\ path' = [path EXCEPT ![t] = Append(@, b)]
  /\ prev_loc' = PrevLocAfter(t, b)
  /\ CASE BitMapLoc(t, b) \notin Locations ->
            /\ pc' = [pc EXCEPT ![t] = IF area_ptr = "shm" THEN "past_shm" ELSE "past_initial"]
            /\ UNCHANGED loc
       [] BitMapLoc(t, b) \in Locations /\ area_ptr = "shm" ->
            /\ loc' = [loc EXCEPT ![t] = BitMapLoc(t, b)]
            /\ pc' = [pc EXCEPT ![t] = "load"]
       [] OTHER -> UNCHANGED <<loc, pc>>
  /\ UNCHANGED <<program, phase, server, globals, counter, shm, runs, cleared, visits>>

LoadCounter(t) ==
  /\ pc[t] = "load"
  /\ counter' = [counter EXCEPT ![t] = shm[loc[t]]]
  /\ pc' = [pc EXCEPT ![t] = "store"]
  /\ UNCHANGED <<program, phase, server, globals, prev_loc, loc, shm, runs, cleared, visits, path>>

\* The registers are dead afterwards.
StoreCounter(t) ==
  /\ pc[t] = "store"
  /\ shm' = [shm EXCEPT ![loc[t]] = Updated(counter[t])]
  /\ visits' = [visits EXCEPT ![loc[t]] = @ + 1]
  /\ pc' = [pc EXCEPT ![t] = "block"]
  /\ loc' = [loc EXCEPT ![t] = 0]
  /\ counter' = [counter EXCEPT ![t] = 0]
  /\ UNCHANGED <<program, phase, server, globals, prev_loc, runs, cleared, path>>

\* The load and the store at a location past the end: some other byte of the process
\* is updated.  After the shared memory there are other mappings; after
\* __bitmap_area_initial there are globals, init_done among them.
UpdatePast(t) ==
  /\ pc[t] \in Past
  /\ pc' = [pc EXCEPT ![t] = "block"]
  /\ IF pc[t] = "past_initial" THEN init_done' \in BOOLEAN ELSE UNCHANGED init_done
  /\ UNCHANGED <<program, phase, server, area_ptr, prev_loc, registers, shm, runs, cleared,
                 visits, path>>

\* ... or nothing is mapped there, and the server dies.  A child ends its run.
FaultsPast ==
  /\ phase \in {"early", "constructors"}
  /\ pc[Main] \in Past
  /\ phase' = "exited"
  /\ pc' = Nobody
  /\ UNCHANGED <<program, server, globals, prev_loc, registers, shm, runs, cleared, visits, path>>

-------------------------------------------------------------------------------
(* The runtime. *)

\* __bitmap_map_shm: the bitmap is mapped, and gets a first byte.
MarkFirst ==
  /\ shm' = [shm EXCEPT ![0] = 1]
  /\ visits' = [visits EXCEPT ![0] = @ + 1]

\* __bitmap_auto_init, while there is one thread.
AutoInit ==
  /\ phase = "early"
  /\ pc[Main] = "block"
  /\ phase' = "constructors"
  /\ init_done' = (init_done \/ ~program.deferred)
  /\ IF program.deferred \/ init_done \/ ~program.shm_id
     THEN UNCHANGED <<area_ptr, shm, visits>>
     ELSE area_ptr' = "shm" /\ MarkFirst
  /\ UNCHANGED <<program, server, prev_loc, pc, registers, runs, cleared, path>>

\* __bitmap_manual_init called by the program: other threads may be anywhere in
\* their blocks, and may call it as well.
ManualInit(t) ==
  /\ pc[t] = "block"
  /\ ~init_done
  /\ IF program.shm_id
     THEN /\ area_ptr' = "shm"
          /\ pc' = [pc EXCEPT ![t] = "mark"]
          /\ UNCHANGED init_done
     ELSE /\ init_done' = TRUE
          /\ UNCHANGED <<area_ptr, pc>>
  /\ UNCHANGED <<program, phase, server, prev_loc, registers, shm, runs, cleared, visits, path>>

ManualInitDone(t) ==
  /\ pc[t] = "mark"
  /\ MarkFirst
  /\ init_done' = TRUE
  /\ pc' = [pc EXCEPT ![t] = "block"]
  /\ UNCHANGED <<program, phase, server, area_ptr, prev_loc, registers, runs, cleared, path>>

\* shmat() fails in the server.  In a child it is one more way to end a run.
AttachFails ==
  /\ phase \in {"early", "constructors"}
  /\ pc[Main] = "block"
  /\ ~init_done /\ program.shm_id
  /\ phase' = "exited"
  /\ pc' = Nobody
  /\ UNCHANGED <<program, server, globals, prev_loc, registers, shm, runs, cleared, visits, path>>

-------------------------------------------------------------------------------
(* Runs. *)

\* The server waits in its last constructor.
StartForkServer ==
  /\ phase = "constructors"
  /\ pc[Main] = "block"
  /\ phase' = "idle"
  /\ server' = [area_ptr |-> area_ptr, init_done |-> init_done, prev_loc |-> prev_loc[Main]]
  /\ pc' = Nobody
  /\ UNCHANGED <<program, globals, prev_loc, registers, shm, runs, cleared, visits, path>>

\* Mutant: the child goes on with the location of the last run.
ForkedPrevLocKept == prev_loc

ForkedPrevLoc == [Zeros(Threads) EXCEPT ![Main] = server.prev_loc]

\* The client has the program run, and may clear the bitmap before, as GetCoverage
\* does with std::fill.  The server forks.
Execute(clear) ==
  /\ phase = "idle"
  /\ runs < MaxRuns
  /\ runs' = runs + 1
  /\ phase' = "run"
  /\ cleared' = clear
  /\ shm' = IF clear THEN Zeros(Locations) ELSE shm
  /\ visits' = IF clear THEN Zeros(Locations) ELSE visits
  /\ pc' = OnlyMain
  /\ prev_loc' = ForkedPrevLoc
  /\ path' = [t \in Threads |-> <<>>]
  /\ UNCHANGED <<program, server, globals, registers>>

\* A new thread has thread-locals of its own.
StartThread(t) ==
  /\ phase = "run"
  /\ pc[t] = "none"
  /\ pc' = [pc EXCEPT ![t] = "block"]
  /\ UNCHANGED <<program, phase, server, globals, prev_loc, registers, shm, runs, cleared,
                 visits, path>>

\* The program ends, or is killed, with all its threads wherever they are.
EndRun ==
  /\ phase = "run"
  /\ phase' = "idle"
  /\ area_ptr' = server.area_ptr
  /\ init_done' = server.init_done
  /\ pc' = Nobody
  /\ loc' = Zeros(Threads)
  /\ counter' = Zeros(Threads)
  /\ UNCHANGED <<program, server, prev_loc, shm, runs, cleared, visits, path>>

Next ==
  \/ \E t \in Threads :
       \/ \E b \in Blocks : EnterBlock(t, b)
       \/ LoadCounter(t)
       \/ StoreCounter(t)
       \/ UpdatePast(t)
       \/ ManualInit(t)
       \/ ManualInitDone(t)
       \/ StartThread(t)
  \/ FaultsPast
  \/ AutoInit
  \/ AttachFails
  \/ StartForkServer
  \/ \E clear \in BOOLEAN : Execute(clear)
  \/ EndRun

Spec == Init /\ [][Next]_vars

-------------------------------------------------------------------------------
(* What must hold. *)

\* No block updates a byte outside the bitmap unless ids are too large for it: halving
\* and exclusive or lead to no location that the ids themselves do not fit.  Ids are
\* too large when there are more blocks than bytes, or --bb-id-assigner-map-size is
\* above MAP_SIZE.
PastOnlyByIds ==
  (\E t \in Threads : pc[t] \in Past) => \E b \in Blocks : program.id[b] \notin Locations

\* However threads race for a byte, a location that was visited does not read 0
\* under AVOID_ZERO and CAP_FF, until the client clears it.
VisitedNotZero ==
  program.update # "NAIVE" => \A l \in Locations : visits[l] > 0 => shm[l] # 0

\* Races lose updates and counters wrap, but no byte ever says more than what
\* happened since the client cleared it, in whichever run.
NeverOvercounts == \A l \in Locations : shm[l] <= visits[l]

\* The location for the i-th block on the path of a thread: of the edge from the
\* block before it in the same thread, under HASHED_EDGE.
LocationOf(t, i) ==
  LET cur_loc == program.id[path[t][i]]
      before == IF i > 1 THEN program.id[path[t][i - 1]] \div 2
                         ELSE IF t = Main THEN server.prev_loc ELSE 0
  IN IF program.instrumentation = "HASHED_EDGE" THEN BitXor(before, cur_loc) ELSE cur_loc

\* After a run on a cleared bitmap, every location that is set is an edge that
\* one thread took in that run: no edge joins blocks of two threads, and none
\* comes from an earlier run.  The runtime may mark location 0 when a child maps the
\* bitmap.
EdgesAreOfOneThread ==
  cleared => \A l \in Locations : shm[l] # 0 =>
    \/ \E t \in Threads : \E i \in DOMAIN path[t] : LocationOf(t, i) = l
    \/ l = 0 /\ program.shm_id /\ server.area_ptr = "initial"

\* What a byte holds after n visits by one thread.
Counted(n) ==
  CASE program.update = "NAIVE"      -> n % ByteValues
    [] program.update = "AVOID_ZERO" -> IF n = 0 THEN 0 ELSE 1 + ((n - 1) % (ByteValues - 1))
    [] program.update = "CAP_FF"     -> IF n < ByteValues THEN n ELSE ByteValues - 1

\* The bitmap of a run that has had one thread depends on its path and on nothing
\* else: not on earlier runs, and not on whether this is the first one.
CoverageIsOfPath ==
  /\ cleared /\ \A t \in Threads \ {Main} : pc[t] = "none"
  /\ phase = "run" /\ pc[Main] = "block" /\ server.area_ptr = "shm"
  => \A l \in Locations :
       shm[l] = Counted(Cardinality({i \in DOMAIN path[Main] : LocationOf(Main, i) = l}))
===============================================================================
