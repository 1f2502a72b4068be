# Verification of fuzzuf-cc

fuzzuf-cc is a compiler driver for fuzzing. It compiles a program with LLVM passes and links runtimes into it: a *fork server* that runs the program once per request, a *coverage bitmap* in shared memory, and the *IJON* annotations. Test clients speak to the fork server over two pipes and read the shared memory.

This directory holds TLA+ models of the parts that run concurrently or keep state across steps, the TLC configurations that check them on small instances, and TLAPS proofs of what holds for every instance. Source locations below are relative to the repository.

## 1. Inventory

| Component | State it keeps | Operations | Status |
|---|---|---|---|
| Fork server (`features/forkserver/forkserver.c`, `config.h`) | `put_pid`, `RuntimeSettings`, SIGALRM handler, one ITIMER_REAL, place in its loop | handshake, four commands, fork, timer, handler, `waitpid` loop, response | `ForkServer`, proved |
| Benchmark client (`features/forkserver/benchmark_client.cc`) | place in the protocol | attach, configure, run, read a response, leave | in `ForkServer`, proved |
| Test executor (`src/utils/executor.cpp`, `executor.hpp`) | stdin file, epoll set, four pipes and their descriptors, child pid | constructor, `operator()`, destructor | `Executor`, `Harness` (partly), proved |
| Shared memory helper (`src/utils/create_shared_memory.cpp`) | a segment, its mapping, and the count of the iterators that own it | create, copy, release | `Harness`, proved |
| Bitmap runtime and pass (`features/bitmap`) | `__bitmap_area_ptr`, thread-local `__bitmap_prev_loc`, the bytes of the bitmap | code at the head of each block, automatic and manual initialization | `Bitmap`, proved |
| IJON runtime and annotations (`features/ijon`) | thread-local state register and log, pointers and sizes of three regions | `IJON_CTX`, push, counters, maxima, hashes and distances, initialization | `Ijon`, `IjonHash`, proved |
| Basic block id assigner (`features/bb-id-assigner`) | one cached result per module | split edges, select blocks, number them | `BlockIds`, proved |
| CFG exporter (`features/cfg-exporter`) | none | export jumps and calls over the cached ids | `BlockIds`, `Pipeline`, proved |
| Compiler driver (`fuzzuf_cc/`) | none between invocations, but files and their metadata sections are | parse options, load passes, link runtimes, add metadata | `Pipeline` (partly), proved |
| Sample program (`put/exifutil`) and the test programs | the stream over a JPEG file, what was acquired for it | options, segment walk, a handler per marker, release | `Exifutil`, `Harness` (partly), proved |
| Range utilities, build scripts | none that steps | compile-time traits, installation | not modelled |

How they interact:

- A client or the executor forks the instrumented program, which may fail to start. Its last constructor, `StartForkServer`, reads commands from descriptor 196 and writes responses to 197. Each `ExecutePUT` command forks a *program under test* (PUT) that goes on from that constructor.
- The server talks to a PUT only by signals and `waitpid()`. Its timer is never disarmed, so a SIGALRM may arrive in any later system call.
- Executor and PUT share a file (standard input) and two pipes (outputs). All executors use the same file name.
- A test program makes a System V segment, then an executor, and calls and reads the segment in turn. It clears the segment before there is an executor, before each call, or not at all; a server that attaches marks it. The runtime in the server or in each PUT finds it through environment variables and lays it out by itself; nothing in it is locked.
- Passes share the ids of blocks only through LLVM's analysis cache, within one compilation or link. Invocations of the driver share files only.

What is hard: signals between any two system calls; a timer that outlives its run; pipelined, unacknowledged commands; a server that dies while its client waits; full pipes; a file shared by processes; unlocked counters updated by several threads; process state that `fork()` copies once and a run then inherits; sizes that come from the client; a mapping owned by iterators; passes that run at one of two points, over results that live in a cache; lengths read from a file that lead back in it. `PROJECT.json` lists these as hazards, each at its line and with the properties that cover it.

What makes each component correct:

- *Fork server*: every value is read as what it was written as; a response tells how the requested run ended, once and in order; a run has the settings asked for before it; an alarm reaches only its own run and, since it is not disarmed, at most the next, unless a fork fails; a server without a client ends.
- *Executor*: a call returns its own response and the complete outputs of its own run; a program reads the test case of its call; calls and the destructor end.
- *Shared memory*: what is read after a call is what its run wrote and what has been there since the memory was last cleared; the segment outlives everybody who uses it, and nobody's exit leaves it behind.
- *Bitmap*: a set byte is an edge one thread took in this run; visited locations do not read 0; no byte overcounts; equal paths give equal bitmaps; no byte outside the bitmap is touched as long as the ids fit it.
- *IJON*: the state register is a function of the open contexts and the log; writes stay in their region; counters and maxima survive races as far as the code lets them.
- *Id assigner and exporter*: when edges are split, the blocks that are hit determine the edges taken; coverage is a walk in the exported graph.
- *Compiler driver*: a unit is instrumented once however it is built, unless its IR is compiled again; an exported graph names the ids that the program counts; metadata lands on the file it is about; supported builds succeed.
- *exifutil*: its walk ends (unless EXIF data leads it in a circle), keeps to the segments of the file, and gives back what it took.

## 2. Modules

| Module | Models | Uses |
|---|---|---|
| `PutService` | abstract: what a fork server promises its client | |
| `ForkServer` | server, PUTs, timer, pipes, benchmark client | instantiates `PutService` |
| `ForkServerProofs` | inductive invariant, safety theorems, refinement | extends `ForkServer` |
| `Executor`, `MCExecutor` | executors over a fork server seen from outside | |
| `Harness`, `MCHarness` | a test program: shared memory, executor, runtime, other test programs | extends `Executor` |
| `HarnessProofs` | inductive invariant, safety theorems | extends `Harness` |
| `Bitmap`, `MCBitmap` | instrumented blocks, bitmap runtime, runs | |
| `BitmapProofs` | three inductive invariants, safety theorems | extends `Bitmap`, `Remainders` |
| `IjonHash` | hashes and distances of the annotations | |
| `Ijon`, `MCIjon` | IJON runtime, both constructor orders, runs | extends `IjonHash` |
| `IjonProofs` | two inductive invariants, safety theorems | extends `Ijon`, `Remainders` |
| `BlockIds`, `MCBlockIds` | id assigner, exporter, a run of the program | |
| `BlockIdsProofs` | splitting, inductive invariant, safety theorems | extends `BlockIds` |
| `Pipeline`, `MCPipeline` | compiler driver, clang, lld and the passes over several invocations | |
| `PipelineProofs` | inductive invariant, safety theorems, an action property | extends `Pipeline` |
| `Exifutil`, `MCExifutil` | the sample program over all small files | |
| `ExifutilProofs` | inductive invariant, safety theorems | extends `Exifutil` |
| `Remainders` | lemmas about division with remainder | |

### ForkServer

A step is one system call of one process with the code up to the next one. `server` names the function the server is in: `WaitClientAttach`, `TellClientServerHasStarted`, `WaitForAPICall`, `RecvU64`, then `ExecutePUT`, `SetTimer`, `SetHandler`, `WaitPUT`, `SendResponse` for the parts of `ExecutePUT()`, and an ended state for each way to end. Before that it is in `Start`, from the `fork()` of the client to the constructor: `dup2()`, `execv()` and the `fopen()` of the log may fail there (`StartFails`) while the client is about to write. `ForkFailed` lies between a `fork()` that has left -1 in `put_pid` and `exit()`. `toServer` is the pipe as a sequence of the client's writes; each carries its C type as history, which the server never looks at, so reading out of frame shows. `itimer` and `sigalrm` hold the run an armed timer or pending alarm belongs to. `put`, `status`, `image` and `killer` describe each PUT: its state, its fate, what it inherited at `fork()`, and whose timer killed it.

`PUTTimeoutHandler` runs between any two steps of the server, and interrupts a read or a wait (`EINTR`), which is then taken up again. A PUT forked after the first run inherits the handler with `put_pid` 0, so an alarm of its own (`PutAlarm`) kills its process group. In `ForkFailed` the handler of the last run's timer calls `kill(-1, SIGKILL)`, which ends the client (`KillPuts`, `KillClient`). The client sends commands without waiting for an acknowledgement, may be gone after any of its writes, and aborts at the end of the pipe as `benchmark_client.cc` does.

`PutService` has a request, an end of the run, an answer and a detachment; `Service` maps its state to the client's counters and the fates of the PUTs, and `ImplementsService` is its specification under that mapping.

### Executor and Harness

`phase` follows the constructor, `operator()` with its `epoll_wait` loop, and the destructor. Each readable or hung-up descriptor of the epoll set may be the one returned. A pipe hangs up when its last writing descriptor is closed: the executor keeps none, and the server and its PUTs each have their own. The fork server does no more than `ForkServer` allows it: it ends only in a run, by a failed `fork()` or by an alarm in the first run. Several executors, each in a process of its own, share the stdin path: `path` names the file it leads to, so a file removed and created again is another one. `input` is `Unread` until the program has read, which is not the same as having read an empty file.

`Harness` puts one executor into a test program, as `tool/dump_ijon_shm.cpp` and `test/features/bitmap/bitmap.cpp` use it. `hpc` follows the program; each byte is cleared and read in a step of its own. `BeginClear` clears before the executor is made, as `dump_ijon_shm.cpp:40` does, `BeginFill` before a call, as `bitmap.cpp:66`, and neither is obligatory, as in `update_method.cpp`. `since` holds what has written to the memory since: runs, and `ByServer` for the mark of a server that attaches. `owners` counts the iterators that own the mapping, the copies in loops included; the last one runs the deleter. `attacher` says whether the runtime attaches before the server starts or in each child, which the link order decides. `Interference` is another test program of which only the stdin file is shared.

### Bitmap

`program` fixes how the program was instrumented (edges or nodes; NAIVE, AVOID_ZERO, CAP_FF), the ids of its blocks (any below the size given to the id assigner, which may be above the bitmap's, equal ones included) and its environment. `EnterBlock`, `LoadCounter` and `StoreCounter` are the inserted code, split where threads interleave. `AutoInit`, `ManualInit` and `ManualInitDone` are the runtime. `StartForkServer`, `Execute` and `EndRun` are what `fork()` and exit do to globals, thread-locals and shared memory. The code never compares a location with `MAP_SIZE`: a thread whose location is outside the bitmap has a `pc` in `Past`, named for the area it has loaded; `UpdatePast` then updates what follows that area in memory, and `FaultsPast` ends the server when nothing is mapped there. `visits`, `path` and `cleared` are history.

### Ijon and IjonHash

`Mapped` is the layout `__ijon_map_shm` computes from the three sizes, any of which may be missing. `OpenContext` and `CloseContext` are the halves of `IJON_CTX`, `PushState` is `ijon_push_state`; counters and maxima are a load or comparison and a store. `Annotations` are the macros of `ijon.h`: which function each calls and with what, computed by `IjonHash` from a place in the source, a string, a stack or a comparison. `fuzzuf-ijon-cc` links the fork server before the IJON runtime and `fuzzuf-cc` in the order of `--features`; both constructors have the default priority, so `AutoInit` may come before or after `StartForkServer`, in the second case once in each child. The log shifts by `LogBase`, 256 in the code.

### BlockIds

`program` is a module: blocks with the targets of their terminators, functions, and calls. `AssignIds` is `BBIDAssigner::run`: critical edges get a block of their own if asked for, blocks are selected, and numbered in any order or at random. `Export` is `CFGExporter::run`. Then the program runs: `Call`, `Jump`, `Return`, and `Exit` at any time. `hits` are the locations of a NODE bitmap that are not 0, `taken` and `called` are history.

### Pipeline

An invocation is one pass through `instrument`, `compile`, `passes`, `link`, `lto`, `metadata`. `files` is what is on disk: an object or program knows how often each unit was instrumented (`hits`), by which result of the id assigner (`ids`), which graphs were exported from it (`exported`), which runtimes are linked, and its metadata; `by`, `writers`, `made` and `again` (how often a unit was compiled from IR) are history. A command line says what clang writes (`output`, the last of `-o X` and `-oX`) and what the driver finds (`separate`, the first separate `-o`); `put` is the file that the driver derives, `OutputsOf` those that clang may write, and `Misnamed` the command lines on which the two may differ: `-oX`, a second `-o`, `-S`, `-emit-llvm` and `-emit-ast` without `-o`, and IR beside the source that the name of an object comes from. `PluginsAt` and `PassesAt` are the plugins and passes at the end of compilation and of LTO, as sets: `Runs` takes their order from that of `--features`. `Accepted` is what the two argument parsers let through: known features whose objects are installed, none with options of its own named twice (argparse refuses to add an option again), a value for `-o`, and one source for `-c` without `-o`. Features without options, such as `forkserver`, may be named twice; their objects then define their symbols twice and the link fails (`Linkable`). `bb_ids` is LLVM's cache, which a pass asks with `getResult` or with `getCachedResult`. A unit is instrumented as a whole: blocks are in `BlockIds`.

### Exifutil

`main` with its options, `jpeg_file_load` with each call that may fail, `jpeg_walk`, the three handlers, and the release. A byte of the file is chosen when it is first read and stays what it is when a seek leads back to it, so a run stands for all files that it cannot tell apart. Files are regular: the code ignores the results of `fseek()`, which fails on a pipe. What `jpeg_exif_read_ifd` does with EXIF data is left open: it returns (`App1Done`), crashes (`App1Crashes`), or follows a chain of IFDs that leads back into itself for ever (`App1Loops`), its tail call being a jump at the -O3 of `put/exifutil/README.md:12`.

## 3. Runs

Bounds are constants of the modules, marked `bound` where they are declared. `CHECK_DEADLOCK FALSE` everywhere: all these systems really stop, when the client leaves, the executor is destroyed, the user builds no more, or the bounded number of runs is over.

| Run | Configuration | States | Shows |
|---|---|---|---|
| `forkserver` | `ForkServer.cfg` | 722 thousand | framing, fates, settings, reach of alarms, refinement of `PutService`; a run with a timeout does not keep its client waiting, a server without a client ends |
| `forkserver_alarm` | `ForkServerAlarm.cfg` | violation | `EveryRunAnswered` fails |
| `forkserver_stale` | `ForkServerStale.cfg` | violation | `KilledOnlyByOwnTimer` fails |
| `harness` | `Harness.cfg` | 369 thousand | outputs, responses, coverage, lifetime of the segment; calls and the test program end |
| `harness_stdin` | `HarnessStdin.cfg` | 2.9 million | what a program reads when others use its stdin file |
| `executor_hangs` | `ExecutorHangs.cfg` | violation | `CallReturns` fails |
| `bitmap` | `Bitmap.cfg` | 12.3 million | two threads race for bytes and initialization; ids that do not fit; one thread's bitmap is a function of its path |
| `ijon` | `Ijon.cfg` | 3.0 million | contexts, regions, counters and maxima |
| `blockids` | `BlockIds.cfg` | 558 thousand | nodes determine edges, coverage is in the exported graph |
| `pipeline` | `Pipeline.cfg` | 2.3 million | instrumented once, ids that are used, metadata, supported builds |
| `pipeline_usage` | `PipelineUsage.cfg` | violation | `DocumentedUsageWorks` fails |
| `exifutil` | `Exifutil.cfg` | 296 thousand | the walk ends, or loops in EXIF data, and keeps to segments |

Why the bounds are enough:

- *Fork server*: three runs, since an alarm can reach from one run into the next and the first run differs from the others by its handler; two settings commands between them; timeouts of 0 and not 0; an executor id equal to `HANDSHAKE_FAILED`; exit code 9 next to SIGKILL; `fork()` that may fail. The proofs cover every number.
- *Harness*: two calls with a short and a long test case let the file grow and shrink and a run follow another; pipes that hold one write, and programs with up to two per output, make a program block; another executor opens and removes the file; two bytes tell the one the runtime marks from the others. The proofs cover every number of calls, executors and bytes, and pipes of every size.
- *Standard input*: three executors, of which one may remove the file of the first and another make it anew, each with one call; the two others do the same (`SYMMETRY`; the run has one invariant, which does not tell them apart).
- *Bitmap*: counters of three values wrap within a run; locations range over four and ids over five, so edges and nodes collide and one id lies outside the bitmap; two runs compare the first child with a later one. With two threads `MCBound` keeps to one block and shorter paths: races are per location, and one block entered by both already joins edges and loses updates.
- *IJON*: the layouts are a full one, one without a coverage region and with a size that is no power of two, one larger than the default with maxima too small for a value, and one without counters. Two annotations in each run nest a context and a push. The hash is computed at a width of 8 bits over two sites. Counters wrap at four, which two threads over two runs reach.
- *Block ids*: the four programs have an if without else in a loop, a switch with two equal cases, loops of one and of two blocks, a recursive function, calls that are direct, indirect and of a function without body. The proofs cover every program.
- *Pipeline*: two sources, which are interchangeable (`SYMMETRY`; all its properties are safety and name no source), and three invocations: two objects and their link, or IR, what is compiled from it, and a link. A command line has at most one thing out of the ordinary: a kind of output, an IR input, or a form of `-o` (`MCOrdinary`, `MCEmitting`, `MCFromIR`, `MCNaming`). Features are the wrapper's at all four pairs of load points, a wrong order, a missing plugin, an unknown feature, a feature with options and one without named twice. The proofs cover every list of features, every number of sources and of invocations, and every command line.
- *exifutil*: ten bytes hold a start, three segments with a length, or a segment with a body and one that leads back into it. The least length of an APP1 segment is 3 here and 16 in the code: what counts is that it is above 2. Two options let one file follow another. The proofs cover files of every size.

Fairness. `ForkServer` and `Executor` assume weak fairness of what the kernel guarantees: a process that can run runs, an armed timer expires, a signal is delivered, a reader of a pipe with data in it reads. Nobody has to send a command, make a call or leave. No PUT has to end: in `ForkServer` only a timer ends it. In `Executor` a PUT ends while its server waits for it, which the default timeout of 20 ms justifies. `Harness` adds that the test program and the constructor of the runtime are scheduled; `Exifutil`, a sequential program, that it runs.

Each property of a passing run has a mutant in `PROJECT.json`: a plausible bug in one mapped definition, which the same run finds by that property. Mutants are defined next to the definition they change and marked `Mutant`.

## 4. Findings

1. `setitimer()` precedes `sigaction()` (`forkserver.c:297`, `:308`). In the first run an alarm in between ends the server and the client gets no response (`forkserver_alarm`).
2. The timer is not disarmed when a PUT ends. It may expire after the next `fork()` and before the next `setitimer()`, and then kills that PUT (`forkserver_stale`). `AlarmsAreContained` says it never reaches further.
3. When the fork server dies during a call, `operator()` detaches what hangs up and waits for ever on an empty epoll set (`executor.cpp:242`, run `executor_hangs`). `NoResponseError`, prepared for this, is never returned.
4. `docs/features/cfg-exporter.md:8` gives `fuzzuf-cc --features cfg-exporter`, but the plugin needs `BBIDAssigner::Key` from the id assigner's and cannot be loaded without it (`pipeline_usage`). The line for `bitmap-feedback` has the same gap.

Seen while modelling, without a run of their own:

- Two executors alive at once write test cases to the same file, since `executor_id` is always 1 (`executor.hpp:146`). `InputIsTestcase` holds only while no other has written one; and when one has removed the file and another has made it anew, a program reads nothing, which the property says, too.
- Nothing compares a location with `MAP_SIZE`: sequential ids, and ids drawn below a `--bb-id-assigner-map-size` above it, lead to updates behind the bitmap (`bitmap-llvm-pass.so.cc:175`). `PastOnlyByIds` says that only such ids do.
- A failed `fork()` leaves -1 in `put_pid`, and the timer of the last run armed: an alarm before `exit()` runs `kill(-1, SIGKILL)` (`forkserver.c:112`, `:264`). `AlarmsAreContained` names the case.
- One to seven bytes for the maxima set `max_map_size` to 0, and the first `ijon_max` divides by it (`ijon-llvm-rt.o.c:82`). The guard of `CompareMax` marks where the model stops.
- An object that goes through LTO loses the metadata of its own compilation: objcopy fails on bitcode and `accept_fail` lets it.
- The driver guesses the name of clang's output. With a joined `-oX`, a second `-o`, `-S`, `-emit-llvm` or `-emit-ast` without `-o`, it adds the metadata to another file, if an earlier build left one there, and reports success: `MetadataOnOwnOutput` excepts these command lines (`Misnamed`).
- `-c -emit-llvm` writes IR that is instrumented already, and the passes run on it again when it is compiled: `InstrumentedOnce` counts this (`again`).
- `shmget()` and `shmat()` report failure as -1, and the helper tests for 0 and null (`create_shared_memory.cpp:54`): a test program then writes to an unmapped address and leaves the segment behind.
- `exifutil.c`: the table of handlers is filled before its allocation is tested; a failed `calloc()` leaves the stream open; the test of `feof()` in `jpeg_walk` never ends the walk; lengths of 0 and 1 seek back, and the walk still ends; a cycle of IFDs is followed for ever (`exifutil.c:604`); the results of `fseek()` are ignored.

## 5. Proofs

TLAPS checks every theorem down to its leaves, for all values of the constants.

**ForkServerProofs.** The safety properties are not inductive: that a response tells the right fate needs to know which run the server is in, which needs to know what is left in the pipe. `IInv` has two cases. `AfterFailure`, after a failed fork, is short: no PUT is left, and only the timer of the run before may still go off. `InService`, the rest, adds the books of each boundary: `TimerInv` (whose timer may be armed), `HandlerInv` (when the handler may be missing), `KilledInv` (what has killed the client), `RunInv` (what the server's place says of the PUTs), `FrameInv` (a u64 follows its command, `ExecutePUT` comes last), `ClientInv` (where the client is says where the server may be), `RepliesInv`, and `SettingsInv` (settings in force plus what is in the pipe add up to what was asked). One lemma per part shows that a step keeps it; `FailureStarts` leads from one case into the other and `AfterFailureStep` keeps the second. From `Invariance` follow `TypeCorrect`, `InFrameAlways`, `RepliesAreFatesAlways`, `ClientNeverOverlapsPutAlways`, `WritesHaveReaderAlways`, `RunsAsRequestedAlways`, `AlarmsAreBounded` (of `AlarmsAreContained`) and `AbortedLosesNoOutcomeAlways`. `Refinement` shows that every step is a step of `PutService` or a stutter.

**BitmapProofs.** `PastInv` says that a location on its way is one of the bitmap when all ids of the program are, whatever `prev_loc` the server has left, and `PastOnlyByIdsAlways` follows. `IInv` relates what each thread has loaded to the visits of its location: a stale counter is never above them, which bounds what a late store may write (`NeverOvercounts`), and no store writes 0 under AVOID_ZERO and CAP_FF (`VisitedNotZero`). `EInv` adds that a thread's pending location is that of the last edge of its own path, and that `prev_loc` is the last id of that path shifted, from which `EdgesAreOfOneThread` follows. `CInv` adds what a byte holds while the main thread is alone: `MappedInv` (a bitmap that the server has mapped is mapped and marked in every child) and `CountInv`, in which `Stored` leaves out the block that the thread is still in: each byte is what the stored visits of its location make of it, and a counter on its way to memory is the byte it will replace. `CountedStep` shows that one more visit is one more update under each of the three methods, and `CoverageIsOfPathAlways` follows: a run's bitmap does not depend on earlier runs, nor on whether it is the first.

**IjonProofs.** `IInv` has `GlobalsInv` (a process has the layout of its client, or none yet), `ThreadInv` (no annotation is under way between runs), `CounterInv` (a thread that updates a counter is in the counters, and has loaded no more than the updates made of it) and `MaxInv` (a thread that is about to store a maximum is among those that report to its entry, and exceeds what is there if it is the only one). `AddressInCounters` and `AddressInMaxima` show that the remainders stay inside their regions; `WordsFit` is the arithmetic for the last word when the size is no multiple of a word's. From them `WritesInOwnRegionAlways`, `UpdatedNotZeroAlways` and `MaximumIsReportedAlways`. `SInv` adds the state register: `ContextInv` (the history `context` is the exclusive or of the hashes of the contexts open), `StateInv` (the register of each thread agrees with contexts and log up to the size in force, across the change of that size when the region is mapped) and `ServerInv` (what `fork()` copies has no context open). `PowersNest` shows that of two powers of two one divides the other, so bits that agree under the larger size agree under the smaller, and `XoredRemainder` that the remainder which `ijon_xor_state` takes loses none of them. `StateIsContextAlways` follows.

**BlockIdsProofs.** `SplitGraph` shows what splitting leaves: the old targets behind at most one new block, and no edge from a block with several successors to one with several predecessors. `GraphInv` keeps this, `IdsInv` says that sequential ids are distinct, and a run is related to the edges it took: a block that was hit, or is on the stack, was reached by an edge or is where calls begin (`HitsInv`, `StackInv`); a block with one successor that was entered has been left or is on the stack (`LeftInv`); and any set of edges that the rules of `Recovered` allow holds those taken (`ForcedInv`). `NodesDetermineEdgesAlways` and `CoverageIsInExportedGraphAlways` follow for every program and every depth of calls.

**PipelineProofs.** What a program contains was decided by earlier invocations, so the invariant speaks of every file. `Sound` holds of each file, object and module: no unit counted more often than once and each time its IR was compiled (`Counted`), nothing instrumented without the feature, graphs whose ids are those the counters use (`Exported`), sections of invocations that wrote it or were misnamed (`Sectioned`). `UnitOf` says of a file that is named for a source what it still tells of its compilation, IR and assembly included, since it may be an input again; `Prepared` is what is left of that when IR becomes a module. `ObjectOf` says what an object file still tells of its compilation (not touched if the bitmap pass is for link time; instrumented if it is for compilation and the driver was not bypassed; bitcode if LTO was on), `ObjectsInv` that no two inputs of a link share a unit, and `ModuleInv` on which side of the bitmap pass a module is, with what the cache must hold until the exporter runs. `WrittenInv` follows which file this invocation has written, so that `put`, which the driver derives by itself, is where clang has written unless the command line is misnamed; `Labelled` then says of that file that it has its section. `UnionIsSound` shows that linking sound parts gives a sound program. One lemma per action; from `Invariance` follow `TypeCorrect`, `InstrumentedOnceAlways`, `ExportedIdsAreUsedAlways`, `MetadataOnOwnOutputAlways`. `SupportedBuildsSucceedAlways` shows that each of the three failing actions is impossible under supported options: `SupportedIsLoadable`, `SupportedIsCached`, `SupportedIsLinkable`.

**ExifutilProofs.** A byte of the file is chosen when it is read, so where a segment ends is said in terms of what has been read (`EndsAt`, `LengthRead`, `NoMarker`); lemmas show that reading more of the file changes none of it. `LastInv` relates the position and the place of the current handler to the segment it was called for (`InSegment`), `PairInv` the first two segments to each other: a length of 0 or 1 leads back to bytes that are no marker, which ends the walk. `TypeCorrect` and `HandlersSeeSegmentsAlways` follow for files of every size.

**Remainders** has the facts about quotients and remainders that `BitmapProofs` and `IjonProofs` share, such as that a remainder by a multiple decides the remainder by its divisor.

**HarnessProofs.** What a call returns depends on steps of three processes in any order, so the invariant names the stages of a call: `Asked` (the command is in the pipe), `Running`, `Answered` (the response is in the pipe), `Told` (it was read, and only outputs are left) and `Lost` (the server has died). `Books` says that, in each stage with a run, what was written to an output is what was read followed by what is in the pipe; `Return` needs empty pipes, unless one was detached, and `DetachedInv` says that a detached one has no writer. `QuietInv` says that nothing of a run is left between calls, `StartInv` does the same for the handshake, and `FileInv` who has opened which file, and that the file of a PUT is another one than its executor's only after a removal (`Removed`). `PlaceInv` ties the place of the test program to the executor's, so that a live program means a waiting call; then `MemoryInv`, which says of each byte that it is clear or was written by something in `since`, and `SegmentInv` are kept by every writer and every release. One lemma per action shows that the executor's part is kept, `InterferenceStep` that other executors do not disturb it. From `Invariance` follow `HarnessTypeCorrect`, `OutputsAlwaysComplete`, `AlwaysReturnsItsResponse`, `InputAlwaysTestcase`, `CoverageAlwaysOfCall` and `SegmentAlwaysLives`.

Assumptions are those on the constants, all named in the modules and evaluated by TLC: in `ForkServer` `BoundsAssumption`, `TimeoutAssumption` (the default timeout is not 0), `IdAssumption`, `CommandAssumption`, `StatusAssumption`; in `Executor` and `Harness` `CallAssumption` (at least one call, pipes that hold something), `InputAssumption` (test cases have a length) and `HarnessAssumption` (at least one byte); in `Bitmap` `SizeAssumption` (at least two values of a counter; the bitmap and the ids lie in the space of ids, 2^31, in any relation to each other), `ThreadAssumption`, `BlockAssumption`, and `XorAssumption` (exclusive or stays below 2^31 and below `MAP_SIZE`, both powers of two); in `Ijon` and `IjonHash` sizes above 0 (`SizeAssumption`), a default size that is a power of two (`MapSizeAssumption`, `ijon/config.h:325`), an exclusive or of words that is a word (`XorAssumption`), commutative, associative, its own inverse and bitwise (`BitwiseAssumption`), and addresses and arguments of annotations that are words (`AddressAssumption`); in `BlockIds` `ProgramAssumption` (targets are blocks, no edge leads to an entry, as LLVM demands), `OptionAssumption`, `DepthAssumption`; in `Pipeline` `OptionAssumption` (features are a list of names, load points one of two), `InvocationAssumption`, and `CommandAssumption` (each source in one form, outputs named for what they hold, an option that excludes another without it); in `Exifutil` `ByteAssumption` (the markers are bytes, and FF is neither a restart marker nor 0 or 1).

Every safety property of a passing run is the statement of a theorem. Only model-checked: liveness, which needs fairness and ENABLED (`AnsweredOrFailed`, `ServerFollowsClient`, `CallReturnsIfServerLives`, `HarnessEnds`, `WalkEnds`); what the hashes and distances of `IjonHash` compute for particular places and strings, as folds over data are out of the provers' reach (`AddressAssumption` takes their results to be words); and the violations of section 4, which are counterexamples.

## 6. Not modelled, and why

- Logging, statistics and `last_timeout`: they decide nothing.
- Failures of `waitpid`, `setitimer`, `sigaction`, `pipe`, `epoll_ctl`, `lseek` and `write` for reasons other than the end of the other side: the code exits or throws without further effect. For the same reason the executor is partly modelled.
- Reuse of a pid the server remembers: the kernel cycles through all others first.
- SIGPIPE is assumed to have its default action.
- An executor whose `execve()` fails throws in a copy of the test process, which may then run the destructor; the model ends that child.
- The server and the programs of other test programs on the same machine: only their use of the stdin file reaches this one.
- The private arrays `__bitmap_area_initial`, `__ijon_area_initial`, `__ijon_max_initial`: nobody reads them.
- In `Executor`, alarms of the fork server that end its client or the process group: `ForkServer` has them, and a client that is killed returns nothing.
- Threads started by constructors before the fork, and processes a PUT leaves behind that write to the next run's memory.
- A context left by `longjmp()` or an exception: `IJON_CTX` never closes it, and the register keeps its hash.
- `__ijon_mask`, which has no reader, the code of `ijon.h` that only compiles for i386, and stacks of 16 frames or more, for which `ijon_hashstack` asserts.
- 64-bit values of the maxima in memory: an entry is one value; `WritesInOwnRegion` states where its bytes are.
- Edges that LLVM does not split (of `indirectbr` and to exception pads), a selection strategy that is not one of the two, and the order of blocks in memory, which sequential ids follow: any order is allowed here.
- The text of command lines, of metadata and of the exported JSON. The system's own linker is assumed to read no bitcode.
- What `exifutil` makes of EXIF data (`jpeg_exif_read_ifd`): its source calls it vulnerable by design. Here a handler returns, crashes, or never returns. The one-line programs `zeroone`, `ijon/test.c` and `test_put.c` have no behaviour of their own.
- Range utilities (`range_traits.hpp`, `shared_range.hpp` apart from its ownership, in `Harness`), which are compile-time traits, and the build scripts.

## 7. Plan

Done: `PutService`, `ForkServer`, `Harness` with `Executor`, `Bitmap`, `Ijon`, `BlockIds`, `Pipeline`, `Exifutil`, and proofs of all their safety properties.

1. An abstract executor (a call takes a test case and returns the outcome of one run of it), and `Executor` shown to implement it, as `ForkServer` implements `PutService`.
2. Composition of `Executor` with `ForkServer` in place of the server seen from outside.
3. Composition of `Bitmap` and `Ijon` over one segment, where a coverage size below `MAP_SIZE` makes the bitmap overlap the counters.
