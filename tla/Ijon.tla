--------------------------------- MODULE Ijon ---------------------------------
(***************************************************************************)
(* The runtime of IJON (ijon-llvm-rt.o.c): the annotations of a program    *)
(* steer a state register of each thread, count in a region of the shared  *)
(* memory that its client has laid out, and keep maxima in another.  Two   *)
(* constructors of the same priority start it: __ijon_auto_init, which     *)
(* maps the memory, and StartForkServer; the order of the objects that are *)
(* linked decides which comes first.  A child goes on from the second, or  *)
(* maps the memory itself.                                                 *)
(***************************************************************************)
EXTENDS IjonHash

CONSTANTS
  Threads,      \* threads of the program
  Main,         \* the one that fork() copies
  Layouts,      \* sizes in bytes: __AFL_SIZE, __IJON_COUNTER_SIZE, __IJON_MAX_SIZE
  MapSize,      \* MAP_SIZE
  MaxMapSize,   \* MAXMAP_SIZE
  WordSize,     \* sizeof(uint64_t)
  LogBase,      \* 256: values of a digit of __ijon_state_log
  ByteValues,   \* 256: values of a counter
  Sites,        \* where the annotations are: line, and file as a string
  Numbers,      \* numbers that they are given
  Strings,      \* strings that they are given
  Stacks,       \* return addresses on the stack of an annotation
  MaxFrames,    \* 16: what backtrace() has room for
  MaxValue,     \* 2^64 - 1: the greatest value of a maximum
  MaxCalls,     \* bound: annotations that the threads execute in a run
  MaxRuns       \* bound: runs

\* No odd number but 1 divides it.
PowerOfTwo(n) == n > 0 /\ \A d \in 2 .. n : n % d = 0 => d % 2 = 0

ASSUME SizeAssumption ==
  /\ \A l \in Layouts : l.afl \in Nat /\ l.counter \in Nat /\ l.max \in Nat
  /\ MapSize \in Nat \ {0} /\ MaxMapSize \in Nat \ {0} /\ WordSize \in Nat \ {0}
  /\ \A n \in {LogBase, ByteValues} : n \in Nat /\ n > 1
  /\ ByteValues % 2 = 0
  /\ MaxFrames \in Nat /\ MaxValue \in Nat
  /\ Numbers \subseteq 0 .. MaxValue /\ Numbers \subseteq UInt32
\* MAP_SIZE is 1 << MAP_SIZE_POW2.
ASSUME MapSizeAssumption == PowerOfTwo(MapSize)
\* Exclusive or works on each bit by itself, and so on the lowest bits together.
ASSUME BitwiseAssumption ==
  /\ \A x, y \in UInt32 : BitXor(x, y) = BitXor(y, x)
  /\ \A x, y, z \in UInt32 : BitXor(BitXor(x, y), z) = BitXor(x, BitXor(y, z))
  /\ \A x \in UInt32 : BitXor(x, x) = 0 /\ BitXor(x, 0) = x
  /\ \A n \in 1 .. StateValues : PowerOfTwo(n) =>
       \A x, y \in UInt32 : BitXor(x, y) % n = BitXor(x % n, y % n)
ASSUME ThreadAssumption == Main \in Threads
ASSUME BoundAssumption == MaxCalls \in Nat /\ MaxRuns \in Nat

VARIABLES
  layout,    \* how the client divides the shared memory
  phase,     \* how far the server has come, or whether a child runs
  server,    \* what fork() copies
  globals,   \* pointers and sizes of the running process
  state,     \* [Threads -> __ijon_state]
  log,       \* [Threads -> __ijon_state_log]
  contexts,  \* [Threads -> hashes of the IJON_CTX it is in, the innermost last]
  pc,        \* [Threads -> where the thread is in a call]
  reg,       \* [Threads -> address and value that the call holds]
  bytes,     \* the shared memory: coverage and counters, by offset
  maxima,    \* the shared memory: the maxima, by index
  calls,     \* annotations executed in this run
  runs,      \* runs so far
  context,   \* history: [Threads -> exclusive or of its contexts]
  visits,    \* history: updates of each counter since the memory was cleared
  reports,   \* history: values reported to each maximum since then
  reporters  \* history: threads that reported them

registers == <<state, log, contexts, context>>
memory == <<bytes, maxima>>
history == <<visits, reports, reporters>>
vars == <<layout, phase, server, globals, registers, pc, reg, memory, calls, runs, history>>

\* Where a pointer points that was not moved to the shared memory.
Initial == -1

Hashes == {SiteHash(site) : site \in Sites}
Bytes == 0 .. ByteValues - 1
Values == 0 .. MaxValue
Segment == layout.afl + layout.counter + layout.max
Offsets == 0 .. layout.afl + layout.counter - 1
Slots == 0 .. (layout.max \div WordSize) - 1

Globals == [area : Nat \cup {Initial}, counter : Nat \cup {Initial}, max : Nat \cup {Initial},
            map_size : Nat \ {0}, max_map_size : Nat, init_done : BOOLEAN]

TypeOK ==
  /\ layout \in Layouts
  /\ phase \in {"constructors", "idle", "run", "exited"}
  /\ server \in [globals : Globals, state : UInt32, log : UInt32]
  /\ globals \in Globals
  /\ state \in [Threads -> UInt32]
  /\ log \in [Threads -> UInt32]
  /\ contexts \in [Threads -> Seq(Hashes)]
  /\ context \in [Threads -> UInt32]
  /\ pc \in [Threads -> {"none", "user", "inc", "set", "max"}]
  /\ reg \in [Threads -> [at : Nat, val : Nat]]
  /\ \A t \in Threads :
       /\ pc[t] \in {"inc", "set"} => reg[t] \in [at : Offsets, val : Bytes]
       /\ pc[t] = "max" => reg[t] \in [at : Slots, val : Values]
  /\ bytes \in [Offsets -> Bytes]
  /\ maxima \in [Slots -> Values]
  /\ calls \in 0 .. MaxCalls
  /\ runs \in 0 .. MaxRuns
  /\ visits \in [Offsets -> Nat]
  /\ reports \in [Slots -> SUBSET Values]
  /\ reporters \in [Slots -> SUBSET Threads]

Zeros(S) == [x \in S |-> 0]
Nobody == [t \in Threads |-> "none"]
OnlyMain == [Nobody EXCEPT ![Main] = "user"]
NoReg == [t \in Threads |-> [at |-> 0, val |-> 0]]

\* The arrays of the program itself: nobody looks at what they hold.
InitialGlobals ==
  [area |-> Initial, counter |-> Initial, max |-> Initial,
   map_size |-> MapSize, max_map_size |-> MaxMapSize, init_done |-> FALSE]

Init ==
  /\ layout \in Layouts
  /\ phase = "constructors"
  /\ server = [globals |-> InitialGlobals, state |-> 0, log |-> 0]
  /\ globals = InitialGlobals
  /\ state = Zeros(Threads) /\ log = Zeros(Threads)
  /\ contexts = [t \in Threads |-> <<>>] /\ context = Zeros(Threads)
  /\ pc = OnlyMain /\ reg = NoReg
  /\ bytes = Zeros(Offsets) /\ maxima = Zeros(Slots)
  /\ calls = 0 /\ runs = 0
  /\ visits = Zeros(Offsets)
  /\ reports = [s \in Slots |-> {}] /\ reporters = [s \in Slots |-> {}]

-------------------------------------------------------------------------------
(* The state register. *)

Call(t) ==
  /\ pc[t] = "user"
  /\ calls < MaxCalls
  /\ calls' = calls + 1

\* ijon_xor_state, of the register s
Xored(s, val) == BitXor(s, val) % globals.map_size

\* IJON_CTX(x), until x is evaluated
OpenContext(t, hash) ==
  /\ Call(t)
  /\ state' = [state EXCEPT ![t] = Xored(@, hash)]
  /\ contexts' = [contexts EXCEPT ![t] = Append(@, hash)]
  /\ context' = [context EXCEPT ![t] = BitXor(@, hash)]
  /\ UNCHANGED <<layout, phase, server, globals, log, pc, reg, memory, runs, history>>

\* ... and once it is
CloseContext(t) ==
  /\ pc[t] = "user"
  /\ contexts[t] # <<>>
  /\ LET hash == contexts[t][Len(contexts[t])]
     IN /\ state' = [state EXCEPT ![t] = Xored(@, hash)]
        /\ context' = [context EXCEPT ![t] = BitXor(@, hash)]
  /\ contexts' = [contexts EXCEPT ![t] = SubSeq(@, 1, Len(@) - 1)]
  /\ UNCHANGED <<layout, phase, server, globals, log, pc, reg, memory, calls, runs, history>>

\* Mutant: the old log stays in the register.
PushedOnly(s, old, new) == Xored(s, new)

\* The old log leaves the register, the new one enters it.
Pushed(s, old, new) == Xored(Xored(s, old), new)

\* ijon_push_state
PushState(t, x) ==
  /\ Call(t)
  /\ LET new == ((log[t] * LogBase) + (x % LogBase)) % StateValues
     IN /\ state' = [state EXCEPT ![t] = Pushed(@, log[t], new)]
        /\ log' = [log EXCEPT ![t] = new]
  /\ UNCHANGED <<layout, phase, server, globals, contexts, context, pc, reg, memory, runs, history>>

-------------------------------------------------------------------------------
(* Counters and maxima. *)

\* The call that an annotation makes, with its address and its value.
Inc(addr) == [how |-> "inc", addr |-> addr, val |-> 1]
Set(addr) == [how |-> "set", addr |-> addr, val |-> 1]
Max64(addr, val) == [how |-> "max", addr |-> addr, val |-> val]

\* ijon_min
Min64(addr, val) == Max64(addr, MaxValue - val)

IJON_INC(h, x) == Inc(BitXor(h, x))
IJON_SET(h, x) == Set(BitXor(h, x))
IJON_CMP(h, x, y) == IJON_INC(h, PopCount(BitXor(x, y)))
IJON_DIST(h, x, y) == Min64(h, AbsDist(x, y))

\* backtrace() must not fill its buffer, or an assertion ends the program.
IJON_STRDIST(h, stack, a, b) == IJON_SET(h, hashint(hashstack(stack), strdist(a, b)))
ShallowStacks == {stack \in Stacks : Len(stack) < MaxFrames}

Annotations ==
  UNION {
    {IJON_INC(h, x) : h \in Hashes, x \in Numbers},
    {IJON_SET(h, x) : h \in Hashes, x \in Numbers},
    {Max64(h, x) : h \in Hashes, x \in Numbers},
    {Min64(h, x) : h \in Hashes, x \in Numbers},
    {IJON_CMP(h, x, y) : h \in Hashes, x \in Numbers, y \in Numbers},
    {IJON_DIST(h, x, y) : h \in Hashes, x \in Numbers, y \in Numbers},
    {IJON_STRDIST(h, stack, a, b) : h \in Hashes, stack \in ShallowStacks,
                                    a \in Strings, b \in Strings}}

\* What the types of their parameters say.
ASSUME AddressAssumption ==
  /\ Hashes \subseteq UInt32
  /\ \A a \in Annotations : a.addr \in UInt32 /\ a.val \in Values

\* ijon_map_inc and ijon_map_set up to the load of the counter
LoadCounter(t, a) ==
  /\ a.how \in {"inc", "set"}
  /\ globals.counter # Initial
  /\ Call(t)
  /\ LET at == globals.counter + (BitXor(state[t], a.addr) % globals.map_size)
     IN reg' = [reg EXCEPT ![t] = [at |-> at, val |-> bytes[at]]]
  /\ pc' = [pc EXCEPT ![t] = a.how]
  /\ UNCHANGED <<layout, phase, server, globals, registers, memory, runs, history>>

\* Mutant: ^= 1 for |= 1.
UpdatedToggles(val, how) ==
  IF how = "inc" THEN (val + 1) % ByteValues ELSE IF val % 2 = 0 THEN val + 1 ELSE val - 1

\* += 1, and |= 1
Updated(val, how) ==
  IF how = "inc" THEN (val + 1) % ByteValues ELSE IF val % 2 = 0 THEN val + 1 ELSE val

StoreCounter(t) ==
  /\ pc[t] \in {"inc", "set"}
  /\ bytes' = [bytes EXCEPT ![reg[t].at] = Updated(reg[t].val, pc[t])]
  /\ visits' = [visits EXCEPT ![reg[t].at] = @ + 1]
  /\ pc' = [pc EXCEPT ![t] = "user"]
  /\ reg' = [reg EXCEPT ![t] = [at |-> 0, val |-> 0]]
  /\ UNCHANGED <<layout, phase, server, globals, registers, maxima, calls, runs, reports, reporters>>

\* Mutant: the comparison of a minimum.
ExceedsSwapped(slot, val) == maxima[slot] > val

Exceeds(slot, val) == maxima[slot] < val

\* ijon_max up to its comparison.  The division by a max_map_size of 0 traps: that
\* run ends.
CompareMax(t, a) ==
  /\ a.how = "max"
  /\ globals.max # Initial /\ globals.max_map_size > 0
  /\ Call(t)
  /\ LET slot == a.addr % globals.max_map_size
     IN /\ reporters' = [reporters EXCEPT ![slot] = @ \cup {t}]
        /\ IF Exceeds(slot, a.val)
           THEN /\ pc' = [pc EXCEPT ![t] = "max"]
                /\ reg' = [reg EXCEPT ![t] = [at |-> slot, val |-> a.val]]
                /\ UNCHANGED reports
           ELSE /\ reports' = [reports EXCEPT ![slot] = @ \cup {a.val}]
                /\ UNCHANGED <<pc, reg>>
  /\ UNCHANGED <<layout, phase, server, globals, registers, memory, runs, visits>>

StoreMax(t) ==
  /\ pc[t] = "max"
  /\ maxima' = [maxima EXCEPT ![reg[t].at] = reg[t].val]
  /\ reports' = [reports EXCEPT ![reg[t].at] = @ \cup {reg[t].val}]
  /\ pc' = [pc EXCEPT ![t] = "user"]
  /\ reg' = [reg EXCEPT ![t] = [at |-> 0, val |-> 0]]
  /\ UNCHANGED <<layout, phase, server, globals, registers, bytes, calls, runs, visits, reporters>>

-------------------------------------------------------------------------------
(* Initialization and runs. *)

\* Mutant: the counters do not move cur.
MappedOverlapping ==
  [area |-> IF layout.afl > 0 THEN 0 ELSE Initial,
   counter |-> IF layout.counter > 0 THEN layout.afl ELSE Initial,
   max |-> IF layout.max > 0 THEN layout.afl ELSE Initial,
   map_size |-> IF layout.counter > 0 THEN layout.counter ELSE MapSize,
   max_map_size |-> IF layout.max > 0 THEN layout.max \div WordSize ELSE MaxMapSize,
   init_done |-> TRUE]

\* Mutant: the index of the last value for their number.
MappedOffByOne ==
  [area |-> IF layout.afl > 0 THEN 0 ELSE Initial,
   counter |-> IF layout.counter > 0 THEN layout.afl ELSE Initial,
   max |-> IF layout.max > 0 THEN layout.afl + layout.counter ELSE Initial,
   map_size |-> IF layout.counter > 0 THEN layout.counter ELSE MapSize,
   max_map_size |-> IF layout.max > 0 THEN layout.max \div WordSize - 1 ELSE MaxMapSize,
   init_done |-> TRUE]

\* __ijon_map_shm: a region whose size is missing or 0 stays where it is and
\* takes no room.  Without __AFL_SHM_ID nothing moves, as with no sizes.
Mapped ==
  [area |-> IF layout.afl > 0 THEN 0 ELSE Initial,
   counter |-> IF layout.counter > 0 THEN layout.afl ELSE Initial,
   max |-> IF layout.max > 0 THEN layout.afl + layout.counter ELSE Initial,
   map_size |-> IF layout.counter > 0 THEN layout.counter ELSE MapSize,
   max_map_size |-> IF layout.max > 0 THEN layout.max \div WordSize ELSE MaxMapSize,
   init_done |-> TRUE]

\* In a constructor: the loader calls it, not the program in a context of its
\* own, and there are no other threads yet.
InConstructor ==
  /\ phase \in {"constructors", "run"}
  /\ pc = OnlyMain
  /\ contexts[Main] = <<>>

\* __ijon_auto_init, in the server or, where that came first, in its child.  The
\* first byte of the area is marked.
AutoInit ==
  /\ InConstructor
  /\ ~globals.init_done
  /\ globals' = Mapped
  /\ bytes' = IF layout.afl > 0 THEN [bytes EXCEPT ![0] = 1] ELSE bytes
  /\ UNCHANGED <<layout, phase, server, registers, pc, reg, maxima, calls, runs, history>>

\* shmat() fails or a size is not a number, in the server.  In a child it is one
\* more way to end a run.
AutoInitFails ==
  /\ phase = "constructors"
  /\ InConstructor
  /\ ~globals.init_done
  /\ phase' = "exited"
  /\ pc' = Nobody
  /\ UNCHANGED <<layout, server, globals, registers, reg, memory, calls, runs, history>>

StartForkServer ==
  /\ phase = "constructors"
  /\ InConstructor
  /\ phase' = "idle"
  /\ server' = [globals |-> globals, state |-> state[Main], log |-> log[Main]]
  /\ pc' = Nobody
  /\ UNCHANGED <<layout, globals, registers, reg, memory, calls, runs, history>>

\* The client has the program run.  dump_ijon_shm does it once, on memory that was
\* 0 when the server began; a client that goes on may clear it again.
Execute(clear) ==
  /\ phase = "idle"
  /\ runs < MaxRuns
  /\ runs' = runs + 1
  /\ phase' = "run"
  /\ state' = [Zeros(Threads) EXCEPT ![Main] = server.state]
  /\ log' = [Zeros(Threads) EXCEPT ![Main] = server.log]
  /\ contexts' = [t \in Threads |-> <<>>] /\ context' = Zeros(Threads)
  /\ pc' = OnlyMain
  /\ calls' = 0
  /\ IF clear
     THEN /\ bytes' = Zeros(Offsets) /\ maxima' = Zeros(Slots)
          /\ visits' = Zeros(Offsets)
          /\ reports' = [s \in Slots |-> {}] /\ reporters' = [s \in Slots |-> {}]
     ELSE UNCHANGED <<memory, history>>
  /\ UNCHANGED <<layout, server, globals, reg>>

\* A new thread has thread-locals of its own.
StartThread(t) ==
  /\ phase = "run" /\ globals.init_done
  /\ pc[t] = "none"
  /\ pc' = [pc EXCEPT ![t] = "user"]
  /\ UNCHANGED <<layout, phase, server, globals, registers, reg, memory, calls, runs, history>>

\* The program ends, or is killed, with all its threads wherever they are.
EndRun ==
  /\ phase = "run"
  /\ phase' = "idle"
  /\ globals' = server.globals
  /\ pc' = Nobody /\ reg' = NoReg
  /\ state' = Zeros(Threads) /\ log' = Zeros(Threads)
  /\ contexts' = [t \in Threads |-> <<>>] /\ context' = Zeros(Threads)
  /\ calls' = 0
  /\ UNCHANGED <<layout, server, memory, runs, history>>

Next ==
  \/ \E t \in Threads :
       \/ \E hash \in Hashes : OpenContext(t, hash)
       \/ \E x \in Numbers : PushState(t, x)
       \/ \E a \in Annotations : LoadCounter(t, a) \/ CompareMax(t, a)
       \/ CloseContext(t)
       \/ StoreCounter(t)
       \/ StoreMax(t)
       \/ StartThread(t)
  \/ AutoInit
  \/ AutoInitFails
  \/ StartForkServer
  \/ \E clear \in BOOLEAN : Execute(clear)
  \/ EndRun

Spec == Init /\ [][Next]_vars

-------------------------------------------------------------------------------
(* What must hold. *)

\* However contexts nest and states are pushed in them, in whatever process, the
\* register is the contexts that are open and the log: what a context has put in
\* it leaves it with the context.  This takes a counter region whose size is a
\* power of two; bits beyond the sizes used so far may be left over from before
\* the region was mapped.
StateIsContext ==
  PowerOfTwo(globals.map_size) =>
    LET size == IF globals.map_size < MapSize THEN globals.map_size ELSE MapSize
    IN \A t \in Threads :
         pc[t] # "none" => state[t] % size = BitXor(context[t], log[t]) % size

\* The program writes nowhere in the shared memory but where its client looks for
\* it: the first byte of the area, the counters, the maxima.
WritesInOwnRegion ==
  /\ \A o \in Offsets : bytes[o] # 0 => o >= layout.afl \/ o = 0
  /\ \A t \in Threads : pc[t] = "max" =>
       /\ globals.max + WordSize * reg[t].at >= layout.afl + layout.counter
       /\ globals.max + WordSize * (reg[t].at + 1) <= Segment

\* Updates race and counters wrap, but a counter that has been updated is not 0
\* before ByteValues updates.
UpdatedNotZero ==
  \A o \in Offsets : visits[o] \in 1 .. ByteValues - 1 => bytes[o] # 0

\* A maximum is a value that was reported to it, even when reports race; and where
\* one thread reports, it is the greatest of the reports that are done.
MaximumIsReported ==
  \A s \in Slots :
    /\ maxima[s] \in reports[s] \cup {0}
    /\ \A t \in Threads : reporters[s] = {t} => \A v \in reports[s] : v <= maxima[s]
===============================================================================
