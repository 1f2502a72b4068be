------------------------------ MODULE IjonProofs ------------------------------
(***************************************************************************)
(* Proofs about Ijon, for any threads, layouts, annotations and exclusive  *)
(* or of words.                                                            *)
(***************************************************************************)
EXTENDS Ijon, Remainders, WellFoundedInduction, TLAPS

\* A process has the layout of its client, or none yet.
GlobalsInv ==
  /\ globals \in {InitialGlobals, Mapped}
  /\ server.globals \in {InitialGlobals, Mapped}

\* There are no threads between runs.
ThreadInv == phase \in {"idle", "exited"} => pc = Nobody

\* A thread in an update of a counter is in the counters, and what it has loaded
\* does not exceed the updates made.
CounterInv ==
  /\ \A o \in Offsets : o >= layout.afl => bytes[o] <= visits[o]
  /\ \A t \in Threads : pc[t] \in {"inc", "set"} =>
       reg[t].at >= layout.afl /\ reg[t].val <= visits[reg[t].at]

\* A thread that is about to store a maximum has found the maxima of its client,
\* and exceeds what is there unless another one reports too.
MaxInv ==
  /\ \A t \in Threads : pc[t] = "max" =>
       /\ globals.max = layout.afl + layout.counter
       /\ t \in reporters[reg[t].at]
       /\ reporters[reg[t].at] = {t} => reg[t].val > maxima[reg[t].at]
  /\ \A s \in Slots : reporters[s] = {} => reports[s] = {}

IInv ==
  /\ TypeOK /\ GlobalsInv /\ ThreadInv /\ CounterInv /\ MaxInv
  /\ WritesInOwnRegion /\ UpdatedNotZero /\ MaximumIsReported

-------------------------------------------------------------------------------
(* Arithmetic. *)

\* A remainder is below its divisor and no more than what is divided.
LEMMA Remainder ==
  ASSUME NEW x \in Nat, NEW m \in Nat \ {0}
  PROVE  x % m \in Nat /\ x % m < m /\ x % m <= x
  OBVIOUS

\* Values of wordSize bytes each that fit into size bytes do not exceed them.
LEMMA WordsFit ==
  ASSUME NEW size \in Nat, NEW wordSize \in Nat \ {0}, NEW at \in 0 .. (size \div wordSize) - 1
  PROVE  /\ size \div wordSize \in Nat
         /\ wordSize * at \in Nat
         /\ wordSize * (at + 1) <= size
  OBVIOUS

\* Updating a byte gives a byte that is at most one more, and 0 only by wrapping.
LEMMA UpdatedByte ==
  ASSUME NEW val \in Bytes, NEW how \in {"inc", "set"}
  PROVE  /\ Updated(val, how) \in Bytes
         /\ Updated(val, how) <= val + 1
         /\ Updated(val, how) = 0 => val = ByteValues - 1
<1>1. ByteValues \in Nat /\ ByteValues > 1 /\ ByteValues % 2 = 0
  BY SizeAssumption
<1>2. CASE how = "inc" /\ val + 1 < ByteValues
  <2>1. Updated(val, how) = val + 1
    BY <1>1, <1>2 DEF Updated, Bytes
  <2> QED
    BY <1>1, <1>2, <2>1 DEF Bytes
<1>3. CASE how = "inc" /\ val + 1 = ByteValues
  <2>1. Updated(val, how) = 0
    BY <1>1, <1>3 DEF Updated, Bytes
  <2> QED
    BY <1>1, <1>3, <2>1 DEF Bytes
<1>4. CASE how = "set"
  BY <1>1, <1>4 DEF Updated, Bytes
<1> QED
  BY <1>1, <1>2, <1>3, <1>4 DEF Bytes

\* Every set of naturals that is not empty has a least one.
LEMMA LeastOf ==
  ASSUME NEW S \in SUBSET Nat, S # {}
  PROVE  \E n \in S : \A m \in S : n <= m
<1>1. PICK n \in S : \A m \in S : ~(<<m, n>> \in OpToRel(<, Nat))
  BY NatLessThanWellFounded, WFMin
<1>2. ASSUME NEW m \in S PROVE n <= m
  <2>1. <<m, n>> \in Nat \X Nat
    OBVIOUS
  <2>2. ~(m < n)
    BY <1>1, <2>1 DEF OpToRel
  <2> QED
    BY <2>2
<1> QED
  BY <1>2

\* A power of two is 1, or twice a power of two.
LEMMA HalfPower ==
  ASSUME NEW n \in Nat, PowerOfTwo(n), n # 1
  PROVE  \E h \in Nat \ {0} : n = 2 * h /\ PowerOfTwo(h)
<1>1. n > 1 /\ n \in 2 .. n
  BY DEF PowerOfTwo
<1>2. n % n = 0
  <2>1. (n * 1 + 0) % n = 0
    BY <1>1, ModUnique
  <2> QED
    BY <1>1, <2>1
<1>3. n % 2 = 0
  BY <1>1, <1>2 DEF PowerOfTwo
<1>4. PICK h \in Nat \ {0} : n = 2 * h
  <2>1. n = 2 * (n \div 2) + 0 /\ n \div 2 \in Nat
    BY <1>3, DivMod
  <2>2. n \div 2 # 0
    BY <1>1, <2>1
  <2> QED
    BY <2>1, <2>2
<1>5. ASSUME NEW d \in 2 .. h, h % d = 0
      PROVE  d % 2 = 0
  <2>1. h = d * (h \div d) + 0 /\ h \div d \in Nat
    BY <1>5, DivMod
  <2>2. n = d * (2 * (h \div d)) + 0
    BY <1>4, <2>1
  <2>3. (d * (2 * (h \div d)) + 0) % d = 0
    <3>1. 2 * (h \div d) \in Nat /\ 0 \in 0 .. d - 1 /\ d \in Nat \ {0}
      BY <2>1
    <3> QED
      BY <3>1, ModUnique
  <2>4. d \in 2 .. n
    BY <1>4
  <2> QED
    BY <2>2, <2>3, <2>4 DEF PowerOfTwo
<1>6. PowerOfTwo(h)
  BY <1>5 DEF PowerOfTwo
<1> QED
  BY <1>4, <1>6

\* Of two powers of two, the smaller one divides the other.
LEMMA PowersNest ==
  ASSUME NEW n \in Nat, NEW m \in Nat, PowerOfTwo(n), PowerOfTwo(m), n <= m
  PROVE  \E k \in Nat \ {0} : m = n * k
<1> DEFINE Bad(i) == /\ PowerOfTwo(i)
                     /\ \E j \in Nat : /\ i <= j /\ PowerOfTwo(j)
                                       /\ \A k \in Nat \ {0} : j # i * k
           S == {i \in Nat : Bad(i)}
<1> SUFFICES ASSUME n \in S PROVE FALSE
  OBVIOUS
<1>1. PICK i \in S : \A j \in S : i <= j
  <2> HIDE DEF S
  <2>1. S \in SUBSET Nat
    BY DEF S
  <2> QED
    BY <2>1, LeastOf
<1>2. PICK j \in Nat : i <= j /\ PowerOfTwo(j) /\ \A k \in Nat \ {0} : j # i * k
  OBVIOUS
<1>3. i # 1
  BY <1>2 DEF PowerOfTwo
<1>4. PICK h \in Nat \ {0} : i = 2 * h /\ PowerOfTwo(h)
  BY <1>3, HalfPower
<1>5. PICK g \in Nat \ {0} : j = 2 * g /\ PowerOfTwo(g)
  <2>1. j # 1
    BY <1>2, <1>3 DEF PowerOfTwo
  <2> QED
    BY <1>2, <2>1, HalfPower
<1>6. h <= g
  BY <1>2, <1>4, <1>5
<1>7. \A k \in Nat \ {0} : g # h * k
  BY <1>2, <1>4, <1>5
<1>8. h \in S
  BY <1>4, <1>5, <1>6, <1>7
<1> QED
  BY <1>1, <1>4, <1>8

\* The sizes of a layout are numbers.
LEMMA LayoutSizes ==
  ASSUME TypeOK
  PROVE  /\ layout.afl \in Nat /\ layout.counter \in Nat /\ layout.max \in Nat
         /\ layout.max \div WordSize \in Nat
<1>1. layout.afl \in Nat /\ layout.counter \in Nat /\ layout.max \in Nat
  BY SizeAssumption DEF TypeOK
<1>2. WordSize \in Nat \ {0}
  BY SizeAssumption
<1> QED
  BY <1>1, <1>2

\* The pointers and sizes are well-formed before and after initialization.
LEMMA GlobalsTypes ==
  ASSUME TypeOK
  PROVE  InitialGlobals \in Globals /\ Mapped \in Globals
<1>1. MapSize \in Nat \ {0} /\ MaxMapSize \in Nat \ {0}
  BY SizeAssumption
<1>2. InitialGlobals \in Globals
  BY <1>1 DEF InitialGlobals, Globals
<1>3. /\ layout.afl \in Nat /\ layout.counter \in Nat /\ layout.max \in Nat
      /\ layout.max \div WordSize \in Nat
  BY LayoutSizes
<1>4. Mapped \in Globals
  BY <1>1, <1>3 DEF Mapped, Globals
<1> QED
  BY <1>2, <1>4

\* An exclusive or of words, reduced to the size of the map, is a word.
LEMMA XoredIsWord ==
  ASSUME TypeOK, NEW s \in UInt32, NEW val \in UInt32
  PROVE  Xored(s, val) \in UInt32
<1>1. BitXor(s, val) \in UInt32 /\ StateValues \in Nat
  BY XorAssumption, WordAssumption
<1>2. globals.map_size \in Nat \ {0}
  BY DEF TypeOK, Globals
<1>3. BitXor(s, val) \in Nat /\ BitXor(s, val) <= StateValues - 1
  BY <1>1 DEF UInt32
<1>4. /\ BitXor(s, val) % globals.map_size \in Nat
      /\ BitXor(s, val) % globals.map_size <= BitXor(s, val)
  BY <1>2, <1>3, Remainder
<1> QED
  BY <1>1, <1>3, <1>4 DEF Xored, UInt32

\* An address chooses one of the counters that the client looks for.
LEMMA AddressInCounters ==
  ASSUME TypeOK, GlobalsInv, globals.counter # Initial, NEW s \in UInt32, NEW addr \in UInt32
  PROVE  LET at == globals.counter + (BitXor(s, addr) % globals.map_size)
         IN at \in Offsets /\ at >= layout.afl
<1>1. layout.afl \in Nat /\ layout.counter \in Nat
  BY LayoutSizes
<1>2. /\ globals.counter = layout.afl /\ globals.map_size = layout.counter
      /\ layout.counter > 0
  BY DEF GlobalsInv, InitialGlobals, Mapped
<1>3. BitXor(s, addr) \in Nat
  BY XorAssumption, WordAssumption DEF UInt32
<1>4. /\ BitXor(s, addr) % layout.counter \in Nat
      /\ BitXor(s, addr) % layout.counter < layout.counter
  BY <1>1, <1>2, <1>3, Remainder
<1> QED
  BY <1>1, <1>2, <1>4 DEF Offsets

\* An address chooses one of the maxima that the client looks for.
LEMMA AddressInMaxima ==
  ASSUME TypeOK, GlobalsInv, globals.max # Initial, globals.max_map_size > 0, NEW addr \in UInt32
  PROVE  /\ globals.max = layout.afl + layout.counter
         /\ addr % globals.max_map_size \in Slots
<1>1. layout.max \in Nat /\ layout.max \div WordSize \in Nat
  BY LayoutSizes
<1>2. /\ globals.max = layout.afl + layout.counter
      /\ globals.max_map_size = layout.max \div WordSize
  BY DEF GlobalsInv, InitialGlobals, Mapped
<1>3. addr \in Nat
  BY WordAssumption DEF UInt32
<1>4. /\ addr % globals.max_map_size \in Nat
      /\ addr % globals.max_map_size < globals.max_map_size
  BY <1>1, <1>2, <1>3, Remainder
<1> QED
  BY <1>1, <1>2, <1>4 DEF Slots

-------------------------------------------------------------------------------
(* The invariant. *)

\* The parts of the invariant that speak of the shared memory and its history are
\* kept by a step that leaves them alone and in which nobody starts an update.
LEMMA MemoryUnchanged ==
  ASSUME IInv, TypeOK', UNCHANGED <<layout, memory, history>>,
         \A t \in Threads : pc'[t] \in {"inc", "set", "max"} =>
           pc'[t] = pc[t] /\ reg'[t] = reg[t] /\ globals' = globals
  PROVE  /\ CounterInv' /\ MaxInv'
         /\ WritesInOwnRegion' /\ UpdatedNotZero' /\ MaximumIsReported'
<1>1. /\ layout' = layout /\ bytes' = bytes /\ maxima' = maxima
      /\ visits' = visits /\ reports' = reports /\ reporters' = reporters
  BY DEF memory, history
<1>2. Offsets' = Offsets /\ Slots' = Slots /\ Segment' = Segment
  BY <1>1 DEF Offsets, Slots, Segment
<1>3. CounterInv'
  BY <1>1, <1>2 DEF IInv, CounterInv
<1>4. MaxInv'
  BY <1>1, <1>2 DEF IInv, MaxInv
<1>5. WritesInOwnRegion'
  BY <1>1, <1>2 DEF IInv, WritesInOwnRegion
<1>6. UpdatedNotZero' /\ MaximumIsReported'
  BY <1>1, <1>2 DEF IInv, UpdatedNotZero, MaximumIsReported
<1> QED
  BY <1>3, <1>4, <1>5, <1>6

\* The invariant holds when the program starts.
LEMMA InitIInv == Init => IInv
<1> SUFFICES ASSUME Init PROVE IInv
  OBVIOUS
<1>1. /\ StateValues \in Nat /\ StateValues > 1 /\ ByteValues \in Nat /\ ByteValues > 1
      /\ MaxValue \in Nat /\ MaxCalls \in Nat /\ MaxRuns \in Nat
  BY WordAssumption, SizeAssumption, BoundAssumption
<1>2. 0 \in UInt32 /\ 0 \in Bytes /\ 0 \in Values
  BY <1>1 DEF UInt32, Bytes, Values
<1>3. InitialGlobals \in Globals
  BY SizeAssumption DEF InitialGlobals, Globals
<1>4. \A t \in Threads : pc[t] \in {"none", "user"}
  BY ThreadAssumption DEF Init, OnlyMain, Nobody
<1>5. TypeOK
  <2>1. <<>> \in Seq(Hashes)
    OBVIOUS
  <2>2. /\ contexts \in [Threads -> Seq(Hashes)]
        /\ context \in [Threads -> UInt32] /\ state \in [Threads -> UInt32]
        /\ log \in [Threads -> UInt32]
    BY <1>2, <2>1 DEF Init, Zeros
  <2>3. /\ pc \in [Threads -> {"none", "user", "inc", "set", "max"}]
        /\ reg \in [Threads -> [at : Nat, val : Nat]]
    BY DEF Init, OnlyMain, Nobody, NoReg
  <2>4. server \in [globals : Globals, state : UInt32, log : UInt32]
    BY <1>2, <1>3 DEF Init
  <2>5. /\ bytes \in [Offsets -> Bytes] /\ maxima \in [Slots -> Values]
        /\ visits \in [Offsets -> Nat]
        /\ reports \in [Slots -> SUBSET Values]
        /\ reporters \in [Slots -> SUBSET Threads]
    BY <1>2 DEF Init, Zeros
  <2> QED
    BY <1>1, <1>3, <1>4, <2>2, <2>3, <2>4, <2>5 DEF Init, TypeOK
<1>6. GlobalsInv /\ ThreadInv
  BY DEF Init, GlobalsInv, ThreadInv
<1>7. CounterInv /\ MaxInv
  BY <1>4 DEF Init, CounterInv, MaxInv, Zeros
<1>8. WritesInOwnRegion /\ UpdatedNotZero /\ MaximumIsReported
  BY <1>4 DEF Init, WritesInOwnRegion, UpdatedNotZero, MaximumIsReported, Zeros
<1> QED
  BY <1>5, <1>6, <1>7, <1>8 DEF IInv

\* A context is opened: the register and the open contexts change, nothing else.
LEMMA OpenContextStep ==
  ASSUME IInv, NEW t \in Threads, NEW hash \in Hashes, OpenContext(t, hash)
  PROVE  IInv'
<1>1. TypeOK /\ hash \in UInt32
  BY AddressAssumption DEF IInv
<1>2. Xored(state[t], hash) \in UInt32 /\ BitXor(context[t], hash) \in UInt32
  BY <1>1, XoredIsWord, XorAssumption DEF TypeOK
<1>3. TypeOK'
  <2>1. contexts' \in [Threads -> Seq(Hashes)]
    BY <1>1 DEF OpenContext, TypeOK
  <2>2. state' \in [Threads -> UInt32] /\ context' \in [Threads -> UInt32]
    BY <1>1, <1>2 DEF OpenContext, TypeOK
  <2>3. calls' \in 0 .. MaxCalls
    BY <1>1, BoundAssumption DEF OpenContext, Call, TypeOK
  <2> QED
    BY <1>1, <2>1, <2>2, <2>3 DEF OpenContext, TypeOK, memory, history, Offsets, Slots
<1>4. GlobalsInv' /\ ThreadInv'
  BY DEF IInv, GlobalsInv, ThreadInv, OpenContext, Mapped
<1>5. CounterInv' /\ MaxInv' /\ WritesInOwnRegion' /\ UpdatedNotZero' /\ MaximumIsReported'
  BY <1>3, MemoryUnchanged DEF OpenContext
<1> QED
  BY <1>3, <1>4, <1>5 DEF IInv

\* A context is closed.
LEMMA CloseContextStep ==
  ASSUME IInv, NEW t \in Threads, CloseContext(t)
  PROVE  IInv'
<1>1. TypeOK
  BY DEF IInv
<1> DEFINE hash == contexts[t][Len(contexts[t])]
<1>2. contexts[t] \in Seq(Hashes) /\ contexts[t] # <<>>
  BY <1>1 DEF CloseContext, TypeOK
<1>3. hash \in Hashes /\ SubSeq(contexts[t], 1, Len(contexts[t]) - 1) \in Seq(Hashes)
  BY <1>2
<1>4. hash \in UInt32
  BY <1>3, AddressAssumption
<1>5. Xored(state[t], hash) \in UInt32 /\ BitXor(context[t], hash) \in UInt32
  BY <1>1, <1>4, XoredIsWord, XorAssumption DEF TypeOK
<1>6. TypeOK'
  <2>1. contexts' \in [Threads -> Seq(Hashes)]
    BY <1>1, <1>3 DEF CloseContext, TypeOK
  <2>2. state' \in [Threads -> UInt32] /\ context' \in [Threads -> UInt32]
    BY <1>1, <1>5 DEF CloseContext, TypeOK
  <2> QED
    BY <1>1, <2>1, <2>2 DEF CloseContext, TypeOK, memory, history, Offsets, Slots
<1>7. GlobalsInv' /\ ThreadInv'
  BY DEF IInv, GlobalsInv, ThreadInv, CloseContext, Mapped
<1>8. CounterInv' /\ MaxInv' /\ WritesInOwnRegion' /\ UpdatedNotZero' /\ MaximumIsReported'
  BY <1>6, MemoryUnchanged DEF CloseContext
<1> QED
  BY <1>6, <1>7, <1>8 DEF IInv

\* A state is pushed: the log keeps its width.
LEMMA PushStateStep ==
  ASSUME IInv, NEW t \in Threads, NEW x \in Numbers, PushState(t, x)
  PROVE  IInv'
<1>1. TypeOK /\ state[t] \in UInt32 /\ log[t] \in UInt32
  BY DEF IInv, TypeOK
<1> DEFINE sum == (log[t] * LogBase) + (x % LogBase)
           new == sum % StateValues
<1>2. new \in UInt32
  <2>1. log[t] \in Nat /\ LogBase \in Nat \ {0} /\ x \in Nat /\ StateValues \in Nat \ {0}
    BY <1>1, WordAssumption, SizeAssumption DEF UInt32
  <2>2. log[t] * LogBase \in Nat
    BY <2>1
  <2>3. sum \in Nat
    BY <2>1, <2>2, Remainder
  <2> HIDE DEF sum
  <2>4. sum % StateValues \in Nat /\ sum % StateValues < StateValues
    BY <2>1, <2>3, Remainder
  <2> QED
    BY <2>1, <2>4 DEF UInt32
<1> HIDE DEF new
<1>3. Pushed(state[t], log[t], new) \in UInt32
  BY <1>1, <1>2, XoredIsWord DEF Pushed
<1>4. /\ state' = [state EXCEPT ![t] = Pushed(@, log[t], new)]
      /\ log' = [log EXCEPT ![t] = new]
  BY DEF PushState, new, sum
<1>5. TypeOK'
  <2>1. state' \in [Threads -> UInt32] /\ log' \in [Threads -> UInt32]
    BY <1>1, <1>2, <1>3, <1>4 DEF TypeOK
  <2>2. calls' \in 0 .. MaxCalls
    BY <1>1, BoundAssumption DEF PushState, Call, TypeOK
  <2> QED
    BY <1>1, <2>1, <2>2 DEF PushState, TypeOK, memory, history, Offsets, Slots
<1>6. GlobalsInv' /\ ThreadInv'
  BY DEF IInv, GlobalsInv, ThreadInv, PushState, Mapped
<1>7. CounterInv' /\ MaxInv' /\ WritesInOwnRegion' /\ UpdatedNotZero' /\ MaximumIsReported'
  BY <1>5, MemoryUnchanged DEF PushState
<1> QED
  BY <1>5, <1>6, <1>7 DEF IInv

\* A counter is loaded: it is in the counters and shows no more than its updates.
LEMMA LoadCounterStep ==
  ASSUME IInv, NEW t \in Threads, NEW a \in Annotations, LoadCounter(t, a)
  PROVE  IInv'
<1> DEFINE at == globals.counter + (BitXor(state[t], a.addr) % globals.map_size)
<1>1. TypeOK /\ GlobalsInv /\ state[t] \in UInt32 /\ a.addr \in UInt32
  BY AddressAssumption DEF IInv, TypeOK
<1>2. at \in Offsets /\ at >= layout.afl
  BY <1>1, AddressInCounters DEF LoadCounter
<1>3. /\ pc' = [pc EXCEPT ![t] = a.how] /\ a.how \in {"inc", "set"}
      /\ reg' = [reg EXCEPT ![t] = [at |-> at, val |-> bytes[at]]]
  BY DEF LoadCounter
<1> HIDE DEF at
<1>4. TypeOK'
  <2>1. bytes[at] \in Bytes
    BY <1>1, <1>2 DEF TypeOK
  <2>2. calls' \in 0 .. MaxCalls
    BY <1>1, BoundAssumption DEF LoadCounter, Call, TypeOK
  <2>3. /\ pc' \in [Threads -> {"none", "user", "inc", "set", "max"}]
        /\ reg' \in [Threads -> [at : Nat, val : Nat]]
    <3>1. layout.afl \in Nat /\ layout.counter \in Nat /\ ByteValues \in Nat
      BY <1>1, LayoutSizes, SizeAssumption
    <3>2. at \in Nat /\ bytes[at] \in Nat
      BY <1>2, <2>1, <3>1 DEF Offsets, Bytes
    <3> QED
      BY <1>1, <1>3, <3>2 DEF TypeOK
  <2>4. ASSUME NEW u \in Threads
        PROVE  /\ pc'[u] \in {"inc", "set"} => reg'[u] \in [at : Offsets, val : Bytes]
               /\ pc'[u] = "max" => reg'[u] \in [at : Slots, val : Values]
    <3>1. CASE u = t
      BY <1>1, <1>2, <1>3, <2>1, <3>1 DEF TypeOK, LoadCounter
    <3>2. CASE u # t
      BY <1>1, <1>3, <3>2 DEF TypeOK, LoadCounter
    <3> QED
      BY <3>1, <3>2
  <2> QED
    BY <1>1, <2>2, <2>3, <2>4
    DEF LoadCounter, TypeOK, registers, memory, history, Offsets, Slots
<1>5. GlobalsInv' /\ ThreadInv'
  BY DEF IInv, GlobalsInv, ThreadInv, LoadCounter, Call, Mapped, TypeOK, Nobody
<1>6. /\ layout' = layout /\ globals' = globals /\ bytes' = bytes /\ maxima' = maxima
      /\ visits' = visits /\ reports' = reports /\ reporters' = reporters
      /\ Offsets' = Offsets /\ Slots' = Slots /\ Segment' = Segment
  BY DEF LoadCounter, memory, history, Offsets, Slots, Segment
<1>7. \A u \in Threads : u # t => pc'[u] = pc[u] /\ reg'[u] = reg[u]
  BY <1>1, <1>3 DEF TypeOK
<1>8. pc'[t] = a.how /\ reg'[t].at = at /\ reg'[t].val = bytes[at]
  BY <1>1, <1>3 DEF TypeOK, LoadCounter
<1>9. CounterInv'
  BY <1>2, <1>6, <1>7, <1>8 DEF IInv, CounterInv
<1>10. MaxInv'
  BY <1>3, <1>6, <1>7, <1>8 DEF IInv, MaxInv
<1>11. WritesInOwnRegion'
  BY <1>3, <1>6, <1>7, <1>8 DEF IInv, WritesInOwnRegion
<1>12. UpdatedNotZero' /\ MaximumIsReported'
  BY <1>6 DEF IInv, UpdatedNotZero, MaximumIsReported
<1> QED
  BY <1>4, <1>5, <1>9, <1>10, <1>11, <1>12 DEF IInv

\* A counter is stored: what was loaded, however long ago, is no more than the
\* updates made, so that the new value is 0 only when they have wrapped it.
LEMMA StoreCounterStep ==
  ASSUME IInv, NEW t \in Threads, StoreCounter(t)
  PROVE  IInv'
<1> DEFINE at == reg[t].at
           new == Updated(reg[t].val, pc[t])
<1>1. /\ TypeOK /\ ByteValues \in Nat
      /\ pc[t] \in {"inc", "set"} /\ at \in Offsets /\ reg[t].val \in Bytes
  BY SizeAssumption DEF IInv, TypeOK, StoreCounter
<1>2. new \in Bytes /\ new <= reg[t].val + 1 /\ (new = 0 => reg[t].val = ByteValues - 1)
  BY <1>1, UpdatedByte
<1>3. at >= layout.afl /\ reg[t].val <= visits[at]
  BY <1>1 DEF IInv, CounterInv
<1>4. /\ bytes' = [bytes EXCEPT ![at] = new]
      /\ visits' = [visits EXCEPT ![at] = @ + 1]
      /\ pc' = [pc EXCEPT ![t] = "user"]
      /\ reg' = [reg EXCEPT ![t] = [at |-> 0, val |-> 0]]
  BY DEF StoreCounter
<1> HIDE DEF new
<1>5. TypeOK'
  <2>1. bytes' \in [Offsets -> Bytes] /\ visits' \in [Offsets -> Nat]
    BY <1>1, <1>2, <1>4 DEF TypeOK
  <2>2. pc' \in [Threads -> {"none", "user", "inc", "set", "max"}]
    BY <1>1, <1>4 DEF TypeOK
  <2> QED
    BY <1>1, <1>4, <2>1, <2>2 DEF StoreCounter, TypeOK, registers, Offsets, Slots
<1>6. GlobalsInv' /\ ThreadInv'
  BY <1>1 DEF IInv, GlobalsInv, ThreadInv, StoreCounter, Mapped, Nobody
<1>7. /\ layout' = layout /\ globals' = globals /\ maxima' = maxima
      /\ reports' = reports /\ reporters' = reporters
      /\ Offsets' = Offsets /\ Slots' = Slots /\ Segment' = Segment
  BY DEF StoreCounter, Offsets, Slots, Segment
<1>8. \A u \in Threads : u # t => pc'[u] = pc[u] /\ reg'[u] = reg[u]
  BY <1>1, <1>4 DEF TypeOK
<1>9. pc'[t] = "user"
  BY <1>1, <1>4 DEF TypeOK
<1>10. \A o \in Offsets : o # at => bytes'[o] = bytes[o] /\ visits'[o] = visits[o]
  BY <1>1, <1>4 DEF TypeOK
<1>11. /\ bytes'[at] = new /\ visits'[at] = visits[at] + 1
       /\ visits[at] \in Nat /\ new \in 0 .. ByteValues - 1 /\ reg[t].val \in Nat
  BY <1>1, <1>2, <1>4 DEF TypeOK, Bytes
<1>12. CounterInv'
  <2>1. ASSUME NEW o \in Offsets, o >= layout.afl
        PROVE  bytes'[o] <= visits'[o]
    BY <1>2, <1>3, <1>10, <1>11, <2>1 DEF IInv, CounterInv
  <2>2. ASSUME NEW u \in Threads, pc'[u] \in {"inc", "set"}
        PROVE  reg'[u].at >= layout.afl /\ reg'[u].val <= visits'[reg'[u].at]
    <3>1. u # t /\ pc[u] \in {"inc", "set"} /\ reg'[u] = reg[u]
      BY <1>8, <1>9, <2>2
    <3>2. reg[u].at >= layout.afl /\ reg[u].val <= visits[reg[u].at]
      BY <3>1 DEF IInv, CounterInv
    <3>3. reg[u].at \in Offsets /\ reg[u].val \in Nat
      BY <1>1, <3>1 DEF TypeOK, Bytes
    <3> QED
      BY <1>10, <1>11, <3>1, <3>2, <3>3
  <2> QED
    BY <1>7, <2>1, <2>2 DEF CounterInv
<1>13. MaxInv'
  BY <1>7, <1>8, <1>9 DEF IInv, MaxInv
<1>14. WritesInOwnRegion'
  BY <1>3, <1>7, <1>8, <1>9, <1>10 DEF IInv, WritesInOwnRegion
<1>15. UpdatedNotZero'
  <2>1. ASSUME NEW o \in Offsets, visits'[o] \in 1 .. ByteValues - 1
        PROVE  bytes'[o] # 0
    <3>1. CASE o = at
      BY <1>1, <1>2, <1>3, <1>11, <2>1, <3>1
    <3>2. CASE o # at
      BY <1>10, <2>1, <3>2 DEF IInv, UpdatedNotZero
    <3> QED
      BY <3>1, <3>2
  <2> QED
    BY <1>7, <2>1 DEF UpdatedNotZero
<1>16. MaximumIsReported'
  BY <1>7 DEF IInv, MaximumIsReported
<1> QED
  BY <1>5, <1>6, <1>12, <1>13, <1>14, <1>15, <1>16 DEF IInv

\* A value is compared with a maximum: one that a single thread exceeds stays
\* exceeded, for any other report makes a second reporter.
LEMMA CompareMaxStep ==
  ASSUME IInv, NEW t \in Threads, NEW a \in Annotations, CompareMax(t, a)
  PROVE  IInv'
<1> DEFINE slot == a.addr % globals.max_map_size
<1>1. /\ TypeOK /\ GlobalsInv /\ MaxValue \in Nat
      /\ a.addr \in UInt32 /\ a.val \in Values /\ pc[t] = "user"
  BY AddressAssumption, SizeAssumption DEF IInv, CompareMax, Call
<1>2. globals.max = layout.afl + layout.counter /\ slot \in Slots
  BY <1>1, AddressInMaxima DEF CompareMax
<1>3. /\ reporters' = [reporters EXCEPT ![slot] = @ \cup {t}]
      /\ \/ /\ maxima[slot] < a.val
            /\ pc' = [pc EXCEPT ![t] = "max"]
            /\ reg' = [reg EXCEPT ![t] = [at |-> slot, val |-> a.val]]
            /\ reports' = reports
         \/ /\ ~(maxima[slot] < a.val)
            /\ reports' = [reports EXCEPT ![slot] = @ \cup {a.val}]
            /\ pc' = pc /\ reg' = reg
  BY DEF CompareMax, Exceeds
<1>4. /\ layout' = layout /\ phase' = phase /\ server' = server /\ globals' = globals
      /\ bytes' = bytes /\ maxima' = maxima /\ visits' = visits
      /\ Offsets' = Offsets /\ Slots' = Slots /\ Segment' = Segment
      /\ state' = state /\ log' = log /\ contexts' = contexts /\ context' = context
      /\ runs' = runs
  BY DEF CompareMax, memory, registers, Offsets, Slots, Segment
<1>5. calls' \in 0 .. MaxCalls
  BY <1>1, BoundAssumption DEF CompareMax, Call, TypeOK
<1> HIDE DEF slot
<1>6. a.val \in Nat /\ maxima[slot] \in Nat /\ slot \in Nat
  <2>1. layout.max \div WordSize \in Nat
    BY <1>1, LayoutSizes
  <2> QED
    BY <1>1, <1>2, <2>1 DEF TypeOK, Values, Slots
<1>7. \A u \in Threads : u # t => pc'[u] = pc[u] /\ reg'[u] = reg[u]
  BY <1>1, <1>3 DEF TypeOK
<1>8. /\ reporters'[slot] = reporters[slot] \cup {t}
      /\ \A s \in Slots : s # slot => reporters'[s] = reporters[s] /\ reports'[s] = reports[s]
  BY <1>1, <1>2, <1>3 DEF TypeOK
<1>9. CASE pc' = pc
  <2>1. /\ reports' = [reports EXCEPT ![slot] = @ \cup {a.val}]
        /\ reg' = reg /\ a.val <= maxima[slot]
    BY <1>1, <1>3, <1>6, <1>9 DEF TypeOK
  <2>2. TypeOK'
    BY <1>1, <1>2, <1>3, <1>4, <1>5, <1>9, <2>1 DEF TypeOK
  <2>3. GlobalsInv' /\ ThreadInv' /\ CounterInv' /\ UpdatedNotZero' /\ WritesInOwnRegion'
    BY <1>4, <1>9, <2>1
    DEF IInv, GlobalsInv, ThreadInv, CounterInv, UpdatedNotZero, WritesInOwnRegion, Mapped, Nobody
  <2>4. /\ reports'[slot] = reports[slot] \cup {a.val}
        /\ \A s \in Slots : reports[s] \subseteq Values
    BY <1>1, <1>2, <2>1 DEF TypeOK
  <2>5. MaxInv'
    <3>1. ASSUME NEW u \in Threads, pc'[u] = "max"
          PROVE  /\ globals'.max = layout'.afl + layout'.counter
                 /\ u \in reporters'[reg'[u].at]
                 /\ reporters'[reg'[u].at] = {u} => reg'[u].val > maxima'[reg'[u].at]
      <4>1. /\ u # t /\ pc[u] = "max" /\ reg'[u] = reg[u] /\ reg[u].at \in Slots
            /\ u \in reporters[reg[u].at]
            /\ reporters[reg[u].at] = {u} => reg[u].val > maxima[reg[u].at]
        BY <1>1, <1>9, <2>1, <3>1 DEF IInv, MaxInv, TypeOK
      <4>2. reporters'[reg[u].at] = {u} => reporters[reg[u].at] = {u}
        BY <1>8, <4>1
      <4>3. u \in reporters'[reg[u].at]
        BY <1>8, <4>1
      <4> QED
        BY <1>2, <1>4, <4>1, <4>2, <4>3
    <3>2. \A s \in Slots : reporters'[s] = {} => reports'[s] = {}
      BY <1>8 DEF IInv, MaxInv
    <3> QED
      BY <1>4, <3>1, <3>2 DEF MaxInv
  <2>6. MaximumIsReported'
    <3>1. ASSUME NEW s \in Slots
          PROVE  /\ maxima'[s] \in reports'[s] \cup {0}
                 /\ \A u \in Threads : reporters'[s] = {u} => \A v \in reports'[s] : v <= maxima'[s]
      <4>1. CASE s # slot
        BY <1>4, <1>8, <4>1 DEF IInv, MaximumIsReported
      <4>2. CASE s = slot
        <5>1. maxima'[s] \in reports'[s] \cup {0}
          BY <1>4, <2>4, <4>2 DEF IInv, MaximumIsReported
        <5>2. ASSUME NEW u \in Threads, reporters'[s] = {u}
              PROVE  \A v \in reports'[s] : v <= maxima'[s]
          <6>1. reporters[s] = {u} \/ reporters[s] = {}
            BY <1>8, <4>2, <5>2
          <6>2. \A v \in reports[s] : v <= maxima[s]
            BY <6>1 DEF IInv, MaximumIsReported, MaxInv
          <6> QED
            BY <1>4, <2>1, <2>4, <4>2, <6>2
        <5> QED
          BY <5>1, <5>2
      <4> QED
        BY <4>1, <4>2
    <3> QED
      BY <1>4, <3>1 DEF MaximumIsReported
  <2> QED
    BY <2>2, <2>3, <2>5, <2>6 DEF IInv
<1>10. CASE pc' # pc
  <2>1. /\ pc' = [pc EXCEPT ![t] = "max"]
        /\ reg' = [reg EXCEPT ![t] = [at |-> slot, val |-> a.val]]
        /\ reports' = reports /\ maxima[slot] < a.val
    BY <1>3, <1>10
  <2>2. pc'[t] = "max" /\ reg'[t].at = slot /\ reg'[t].val = a.val
    BY <1>1, <2>1 DEF TypeOK
  <2>3. TypeOK'
    <3>1. /\ pc' \in [Threads -> {"none", "user", "inc", "set", "max"}]
          /\ reg' \in [Threads -> [at : Nat, val : Nat]]
      BY <1>1, <1>6, <2>1 DEF TypeOK
    <3>2. ASSUME NEW u \in Threads
          PROVE  /\ pc'[u] \in {"inc", "set"} => reg'[u] \in [at : Offsets, val : Bytes]
                 /\ pc'[u] = "max" => reg'[u] \in [at : Slots, val : Values]
      <4>1. CASE u = t
        BY <1>1, <1>2, <2>1, <4>1 DEF TypeOK
      <4>2. CASE u # t
        BY <1>1, <1>7, <4>2 DEF TypeOK
      <4> QED
        BY <4>1, <4>2
    <3>3. reporters' \in [Slots -> SUBSET Threads]
      BY <1>1, <1>3 DEF TypeOK
    <3> QED
      BY <1>1, <1>4, <1>5, <2>1, <3>1, <3>2, <3>3 DEF TypeOK
  <2>4. GlobalsInv' /\ ThreadInv' /\ UpdatedNotZero'
    BY <1>1, <1>4, <2>1
    DEF IInv, GlobalsInv, ThreadInv, UpdatedNotZero, Mapped, Nobody
  <2>5. CounterInv'
    BY <1>4, <1>7, <2>2 DEF IInv, CounterInv
  <2>6. WritesInOwnRegion'
    <3>1. /\ layout.afl \in Nat /\ layout.counter \in Nat /\ layout.max \in Nat
          /\ WordSize \in Nat \ {0}
      BY <1>1, LayoutSizes, SizeAssumption
    <3>2. WordSize * slot \in Nat /\ WordSize * (slot + 1) <= layout.max
      BY <1>2, <3>1, WordsFit DEF Slots
    <3>3. /\ globals.max + (WordSize * slot) >= layout.afl + layout.counter
          /\ globals.max + (WordSize * (slot + 1)) <= Segment
      BY <1>2, <1>6, <3>1, <3>2 DEF Segment
    <3> QED
      BY <1>4, <1>7, <2>2, <3>3 DEF IInv, WritesInOwnRegion
  <2>7. MaxInv'
    <3>1. ASSUME NEW u \in Threads, pc'[u] = "max"
          PROVE  /\ globals'.max = layout'.afl + layout'.counter
                 /\ u \in reporters'[reg'[u].at]
                 /\ reporters'[reg'[u].at] = {u} => reg'[u].val > maxima'[reg'[u].at]
      <4>1. CASE u = t
        BY <1>2, <1>4, <1>6, <1>8, <2>1, <2>2, <4>1
      <4>2. CASE u # t
        <5>1. /\ pc[u] = "max" /\ reg'[u] = reg[u] /\ reg[u].at \in Slots
              /\ u \in reporters[reg[u].at]
              /\ reporters[reg[u].at] = {u} => reg[u].val > maxima[reg[u].at]
          BY <1>1, <1>7, <3>1, <4>2 DEF IInv, MaxInv, TypeOK
        <5>2. reporters'[reg[u].at] = {u} => reporters[reg[u].at] = {u}
          BY <1>8, <4>2, <5>1
        <5>3. u \in reporters'[reg[u].at]
          BY <1>8, <5>1
        <5> QED
          BY <1>2, <1>4, <5>1, <5>2, <5>3
      <4> QED
        BY <4>1, <4>2
    <3>2. \A s \in Slots : reporters'[s] = {} => reports'[s] = {}
      BY <1>8, <2>1 DEF IInv, MaxInv
    <3> QED
      BY <1>4, <3>1, <3>2 DEF MaxInv
  <2>8. MaximumIsReported'
    <3>1. ASSUME NEW s \in Slots, NEW u \in Threads, reporters'[s] = {u}
          PROVE  \A v \in reports[s] : v <= maxima[s]
      <4>1. reporters[s] = {u} \/ reporters[s] = {}
        BY <1>8, <3>1
      <4> QED
        BY <4>1 DEF IInv, MaximumIsReported, MaxInv
    <3> QED
      BY <1>4, <2>1, <3>1 DEF IInv, MaximumIsReported
  <2> QED
    BY <2>3, <2>4, <2>5, <2>6, <2>7, <2>8 DEF IInv
<1> QED
  BY <1>9, <1>10

\* A maximum is stored: by the only thread that reports to it, it rises; and it is
\* a report in any case.
LEMMA StoreMaxStep ==
  ASSUME IInv, NEW t \in Threads, StoreMax(t)
  PROVE  IInv'
<1> DEFINE at == reg[t].at
           val == reg[t].val
<1>1. /\ TypeOK /\ MaxValue \in Nat
      /\ pc[t] = "max" /\ at \in Slots /\ val \in Values
      /\ t \in reporters[at] /\ (reporters[at] = {t} => val > maxima[at])
  BY SizeAssumption DEF IInv, TypeOK, MaxInv, StoreMax
<1>2. /\ maxima' = [maxima EXCEPT ![at] = val]
      /\ reports' = [reports EXCEPT ![at] = @ \cup {val}]
      /\ pc' = [pc EXCEPT ![t] = "user"]
      /\ reg' = [reg EXCEPT ![t] = [at |-> 0, val |-> 0]]
  BY DEF StoreMax
<1>3. /\ layout' = layout /\ phase' = phase /\ server' = server /\ globals' = globals
      /\ bytes' = bytes /\ visits' = visits /\ reporters' = reporters
      /\ Offsets' = Offsets /\ Slots' = Slots /\ Segment' = Segment
      /\ state' = state /\ log' = log /\ contexts' = contexts /\ context' = context
      /\ calls' = calls /\ runs' = runs
  BY DEF StoreMax, registers, Offsets, Slots, Segment
<1> HIDE DEF at, val
<1>4. /\ \A u \in Threads : u # t => pc'[u] = pc[u] /\ reg'[u] = reg[u]
      /\ pc'[t] = "user"
  BY <1>1, <1>2 DEF TypeOK
<1>5. /\ maxima'[at] = val /\ reports'[at] = reports[at] \cup {val}
      /\ \A s \in Slots : s # at => maxima'[s] = maxima[s] /\ reports'[s] = reports[s]
  BY <1>1, <1>2 DEF TypeOK
<1>6. TypeOK'
  <2>1. /\ maxima' \in [Slots -> Values] /\ reports' \in [Slots -> SUBSET Values]
        /\ pc' \in [Threads -> {"none", "user", "inc", "set", "max"}]
        /\ reg' \in [Threads -> [at : Nat, val : Nat]]
    BY <1>1, <1>2 DEF TypeOK
  <2> QED
    BY <1>1, <1>3, <1>4, <2>1 DEF TypeOK
<1>7. GlobalsInv' /\ ThreadInv' /\ UpdatedNotZero'
  BY <1>1, <1>3 DEF IInv, GlobalsInv, ThreadInv, UpdatedNotZero, Mapped, Nobody
<1>8. CounterInv' /\ WritesInOwnRegion'
  BY <1>3, <1>4 DEF IInv, CounterInv, WritesInOwnRegion
<1>9. MaxInv'
  <2>1. ASSUME NEW u \in Threads, pc'[u] = "max"
        PROVE  /\ globals'.max = layout'.afl + layout'.counter
               /\ u \in reporters'[reg'[u].at]
               /\ reporters'[reg'[u].at] = {u} => reg'[u].val > maxima'[reg'[u].at]
    <3>1. /\ u # t /\ pc[u] = "max" /\ reg'[u] = reg[u] /\ reg[u].at \in Slots
          /\ globals.max = layout.afl + layout.counter
          /\ u \in reporters[reg[u].at]
          /\ reporters[reg[u].at] = {u} => reg[u].val > maxima[reg[u].at]
      BY <1>1, <1>4, <2>1 DEF IInv, MaxInv, TypeOK
    <3>2. CASE reg[u].at = at
      BY <1>1, <1>3, <3>1, <3>2
    <3>3. CASE reg[u].at # at
      BY <1>3, <1>5, <3>1, <3>3
    <3> QED
      BY <3>2, <3>3
  <2>2. \A s \in Slots : reporters'[s] = {} => reports'[s] = {}
    BY <1>1, <1>3, <1>5 DEF IInv, MaxInv
  <2> QED
    BY <1>3, <2>1, <2>2 DEF MaxInv
<1>10. MaximumIsReported'
  <2>1. ASSUME NEW s \in Slots
        PROVE  /\ maxima'[s] \in reports'[s] \cup {0}
               /\ \A u \in Threads : reporters'[s] = {u} => \A v \in reports'[s] : v <= maxima'[s]
    <3>1. CASE s # at
      BY <1>3, <1>5, <3>1 DEF IInv, MaximumIsReported
    <3>2. CASE s = at
      <4>1. ASSUME NEW u \in Threads, reporters'[s] = {u}, NEW v \in reports'[s]
            PROVE  v <= maxima'[s]
        <5>1. u = t /\ val > maxima[at]
          BY <1>1, <1>3, <3>2, <4>1
        <5>2. /\ reports[at] \subseteq Values /\ maxima[at] \in Nat /\ val \in Nat
              /\ Values \subseteq Nat
          BY <1>1 DEF TypeOK, Values
        <5>3. CASE v = val
          BY <1>5, <3>2, <5>2, <5>3
        <5>4. CASE v \in reports[at]
          <6>1. v <= maxima[at]
            BY <1>1, <1>3, <3>2, <4>1, <5>4 DEF IInv, MaximumIsReported
          <6>2. v \in Nat /\ maxima'[s] = val
            BY <1>5, <3>2, <5>2, <5>4
          <6> QED
            BY <5>1, <5>2, <6>1, <6>2
        <5> QED
          BY <1>5, <3>2, <4>1, <5>3, <5>4
      <4> QED
        BY <1>5, <3>2, <4>1
    <3> QED
      BY <3>1, <3>2
  <2> QED
    BY <1>3, <2>1 DEF MaximumIsReported
<1> QED
  BY <1>6, <1>7, <1>8, <1>9, <1>10 DEF IInv

\* The memory is mapped, with the first byte of the area marked: no thread is in
\* an update, and no counter is there.
LEMMA AutoInitStep ==
  ASSUME IInv, AutoInit
  PROVE  IInv'
<1>1. TypeOK /\ layout' = layout /\ phase' = phase /\ server' = server
  BY DEF IInv, AutoInit
<1>2. pc' = OnlyMain /\ globals' = Mapped /\ Mapped' = Mapped
  BY DEF AutoInit, InConstructor, Mapped
<1>3. /\ maxima' = maxima /\ reg' = reg
      /\ visits' = visits /\ reports' = reports /\ reporters' = reporters
      /\ Offsets' = Offsets /\ Slots' = Slots
  BY DEF AutoInit, history, Offsets, Slots
<1>4. \A t \in Threads : pc'[t] \in {"none", "user"}
  BY <1>2, ThreadAssumption DEF OnlyMain, Nobody
<1>5. layout.afl \in Nat /\ layout.counter \in Nat /\ ByteValues \in Nat /\ 1 < ByteValues
  BY <1>1, LayoutSizes, SizeAssumption
<1>6. /\ bytes' \in [Offsets -> Bytes]
      /\ \A o \in Offsets : bytes'[o] = bytes[o] \/ (o = 0 /\ layout.afl > 0 /\ bytes'[o] = 1)
  <2>1. CASE layout.afl > 0
    <3>1. bytes' = [bytes EXCEPT ![0] = 1]
      BY <2>1 DEF AutoInit
    <3>2. 0 \in Offsets /\ 1 \in Bytes
      BY <1>5, <2>1 DEF Offsets, Bytes
    <3> QED
      BY <1>1, <2>1, <3>1, <3>2 DEF TypeOK
  <2>2. CASE ~(layout.afl > 0)
    BY <1>1, <2>2 DEF AutoInit, TypeOK
  <2> QED
    BY <2>1, <2>2
<1>7. TypeOK'
  <2>1. globals' \in Globals
    BY <1>1, <1>2, GlobalsTypes
  <2>2. pc' \in [Threads -> {"none", "user", "inc", "set", "max"}]
    BY <1>2 DEF OnlyMain, Nobody
  <2> QED
    BY <1>1, <1>3, <1>4, <1>6, <2>1, <2>2 DEF AutoInit, TypeOK, registers
<1>8. GlobalsInv' /\ ThreadInv'
  BY <1>1, <1>2 DEF IInv, GlobalsInv, ThreadInv, AutoInit, InConstructor
<1>9. CounterInv'
  BY <1>1, <1>3, <1>4, <1>5, <1>6 DEF IInv, CounterInv
<1>10. MaxInv' /\ MaximumIsReported'
  BY <1>3, <1>4 DEF IInv, MaxInv, MaximumIsReported
<1>11. WritesInOwnRegion' /\ UpdatedNotZero'
  BY <1>1, <1>3, <1>4, <1>6 DEF IInv, WritesInOwnRegion, UpdatedNotZero
<1> QED
  BY <1>7, <1>8, <1>9, <1>10, <1>11 DEF IInv

\* Steps that only move the server or its threads.
LEMMA ProcessStep ==
  ASSUME IInv, AutoInitFails \/ StartForkServer \/ \E t \in Threads : StartThread(t)
  PROVE  IInv'
<1>1. TypeOK
  BY DEF IInv
<1>2. /\ layout' = layout /\ globals' = globals /\ calls' = calls /\ runs' = runs
      /\ UNCHANGED memory /\ UNCHANGED history /\ UNCHANGED registers /\ reg' = reg
      /\ Offsets' = Offsets /\ Slots' = Slots /\ Mapped' = Mapped
  BY DEF AutoInitFails, StartForkServer, StartThread, Offsets, Slots, Mapped
<1>3. \A t \in Threads : pc'[t] \in {"inc", "set", "max"} => pc'[t] = pc[t]
  BY <1>1 DEF AutoInitFails, StartForkServer, StartThread, Nobody, TypeOK
<1>4. server' \in [globals : Globals, state : UInt32, log : UInt32]
  <2>1. CASE StartForkServer
    BY <1>1, <2>1, ThreadAssumption DEF StartForkServer, TypeOK
  <2>2. CASE ~StartForkServer
    BY <1>1, <2>2 DEF AutoInitFails, StartThread, TypeOK
  <2> QED
    BY <2>1, <2>2
<1>5. /\ phase' \in {"constructors", "idle", "run", "exited"}
      /\ pc' \in [Threads -> {"none", "user", "inc", "set", "max"}]
  BY <1>1 DEF AutoInitFails, StartForkServer, StartThread, Nobody, TypeOK
<1>6. TypeOK'
  BY <1>1, <1>2, <1>3, <1>4, <1>5 DEF TypeOK, registers, memory, history
<1>7. GlobalsInv'
  BY <1>2 DEF IInv, GlobalsInv, AutoInitFails, StartForkServer, StartThread
<1>8. ThreadInv'
  BY DEF IInv, ThreadInv, AutoInitFails, StartForkServer, StartThread
<1>9. CounterInv' /\ MaxInv' /\ WritesInOwnRegion' /\ UpdatedNotZero' /\ MaximumIsReported'
  BY <1>2, <1>3, <1>6, MemoryUnchanged
<1> QED
  BY <1>6, <1>7, <1>8, <1>9 DEF IInv

\* A run starts, on the memory as it is or on cleared memory.
LEMMA ExecuteStep ==
  ASSUME IInv, NEW clear \in BOOLEAN, Execute(clear)
  PROVE  IInv'
<1>1. /\ TypeOK /\ server.state \in UInt32 /\ server.log \in UInt32
      /\ layout' = layout /\ globals' = globals /\ server' = server /\ reg' = reg
      /\ Offsets' = Offsets /\ Slots' = Slots /\ Mapped' = Mapped
  BY DEF IInv, TypeOK, Execute, Offsets, Slots, Mapped
<1>2. /\ 0 \in UInt32 /\ 0 \in Bytes /\ 0 \in Values
      /\ MaxCalls \in Nat /\ MaxRuns \in Nat
  BY WordAssumption, SizeAssumption, BoundAssumption DEF UInt32, Bytes, Values
<1>3. \A t \in Threads : pc'[t] \in {"none", "user"}
  BY ThreadAssumption DEF Execute, OnlyMain, Nobody
<1>4. TypeOK'
  <2>1. <<>> \in Seq(Hashes)
    OBVIOUS
  <2>2. /\ state' \in [Threads -> UInt32] /\ log' \in [Threads -> UInt32]
        /\ contexts' \in [Threads -> Seq(Hashes)] /\ context' \in [Threads -> UInt32]
    BY <1>1, <1>2, <2>1 DEF Execute, Zeros
  <2>3. /\ phase' = "run" /\ calls' \in 0 .. MaxCalls /\ runs' \in 0 .. MaxRuns
        /\ pc' \in [Threads -> {"none", "user", "inc", "set", "max"}]
    <3>1. runs \in 0 .. MaxRuns /\ runs < MaxRuns /\ runs' = runs + 1 /\ calls' = 0
      BY <1>1 DEF Execute, TypeOK
    <3>2. pc' \in [Threads -> {"none", "user", "inc", "set", "max"}]
      BY DEF Execute, OnlyMain, Nobody
    <3> QED
      BY <1>2, <3>1, <3>2 DEF Execute
  <2>4. /\ bytes' \in [Offsets -> Bytes] /\ maxima' \in [Slots -> Values]
        /\ visits' \in [Offsets -> Nat]
        /\ reports' \in [Slots -> SUBSET Values] /\ reporters' \in [Slots -> SUBSET Threads]
    <3>1. CASE clear
      BY <1>2, <3>1 DEF Execute, Zeros
    <3>2. CASE ~clear
      BY <1>1, <3>2 DEF Execute, TypeOK, memory, history
    <3> QED
      BY <3>1, <3>2
  <2> QED
    BY <1>1, <1>3, <2>2, <2>3, <2>4 DEF TypeOK
<1>5. GlobalsInv' /\ ThreadInv'
  BY <1>1 DEF IInv, GlobalsInv, ThreadInv, Execute
<1>6. CounterInv' /\ MaxInv' /\ WritesInOwnRegion' /\ UpdatedNotZero' /\ MaximumIsReported'
  <2>1. CASE clear
    <3>1. /\ bytes' = Zeros(Offsets) /\ maxima' = Zeros(Slots) /\ visits' = Zeros(Offsets)
          /\ reports' = [s \in Slots |-> {}] /\ reporters' = [s \in Slots |-> {}]
      BY <2>1 DEF Execute
    <3> QED
      BY <1>1, <1>3, <3>1
      DEF CounterInv, MaxInv, WritesInOwnRegion, UpdatedNotZero, MaximumIsReported, Zeros
  <2>2. CASE ~clear
    <3>1. UNCHANGED <<layout, memory, history>>
      BY <1>1, <2>2 DEF Execute
    <3> QED
      BY <1>3, <1>4, <3>1, MemoryUnchanged
  <2> QED
    BY <2>1, <2>2
<1> QED
  BY <1>4, <1>5, <1>6 DEF IInv

\* A run ends, its threads wherever they are: what they have not stored is lost.
LEMMA EndRunStep ==
  ASSUME IInv, EndRun
  PROVE  IInv'
<1>1. /\ TypeOK /\ server.globals \in Globals
      /\ layout' = layout /\ server' = server /\ globals' = server.globals /\ runs' = runs
      /\ UNCHANGED memory /\ UNCHANGED history
      /\ Offsets' = Offsets /\ Slots' = Slots /\ Mapped' = Mapped
  BY DEF IInv, TypeOK, EndRun, Offsets, Slots, Mapped
<1>2. 0 \in UInt32 /\ 0 \in Bytes /\ 0 \in Values /\ MaxCalls \in Nat
  BY WordAssumption, SizeAssumption, BoundAssumption DEF UInt32, Bytes, Values
<1>3. \A t \in Threads : pc'[t] = "none"
  BY DEF EndRun, Nobody
<1>4. TypeOK'
  <2>1. <<>> \in Seq(Hashes)
    OBVIOUS
  <2>2. /\ state' \in [Threads -> UInt32] /\ log' \in [Threads -> UInt32]
        /\ contexts' \in [Threads -> Seq(Hashes)] /\ context' \in [Threads -> UInt32]
    BY <1>2, <2>1 DEF EndRun, Zeros
  <2>3. /\ phase' = "idle" /\ calls' \in 0 .. MaxCalls
        /\ pc' \in [Threads -> {"none", "user", "inc", "set", "max"}]
        /\ reg' \in [Threads -> [at : Nat, val : Nat]]
    BY <1>2 DEF EndRun, Nobody, NoReg
  <2> QED
    BY <1>1, <1>3, <2>2, <2>3 DEF TypeOK, memory, history
<1>5. GlobalsInv' /\ ThreadInv'
  BY <1>1 DEF IInv, GlobalsInv, ThreadInv, EndRun
<1>6. CounterInv' /\ MaxInv' /\ WritesInOwnRegion' /\ UpdatedNotZero' /\ MaximumIsReported'
  BY <1>1, <1>3, <1>4, MemoryUnchanged
<1> QED
  BY <1>4, <1>5, <1>6 DEF IInv

\* Every step keeps the invariant.
LEMMA StepIInv == IInv /\ [Next]_vars => IInv'
<1> SUFFICES ASSUME IInv, [Next]_vars PROVE IInv'
  OBVIOUS
<1>1. ASSUME NEW t \in Threads, NEW hash \in Hashes, OpenContext(t, hash) PROVE IInv'
  BY <1>1, OpenContextStep
<1>2. ASSUME NEW t \in Threads, NEW x \in Numbers, PushState(t, x) PROVE IInv'
  BY <1>2, PushStateStep
<1>3. ASSUME NEW t \in Threads, NEW a \in Annotations, LoadCounter(t, a) PROVE IInv'
  BY <1>3, LoadCounterStep
<1>4. ASSUME NEW t \in Threads, NEW a \in Annotations, CompareMax(t, a) PROVE IInv'
  BY <1>4, CompareMaxStep
<1>5. ASSUME NEW t \in Threads, CloseContext(t) PROVE IInv'
  BY <1>5, CloseContextStep
<1>6. ASSUME NEW t \in Threads, StoreCounter(t) PROVE IInv'
  BY <1>6, StoreCounterStep
<1>7. ASSUME NEW t \in Threads, StoreMax(t) PROVE IInv'
  BY <1>7, StoreMaxStep
<1>8. CASE AutoInit
  BY <1>8, AutoInitStep
<1>9. CASE AutoInitFails \/ StartForkServer \/ \E t \in Threads : StartThread(t)
  BY <1>9, ProcessStep
<1>10. ASSUME NEW clear \in BOOLEAN, Execute(clear) PROVE IInv'
  BY <1>10, ExecuteStep
<1>11. CASE EndRun
  BY <1>11, EndRunStep
<1>12. CASE UNCHANGED vars
  <2>1. TypeOK'
    BY <1>12 DEF IInv, TypeOK, vars, registers, memory, history, Offsets, Slots
  <2>2. GlobalsInv' /\ ThreadInv'
    BY <1>12 DEF IInv, GlobalsInv, ThreadInv, vars, Mapped
  <2>3. CounterInv' /\ MaxInv' /\ WritesInOwnRegion' /\ UpdatedNotZero' /\ MaximumIsReported'
    BY <1>12, <2>1, MemoryUnchanged DEF vars
  <2> QED
    BY <2>1, <2>2, <2>3 DEF IInv
<1> QED
  BY <1>1, <1>2, <1>3, <1>4, <1>5, <1>6, <1>7, <1>8, <1>9, <1>10, <1>11, <1>12 DEF Next

\* The invariant always holds.
LEMMA Invariance == Spec => []IInv
<1>1. IInv /\ [Next]_vars => IInv'
  BY StepIInv
<1> QED
  BY <1>1, InitIInv, PTL DEF Spec

-------------------------------------------------------------------------------
(* What follows. *)

\* Registers, counters and maxima keep their widths, and every update in progress
\* is of a counter or a maximum that exists (ijon-llvm-rt.o.c).
THEOREM TypeCorrect == Spec => []TypeOK
<1>1. IInv => TypeOK
  BY DEF IInv
<1> QED
  BY <1>1, Invariance, PTL

\* Whatever the client lays out and the program annotates, the runtime writes only
\* where that client looks for it.
THEOREM WritesInOwnRegionAlways == Spec => []WritesInOwnRegion
<1>1. IInv => WritesInOwnRegion
  BY DEF IInv
<1> QED
  BY <1>1, Invariance, PTL

\* However many threads race for a counter, an update is not lost altogether until
\* the counter has wrapped.
THEOREM UpdatedNotZeroAlways == Spec => []UpdatedNotZero
<1>1. IInv => UpdatedNotZero
  BY DEF IInv
<1> QED
  BY <1>1, Invariance, PTL

\* However reports race, a maximum was reported, and without a race it is the
\* greatest report.
THEOREM MaximumIsReportedAlways == Spec => []MaximumIsReported
<1>1. IInv => MaximumIsReported
  BY DEF IInv
<1> QED
  BY <1>1, Invariance, PTL

-------------------------------------------------------------------------------
(* The state register. *)

\* How much of the register both the size of the map and MAP_SIZE keep.
SizeOf(g) == IF g.map_size < MapSize THEN g.map_size ELSE MapSize

\* The exclusive or of a sequence of hashes, step by step.
IsXorOf(word, hashes) ==
  \E f \in [0 .. Len(hashes) -> UInt32] :
    /\ f[0] = 0 /\ f[Len(hashes)] = word
    /\ \A i \in 1 .. Len(hashes) : f[i] = BitXor(f[i - 1], hashes[i])

\* The history has the exclusive or of the contexts that are open.
ContextInv == \A t \in Threads : IsXorOf(context[t], contexts[t])

\* The register of every thread, whether it runs or not.
StateInv ==
  PowerOfTwo(globals.map_size) =>
    \A t \in Threads :
      state[t] % SizeOf(globals) = BitXor(context[t], log[t]) % SizeOf(globals)

\* What fork() copies has no context open.
ServerInv ==
  /\ PowerOfTwo(server.globals.map_size) =>
       server.state % SizeOf(server.globals) = server.log % SizeOf(server.globals)
  /\ phase = "idle" => globals = server.globals

SInv == IInv /\ ContextInv /\ StateInv /\ ServerInv

\* No context has the exclusive or 0.
LEMMA NoContext ==
  ASSUME NEW word
  PROVE  IsXorOf(word, <<>>) <=> word = 0
<1>1. ASSUME IsXorOf(word, <<>>) PROVE word = 0
  BY <1>1 DEF IsXorOf
<1>2. ASSUME word = 0 PROVE IsXorOf(word, <<>>)
  <2> DEFINE f == [i \in 0 .. 0 |-> 0]
  <2>1. 0 \in UInt32
    BY WordAssumption DEF UInt32
  <2>2. f \in [0 .. Len(<<>>) -> UInt32] /\ f[0] = 0 /\ f[Len(<<>>)] = word
    BY <1>2, <2>1
  <2>3. \A i \in 1 .. Len(<<>>) : f[i] = BitXor(f[i - 1], (<<>>)[i])
    OBVIOUS
  <2> QED
    BY <2>2, <2>3 DEF IsXorOf
<1> QED
  BY <1>1, <1>2

\* A context that is opened is one more operand.
LEMMA ContextOpened ==
  ASSUME NEW word \in UInt32, NEW hashes \in Seq(Hashes), NEW hash \in Hashes,
         IsXorOf(word, hashes)
  PROVE  IsXorOf(BitXor(word, hash), Append(hashes, hash))
<1> DEFINE n == Len(hashes)
           more == Append(hashes, hash)
<1>1. n \in Nat /\ Len(more) = n + 1 /\ more[n + 1] = hash
      /\ \A i \in 1 .. n : more[i] = hashes[i]
  OBVIOUS
<1>2. BitXor(word, hash) \in UInt32
  BY AddressAssumption, XorAssumption
<1>3. PICK f \in [0 .. n -> UInt32] :
        /\ f[0] = 0 /\ f[n] = word
        /\ \A i \in 1 .. n : f[i] = BitXor(f[i - 1], hashes[i])
  BY DEF IsXorOf
<1> HIDE DEF n, more
<1> DEFINE g == [i \in 0 .. n + 1 |-> IF i = n + 1 THEN BitXor(word, hash) ELSE f[i]]
<1>4. g \in [0 .. n + 1 -> UInt32]
  BY <1>1, <1>2
<1>5. g[0] = 0 /\ g[n + 1] = BitXor(word, hash) /\ g[n] = word
  BY <1>1, <1>3
<1>6. ASSUME NEW i \in 1 .. n + 1
      PROVE  g[i] = BitXor(g[i - 1], more[i])
  <2>1. CASE i = n + 1
    BY <1>1, <1>5, <2>1
  <2>2. CASE i # n + 1
    <3>1. i \in 1 .. n /\ i - 1 \in 0 .. n
      BY <1>1, <2>2
    <3>2. g[i] = f[i] /\ g[i - 1] = f[i - 1]
      BY <1>1, <3>1
    <3> QED
      BY <1>1, <1>3, <3>1, <3>2
  <2> QED
    BY <2>1, <2>2
<1> HIDE DEF g
<1> QED
  BY <1>1, <1>4, <1>5, <1>6 DEF IsXorOf, more

\* An operand twice is none.
LEMMA XorTwice ==
  ASSUME NEW x \in UInt32, NEW y \in UInt32
  PROVE  BitXor(BitXor(x, y), y) = x
BY BitwiseAssumption

\* A context that is closed is one less.
LEMMA ContextClosed ==
  ASSUME NEW word \in UInt32, NEW hashes \in Seq(Hashes), hashes # <<>>, IsXorOf(word, hashes)
  PROVE  IsXorOf(BitXor(word, hashes[Len(hashes)]), SubSeq(hashes, 1, Len(hashes) - 1))
<1> DEFINE n == Len(hashes)
           less == SubSeq(hashes, 1, n - 1)
<1>1. n \in Nat /\ n > 0 /\ hashes[n] \in Hashes /\ Len(less) = n - 1
      /\ \A i \in 1 .. n - 1 : less[i] = hashes[i]
  OBVIOUS
<1>2. PICK f \in [0 .. n -> UInt32] :
        /\ f[0] = 0 /\ f[n] = word
        /\ \A i \in 1 .. n : f[i] = BitXor(f[i - 1], hashes[i])
  BY DEF IsXorOf
<1>3. hashes[n] \in UInt32
  BY <1>1, AddressAssumption
<1> HIDE DEF n, less
<1>4. word = BitXor(f[n - 1], hashes[n]) /\ f[n - 1] \in UInt32
  BY <1>1, <1>2
<1>5. BitXor(word, hashes[n]) = f[n - 1]
  BY <1>3, <1>4, XorTwice
<1> DEFINE g == [i \in 0 .. n - 1 |-> f[i]]
<1>6. g \in [0 .. n - 1 -> UInt32] /\ g[0] = 0 /\ g[n - 1] = BitXor(word, hashes[n])
  BY <1>1, <1>2, <1>5
<1>7. \A i \in 1 .. n - 1 : g[i] = BitXor(g[i - 1], less[i])
  BY <1>1, <1>2
<1> HIDE DEF g
<1> QED
  BY <1>1, <1>6, <1>7 DEF IsXorOf, n, less

\* The size divides the size of the map, and leaves a power of two.
LEMMA SizeDivides ==
  ASSUME NEW g \in Globals, PowerOfTwo(g.map_size)
  PROVE  /\ SizeOf(g) \in Nat \ {0} /\ PowerOfTwo(SizeOf(g))
         /\ \E k \in Nat \ {0} : g.map_size = SizeOf(g) * k
         /\ \E k \in Nat \ {0} : MapSize = SizeOf(g) * k
<1>1. g.map_size \in Nat \ {0} /\ MapSize \in Nat \ {0}
  BY SizeAssumption DEF Globals
<1>2. SizeOf(g) \in Nat \ {0} /\ SizeOf(g) <= g.map_size /\ SizeOf(g) <= MapSize
  BY <1>1 DEF SizeOf
<1>3. PowerOfTwo(SizeOf(g))
  BY MapSizeAssumption DEF SizeOf
<1> QED
  BY <1>1, <1>2, <1>3, MapSizeAssumption, PowersNest

\* Words that agree on the lowest bits have exclusive ors that do.
LEMMA XorRemainder ==
  ASSUME NEW n \in Nat \ {0}, PowerOfTwo(n), NEW x \in UInt32, NEW y \in UInt32,
         NEW v \in UInt32, x % n = y % n
  PROVE  BitXor(x, v) % n = BitXor(y, v) % n
<1>1. CASE n <= StateValues
  <2>1. n \in 1 .. StateValues
    BY <1>1, WordAssumption
  <2> QED
    BY <2>1, BitwiseAssumption
<1>2. CASE n > StateValues
  <2>1. ASSUME NEW z \in UInt32 PROVE z % n = z
    <3>1. z \in 0 .. n - 1
      BY <1>2, WordAssumption DEF UInt32
    <3>2. (n * 0 + z) % n = z
      BY <3>1, ModUnique
    <3> QED
      BY <3>1, <3>2
  <2> QED
    BY <2>1
<1> QED
  BY <1>1, <1>2, WordAssumption

\* ijon_xor_state keeps what the register shares with a word.
LEMMA XoredRemainder ==
  ASSUME TypeOK, PowerOfTwo(globals.map_size),
         NEW s \in UInt32, NEW w \in UInt32, NEW v \in UInt32,
         s % SizeOf(globals) = w % SizeOf(globals)
  PROVE  Xored(s, v) % SizeOf(globals) = BitXor(w, v) % SizeOf(globals)
<1> DEFINE n == SizeOf(globals)
<1>1. globals \in Globals /\ BitXor(s, v) \in UInt32
  BY XorAssumption DEF TypeOK
<1>2. n \in Nat \ {0} /\ PowerOfTwo(n) /\ \E k \in Nat \ {0} : globals.map_size = n * k
  BY <1>1, SizeDivides
<1>3. BitXor(s, v) \in Nat
  BY <1>1, WordAssumption DEF UInt32
<1> HIDE DEF n
<1>4. Xored(s, v) % n = BitXor(s, v) % n
  <2>1. PICK k \in Nat \ {0} : globals.map_size = n * k
    BY <1>2
  <2>2. PICK x \in Nat : x = BitXor(s, v)
    BY <1>3
  <2>3. (x % (n * k)) % n = x % n
    BY <1>2, ModOfMod
  <2> QED
    BY <2>1, <2>2, <2>3 DEF Xored
<1>5. BitXor(s, v) % n = BitXor(w, v) % n
  BY <1>2, XorRemainder DEF n
<1> QED
  BY <1>4, <1>5 DEF n

\* The register holds nothing when the program starts.
LEMMA InitSInv == Init => SInv
<1> SUFFICES ASSUME Init PROVE SInv
  OBVIOUS
<1>1. IInv
  BY InitIInv
<1>2. BitXor(0, 0) = 0
  <2>1. 0 \in UInt32
    BY WordAssumption DEF UInt32
  <2> QED
    BY <2>1, BitwiseAssumption
<1>3. ContextInv
  BY NoContext DEF Init, ContextInv, Zeros
<1>4. StateInv /\ ServerInv
  BY <1>2 DEF Init, StateInv, ServerInv, Zeros
<1> QED
  BY <1>1, <1>3, <1>4 DEF SInv

\* A step that leaves registers, pointers and the server alone.
LEMMA RegistersUnchanged ==
  ASSUME SInv, UNCHANGED <<registers, globals, server>>, phase' = phase \/ phase' # "idle"
  PROVE  ContextInv' /\ StateInv' /\ ServerInv'
<1>1. UNCHANGED <<state, log, contexts, context>>
  BY DEF registers
<1>2. ContextInv'
  BY <1>1 DEF SInv, ContextInv
<1>3. StateInv'
  BY <1>1 DEF SInv, StateInv
<1> QED
  BY <1>2, <1>3 DEF SInv, ServerInv

\* A context is opened, and enters the register.
LEMMA OpenContextState ==
  ASSUME SInv, NEW t \in Threads, NEW hash \in Hashes, OpenContext(t, hash)
  PROVE  ContextInv' /\ StateInv' /\ ServerInv'
<1>1. /\ TypeOK /\ hash \in UInt32 /\ state[t] \in UInt32 /\ log[t] \in UInt32
      /\ context[t] \in UInt32 /\ contexts[t] \in Seq(Hashes)
  BY AddressAssumption DEF SInv, IInv, TypeOK
<1>2. /\ UNCHANGED <<phase, server, globals, log>>
      /\ state' = [state EXCEPT ![t] = Xored(@, hash)]
      /\ contexts' = [contexts EXCEPT ![t] = Append(@, hash)]
      /\ context' = [context EXCEPT ![t] = BitXor(@, hash)]
  BY DEF OpenContext
<1>3. /\ state'[t] = Xored(state[t], hash) /\ context'[t] = BitXor(context[t], hash)
      /\ contexts'[t] = Append(contexts[t], hash)
      /\ \A u \in Threads \ {t} :
           state'[u] = state[u] /\ context'[u] = context[u] /\ contexts'[u] = contexts[u]
  BY <1>1, <1>2 DEF TypeOK
<1>4. ContextInv'
  BY <1>1, <1>3, ContextOpened DEF SInv, ContextInv
<1>5. BitXor(BitXor(context[t], log[t]), hash) = BitXor(BitXor(context[t], hash), log[t])
  BY <1>1, BitwiseAssumption
<1>6. BitXor(context[t], log[t]) \in UInt32
  BY <1>1, XorAssumption
<1>7. StateInv'
  BY <1>1, <1>2, <1>3, <1>5, <1>6, XoredRemainder DEF SInv, StateInv
<1> QED
  BY <1>2, <1>4, <1>7 DEF SInv, ServerInv

\* A context is closed, and leaves the register.
LEMMA CloseContextState ==
  ASSUME SInv, NEW t \in Threads, CloseContext(t)
  PROVE  ContextInv' /\ StateInv' /\ ServerInv'
<1> DEFINE hash == contexts[t][Len(contexts[t])]
<1>1. /\ TypeOK /\ state[t] \in UInt32 /\ log[t] \in UInt32
      /\ context[t] \in UInt32 /\ contexts[t] \in Seq(Hashes)
  BY DEF SInv, IInv, TypeOK
<1>2. /\ UNCHANGED <<phase, server, globals, log>> /\ contexts[t] # <<>>
      /\ state' = [state EXCEPT ![t] = Xored(@, hash)]
      /\ contexts' = [contexts EXCEPT ![t] = SubSeq(@, 1, Len(@) - 1)]
      /\ context' = [context EXCEPT ![t] = BitXor(@, hash)]
  BY DEF CloseContext
<1>3. hash \in UInt32
  <2>1. hash \in Hashes
    BY <1>1, <1>2
  <2> QED
    BY <2>1, AddressAssumption
<1>4. /\ state'[t] = Xored(state[t], hash) /\ context'[t] = BitXor(context[t], hash)
      /\ contexts'[t] = SubSeq(contexts[t], 1, Len(contexts[t]) - 1)
      /\ \A u \in Threads \ {t} :
           state'[u] = state[u] /\ context'[u] = context[u] /\ contexts'[u] = contexts[u]
  BY <1>1, <1>2 DEF TypeOK
<1>5. ContextInv'
  BY <1>1, <1>2, <1>4, ContextClosed DEF SInv, ContextInv
<1> HIDE DEF hash
<1>6. BitXor(BitXor(context[t], log[t]), hash) = BitXor(BitXor(context[t], hash), log[t])
  BY <1>1, <1>3, BitwiseAssumption
<1>7. BitXor(context[t], log[t]) \in UInt32
  BY <1>1, XorAssumption
<1>8. StateInv'
  BY <1>1, <1>2, <1>3, <1>4, <1>6, <1>7, XoredRemainder DEF SInv, StateInv
<1> QED
  BY <1>2, <1>5, <1>8 DEF SInv, ServerInv

\* A state is pushed: the old log leaves the register, and the new one enters it.
LEMMA PushStateState ==
  ASSUME SInv, TypeOK', NEW t \in Threads, NEW x \in Numbers, PushState(t, x)
  PROVE  ContextInv' /\ StateInv' /\ ServerInv'
<1>1. /\ TypeOK /\ state[t] \in UInt32 /\ log[t] \in UInt32 /\ log'[t] \in UInt32
      /\ context[t] \in UInt32
  BY DEF SInv, IInv, TypeOK
<1>2. /\ UNCHANGED <<phase, server, globals, contexts, context>>
      /\ state'[t] = Xored(Xored(state[t], log[t]), log'[t])
      /\ \A u \in Threads \ {t} : state'[u] = state[u] /\ log'[u] = log[u]
  BY <1>1 DEF PushState, Pushed, TypeOK
<1>3. ContextInv'
  BY <1>2 DEF SInv, ContextInv
<1>4. StateInv'
  <2> SUFFICES ASSUME PowerOfTwo(globals.map_size), NEW u \in Threads
               PROVE  state'[u] % SizeOf(globals) =
                        BitXor(context[u], log'[u]) % SizeOf(globals)
    BY <1>2 DEF StateInv
  <2>1. CASE u # t
    BY <1>2, <2>1 DEF SInv, StateInv
  <2>2. CASE u = t
    <3>1. BitXor(context[t], log[t]) \in UInt32 /\ Xored(state[t], log[t]) \in UInt32
      BY <1>1, XorAssumption, XoredIsWord
    <3>2. state[t] % SizeOf(globals) = BitXor(context[t], log[t]) % SizeOf(globals)
      BY DEF SInv, StateInv
    <3>3. Xored(state[t], log[t]) % SizeOf(globals) = context[t] % SizeOf(globals)
      BY <1>1, <3>1, <3>2, XoredRemainder, XorTwice
    <3> QED
      BY <1>1, <1>2, <2>2, <3>1, <3>3, XoredRemainder
  <2> QED
    BY <2>1, <2>2
<1> QED
  BY <1>2, <1>3, <1>4 DEF SInv, ServerInv

\* The memory is mapped: the register keeps the bits that the counters have.
LEMMA AutoInitState ==
  ASSUME SInv, AutoInit
  PROVE  ContextInv' /\ StateInv' /\ ServerInv'
<1>1. TypeOK /\ GlobalsInv /\ Mapped \in Globals
  BY GlobalsTypes DEF SInv, IInv
<1>2. /\ globals = InitialGlobals /\ globals' = Mapped /\ phase # "idle"
      /\ UNCHANGED <<phase, server, state, log, contexts, context>>
  BY <1>1 DEF AutoInit, InConstructor, GlobalsInv, Mapped, registers
<1>3. ContextInv'
  BY <1>2 DEF SInv, ContextInv
<1>4. StateInv'
  <2> SUFFICES ASSUME PowerOfTwo(Mapped.map_size), NEW t \in Threads
               PROVE  state[t] % SizeOf(Mapped) = BitXor(context[t], log[t]) % SizeOf(Mapped)
    BY <1>2 DEF StateInv
  <2> DEFINE n == SizeOf(Mapped)
  <2>1. n \in Nat \ {0} /\ \E k \in Nat \ {0} : MapSize = n * k
    BY <1>1, SizeDivides
  <2>2. state[t] % MapSize = BitXor(context[t], log[t]) % MapSize
    <3>1. globals.map_size = MapSize /\ SizeOf(globals) = MapSize
      BY <1>2, SizeAssumption DEF InitialGlobals, SizeOf
    <3> QED
      BY <3>1, MapSizeAssumption DEF SInv, StateInv
  <2>3. state[t] \in Nat /\ BitXor(context[t], log[t]) \in Nat
    <3>1. state[t] \in UInt32 /\ BitXor(context[t], log[t]) \in UInt32
      BY <1>1, XorAssumption DEF TypeOK
    <3> QED
      BY <3>1, WordAssumption DEF UInt32
  <2> HIDE DEF n
  <2>4. PICK k \in Nat \ {0} : MapSize = n * k
    BY <2>1
  <2>5. (state[t] % (n * k)) % n = state[t] % n
    BY <2>1, <2>3, ModOfMod
  <2>6. (BitXor(context[t], log[t]) % (n * k)) % n = BitXor(context[t], log[t]) % n
    BY <2>1, <2>3, ModOfMod
  <2> QED
    BY <2>2, <2>4, <2>5, <2>6 DEF n
<1> QED
  BY <1>2, <1>3, <1>4 DEF SInv, ServerInv

\* The server keeps a register without contexts, and the child starts from it.
LEMMA RunState ==
  ASSUME SInv, StartForkServer \/ EndRun \/ \E clear \in BOOLEAN : Execute(clear)
  PROVE  ContextInv' /\ StateInv' /\ ServerInv'
<1>1. TypeOK /\ Main \in Threads /\ 0 \in UInt32
  BY ThreadAssumption, WordAssumption DEF SInv, IInv, UInt32
<1>2. ASSUME NEW x \in UInt32 PROVE BitXor(0, x) = x
  BY <1>1, BitwiseAssumption
<1>3. CASE StartForkServer
  <2>1. /\ UNCHANGED <<state, log, contexts, context, globals>> /\ contexts[Main] = <<>>
        /\ server' = [globals |-> globals, state |-> state[Main], log |-> log[Main]]
    BY <1>3 DEF StartForkServer, InConstructor, registers
  <2>2. ContextInv' /\ StateInv'
    BY <2>1 DEF SInv, ContextInv, StateInv
  <2>3. BitXor(context[Main], log[Main]) = log[Main]
    <3>1. context[Main] = 0
      BY <1>1, <2>1, NoContext DEF SInv, ContextInv
    <3>2. log[Main] \in UInt32
      BY <1>1 DEF TypeOK
    <3> QED
      BY <1>2, <3>1, <3>2
  <2>4. ServerInv'
    BY <1>1, <2>1, <2>3 DEF SInv, StateInv, ServerInv
  <2> QED
    BY <2>2, <2>4
<1>4. CASE EndRun
  <2>1. /\ globals' = server.globals /\ server' = server
        /\ state' = Zeros(Threads) /\ log' = Zeros(Threads)
        /\ contexts' = [t \in Threads |-> <<>>] /\ context' = Zeros(Threads)
    BY <1>4 DEF EndRun
  <2>2. ContextInv'
    BY <2>1, NoContext DEF ContextInv, Zeros
  <2>3. StateInv'
    BY <1>1, <1>2, <2>1 DEF StateInv, Zeros
  <2> QED
    BY <2>1, <2>2, <2>3 DEF SInv, ServerInv
<1>5. ASSUME NEW clear \in BOOLEAN, Execute(clear)
      PROVE  ContextInv' /\ StateInv' /\ ServerInv'
  <2>1. /\ UNCHANGED <<globals, server>> /\ globals = server.globals /\ phase' = "run"
        /\ state' = [Zeros(Threads) EXCEPT ![Main] = server.state]
        /\ log' = [Zeros(Threads) EXCEPT ![Main] = server.log]
        /\ contexts' = [t \in Threads |-> <<>>] /\ context' = Zeros(Threads)
    BY <1>5 DEF SInv, ServerInv, Execute
  <2>2. ContextInv'
    BY <2>1, NoContext DEF ContextInv, Zeros
  <2>3. StateInv'
    <3>1. server.log \in UInt32
      BY <1>1 DEF TypeOK
    <3>2. BitXor(0, server.log) = server.log /\ BitXor(0, 0) = 0
      BY <1>1, <1>2, <3>1
    <3> QED
      BY <1>1, <2>1, <3>2 DEF SInv, ServerInv, StateInv, Zeros
  <2> QED
    BY <2>1, <2>2, <2>3 DEF SInv, ServerInv
<1> QED
  BY <1>3, <1>4, <1>5

\* However contexts nest and states are pushed in them, in whatever process and
\* thread, the register is the contexts that are open and the log.
THEOREM StateIsContextAlways == Spec => []StateIsContext
<1>1. Init => SInv
  BY InitSInv
<1>2. SInv /\ IInv' /\ [Next]_vars => SInv'
  <2> SUFFICES ASSUME SInv, IInv', [Next]_vars PROVE SInv'
    OBVIOUS
  <2>1. TypeOK'
    BY DEF IInv
  <2>2. ASSUME NEW t \in Threads, NEW a \in Annotations, LoadCounter(t, a) \/ CompareMax(t, a)
        PROVE  SInv'
    BY <2>2, RegistersUnchanged DEF LoadCounter, CompareMax, SInv
  <2>3. ASSUME NEW t \in Threads, StoreCounter(t) \/ StoreMax(t) \/ StartThread(t)
        PROVE  SInv'
    BY <2>3, RegistersUnchanged DEF StoreCounter, StoreMax, StartThread, SInv
  <2>4. CASE AutoInitFails
    BY <2>4, RegistersUnchanged DEF AutoInitFails, SInv
  <2>5. CASE UNCHANGED vars
    BY <2>5, RegistersUnchanged DEF vars, SInv
  <2> QED
    BY <2>1, <2>2, <2>3, <2>4, <2>5, OpenContextState, CloseContextState, PushStateState,
       AutoInitState, RunState
    DEF Next, SInv
<1>3. SInv => StateIsContext
  BY DEF SInv, StateInv, StateIsContext, SizeOf
<1> QED
  BY <1>1, <1>2, <1>3, Invariance, PTL DEF Spec
===============================================================================
