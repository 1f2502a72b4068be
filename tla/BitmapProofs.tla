----------------------------- MODULE BitmapProofs -----------------------------
(***************************************************************************)
(* Proofs about Bitmap, for any threads, blocks, sizes and exclusive or.   *)
(***************************************************************************)
EXTENDS Bitmap, FiniteSetTheorems, Remainders, TLAPS

\* Where the threads are in each phase: the constructors run in Main alone, and
\* no thread is left when the server waits or has exited.
ThreadInv ==
  /\ phase \in {"early", "constructors"} => \A t \in Threads \ {Main} : pc[t] = "none"
  /\ phase \in {"idle", "exited"} => pc = Nobody
  /\ phase \in {"early", "constructors", "exited"} => ~cleared

\* A thread that has loaded a counter has seen no more than the visits made.
CounterInv == \A t \in Threads : pc[t] = "store" => counter[t] <= visits[loc[t]]

IInv == TypeOK /\ ThreadInv /\ CounterInv /\ NeverOvercounts /\ VisitedNotZero

-------------------------------------------------------------------------------
(* What the update methods compute. *)

\* Naive is an increment that stays in a byte: a wrapped counter is smaller.
LEMMA NaiveBounds ==
  ASSUME NEW c \in Bytes
  PROVE  Naive(c) \in Bytes /\ Naive(c) <= c + 1
<1>1. ByteValues \in Nat /\ ByteValues > 1
  BY SizeAssumption
<1>2. CASE c + 1 < ByteValues
  <2>1. Naive(c) = c + 1
    BY <1>1, <1>2 DEF Naive, Bytes
  <2> QED
    BY <1>1, <1>2, <2>1 DEF Bytes
<1>3. CASE c + 1 = ByteValues
  <2>1. Naive(c) = 0
    BY <1>1, <1>3 DEF Naive, Bytes
  <2> QED
    BY <1>1, <2>1 DEF Bytes
<1> QED
  BY <1>1, <1>2, <1>3 DEF Bytes

\* Every update method keeps a byte a byte, adds at most one, and only NAIVE can
\* make a counter 0.
LEMMA UpdatedBounds ==
  ASSUME program \in Programs, NEW c \in Bytes
  PROVE  /\ Updated(c) \in Bytes
         /\ Updated(c) <= c + 1
         /\ program.update # "NAIVE" => Updated(c) # 0
<1>1. ByteValues \in Nat /\ ByteValues > 1 /\ c \in Nat
  BY SizeAssumption DEF Bytes
<1>2. Naive(c) \in Bytes /\ Naive(c) <= c + 1
  BY NaiveBounds
<1>3. CASE program.update = "NAIVE"
  BY <1>2, <1>3 DEF Updated
<1>4. CASE program.update = "AVOID_ZERO"
  <2>1. Updated(c) = AvoidZero(c)
    BY <1>4 DEF Updated
  <2> QED
    BY <1>1, <1>2, <2>1 DEF AvoidZero, Bytes
<1>5. CASE program.update = "CAP_FF"
  <2>1. Updated(c) = CapFF(c)
    BY <1>5 DEF Updated
  <2> QED
    BY <1>1, <2>1 DEF CapFF, Bytes
<1> QED
  BY <1>3, <1>4, <1>5 DEF Programs, UpdateMethods

\* Half of a number is not above it.
LEMMA HalfBounds ==
  ASSUME NEW m \in Nat, NEW n \in 0 .. m - 1
  PROVE  n \div 2 \in 0 .. m - 1
<1>1. n \in Nat /\ n < m
  OBVIOUS
<1>2. n \div 2 \in Nat /\ n \div 2 <= n
  BY <1>1
<1> QED
  BY <1>1, <1>2

\* What a block computes with its id is as small as ids are, and is in the bitmap if
\* the ids and what the thread's block before has left are.
LEMMA IdsOfBlocks ==
  ASSUME TypeOK, NEW t \in Threads, NEW b \in Blocks
  PROVE  /\ Shifted(b) \in Ids
         /\ BitMapLoc(t, b) \in Ids
         /\ program.id[b] \in Locations => Shifted(b) \in Locations
         /\ program.id[b] \in Locations /\ prev_loc[t] \in Locations =>
              BitMapLoc(t, b) \in Locations
<1> DEFINE n == program.id[b]
<1>1. n \in Ids /\ prev_loc[t] \in Ids
  <2>1. n \in 0 .. IdMapSize - 1 /\ prev_loc[t] \in Ids
    BY DEF TypeOK, Programs
  <2> QED
    BY <2>1, SizeAssumption DEF Ids
<1>2. Shifted(b) \in Ids
  <2>1. n \in 0 .. IdSpace - 1 /\ IdSpace \in Nat
    BY <1>1, SizeAssumption DEF Ids
  <2> HIDE DEF n
  <2>2. n \div 2 \in 0 .. IdSpace - 1
    BY <2>1, HalfBounds
  <2> QED
    BY <2>2 DEF Shifted, Ids, n
<1>3. n \in Locations => Shifted(b) \in Locations
  <2>1. MapSize \in Nat
    BY SizeAssumption
  <2> HIDE DEF n
  <2>2. n \in 0 .. MapSize - 1 => n \div 2 \in 0 .. MapSize - 1
    BY <2>1, HalfBounds
  <2> QED
    BY <2>2 DEF Shifted, Locations, n
<1>4. BitMapLoc(t, b) \in Ids
  BY <1>1, XorAssumption DEF BitMapLoc
<1>5. n \in Locations /\ prev_loc[t] \in Locations => BitMapLoc(t, b) \in Locations
  BY XorAssumption DEF BitMapLoc
<1> QED
  BY <1>2, <1>3, <1>4, <1>5

-------------------------------------------------------------------------------
(* The invariant. *)

\* The invariant holds when the program starts.
LEMMA InitIInv == Init => IInv
<1> SUFFICES ASSUME Init PROVE IInv
  OBVIOUS
<1>1. /\ 0 \in Locations /\ 0 \in Ids /\ 0 \in Bytes /\ MaxRuns \in Nat
  BY SizeAssumption, BlockAssumption DEF Locations, Ids, Bytes
<1>2. TypeOK
  <2>1. <<>> \in Seq(Blocks)
    OBVIOUS
  <2>2. path \in [Threads -> Seq(Blocks)]
    BY <2>1 DEF Init
  <2>3. pc \in [Threads -> {"none", "block", "load", "store", "mark"} \cup Past]
    BY ThreadAssumption DEF Init, OnlyMain, Nobody
  <2>4. /\ prev_loc \in [Threads -> Ids] /\ loc \in [Threads -> Locations]
        /\ counter \in [Threads -> Bytes]
        /\ shm \in [Locations -> Bytes] /\ visits \in [Locations -> Nat]
    BY <1>1 DEF Init, Zeros
  <2>5. runs \in 0 .. MaxRuns
    BY <1>1 DEF Init
  <2> QED
    BY <1>1, <2>2, <2>3, <2>4, <2>5 DEF Init, TypeOK, Phases
<1>3. ThreadInv
  BY ThreadAssumption DEF Init, ThreadInv, OnlyMain, Nobody
<1>4. CounterInv /\ NeverOvercounts /\ VisitedNotZero
  BY ThreadAssumption
  DEF Init, CounterInv, NeverOvercounts, VisitedNotZero, OnlyMain, Nobody, Zeros
<1> QED
  BY <1>2, <1>3, <1>4 DEF IInv

\* A block is entered: a location that is not of the bitmap is not loaded from it.
LEMMA EnterBlockStep ==
  ASSUME IInv, NEW t \in Threads, NEW b \in Blocks, EnterBlock(t, b)
  PROVE  IInv'
<1>1. TypeOK /\ Shifted(b) \in Ids
  BY IdsOfBlocks DEF IInv
<1>2. TypeOK'
  <2>1. path' \in [Threads -> Seq(Blocks)]
    BY <1>1 DEF EnterBlock, TypeOK
  <2>2. prev_loc' \in [Threads -> Ids]
    BY <1>1 DEF EnterBlock, PrevLocAfter, TypeOK
  <2>3. /\ loc' \in [Threads -> Locations]
        /\ pc' \in [Threads -> {"none", "block", "load", "store", "mark"} \cup Past]
    BY <1>1 DEF EnterBlock, TypeOK, Past
  <2> QED
    BY <1>1, <2>1, <2>2, <2>3 DEF EnterBlock, TypeOK, globals
<1>3. ThreadInv'
  BY DEF IInv, ThreadInv, EnterBlock, TypeOK, Nobody
<1>4. CounterInv' /\ NeverOvercounts' /\ VisitedNotZero'
  BY DEF IInv, CounterInv, NeverOvercounts, VisitedNotZero, EnterBlock, TypeOK
<1> QED
  BY <1>2, <1>3, <1>4 DEF IInv

\* What is updated or faults past the end is nothing the invariant speaks of.
LEMMA PastStep ==
  ASSUME IInv, FaultsPast \/ \E t \in Threads : UpdatePast(t)
  PROVE  IInv'
<1>1. CASE FaultsPast
  <2>1. TypeOK'
    BY <1>1 DEF IInv, TypeOK, FaultsPast, globals, registers, Phases, Nobody
  <2>2. ThreadInv'
    BY <1>1 DEF IInv, ThreadInv, FaultsPast
  <2>3. CounterInv' /\ NeverOvercounts' /\ VisitedNotZero'
    BY <1>1
    DEF IInv, CounterInv, NeverOvercounts, VisitedNotZero, FaultsPast, registers, Nobody
  <2> QED
    BY <2>1, <2>2, <2>3 DEF IInv
<1>2. ASSUME NEW t \in Threads, UpdatePast(t)
      PROVE  IInv'
  <2>1. /\ UNCHANGED <<program, phase, server, area_ptr, prev_loc, registers, shm, runs, cleared,
                       visits, path>>
        /\ init_done' \in BOOLEAN \/ init_done' = init_done
        /\ pc[t] \in Past /\ pc' = [pc EXCEPT ![t] = "block"]
    BY <1>2 DEF UpdatePast
  <2>2. TypeOK'
    BY <2>1 DEF IInv, TypeOK, registers
  <2>3. ThreadInv'
    BY <2>1 DEF IInv, ThreadInv, TypeOK, Nobody, Past
  <2>4. CounterInv' /\ NeverOvercounts' /\ VisitedNotZero'
    BY <2>1 DEF IInv, TypeOK, CounterInv, NeverOvercounts, VisitedNotZero, registers
  <2> QED
    BY <2>2, <2>3, <2>4 DEF IInv
<1> QED
  BY <1>1, <1>2

\* A counter is loaded: nobody has made visits that are not in the history.
LEMMA LoadCounterStep ==
  ASSUME IInv, NEW t \in Threads, LoadCounter(t)
  PROVE  IInv'
<1>1. loc[t] \in Locations /\ shm[loc[t]] \in Bytes
  BY DEF IInv, TypeOK
<1>2. TypeOK'
  BY <1>1 DEF IInv, LoadCounter, TypeOK, globals
<1>3. ThreadInv'
  BY DEF IInv, ThreadInv, LoadCounter, TypeOK, Nobody
<1>4. CounterInv'
  BY <1>1 DEF IInv, CounterInv, NeverOvercounts, LoadCounter, TypeOK
<1>5. NeverOvercounts' /\ VisitedNotZero'
  BY DEF IInv, NeverOvercounts, VisitedNotZero, LoadCounter
<1> QED
  BY <1>2, <1>3, <1>4, <1>5 DEF IInv

\* A counter is stored.  The history grows by as much as the byte may: what other
\* threads have loaded meanwhile stays below it.
LEMMA StoreCounterStep ==
  ASSUME IInv, NEW t \in Threads, StoreCounter(t)
  PROVE  IInv'
<1> DEFINE c == counter[t]
           l == loc[t]
<1>1. c \in Bytes /\ l \in Locations /\ visits[l] \in Nat /\ c <= visits[l] /\ program \in Programs
  BY DEF IInv, TypeOK, CounterInv, StoreCounter
<1>2. /\ Updated(c) \in Bytes /\ Updated(c) <= c + 1
      /\ program.update # "NAIVE" => Updated(c) # 0
  BY <1>1, UpdatedBounds
<1>3. /\ shm' = [shm EXCEPT ![l] = Updated(c)] /\ visits' = [visits EXCEPT ![l] = @ + 1]
      /\ pc[t] = "store"
      /\ pc' = [pc EXCEPT ![t] = "block"]
      /\ loc' = [loc EXCEPT ![t] = 0]
      /\ counter' = [counter EXCEPT ![t] = 0]
      /\ UNCHANGED <<program, phase, server, area_ptr, init_done, prev_loc, runs, cleared, path>>
  BY DEF StoreCounter, globals
<1> HIDE DEF c, l
<1>4. 0 \in Locations /\ 0 \in Bytes
  BY SizeAssumption DEF Locations, Bytes
<1>5. TypeOK'
  BY <1>1, <1>2, <1>3, <1>4 DEF IInv, TypeOK
<1>6. ThreadInv'
  BY <1>3 DEF IInv, ThreadInv, TypeOK, Nobody
<1>7. \A k \in Locations : visits[k] \in Nat /\ visits'[k] \in Nat /\ visits[k] <= visits'[k]
  BY <1>1, <1>3 DEF IInv, TypeOK
<1>8. CounterInv'
  <2> SUFFICES ASSUME NEW u \in Threads, pc'[u] = "store"
               PROVE  counter'[u] <= visits'[loc'[u]]
    BY DEF CounterInv
  <2>1. u # t /\ pc[u] = "store" /\ counter'[u] = counter[u] /\ loc'[u] = loc[u]
    BY <1>3 DEF IInv, TypeOK
  <2>2. counter[u] <= visits[loc[u]] /\ loc[u] \in Locations /\ counter[u] \in Nat
    BY <2>1 DEF IInv, CounterInv, TypeOK, Bytes
  <2> QED
    BY <1>7, <2>1, <2>2
<1>9. NeverOvercounts'
  <2> SUFFICES ASSUME NEW k \in Locations PROVE shm'[k] <= visits'[k]
    BY DEF NeverOvercounts
  <2>1. shm[k] <= visits[k] /\ shm[k] \in Nat
    BY DEF IInv, NeverOvercounts, TypeOK, Bytes
  <2>2. CASE k = l
    <3>1. shm'[k] = Updated(c) /\ visits'[k] = visits[l] + 1
      BY <1>1, <1>3, <2>2 DEF IInv, TypeOK
    <3> QED
      BY <1>1, <1>2, <3>1 DEF Bytes
  <2>3. CASE k # l
    BY <1>3, <2>1, <2>3 DEF IInv, TypeOK
  <2> QED
    BY <2>2, <2>3
<1>10. VisitedNotZero'
  <2> SUFFICES ASSUME program.update # "NAIVE", NEW k \in Locations, visits'[k] > 0
               PROVE  shm'[k] # 0
    BY <1>3 DEF VisitedNotZero
  <2>1. CASE k = l
    BY <1>2, <1>3, <2>1 DEF IInv, TypeOK
  <2>2. CASE k # l
    BY <1>3, <2>2 DEF IInv, TypeOK, VisitedNotZero
  <2> QED
    BY <2>1, <2>2
<1> QED
  BY <1>5, <1>6, <1>8, <1>9, <1>10 DEF IInv

\* The mark of the runtime is one visit of location 0, whatever is in flight.
LEMMA MarkFirstStep ==
  ASSUME TypeOK, CounterInv, NeverOvercounts, VisitedNotZero, MarkFirst, UNCHANGED program,
         \A t \in Threads : pc'[t] = "store" => pc[t] = "store",
         UNCHANGED registers
  PROVE  /\ shm' \in [Locations -> Bytes] /\ visits' \in [Locations -> Nat]
         /\ CounterInv' /\ NeverOvercounts' /\ VisitedNotZero'
<1>1. 0 \in Locations /\ 1 \in Bytes
  BY SizeAssumption DEF Locations, Bytes
<1>2. /\ shm' \in [Locations -> Bytes] /\ visits' \in [Locations -> Nat]
      /\ shm'[0] = 1 /\ visits'[0] = visits[0] + 1
      /\ \A k \in Locations \ {0} : shm'[k] = shm[k] /\ visits'[k] = visits[k]
  BY <1>1 DEF TypeOK, MarkFirst
<1>3. \A k \in Locations : visits[k] \in Nat /\ shm[k] \in Nat /\ visits[k] <= visits'[k]
  <2> SUFFICES ASSUME NEW k \in Locations
               PROVE  visits[k] \in Nat /\ shm[k] \in Nat /\ visits[k] <= visits'[k]
    OBVIOUS
  <2>1. visits[k] \in Nat /\ shm[k] \in Nat
    BY DEF TypeOK, Bytes
  <2> QED
    BY <1>2, <2>1
<1>4. CounterInv'
  <2> SUFFICES ASSUME NEW u \in Threads, pc'[u] = "store"
               PROVE  counter'[u] <= visits'[loc'[u]]
    BY DEF CounterInv
  <2>1. counter[u] <= visits[loc[u]] /\ loc[u] \in Locations /\ counter[u] \in Nat
    BY DEF CounterInv, TypeOK, Bytes
  <2>2. counter'[u] = counter[u] /\ loc'[u] = loc[u] /\ visits'[loc[u]] \in Nat
    BY <1>2, <2>1 DEF registers
  <2> QED
    BY <1>3, <2>1, <2>2
<1>5. NeverOvercounts'
  BY <1>1, <1>2, <1>3 DEF NeverOvercounts
<1>6. VisitedNotZero'
  BY <1>1, <1>2 DEF VisitedNotZero
<1> QED
  BY <1>2, <1>4, <1>5, <1>6

\* The runtime is initialized, by its constructor or by the program.
LEMMA InitializationStep ==
  ASSUME IInv,
         AutoInit \/ AttachFails \/ \E t \in Threads : ManualInit(t) \/ ManualInitDone(t)
  PROVE  IInv'
<1>1. CASE AutoInit
  <2>1. /\ program' = program /\ UNCHANGED registers /\ pc' = pc
        /\ MarkFirst \/ UNCHANGED <<shm, visits>>
    BY <1>1 DEF AutoInit, registers
  <2>2. /\ shm' \in [Locations -> Bytes] /\ visits' \in [Locations -> Nat]
        /\ CounterInv' /\ NeverOvercounts' /\ VisitedNotZero'
    <3>1. CASE MarkFirst
      BY <2>1, <3>1, MarkFirstStep DEF IInv
    <3>2. CASE UNCHANGED <<shm, visits>>
      BY <2>1, <3>2 DEF IInv, TypeOK, CounterInv, NeverOvercounts, VisitedNotZero, registers
    <3> QED
      BY <2>1, <3>1, <3>2
  <2>3. TypeOK'
    BY <1>1, <2>1, <2>2 DEF IInv, TypeOK, AutoInit, registers, Phases
  <2>4. ThreadInv'
    BY <1>1 DEF IInv, ThreadInv, AutoInit
  <2> QED
    BY <2>2, <2>3, <2>4 DEF IInv
<1>2. CASE AttachFails
  <2>1. TypeOK'
    BY <1>2 DEF IInv, TypeOK, AttachFails, globals, registers, Phases, Nobody
  <2>2. ThreadInv'
    BY <1>2 DEF IInv, ThreadInv, AttachFails
  <2>3. CounterInv' /\ NeverOvercounts' /\ VisitedNotZero'
    BY <1>2
    DEF IInv, CounterInv, NeverOvercounts, VisitedNotZero, AttachFails, registers, Nobody
  <2> QED
    BY <2>1, <2>2, <2>3 DEF IInv
<1>3. ASSUME NEW t \in Threads, ManualInit(t)
      PROVE  IInv'
  <2>1. TypeOK'
    BY <1>3 DEF IInv, TypeOK, ManualInit, registers
  <2>2. ThreadInv'
    BY <1>3 DEF IInv, ThreadInv, TypeOK, ManualInit, Nobody
  <2>3. CounterInv' /\ NeverOvercounts' /\ VisitedNotZero'
    BY <1>3
    DEF IInv, TypeOK, CounterInv, NeverOvercounts, VisitedNotZero, ManualInit, registers
  <2> QED
    BY <2>1, <2>2, <2>3 DEF IInv
<1>4. ASSUME NEW t \in Threads, ManualInitDone(t)
      PROVE  IInv'
  <2>1. /\ shm' \in [Locations -> Bytes] /\ visits' \in [Locations -> Nat]
        /\ CounterInv' /\ NeverOvercounts' /\ VisitedNotZero'
    <3>1. /\ MarkFirst /\ program' = program /\ UNCHANGED registers
          /\ \A u \in Threads : pc'[u] = "store" => pc[u] = "store"
      BY <1>4 DEF IInv, TypeOK, ManualInitDone, registers
    <3> QED
      BY <3>1, MarkFirstStep DEF IInv
  <2>2. TypeOK'
    BY <1>4, <2>1 DEF IInv, TypeOK, ManualInitDone, registers
  <2>3. ThreadInv'
    BY <1>4 DEF IInv, ThreadInv, TypeOK, ManualInitDone, Nobody
  <2> QED
    BY <2>1, <2>2, <2>3 DEF IInv
<1> QED
  BY <1>1, <1>2, <1>3, <1>4

\* Runs begin and end, and the client clears the bitmap with no thread in flight.
LEMMA RunStep ==
  ASSUME IInv,
         \/ StartForkServer \/ EndRun
         \/ \E clear \in BOOLEAN : Execute(clear)
         \/ \E t \in Threads : StartThread(t)
  PROVE  IInv'
<1>1. 0 \in Locations /\ 0 \in Ids /\ 0 \in Bytes /\ MaxRuns \in Nat
  BY SizeAssumption, BlockAssumption DEF Locations, Ids, Bytes
<1>2. CASE StartForkServer
  <2>1. TypeOK'
    <3>1. server' \in [area_ptr : {"initial", "shm"}, init_done : BOOLEAN, prev_loc : Ids]
      BY <1>2, ThreadAssumption DEF IInv, TypeOK, StartForkServer
    <3> QED
      BY <1>2, <3>1 DEF IInv, TypeOK, StartForkServer, globals, registers, Phases, Nobody
  <2>2. ThreadInv'
    BY <1>2 DEF IInv, ThreadInv, StartForkServer
  <2>3. CounterInv' /\ NeverOvercounts' /\ VisitedNotZero'
    BY <1>2
    DEF IInv, CounterInv, NeverOvercounts, VisitedNotZero, StartForkServer, registers, Nobody
  <2> QED
    BY <2>1, <2>2, <2>3 DEF IInv
<1>3. CASE EndRun
  <2>1. TypeOK'
    BY <1>1, <1>3 DEF IInv, TypeOK, EndRun, Phases, Nobody, Zeros
  <2>2. ThreadInv'
    BY <1>3 DEF IInv, ThreadInv, EndRun
  <2>3. CounterInv' /\ NeverOvercounts' /\ VisitedNotZero'
    BY <1>3 DEF IInv, CounterInv, NeverOvercounts, VisitedNotZero, EndRun, Nobody
  <2> QED
    BY <2>1, <2>2, <2>3 DEF IInv
<1>4. ASSUME NEW clear \in BOOLEAN, Execute(clear)
      PROVE  IInv'
  <2>1. /\ shm' = (IF clear THEN Zeros(Locations) ELSE shm)
        /\ visits' = (IF clear THEN Zeros(Locations) ELSE visits)
        /\ program' = program
        /\ \A t \in Threads : pc'[t] \in {"none", "block"}
    BY <1>4, ThreadAssumption DEF Execute, OnlyMain, Nobody
  <2>2. TypeOK'
    <3>1. /\ shm' \in [Locations -> Bytes] /\ visits' \in [Locations -> Nat]
      BY <1>1, <2>1 DEF IInv, TypeOK, Zeros
    <3>2. prev_loc' \in [Threads -> Ids]
      BY <1>1, <1>4 DEF IInv, TypeOK, Execute, ForkedPrevLoc, Zeros
    <3>3. pc' \in [Threads -> {"none", "block", "load", "store", "mark"} \cup Past]
      BY <1>4 DEF Execute, OnlyMain, Nobody
    <3>4. path' \in [Threads -> Seq(Blocks)]
      <4>1. <<>> \in Seq(Blocks)
        OBVIOUS
      <4> QED
        BY <1>4, <4>1 DEF Execute
    <3>5. runs' \in 0 .. MaxRuns
      BY <1>1, <1>4 DEF IInv, TypeOK, Execute
    <3> QED
      BY <1>4, <3>1, <3>2, <3>3, <3>4, <3>5
      DEF IInv, TypeOK, Execute, globals, registers, Phases
  <2>3. ThreadInv'
    BY <1>4 DEF ThreadInv, Execute
  <2>4. CounterInv' /\ NeverOvercounts' /\ VisitedNotZero'
    BY <2>1 DEF IInv, CounterInv, NeverOvercounts, VisitedNotZero, Zeros
  <2> QED
    BY <2>2, <2>3, <2>4 DEF IInv
<1>5. ASSUME NEW t \in Threads, StartThread(t)
      PROVE  IInv'
  <2>1. TypeOK'
    BY <1>5 DEF IInv, TypeOK, StartThread, globals, registers
  <2>2. ThreadInv'
    BY <1>5 DEF IInv, ThreadInv, TypeOK, StartThread
  <2>3. CounterInv' /\ NeverOvercounts' /\ VisitedNotZero'
    BY <1>5
    DEF IInv, TypeOK, CounterInv, NeverOvercounts, VisitedNotZero, StartThread, registers
  <2> QED
    BY <2>1, <2>2, <2>3 DEF IInv
<1> QED
  BY <1>2, <1>3, <1>4, <1>5

\* IInv is inductive.
THEOREM Invariance == Spec => []IInv
<1>1. Init => IInv
  BY InitIInv
<1>2. IInv /\ [Next]_vars => IInv'
  <2> SUFFICES ASSUME IInv, [Next]_vars PROVE IInv'
    OBVIOUS
  <2>1. CASE Next
    BY <2>1, EnterBlockStep, LoadCounterStep, StoreCounterStep, PastStep, InitializationStep,
       RunStep
    DEF Next
  <2>2. CASE UNCHANGED vars
    BY <2>2
    DEF vars, globals, registers, IInv, TypeOK, ThreadInv, CounterInv, NeverOvercounts,
        VisitedNotZero
  <2> QED
    BY <2>1, <2>2
<1> QED
  BY <1>1, <1>2, PTL DEF Spec

-------------------------------------------------------------------------------
(* What follows. *)

\* Every variable keeps its type: what blocks compute from their ids stays an id.
THEOREM TypeCorrect == Spec => []TypeOK
<1>1. IInv => TypeOK
  BY DEF IInv
<1> QED
  BY <1>1, Invariance, PTL

\* Under AVOID_ZERO and CAP_FF no race of threads makes a visited location read 0.
THEOREM VisitedNotZeroAlways == Spec => []VisitedNotZero
<1>1. IInv => VisitedNotZero
  BY DEF IInv
<1> QED
  BY <1>1, Invariance, PTL

\* No byte says more than what happened since the client cleared it.
THEOREM NeverOvercountsAlways == Spec => []NeverOvercounts
<1>1. IInv => NeverOvercounts
  BY DEF IInv
<1> QED
  BY <1>1, Invariance, PTL

-------------------------------------------------------------------------------
(* Locations past the end. *)

\* If the ids fit the bitmap, so does all that is computed from them.
PastInv ==
  (\A b \in Blocks : program.id[b] \in Locations) =>
    /\ server.prev_loc \in Locations
    /\ \A t \in Threads : prev_loc[t] \in Locations /\ pc[t] \notin Past

\* No block leads a thread past the end when the ids fit.
LEMMA PastInvStep ==
  ASSUME IInv, PastInv, [Next]_vars
  PROVE  PastInv'
<1>1. TypeOK /\ Main \in Threads /\ 0 \in Locations
  BY ThreadAssumption, SizeAssumption DEF IInv, Locations
<1>2. program' = program
  BY DEF Next, vars, globals, registers, EnterBlock, LoadCounter, StoreCounter, UpdatePast,
         ManualInit, ManualInitDone, StartThread, FaultsPast, AutoInit, AttachFails,
         StartForkServer, Execute, EndRun
<1> SUFFICES ASSUME \A b \in Blocks : program.id[b] \in Locations
             PROVE  /\ server'.prev_loc \in Locations
                    /\ \A t \in Threads : prev_loc'[t] \in Locations /\ pc'[t] \notin Past
  BY <1>2 DEF PastInv
<1>3. /\ server.prev_loc \in Locations
      /\ \A t \in Threads : prev_loc[t] \in Locations /\ pc[t] \notin Past
  BY DEF PastInv
<1>4. ASSUME NEW t \in Threads, NEW b \in Blocks, EnterBlock(t, b)
      PROVE  /\ server'.prev_loc \in Locations
             /\ \A u \in Threads : prev_loc'[u] \in Locations /\ pc'[u] \notin Past
  <2>1. Shifted(b) \in Locations /\ BitMapLoc(t, b) \in Locations
    BY <1>1, <1>3, IdsOfBlocks
  <2>2. /\ server' = server /\ prev_loc' = PrevLocAfter(t, b)
        /\ pc' = pc \/ pc' = [pc EXCEPT ![t] = "load"]
    BY <1>4, <2>1 DEF EnterBlock
  <2>3. \A u \in Threads : prev_loc'[u] \in Locations
    BY <1>1, <1>3, <2>1, <2>2 DEF PrevLocAfter, TypeOK
  <2>4. \A u \in Threads : pc'[u] \notin Past
    BY <1>1, <1>3, <2>2 DEF TypeOK, Past
  <2> QED
    BY <1>3, <2>2, <2>3, <2>4
<1>5. ASSUME NEW t \in Threads,
             \/ LoadCounter(t) \/ StoreCounter(t) \/ UpdatePast(t)
             \/ ManualInit(t) \/ ManualInitDone(t) \/ StartThread(t)
      PROVE  /\ server'.prev_loc \in Locations
             /\ \A u \in Threads : prev_loc'[u] \in Locations /\ pc'[u] \notin Past
  <2>1. /\ server' = server /\ prev_loc' = prev_loc
        /\ pc' = pc \/ \E v \in {"block", "load", "store", "mark"} : pc' = [pc EXCEPT ![t] = v]
    BY <1>5 DEF LoadCounter, StoreCounter, UpdatePast, ManualInit, ManualInitDone, StartThread
  <2>2. \A u \in Threads : pc'[u] \notin Past
    BY <1>1, <1>3, <2>1 DEF TypeOK, Past
  <2> QED
    BY <1>3, <2>1, <2>2
<1>6. CASE FaultsPast \/ AutoInit \/ AttachFails \/ StartForkServer \/ EndRun
  <2>1. /\ server' = server \/ server'.prev_loc = prev_loc[Main]
        /\ prev_loc' = prev_loc /\ (pc' = pc \/ pc' = Nobody)
    BY <1>6 DEF FaultsPast, AutoInit, AttachFails, StartForkServer, EndRun
  <2>2. \A u \in Threads : pc'[u] \notin Past
    BY <1>3, <2>1 DEF Nobody, Past
  <2> QED
    BY <1>1, <1>3, <2>1, <2>2
<1>7. ASSUME NEW clear \in BOOLEAN, Execute(clear)
      PROVE  /\ server'.prev_loc \in Locations
             /\ \A u \in Threads : prev_loc'[u] \in Locations /\ pc'[u] \notin Past
  <2>1. server' = server /\ prev_loc' = ForkedPrevLoc /\ pc' = OnlyMain
    BY <1>7 DEF Execute
  <2>2. \A u \in Threads : prev_loc'[u] \in Locations
    BY <1>1, <1>3, <2>1 DEF ForkedPrevLoc, Zeros
  <2>3. \A u \in Threads : pc'[u] \notin Past
    BY <2>1 DEF OnlyMain, Nobody, Past
  <2> QED
    BY <1>3, <2>1, <2>2, <2>3
<1>8. CASE UNCHANGED vars
  BY <1>3, <1>8 DEF vars
<1> QED
  BY <1>4, <1>5, <1>6, <1>7, <1>8 DEF Next

\* For every program whose ids fit the bitmap, no thread ever updates a byte outside
\* it, under either way to compute a location.
THEOREM PastOnlyByIdsAlways == Spec => []PastOnlyByIds
<1>1. Init => PastInv
  BY ThreadAssumption, SizeAssumption
  DEF Init, PastInv, Locations, Zeros, OnlyMain, Nobody, Past
<1>2. PastInv /\ IInv /\ [Next]_vars => PastInv'
  BY PastInvStep
<1>3. PastInv => PastOnlyByIds
  BY DEF PastInv, PastOnlyByIds
<1> QED
  BY <1>1, <1>2, <1>3, Invariance, PTL DEF Spec

-------------------------------------------------------------------------------
(* The mapping. *)

\* A bitmap that is mapped is marked, or about to be by the thread that mapped it;
\* what the server has mapped is mapped in every child, where no store past the end
\* can reach the flag.
MappedInv ==
  /\ phase \in {"early", "constructors"} /\ area_ptr = "shm" =>
       /\ init_done \/ pc[Main] = "mark"
       /\ pc[Main] # "past_initial"
  /\ phase \in {"idle", "run"} /\ server.area_ptr = "shm" =>
       /\ area_ptr = "shm"
       /\ server.init_done /\ init_done
       /\ \A t \in Threads : pc[t] # "past_initial"

\* No step unmaps the bitmap of a child, and the server forks with the mark made.
LEMMA MappedStep ==
  ASSUME IInv, MappedInv, [Next]_vars
  PROVE  MappedInv'
<1>1. TypeOK /\ ThreadInv /\ Main \in Threads
  BY ThreadAssumption DEF IInv
<1>2. ASSUME NEW t \in Threads, NEW b \in Blocks, EnterBlock(t, b)
      PROVE  MappedInv'
  <2>1. /\ UNCHANGED <<phase, server, globals>> /\ pc[t] = "block"
        /\ \/ pc' = pc
           \/ pc' = [pc EXCEPT ![t] = "load"]
           \/ pc' = [pc EXCEPT ![t] = IF area_ptr = "shm" THEN "past_shm" ELSE "past_initial"]
    BY <1>2 DEF EnterBlock
  <2> QED
    BY <1>1, <2>1 DEF MappedInv, globals, TypeOK
<1>3. ASSUME NEW t \in Threads, LoadCounter(t) \/ StoreCounter(t)
      PROVE  MappedInv'
  BY <1>1, <1>3 DEF MappedInv, LoadCounter, StoreCounter, globals, TypeOK
<1>13. ASSUME NEW t \in Threads, UpdatePast(t)
      PROVE  MappedInv'
  <2>1. /\ UNCHANGED <<phase, server, area_ptr>> /\ pc[t] \in Past
        /\ pc' = [pc EXCEPT ![t] = "block"]
        /\ pc[t] # "past_initial" => init_done' = init_done
    BY <1>13 DEF UpdatePast
  <2>2. phase \in {"early", "constructors"} => t = Main
    BY <1>1, <2>1 DEF ThreadInv, Past
  <2> QED
    BY <1>1, <2>1, <2>2 DEF MappedInv, TypeOK, Past
<1>4. ASSUME NEW t \in Threads, ManualInit(t)
      PROVE  MappedInv'
  BY <1>1, <1>4 DEF MappedInv, ManualInit, ThreadInv, TypeOK
<1>5. ASSUME NEW t \in Threads, ManualInitDone(t)
      PROVE  MappedInv'
  BY <1>1, <1>5 DEF MappedInv, ManualInitDone, ThreadInv, TypeOK
<1>6. ASSUME NEW t \in Threads, StartThread(t)
      PROVE  MappedInv'
  BY <1>1, <1>6 DEF MappedInv, StartThread, globals, TypeOK
<1>7. CASE AutoInit
  BY <1>1, <1>7 DEF MappedInv, AutoInit, TypeOK
<1>8. CASE AttachFails \/ FaultsPast
  BY <1>8 DEF MappedInv, AttachFails, FaultsPast
<1>9. CASE StartForkServer
  BY <1>1, <1>9 DEF MappedInv, StartForkServer, globals, Nobody
<1>10. ASSUME NEW clear \in BOOLEAN, Execute(clear)
       PROVE  MappedInv'
  BY <1>10 DEF MappedInv, Execute, globals, OnlyMain, Nobody
<1>11. CASE EndRun
  BY <1>11 DEF MappedInv, EndRun, Nobody
<1>12. CASE UNCHANGED vars
  BY <1>12 DEF MappedInv, vars, globals
<1> QED
  BY <1>2, <1>3, <1>13, <1>4, <1>5, <1>6, <1>7, <1>8, <1>9, <1>10, <1>11, <1>12 DEF Next

-------------------------------------------------------------------------------
(* Edges. *)

\* The location that the last block of a thread has left for the next one.
Left(t) ==
  IF program.instrumentation = "HASHED_EDGE" /\ path[t] # <<>>
  THEN Shifted(path[t][Len(path[t])])
  ELSE IF t = Main THEN server.prev_loc ELSE 0

\* In a run, __bitmap_prev_loc is what the thread's own last block has left, and
\* a thread in the middle of a block is at the location of that block, which is past
\* the end or not.  A child
\* that marks location 0 comes from a server that has not mapped the bitmap.
EdgeInv ==
  phase = "run" =>
    /\ \A t \in Threads :
         /\ program.instrumentation = "HASHED_EDGE" => prev_loc[t] = Left(t)
         /\ pc[t] \in {"load", "store"} =>
              /\ path[t] # <<>>
              /\ loc[t] = LocationOf(t, Len(path[t]))
         /\ pc[t] \in Past =>
              /\ path[t] # <<>>
              /\ LocationOf(t, Len(path[t])) \notin Locations
         /\ pc[t] = "none" => path[t] = <<>>
         /\ pc[t] = "mark" => program.shm_id /\ server.area_ptr = "initial"

EInv == IInv /\ MappedInv /\ EdgeInv /\ EdgesAreOfOneThread

\* Another block on a path leaves the locations of the blocks before it.
LEMMA PathGrows ==
  ASSUME TypeOK, NEW t \in Threads, NEW b \in Blocks, EnterBlock(t, b)
  PROVE  /\ \A u \in Threads \ {t} : path'[u] = path[u]
         /\ path'[t] \in Seq(Blocks) /\ Len(path'[t]) = Len(path[t]) + 1
         /\ path'[t][Len(path[t]) + 1] = b
         /\ \A i \in 1 .. Len(path[t]) : path'[t][i] = path[t][i]
         /\ \A u \in Threads : \A i \in DOMAIN path[u] :
              i \in DOMAIN path'[u] /\ LocationOf(u, i)' = LocationOf(u, i)
<1>1. path[t] \in Seq(Blocks) /\ Len(path[t]) \in Nat
  BY DEF TypeOK
<1>2. /\ path' = [path EXCEPT ![t] = Append(@, b)]
      /\ UNCHANGED <<program, server>>
  BY DEF EnterBlock
<1>3. path'[t] = Append(path[t], b) /\ \A u \in Threads \ {t} : path'[u] = path[u]
  BY <1>2 DEF TypeOK
<1>4. /\ path'[t] \in Seq(Blocks) /\ Len(path'[t]) = Len(path[t]) + 1
      /\ path'[t][Len(path[t]) + 1] = b
      /\ \A i \in 1 .. Len(path[t]) : path'[t][i] = path[t][i]
  BY <1>1, <1>3
<1>5. ASSUME NEW u \in Threads, NEW i \in DOMAIN path[u]
      PROVE  i \in DOMAIN path'[u] /\ LocationOf(u, i)' = LocationOf(u, i)
  <2>1. path[u] \in Seq(Blocks) /\ path'[u] \in Seq(Blocks) /\ i \in 1 .. Len(path[u])
    <3>1. path[u] \in Seq(Blocks) /\ DOMAIN path[u] = 1 .. Len(path[u])
      BY DEF TypeOK
    <3>2. path'[u] \in Seq(Blocks)
      BY <1>3, <1>4, <3>1
    <3> QED
      BY <3>1, <3>2
  <2>2. /\ i \in 1 .. Len(path'[u])
        /\ \A j \in 1 .. Len(path[u]) : path'[u][j] = path[u][j]
    <3>1. CASE u = t
      <4>1. Len(path[t]) \in Nat /\ i \in 1 .. Len(path[t]) /\ Len(path'[t]) = Len(path[t]) + 1
        BY <1>1, <1>4, <2>1, <3>1
      <4>2. i \in 1 .. Len(path'[t])
        BY <4>1
      <4> QED
        BY <1>4, <3>1, <4>2
    <3>2. CASE u # t
      BY <1>3, <2>1, <3>2
    <3> QED
      BY <3>1, <3>2
  <2>3. path'[u][i] = path[u][i] /\ (i > 1 => path'[u][i - 1] = path[u][i - 1])
    BY <2>1, <2>2
  <2>4. program' = program /\ server' = server
    BY <1>2
  <2>5. LocationOf(u, i)' = LocationOf(u, i)
    BY <2>3, <2>4 DEF LocationOf
  <2> QED
    BY <2>1, <2>2, <2>5
<1> QED
  BY <1>3, <1>4, <1>5

\* The edge invariant holds when the program starts.
LEMMA InitEInv == Init => EInv
<1>1. Init => MappedInv /\ EdgeInv /\ EdgesAreOfOneThread
  BY DEF Init, MappedInv, EdgeInv, EdgesAreOfOneThread
<1> QED
  BY <1>1, InitIInv DEF EInv

\* A block is entered: its location is that of the edge from the block before.
LEMMA EnterBlockEdge ==
  ASSUME EInv, NEW t \in Threads, NEW b \in Blocks, EnterBlock(t, b)
  PROVE  (EdgeInv /\ EdgesAreOfOneThread)'
<1>1. TypeOK /\ path[t] \in Seq(Blocks) /\ Len(path[t]) \in Nat
  BY DEF EInv, IInv, TypeOK
<1>a. PICK n \in Nat : n = Len(path[t]) + 1
  BY <1>1
<1>2. /\ \A u \in Threads \ {t} : path'[u] = path[u]
      /\ path'[t] \in Seq(Blocks) /\ Len(path'[t]) = n /\ path'[t][n] = b
      /\ \A i \in 1 .. Len(path[t]) : path'[t][i] = path[t][i]
      /\ \A u \in Threads : \A i \in DOMAIN path[u] :
           i \in DOMAIN path'[u] /\ LocationOf(u, i)' = LocationOf(u, i)
  BY <1>1, <1>a, PathGrows
<1>3. /\ UNCHANGED <<program, phase, server, init_done, shm, cleared>>
      /\ prev_loc' = PrevLocAfter(t, b)
      /\ pc[t] = "block"
      /\ \/ loc' = [loc EXCEPT ![t] = BitMapLoc(t, b)] /\ pc' = [pc EXCEPT ![t] = "load"]
         \/ loc' = loc /\ pc' = pc
         \/ /\ loc' = loc /\ \E v \in Past : pc' = [pc EXCEPT ![t] = v]
            /\ BitMapLoc(t, b) \notin Locations
  BY DEF EnterBlock, globals, Past
<1>4. path'[t] # <<>> /\ \A u \in Threads : path[u] \in Seq(Blocks)
  <2>1. Len(path'[t]) # 0
    BY <1>1, <1>a, <1>2
  <2>2. path'[t] # <<>>
    BY <2>1
  <2> QED
    BY <1>1, <2>2 DEF TypeOK
<1>5. \A u \in Threads \ {t} : /\ Left(u)' = Left(u) /\ prev_loc'[u] = prev_loc[u]
                               /\ pc'[u] = pc[u] /\ loc'[u] = loc[u]
  <2> SUFFICES ASSUME NEW u \in Threads \ {t}
               PROVE  /\ Left(u)' = Left(u) /\ prev_loc'[u] = prev_loc[u]
                      /\ pc'[u] = pc[u] /\ loc'[u] = loc[u]
    OBVIOUS
  <2>1. Left(u)' = Left(u)
    BY <1>2, <1>3 DEF Left, Shifted
  <2>2. prev_loc'[u] = prev_loc[u]
    BY <1>1, <1>3 DEF PrevLocAfter, TypeOK
  <2>3. pc'[u] = pc[u] /\ loc'[u] = loc[u]
    BY <1>1, <1>3 DEF TypeOK
  <2> QED
    BY <2>1, <2>2, <2>3
<1>6. program.instrumentation = "HASHED_EDGE" => prev_loc'[t] = Left(t)'
  BY <1>1, <1>2, <1>3, <1>4 DEF Left, Shifted, PrevLocAfter, TypeOK
<1>7. phase = "run" => LocationOf(t, n)' = BitMapLoc(t, b)
  <2> SUFFICES ASSUME phase = "run" PROVE LocationOf(t, n)' = BitMapLoc(t, b)
    OBVIOUS
  <2>1. CASE program.instrumentation # "HASHED_EDGE"
    BY <1>2, <1>3, <2>1 DEF LocationOf, BitMapLoc
  <2>2. CASE program.instrumentation = "HASHED_EDGE" /\ path[t] = <<>>
    <3>1. prev_loc[t] = IF t = Main THEN server.prev_loc ELSE 0
      BY <2>2 DEF EInv, EdgeInv, Left
    <3>2. n = 1
      BY <1>a, <2>2
    <3> QED
      BY <1>2, <1>3, <2>2, <3>1, <3>2 DEF LocationOf, BitMapLoc
  <2>3. CASE program.instrumentation = "HASHED_EDGE" /\ path[t] # <<>>
    <3>1. prev_loc[t] = Shifted(path[t][Len(path[t])])
      BY <2>3 DEF EInv, EdgeInv, Left
    <3>2. n > 1 /\ n - 1 = Len(path[t]) /\ path'[t][n - 1] = path[t][Len(path[t])]
      BY <1>1, <1>a, <1>2, <2>3
    <3> QED
      BY <1>2, <1>3, <2>3, <3>1, <3>2 DEF LocationOf, BitMapLoc, Shifted
  <2> QED
    BY <2>1, <2>2, <2>3
<1>8. EdgeInv'
  <2> SUFFICES ASSUME phase' = "run", NEW u \in Threads
               PROVE  /\ program'.instrumentation = "HASHED_EDGE" => prev_loc'[u] = Left(u)'
                      /\ pc'[u] \in {"load", "store"} =>
                           /\ path'[u] # <<>>
                           /\ loc'[u] = LocationOf(u, Len(path[u]))'
                      /\ pc'[u] \in Past =>
                           /\ path'[u] # <<>>
                           /\ LocationOf(u, Len(path[u]))' \notin Locations
                      /\ pc'[u] = "none" => path'[u] = <<>>
                      /\ pc'[u] = "mark" => program'.shm_id /\ server'.area_ptr = "initial"
    BY DEF EdgeInv
  <2>1. phase = "run"
    BY <1>3
  <2>2. CASE u = t
    <3>1. /\ pc'[t] \in {"load", "block"} \cup Past
          /\ pc'[t] = "load" => loc'[t] = BitMapLoc(t, b)
          /\ pc'[t] \in Past => BitMapLoc(t, b) \notin Locations
      BY <1>1, <1>3 DEF TypeOK, Past
    <3> QED
      BY <1>2, <1>3, <1>4, <1>6, <1>7, <2>1, <2>2, <3>1 DEF Past
  <2>3. CASE u # t
    <3>1. /\ program.instrumentation = "HASHED_EDGE" => prev_loc[u] = Left(u)
          /\ pc[u] \in {"load", "store"} =>
               path[u] # <<>> /\ loc[u] = LocationOf(u, Len(path[u]))
          /\ pc[u] \in Past =>
               path[u] # <<>> /\ LocationOf(u, Len(path[u])) \notin Locations
          /\ pc[u] = "none" => path[u] = <<>>
          /\ pc[u] = "mark" => program.shm_id /\ server.area_ptr = "initial"
      BY <2>1 DEF EInv, EdgeInv
    <3>2. path[u] # <<>> => Len(path[u]) \in DOMAIN path[u]
      BY <1>4
    <3>3. path'[u] = path[u]
      BY <1>2, <2>3
    <3> QED
      BY <1>2, <1>3, <1>5, <2>3, <3>1, <3>2, <3>3
  <2> QED
    BY <2>2, <2>3
<1>9. EdgesAreOfOneThread'
  BY <1>2, <1>3 DEF EInv, EdgesAreOfOneThread
<1> QED
  BY <1>8, <1>9

\* While the history of the run and the server stay, so do edges and leftovers.
LEMMA HistoryStays ==
  ASSUME UNCHANGED <<program, server, path>>
  PROVE  /\ \A t \in Threads : Left(t)' = Left(t)
         /\ \A t \in Threads : LocationOf(t, Len(path[t]))' = LocationOf(t, Len(path[t]))
         /\ \A t \in Threads : \A i \in DOMAIN path[t] : LocationOf(t, i)' = LocationOf(t, i)
  BY DEF Left, Shifted, LocationOf

\* Loads and stores: a byte of the bitmap becomes non-zero at an edge of its thread.
LEMMA CounterEdge ==
  ASSUME EInv, NEW t \in Threads, LoadCounter(t) \/ StoreCounter(t) \/ UpdatePast(t)
  PROVE  (EdgeInv /\ EdgesAreOfOneThread)'
<1>1. TypeOK /\ ThreadInv
  BY DEF EInv, IInv
<1>2. UNCHANGED <<program, phase, server, prev_loc, cleared, path>>
  BY DEF LoadCounter, StoreCounter, UpdatePast, globals
<1>3. /\ \A u \in Threads : Left(u)' = Left(u)
      /\ \A u \in Threads : LocationOf(u, Len(path[u]))' = LocationOf(u, Len(path[u]))
      /\ \A u \in Threads : \A i \in DOMAIN path[u] : LocationOf(u, i)' = LocationOf(u, i)
  BY <1>2, HistoryStays
<1>4. pc[t] \in {"load", "store"} \/ UpdatePast(t)
  BY DEF LoadCounter, StoreCounter
<1>5. \A u \in Threads :
        /\ pc'[u] \in {"load", "store"} => pc[u] \in {"load", "store"} /\ loc'[u] = loc[u]
        /\ pc'[u] \in Past => pc[u] \in Past
        /\ pc'[u] = "none" => pc[u] = "none"
        /\ pc'[u] = "mark" => pc[u] = "mark"
  BY <1>1 DEF LoadCounter, StoreCounter, UpdatePast, registers, TypeOK, Past
<1>6. EdgeInv'
  BY <1>2, <1>3, <1>5 DEF EInv, EdgeInv
<1>7. EdgesAreOfOneThread'
  <2> SUFFICES ASSUME cleared, NEW l \in Locations, shm'[l] # 0
               PROVE  \/ \E u \in Threads : \E i \in DOMAIN path[u] : LocationOf(u, i) = l
                      \/ l = 0 /\ program.shm_id /\ server.area_ptr = "initial"
    BY <1>2, <1>3 DEF EdgesAreOfOneThread
  <2>1. CASE shm[l] # 0
    BY <2>1 DEF EInv, EdgesAreOfOneThread
  <2>2. CASE shm[l] = 0
    <3>1. l = loc[t] /\ pc[t] = "store"
      BY <1>1, <2>2 DEF LoadCounter, StoreCounter, UpdatePast, TypeOK
    <3>2. phase = "run"
      BY <1>1, <3>1 DEF TypeOK, ThreadInv, Phases, Nobody
    <3>3. path[t] # <<>> /\ loc[t] = LocationOf(t, Len(path[t]))
      BY <3>1, <3>2 DEF EInv, EdgeInv
    <3>4. Len(path[t]) \in DOMAIN path[t]
      <4>1. path[t] \in Seq(Blocks)
        BY <1>1 DEF TypeOK
      <4> QED
        BY <3>3, <4>1
    <3> QED
      BY <3>1, <3>3, <3>4
  <2> QED
    BY <2>1, <2>2
<1> QED
  BY <1>6, <1>7

\* A child marks location 0 only when its server has not mapped the bitmap.
LEMMA InitializationEdge ==
  ASSUME EInv,
         \/ AutoInit \/ AttachFails \/ FaultsPast
         \/ \E t \in Threads : ManualInit(t) \/ ManualInitDone(t)
  PROVE  (EdgeInv /\ EdgesAreOfOneThread)'
<1>1. TypeOK /\ ThreadInv
  BY DEF EInv, IInv
<1>2. UNCHANGED <<program, server, prev_loc, loc, cleared, path>>
  BY DEF AutoInit, AttachFails, FaultsPast, ManualInit, ManualInitDone, registers
<1>3. /\ \A u \in Threads : Left(u)' = Left(u)
      /\ \A u \in Threads : LocationOf(u, Len(path[u]))' = LocationOf(u, Len(path[u]))
      /\ \A u \in Threads : \A i \in DOMAIN path[u] : LocationOf(u, i)' = LocationOf(u, i)
  BY <1>2, HistoryStays
<1>4. CASE AutoInit \/ AttachFails \/ FaultsPast
  <2>1. ~cleared' /\ phase' \notin {"idle", "run"}
    BY <1>1, <1>4 DEF ThreadInv, AutoInit, AttachFails, FaultsPast
  <2> QED
    BY <2>1 DEF EdgeInv, EdgesAreOfOneThread
<1>5. ASSUME NEW t \in Threads, ManualInit(t)
      PROVE  (EdgeInv /\ EdgesAreOfOneThread)'
  <2>1. /\ phase' = phase /\ shm' = shm /\ ~init_done
        /\ pc[t] = "block" /\ (pc' = [pc EXCEPT ![t] = "mark"] \/ pc' = pc)
    BY <1>5 DEF ManualInit
  <2>2. phase = "run" /\ pc'[t] = "mark" => program.shm_id /\ server.area_ptr = "initial"
    <3>1. phase = "run" => server.area_ptr = "initial"
      BY <1>1, <2>1 DEF EInv, MappedInv, TypeOK
    <3>2. pc'[t] = "mark" => program.shm_id
      BY <1>1, <1>5 DEF ManualInit
    <3> QED
      BY <3>1, <3>2
  <2>3. \A u \in Threads \ {t} : pc'[u] = pc[u]
    BY <1>1, <2>1 DEF TypeOK
  <2>4. pc'[t] \in {"mark", "block"}
    BY <1>1, <2>1 DEF TypeOK
  <2>5. EdgeInv'
    BY <1>2, <1>3, <2>1, <2>2, <2>3, <2>4 DEF EInv, EdgeInv, Past
  <2>6. EdgesAreOfOneThread'
    BY <1>2, <1>3, <2>1, <2>2 DEF EInv, EdgesAreOfOneThread, ManualInit
  <2> QED
    BY <2>5, <2>6
<1>6. ASSUME NEW t \in Threads, ManualInitDone(t)
      PROVE  (EdgeInv /\ EdgesAreOfOneThread)'
  <2>1. /\ phase' = phase /\ init_done' = TRUE /\ pc[t] = "mark"
        /\ pc' = [pc EXCEPT ![t] = "block"]
        /\ shm' = [shm EXCEPT ![0] = 1]
    BY <1>6 DEF ManualInitDone, MarkFirst
  <2>2. (\A u \in Threads \ {t} : pc'[u] = pc[u]) /\ pc'[t] = "block"
    BY <1>1, <2>1 DEF TypeOK
  <2>3. EdgeInv'
    BY <1>2, <1>3, <2>1, <2>2 DEF EInv, EdgeInv, Past
  <2>4. cleared => program.shm_id /\ server.area_ptr = "initial"
    <3>1. cleared => phase = "run"
      BY <1>1, <2>1 DEF TypeOK, ThreadInv, Phases, Nobody
    <3> QED
      BY <2>1, <3>1 DEF EInv, EdgeInv
  <2>5. \A l \in Locations \ {0} : shm'[l] = shm[l]
    BY <1>1, <2>1 DEF TypeOK
  <2>6. EdgesAreOfOneThread'
    BY <1>2, <1>3, <2>4, <2>5 DEF EInv, EdgesAreOfOneThread
  <2> QED
    BY <2>3, <2>6
<1> QED
  BY <1>4, <1>5, <1>6

\* A run begins where the server has left its main thread, on no edge of its own.
LEMMA RunEdge ==
  ASSUME EInv,
         \/ StartForkServer \/ EndRun
         \/ \E clear \in BOOLEAN : Execute(clear)
         \/ \E t \in Threads : StartThread(t)
  PROVE  (EdgeInv /\ EdgesAreOfOneThread)'
<1>1. TypeOK /\ ThreadInv
  BY DEF EInv, IInv
<1>2. CASE StartForkServer
  <2>1. ~cleared' /\ phase' = "idle" /\ server'.init_done = init_done'
    BY <1>1, <1>2 DEF ThreadInv, StartForkServer, globals
  <2> QED
    BY <2>1 DEF EdgeInv, Past, EdgesAreOfOneThread
<1>3. CASE EndRun
  <2>1. UNCHANGED <<program, server, path, shm, cleared>>
        /\ phase' = "idle" /\ init_done' = server.init_done
    BY <1>3 DEF EndRun
  <2> QED
    BY <2>1, HistoryStays DEF EInv, EdgeInv, Past, EdgesAreOfOneThread
<1>4. ASSUME NEW clear \in BOOLEAN, Execute(clear)
      PROVE  (EdgeInv /\ EdgesAreOfOneThread)'
  <2>1. /\ UNCHANGED <<program, server, init_done>> /\ phase = "idle"
        /\ cleared' = clear /\ shm' = (IF clear THEN Zeros(Locations) ELSE shm)
        /\ \A t \in Threads : pc'[t] \in {"none", "block"} /\ path'[t] = <<>>
        /\ prev_loc' = [Zeros(Threads) EXCEPT ![Main] = server.prev_loc]
    BY <1>4, ThreadAssumption DEF Execute, ForkedPrevLoc, OnlyMain, Nobody, globals
  <2>2. \A t \in Threads : prev_loc'[t] = Left(t)'
    BY <2>1 DEF Left, Zeros
  <2>3. EdgeInv'
    BY <2>1, <2>2 DEF EInv, EdgeInv, Past
  <2>4. EdgesAreOfOneThread'
    BY <2>1 DEF EdgesAreOfOneThread, Zeros
  <2> QED
    BY <2>3, <2>4
<1>5. ASSUME NEW t \in Threads, StartThread(t)
      PROVE  (EdgeInv /\ EdgesAreOfOneThread)'
  <2>1. UNCHANGED <<program, server, phase, init_done, prev_loc, loc, shm, cleared, path>>
        /\ pc[t] = "none" /\ pc' = [pc EXCEPT ![t] = "block"]
    BY <1>5 DEF StartThread, globals, registers
  <2>2. (\A u \in Threads \ {t} : pc'[u] = pc[u]) /\ pc'[t] = "block"
    BY <1>1, <2>1 DEF TypeOK
  <2>3. /\ \A u \in Threads : Left(u)' = Left(u)
        /\ \A u \in Threads : LocationOf(u, Len(path[u]))' = LocationOf(u, Len(path[u]))
        /\ \A u \in Threads : \A i \in DOMAIN path[u] : LocationOf(u, i)' = LocationOf(u, i)
    BY <2>1, HistoryStays
  <2> QED
    BY <2>1, <2>2, <2>3 DEF EInv, EdgeInv, Past, EdgesAreOfOneThread
<1> QED
  BY <1>2, <1>3, <1>4, <1>5

\* EInv is inductive, given IInv.
THEOREM EdgeInvariance == Spec => []EInv
<1>1. Init => EInv
  BY InitEInv
<1>2. EInv /\ IInv' /\ [Next]_vars => EInv'
  <2> SUFFICES ASSUME EInv, IInv', [Next]_vars PROVE EInv'
    OBVIOUS
  <2>1. CASE Next
    BY <2>1, EnterBlockEdge, CounterEdge, InitializationEdge, RunEdge, MappedStep DEF Next, EInv
  <2>2. CASE UNCHANGED vars
    <3>1. UNCHANGED <<program, server, path, phase, init_done, prev_loc, pc, loc, shm, cleared>>
      BY <2>2 DEF vars, globals, registers
    <3>2. MappedInv'
      BY MappedStep DEF EInv
    <3> QED
      BY <3>1, <3>2, HistoryStays DEF EInv, EdgeInv, EdgesAreOfOneThread
  <2> QED
    BY <2>1, <2>2
<1> QED
  BY <1>1, <1>2, Invariance, PTL DEF Spec

\* On a bitmap the client has cleared, whatever is set is an edge that one thread
\* took in this run, for any number of threads in any interleaving.
THEOREM EdgesAreOfOneThreadAlways == Spec => []EdgesAreOfOneThread
<1>1. EInv => EdgesAreOfOneThread
  BY DEF EInv
<1> QED
  BY <1>1, EdgeInvariance, PTL

-------------------------------------------------------------------------------
(* Counts. *)

\* The only thread of the run is the one that fork() copied.
Alone == \A t \in Threads \ {Main} : pc[t] = "none"

\* Blocks of the main thread whose update is in the bitmap.
Stored == IF pc[Main] \in {"load", "store"} THEN Len(path[Main]) - 1 ELSE Len(path[Main])

\* Those of them that are at a location.
Taken(l) == {i \in 1 .. Stored : LocationOf(Main, i) = l}

\* While the main thread is alone, each byte of a bitmap that was cleared is what
\* its stored blocks make of it, and a counter on its way is the byte it will replace.
CountInv ==
  phase = "run" /\ cleared /\ server.area_ptr = "shm" /\ Alone =>
    /\ \A l \in Locations : shm[l] = Counted(Cardinality(Taken(l)))
    /\ pc[Main] = "store" => counter[Main] = shm[loc[Main]]

CInv == EInv /\ CountInv

\* One more visit is one more update.
LEMMA CountedStep ==
  ASSUME program \in Programs, NEW n \in Nat
  PROVE  Counted(n + 1) = Updated(Counted(n))
<1> DEFINE B == ByteValues
<1>1. B \in Nat /\ B > 1
  BY SizeAssumption
<1>2. CASE program.update = "NAIVE"
  <2>1. Counted(n) = n % B /\ Counted(n + 1) = (n + 1) % B
    BY <1>2 DEF Counted
  <2>2. Updated(Counted(n)) = ((n % B) + 1) % B
    BY <1>2, <2>1 DEF Updated, Naive
  <2> QED
    BY <1>1, <2>1, <2>2, ModAdd
<1>3. CASE program.update = "AVOID_ZERO"
  <2>1. Updated(Counted(n)) = AvoidZero(Counted(n))
    BY <1>3 DEF Updated
  <2>2. Counted(n + 1) = 1 + (n % (B - 1))
    BY <1>3 DEF Counted
  <2>3. CASE n = 0
    <3>1. Counted(n) = 0 /\ Counted(n + 1) = 1
      BY <1>1, <1>3, <2>2, <2>3 DEF Counted
    <3> QED
      BY <1>1, <2>1, <3>1 DEF AvoidZero, Naive
  <2>4. CASE n # 0
    <3> DEFINE m == n - 1
               d == B - 1
    <3>1. m \in Nat /\ d \in Nat \ {0} /\ n = m + 1 /\ B = d + 1
      BY <1>1, <2>4
    <3>2. Counted(n) = 1 + (m % d) /\ Counted(n + 1) = 1 + ((m + 1) % d)
      BY <1>3, <2>2, <2>4, <3>1 DEF Counted
    <3> DEFINE r == m % d
    <3>3. r \in 0 .. d - 1 /\ ((m + 1) % d = IF r + 1 = d THEN 0 ELSE r + 1)
      BY <3>1, DivMod, ModStep
    <3>4. Naive(1 + r) = (r + 2) % (d + 1)
      BY <3>1, <3>3 DEF Naive
    <3>5. AvoidZero(1 + r) = IF r + 1 = d THEN 1 ELSE r + 2
      BY <3>1, <3>3, <3>4 DEF AvoidZero
    <3> QED
      BY <2>1, <3>2, <3>3, <3>5
  <2> QED
    BY <2>3, <2>4
<1>4. CASE program.update = "CAP_FF"
  BY <1>1, <1>4 DEF Counted, Updated, CapFF
<1> QED
  BY <1>2, <1>3, <1>4 DEF Programs, UpdateMethods

\* What is counted is right when the program starts.
LEMMA InitCInv == Init => CInv
<1>1. Init => CountInv
  BY DEF Init, CountInv
<1> QED
  BY <1>1, InitEInv DEF CInv

\* What fork() copied has shared memory, so that no thread of the run marks it.
LEMMA NoMark ==
  ASSUME EInv, phase = "run", server.area_ptr = "shm"
  PROVE  /\ area_ptr = "shm" /\ init_done
         /\ \A t \in Threads : pc[t] \notin {"mark", "past_initial"}
BY DEF EInv, EdgeInv, MappedInv

\* A block the main thread enters is not stored yet, or never will be.
LEMMA EnterBlockCount ==
  ASSUME EInv, EInv', CountInv, NEW t \in Threads, NEW b \in Blocks, EnterBlock(t, b)
  PROVE  CountInv'
<1> SUFFICES ASSUME (phase = "run" /\ cleared /\ server.area_ptr = "shm" /\ Alone)'
             PROVE  /\ \A l \in Locations : shm'[l] = Counted(Cardinality(Taken(l)))'
                    /\ pc'[Main] = "store" => counter'[Main] = shm'[loc'[Main]]
  BY DEF CountInv
<1>1. TypeOK /\ Main \in Threads
  BY ThreadAssumption DEF EInv, IInv
<1>2. /\ UNCHANGED <<program, phase, server, area_ptr, cleared, shm>>
      /\ pc[t] = "block"
      /\ area_ptr = "shm" =>
           pc' = [pc EXCEPT ![t] = "load"] \/ pc' = [pc EXCEPT ![t] = "past_shm"]
  BY DEF EnterBlock, globals
<1>3. area_ptr = "shm"
  BY <1>2, NoMark
<1>4. t = Main /\ Alone /\ pc[Main] = "block" /\ pc'[Main] \in {"load", "past_shm"}
  BY <1>1, <1>2, <1>3 DEF Alone, TypeOK
<1>5. /\ Len(path[Main]) \in Nat /\ Len(path'[Main]) = Len(path[Main]) + 1
      /\ \A i \in 1 .. Len(path[Main]) : LocationOf(Main, i)' = LocationOf(Main, i)
  <2>1. path[Main] \in Seq(Blocks) /\ DOMAIN path[Main] = 1 .. Len(path[Main])
        /\ Len(path[Main]) \in Nat
    BY <1>1 DEF TypeOK
  <2> QED
    BY <1>1, <1>4, <2>1, PathGrows
<1>6. /\ Stored = Len(path[Main])
      /\ pc'[Main] = "load" => Stored' = Len(path[Main])
      /\ pc'[Main] = "past_shm" => Stored' = Len(path[Main]) + 1
  BY <1>4, <1>5 DEF Stored
<1>7. \A l \in Locations : Taken(l)' = Taken(l)
  <2>1. CASE pc'[Main] = "load"
    BY <1>5, <1>6, <2>1 DEF Taken
  <2>2. CASE pc'[Main] = "past_shm"
    <3>1. LocationOf(Main, Len(path[Main]))' \notin Locations
      BY <1>1, <1>2, <2>2 DEF EInv, EdgeInv, Past
    <3>2. PICK n \in Nat : n = Len(path[Main])
      BY <1>5
    <3>3. LocationOf(Main, n + 1)' \notin Locations /\ Stored = n /\ Stored' = n + 1
      BY <1>5, <1>6, <2>2, <3>1, <3>2
    <3>4. \A i \in 1 .. n : LocationOf(Main, i)' = LocationOf(Main, i)
      BY <1>5, <3>2
    <3> QED
      BY <3>3, <3>4 DEF Taken
  <2> QED
    BY <1>4, <2>1, <2>2
<1>8. \A l \in Locations : shm'[l] = Counted(Cardinality(Taken(l)))'
  <2>1. \A n : Counted(n)' = Counted(n)
    BY <1>2 DEF Counted
  <2>2. \A l \in Locations : shm[l] = Counted(Cardinality(Taken(l)))
    BY <1>2, <1>4 DEF CountInv
  <2> QED
    BY <1>2, <1>7, <2>1, <2>2
<1> QED
  BY <1>4, <1>8

\* A counter is loaded: the byte stays what it counts.
LEMMA LoadCounterCount ==
  ASSUME EInv, CountInv, NEW t \in Threads, LoadCounter(t)
  PROVE  CountInv'
<1> SUFFICES ASSUME (phase = "run" /\ cleared /\ server.area_ptr = "shm" /\ Alone)'
             PROVE  /\ \A l \in Locations : shm'[l] = Counted(Cardinality(Taken(l)))'
                    /\ pc'[Main] = "store" => counter'[Main] = shm'[loc'[Main]]
  BY DEF CountInv
<1>1. TypeOK /\ Main \in Threads
  BY ThreadAssumption DEF EInv, IInv
<1>2. /\ UNCHANGED <<program, phase, server, cleared, shm, loc, path>>
      /\ pc[t] = "load" /\ pc' = [pc EXCEPT ![t] = "store"]
      /\ counter' = [counter EXCEPT ![t] = shm[loc[t]]]
  BY DEF LoadCounter, globals
<1>3. t = Main /\ Alone
  BY <1>1, <1>2 DEF Alone, TypeOK
<1>4. Stored' = Stored
  BY <1>1, <1>2, <1>3 DEF Stored, TypeOK
<1>5. \A l \in Locations : Taken(l)' = Taken(l)
  BY <1>2, <1>4 DEF Taken, LocationOf
<1>6. \A n : Counted(n)' = Counted(n)
  BY <1>2 DEF Counted
<1>7. \A l \in Locations : shm[l] = Counted(Cardinality(Taken(l)))
  BY <1>2, <1>3 DEF CountInv
<1>8. counter'[Main] = shm'[loc'[Main]]
  BY <1>1, <1>2, <1>3 DEF TypeOK
<1> QED
  BY <1>2, <1>5, <1>6, <1>7, <1>8

\* A counter is stored: one more of the blocks is at its location.
LEMMA StoreCounterCount ==
  ASSUME EInv, CountInv, NEW t \in Threads, StoreCounter(t)
  PROVE  CountInv'
<1> SUFFICES ASSUME (phase = "run" /\ cleared /\ server.area_ptr = "shm" /\ Alone)'
             PROVE  /\ \A l \in Locations : shm'[l] = Counted(Cardinality(Taken(l)))'
                    /\ pc'[Main] = "store" => counter'[Main] = shm'[loc'[Main]]
  BY DEF CountInv
<1>1. TypeOK /\ Main \in Threads /\ program \in Programs
  BY ThreadAssumption DEF EInv, IInv, TypeOK
<1>2. /\ UNCHANGED <<program, phase, server, cleared, path>>
      /\ pc[t] = "store" /\ pc' = [pc EXCEPT ![t] = "block"]
      /\ shm' = [shm EXCEPT ![loc[t]] = Updated(counter[t])]
  BY DEF StoreCounter, globals
<1>3. t = Main /\ Alone /\ pc'[Main] = "block"
  BY <1>1, <1>2 DEF Alone, TypeOK
<1> DEFINE n == Len(path[Main])
           k == loc[Main]
<1>4. n \in Nat /\ n > 0 /\ k = LocationOf(Main, n) /\ k \in Locations
  <2>1. path[Main] # <<>> /\ k = LocationOf(Main, n)
    BY <1>1, <1>2, <1>3 DEF EInv, EdgeInv
  <2>2. path[Main] \in Seq(Blocks) /\ k \in Locations
    BY <1>1 DEF TypeOK
  <2> QED
    BY <2>1, <2>2
<1>5. Stored = n - 1 /\ Stored' = n
  BY <1>2, <1>3, <1>4 DEF Stored
<1>6. \A i : LocationOf(Main, i)' = LocationOf(Main, i)
  BY <1>2 DEF LocationOf
<1>7. \A m : Counted(m)' = Counted(m)
  BY <1>2 DEF Counted
<1>8. /\ \A l \in Locations : shm[l] = Counted(Cardinality(Taken(l)))
      /\ counter[Main] = shm[k]
  BY <1>2, <1>3 DEF CountInv
<1> HIDE DEF n, k
<1>9. ASSUME NEW l \in Locations
      PROVE  shm'[l] = Counted(Cardinality(Taken(l)))'
  <2>1. CASE l = k
    <3>1. Taken(l)' = Taken(l) \cup {n} /\ n \notin Taken(l)
      BY <1>4, <1>5, <1>6, <2>1 DEF Taken
    <3>2. IsFiniteSet(Taken(l)) /\ Cardinality(Taken(l)) \in Nat
      <4>1. IsFiniteSet(1 .. Stored)
        BY <1>4, <1>5, FS_Interval
      <4>2. Taken(l) \in SUBSET (1 .. Stored)
        BY DEF Taken
      <4> QED
        BY <4>1, <4>2, FS_Subset, FS_CardinalityType
    <3>3. Cardinality(Taken(l))' = Cardinality(Taken(l)) + 1
      BY <3>1, <3>2, FS_AddElement
    <3>4. shm'[l] = Updated(Counted(Cardinality(Taken(l))))
      BY <1>1, <1>2, <1>3, <1>4, <1>8, <2>1 DEF TypeOK, k
    <3>5. Counted(Cardinality(Taken(l)) + 1) = Updated(Counted(Cardinality(Taken(l))))
      BY <1>1, <3>2, CountedStep
    <3> QED
      BY <1>7, <3>3, <3>4, <3>5
  <2>2. CASE l # k
    <3>1. Taken(l)' = Taken(l)
      BY <1>4, <1>5, <1>6, <2>2 DEF Taken
    <3>2. shm'[l] = shm[l]
      BY <1>1, <1>2, <1>3, <2>2 DEF TypeOK, k
    <3> QED
      BY <1>7, <1>8, <3>1, <3>2
  <2> QED
    BY <2>1, <2>2
<1> QED
  BY <1>3, <1>9

\* A run begins with a bitmap of zeros, or on one that says nothing of the run.
LEMMA ExecuteCount ==
  ASSUME EInv, NEW clear \in BOOLEAN, Execute(clear)
  PROVE  CountInv'
<1> SUFFICES ASSUME (phase = "run" /\ cleared /\ server.area_ptr = "shm" /\ Alone)'
             PROVE  /\ \A l \in Locations : shm'[l] = Counted(Cardinality(Taken(l)))'
                    /\ pc'[Main] = "store" => counter'[Main] = shm'[loc'[Main]]
  BY DEF CountInv
<1>1. program \in Programs /\ program' = program /\ Main \in Threads
  BY ThreadAssumption DEF EInv, IInv, TypeOK, Execute
<1>2. shm' = Zeros(Locations) /\ pc'[Main] = "block" /\ path'[Main] = <<>>
  BY <1>1 DEF Execute, OnlyMain, Nobody
<1>3. Stored' = 0
  BY <1>2 DEF Stored
<1>4. \A l : Taken(l)' = {}
  BY <1>3 DEF Taken
<1>5. Counted(0)' = 0
  BY <1>1, SizeAssumption DEF Counted, Programs, UpdateMethods
<1>6. Cardinality({}) = 0
  BY FS_EmptySet
<1> QED
  BY <1>2, <1>4, <1>5, <1>6 DEF Zeros

\* The other steps leave the bitmap alone while the main thread is alone.
LEMMA OtherCount ==
  ASSUME EInv, CountInv,
         \/ AutoInit \/ AttachFails \/ FaultsPast \/ StartForkServer \/ EndRun \/ UNCHANGED vars
         \/ \E t \in Threads : UpdatePast(t) \/ ManualInit(t) \/ ManualInitDone(t) \/ StartThread(t)
  PROVE  CountInv'
<1>1. TypeOK /\ ThreadInv /\ Main \in Threads
  BY ThreadAssumption DEF EInv, IInv
<1>2. CASE AutoInit \/ AttachFails \/ FaultsPast \/ StartForkServer \/ EndRun
  BY <1>2 DEF CountInv, AutoInit, AttachFails, FaultsPast, StartForkServer, EndRun
<1>3. CASE UNCHANGED vars
  <2>1. UNCHANGED <<program, server, path, phase, pc, loc, counter, shm, cleared>>
    BY <1>3 DEF vars, registers
  <2>2. Alone' = Alone /\ Stored' = Stored
    BY <2>1 DEF Alone, Stored
  <2>3. \A l \in Locations : Taken(l)' = Taken(l)
    BY <2>1, <2>2 DEF Taken, LocationOf
  <2>4. \A n : Counted(n)' = Counted(n)
    BY <2>1 DEF Counted
  <2> QED
    BY <2>1, <2>2, <2>3, <2>4 DEF CountInv
<1>4. ASSUME NEW t \in Threads, ManualInit(t) \/ ManualInitDone(t)
      PROVE  CountInv'
  <2>1. UNCHANGED <<phase, server>> /\ (~init_done \/ pc[t] = "mark")
    BY <1>4 DEF ManualInit, ManualInitDone
  <2>2. ~(phase = "run" /\ server.area_ptr = "shm")
    BY <2>1, NoMark
  <2> QED
    BY <2>1, <2>2 DEF CountInv
<1>5. ASSUME NEW t \in Threads, StartThread(t)
      PROVE  CountInv'
  <2>1. UNCHANGED <<program, server, path, phase, loc, counter, shm, cleared>>
        /\ pc[t] = "none" /\ pc' = [pc EXCEPT ![t] = "block"]
    BY <1>5 DEF StartThread, globals, registers
  <2>2. CASE t # Main
    <3>1. ~Alone'
      BY <1>1, <2>1, <2>2 DEF Alone, TypeOK
    <3> QED
      BY <3>1 DEF CountInv
  <2>3. CASE t = Main
    <3>1. pc'[Main] = "block" /\ pc[Main] = "none" /\ (Alone' => Alone)
      BY <1>1, <2>1, <2>3 DEF Alone, TypeOK
    <3>2. Stored' = Stored
      BY <2>1, <3>1 DEF Stored
    <3> QED
      BY <2>1, <3>1, <3>2 DEF CountInv, Taken, LocationOf, Counted
  <2> QED
    BY <2>2, <2>3
<1>6. ASSUME NEW t \in Threads, UpdatePast(t)
      PROVE  CountInv'
  <2>1. UNCHANGED <<program, server, path, phase, loc, counter, shm, cleared>>
        /\ pc[t] \in Past /\ pc' = [pc EXCEPT ![t] = "block"]
    BY <1>6 DEF UpdatePast, registers
  <2>2. CASE t # Main
    <3>1. ~Alone'
      BY <1>1, <2>1, <2>2 DEF Alone, TypeOK
    <3> QED
      BY <3>1 DEF CountInv
  <2>3. CASE t = Main
    <3>1. pc'[Main] = "block" /\ pc[Main] \in Past /\ (Alone' => Alone)
      BY <1>1, <2>1, <2>3 DEF Alone, TypeOK
    <3>2. Stored' = Stored
      BY <2>1, <3>1 DEF Stored, Past
    <3> QED
      BY <2>1, <3>1, <3>2 DEF CountInv, Taken, LocationOf, Counted
  <2> QED
    BY <2>2, <2>3
<1> QED
  BY <1>2, <1>3, <1>4, <1>5, <1>6

\* The bitmap of a run that has had one thread depends on its path and on nothing
\* else, whatever runs came before it and however often a byte was visited.
THEOREM CoverageIsOfPathAlways == Spec => []CoverageIsOfPath
<1>1. Init => CInv
  BY InitCInv
<1>2. CInv /\ EInv' /\ [Next]_vars => CInv'
  <2> SUFFICES ASSUME CInv, EInv', [Next]_vars PROVE CInv'
    OBVIOUS
  <2>1. CountInv'
    <3>1. CASE Next
      BY <3>1, EnterBlockCount, LoadCounterCount, StoreCounterCount, ExecuteCount, OtherCount
      DEF Next, CInv
    <3>2. CASE UNCHANGED vars
      BY <3>2, OtherCount DEF CInv
    <3> QED
      BY <3>1, <3>2
  <2> QED
    BY <2>1 DEF CInv
<1>3. CInv => CoverageIsOfPath
  <2> SUFFICES ASSUME CInv,
                      cleared /\ \A t \in Threads \ {Main} : pc[t] = "none",
                      phase = "run" /\ pc[Main] = "block" /\ server.area_ptr = "shm",
                      NEW l \in Locations
               PROVE  shm[l] = Counted(Cardinality({i \in DOMAIN path[Main] :
                                                      LocationOf(Main, i) = l}))
    BY DEF CoverageIsOfPath
  <2>1. Stored = Len(path[Main])
    BY DEF Stored
  <2>2. DOMAIN path[Main] = 1 .. Len(path[Main])
    BY ThreadAssumption DEF CInv, EInv, IInv, TypeOK
  <2> QED
    BY <2>1, <2>2 DEF CInv, CountInv, Alone, Taken
<1> QED
  BY <1>1, <1>2, <1>3, EdgeInvariance, PTL DEF Spec
===============================================================================
