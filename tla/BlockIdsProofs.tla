---------------------------- MODULE BlockIdsProofs ----------------------------
(***************************************************************************)
(* Proofs about BlockIds, for any program, options and numbering of its    *)
(* blocks, and any run.                                                    *)
(***************************************************************************)
EXTENDS BlockIds, SequenceTheorems, TLAPS

\* g is a graph, and none of its blocks is the name of an edge of it.
IsGraph(g) ==
  /\ g \in [DOMAIN g -> Seq(DOMAIN g)]
  /\ \A b \in DOMAIN g : b \notin (DOMAIN g) \X Nat

-------------------------------------------------------------------------------
(* Graphs. *)

\* What an edge is.
LEMMA EdgesOf ==
  ASSUME NEW g, g \in [DOMAIN g -> Seq(DOMAIN g)]
  PROVE  /\ \A e \in Edges(g) : /\ e = <<e[1], e[2]>> /\ e[1] \in DOMAIN g
                                /\ e[2] \in 1 .. Len(g[e[1]]) /\ e[2] \in Nat
                                /\ Target(g, e) \in DOMAIN g
         /\ \A b \in DOMAIN g : \A i \in 1 .. Len(g[b]) : <<b, i>> \in Edges(g)
<1>1. \A b \in DOMAIN g : g[b] \in Seq(DOMAIN g) /\ DOMAIN g[b] = 1 .. Len(g[b])
  OBVIOUS
<1>2. ASSUME NEW e \in Edges(g)
      PROVE  /\ e = <<e[1], e[2]>> /\ e[1] \in DOMAIN g
             /\ e[2] \in 1 .. Len(g[e[1]]) /\ e[2] \in Nat
             /\ Target(g, e) \in DOMAIN g
  <2>1. PICK b \in DOMAIN g : e \in {b} \X (DOMAIN g[b])
    BY <1>2 DEF Edges
  <2>2. e = <<e[1], e[2]>> /\ e[1] = b /\ e[2] \in 1 .. Len(g[b])
    BY <1>1, <2>1
  <2> QED
    BY <1>1, <2>2 DEF Target
<1>3. ASSUME NEW b \in DOMAIN g, NEW i \in 1 .. Len(g[b])
      PROVE  <<b, i>> \in Edges(g)
  BY <1>1 DEF Edges
<1> QED
  BY <1>2, <1>3

\* The blocks of a graph whose critical edges are split, and where they lead.
LEMMA SplitBlocks ==
  ASSUME NEW g, IsGraph(g)
  PROVE  LET s == SplitAllCriticalEdges(g)
         IN /\ DOMAIN s = DOMAIN g \cup Critical(g)
            /\ Critical(g) \subseteq Edges(g)
            /\ \A e \in Edges(g) : e \notin DOMAIN g
            /\ \A b \in DOMAIN g :
                 /\ s[b] \in Seq(DOMAIN s) /\ Len(s[b]) = Len(g[b])
                 /\ \A i \in 1 .. Len(g[b]) :
                      s[b][i] = IF <<b, i>> \in Critical(g) THEN <<b, i>> ELSE g[b][i]
            /\ \A e \in Critical(g) :
                 s[e] \in Seq(DOMAIN s) /\ Len(s[e]) = 1 /\ s[e][1] = Target(g, e)
<1> DEFINE s == SplitAllCriticalEdges(g)
           D == DOMAIN g
           C == Critical(g)
<1>1. /\ g \in [D -> Seq(D)]
      /\ \A e \in Edges(g) : /\ e = <<e[1], e[2]>> /\ e[1] \in D /\ e[2] \in Nat
                             /\ Target(g, e) \in D
      /\ \A b \in D : \A i \in 1 .. Len(g[b]) : <<b, i>> \in Edges(g)
  BY EdgesOf DEF IsGraph
<1>2. C \subseteq Edges(g)
  BY DEF Critical
<1>3. \A e \in Edges(g) : e \notin D
  BY <1>1 DEF IsGraph
<1>4. /\ DOMAIN s = D \cup C
      /\ \A b \in D : s[b] = [i \in DOMAIN g[b] |-> IF <<b, i>> \in C THEN <<b, i>> ELSE g[b][i]]
      /\ \A e \in C : s[e] = <<Target(g, e)>>
  BY <1>2, <1>3 DEF SplitAllCriticalEdges
<1> HIDE DEF s, C
<1>5. ASSUME NEW b \in D
      PROVE  /\ s[b] \in Seq(D \cup C) /\ Len(s[b]) = Len(g[b])
             /\ \A i \in 1 .. Len(g[b]) : s[b][i] = IF <<b, i>> \in C THEN <<b, i>> ELSE g[b][i]
  <2> DEFINE n == Len(g[b])
  <2>1. n \in Nat /\ DOMAIN g[b] = 1 .. n /\ \A i \in 1 .. n : g[b][i] \in D
    BY <1>1
  <2> HIDE DEF n
  <2>2. s[b] = [i \in 1 .. n |-> IF <<b, i>> \in C THEN <<b, i>> ELSE g[b][i]]
    BY <1>4, <2>1
  <2>3. s[b] \in [1 .. n -> D \cup C]
    BY <2>1, <2>2
  <2>4. s[b] \in Seq(D \cup C)
    BY <2>1, <2>3, SeqDef
  <2>5. Len(s[b]) = n
    BY <2>1, <2>3, <2>4, LenProperties
  <2> QED
    BY <2>2, <2>4, <2>5 DEF n
<1>6. ASSUME NEW e \in C
      PROVE  s[e] \in Seq(D \cup C) /\ Len(s[e]) = 1 /\ s[e][1] = Target(g, e)
  <2> DEFINE v == Target(g, e)
  <2>1. v \in D \cup C /\ s[e] = <<v>>
    BY <1>1, <1>2, <1>4
  <2> HIDE DEF v
  <2>2. <<v>> \in Seq(D \cup C) /\ Len(<<v>>) = 1 /\ <<v>>[1] = v
    BY <2>1
  <2> QED
    BY <2>1, <2>2 DEF v
<1> QED
  BY <1>2, <1>3, <1>4, <1>5, <1>6 DEF s, C

\* Splitting makes a graph in which no edge is critical, and leads no edge to a
\* block to which none led.
LEMMA SplitGraph ==
  ASSUME NEW g, IsGraph(g)
  PROVE  LET s == SplitAllCriticalEdges(g)
         IN /\ s \in [DOMAIN s -> Seq(DOMAIN s)]
            /\ DOMAIN g \subseteq DOMAIN s
            /\ \A v \in DOMAIN g : Preds(g, v) = {} => Preds(s, v) = {}
            /\ \A e \in Edges(s) : Len(s[e[1]]) = 1 \/ Preds(s, Target(s, e)) = {e}
<1> DEFINE s == SplitAllCriticalEdges(g)
           D == DOMAIN g
           C == Critical(g)
<1>1. /\ DOMAIN s = D \cup C /\ C \subseteq Edges(g) /\ \A e \in Edges(g) : e \notin D
      /\ \A b \in D : /\ s[b] \in Seq(DOMAIN s) /\ Len(s[b]) = Len(g[b])
                      /\ \A i \in 1 .. Len(g[b]) :
                           s[b][i] = IF <<b, i>> \in C THEN <<b, i>> ELSE g[b][i]
      /\ \A e \in C : s[e] \in Seq(DOMAIN s) /\ Len(s[e]) = 1 /\ s[e][1] = Target(g, e)
  BY SplitBlocks
<1>2. s = [b \in DOMAIN s |-> s[b]]
  BY DEF SplitAllCriticalEdges
<1> HIDE DEF s, C
<1>3. s \in [DOMAIN s -> Seq(DOMAIN s)]
  <2>1. \A b \in DOMAIN s : s[b] \in Seq(DOMAIN s)
    BY <1>1
  <2> QED
    BY <1>2, <2>1
<1>4. /\ \A e \in Edges(g) : /\ e = <<e[1], e[2]>> /\ e[1] \in D
                             /\ e[2] \in 1 .. Len(g[e[1]]) /\ Target(g, e) \in D
      /\ \A b \in D : \A i \in 1 .. Len(g[b]) : <<b, i>> \in Edges(g)
  BY EdgesOf DEF IsGraph
<1>5. \A e \in Edges(s) : e = <<e[1], e[2]>> /\ e[1] \in DOMAIN s /\ e[2] \in 1 .. Len(s[e[1]])
  BY <1>3, EdgesOf
\* Where the edges of s lead: those of g as before, but to their own block if they
\* are critical; and from there on.
<1>6. ASSUME NEW e \in Edges(s), e[1] \in D
      PROVE  /\ e \in Edges(g)
             /\ e \in C => Target(s, e) = e
             /\ e \notin C => Target(s, e) = Target(g, e)
  BY <1>1, <1>4, <1>5, <1>6 DEF Target
<1>7. ASSUME NEW e \in Edges(s), e[1] \notin D
      PROVE  e[1] \in C /\ e = <<e[1], 1>> /\ Target(s, e) = Target(g, e[1])
  BY <1>1, <1>5, <1>7 DEF Target
<1>8. ASSUME NEW v \in D, NEW d \in Preds(s, v)
      PROVE  \/ d \in Preds(g, v) /\ d \notin C
             \/ d[1] \in Preds(g, v) /\ d[1] \in C
  <2>1. d \in Edges(s) /\ Target(s, d) = v
    BY <1>8 DEF Preds
  <2>2. CASE d[1] \in D
    <3>1. d \in Edges(g) /\ d # v
      BY <1>1, <1>6, <2>1, <2>2
    <3> QED
      BY <1>6, <2>1, <2>2, <3>1 DEF Preds
  <2>3. CASE d[1] \notin D
    BY <1>1, <1>7, <2>1, <2>3 DEF Preds
  <2> QED
    BY <2>2, <2>3
<1>9. ASSUME NEW e \in Edges(s), Len(s[e[1]]) # 1
      PROVE  Preds(s, Target(s, e)) = {e}
  <2>1. e[1] \in D
    BY <1>1, <1>5, <1>9
  <2>2. e \in Edges(g) /\ e = <<e[1], e[2]>> /\ Len(g[e[1]]) > 1
    <3>1. e \in Edges(g) /\ e = <<e[1], e[2]>> /\ e[2] \in 1 .. Len(g[e[1]])
      BY <1>4, <1>6, <2>1
    <3>2. Len(g[e[1]]) \in Nat /\ Len(g[e[1]]) # 1
      BY <1>1, <1>9, <2>1 DEF IsGraph
    <3>3. ASSUME NEW n \in Nat, n # 1, NEW i \in 1 .. n PROVE n > 1
      BY <3>3
    <3> QED
      BY <3>1, <3>2, <3>3
  <2>3. CASE e \in C
    <3>1. ASSUME NEW d \in Preds(s, e) PROVE d = e
      <4>1. d \in Edges(s) /\ Target(s, d) = e
        BY <3>1 DEF Preds
      <4>2. e \notin D
        BY <1>1, <2>2
      <4>3. d[1] \in D
        BY <1>1, <1>4, <1>7, <4>1, <4>2
      <4> QED
        BY <1>4, <1>6, <4>1, <4>2, <4>3
    <3>2. Target(s, e) = e
      BY <1>6, <2>1, <2>3
    <3> QED
      BY <3>1, <3>2 DEF Preds
  <2>4. CASE e \notin C
    <3> DEFINE v == Target(g, e)
    <3>1. v \in D /\ Target(s, e) = v
      BY <1>4, <1>6, <2>1, <2>2, <2>4
    <3>2. \A d \in Preds(g, v) : d = e
      BY <2>2, <2>4 DEF Critical, C
    <3>3. \A d \in Preds(s, v) : d = e
      BY <1>8, <2>4, <3>1, <3>2
    <3> QED
      BY <3>1, <3>3 DEF Preds
  <2> QED
    BY <2>3, <2>4
<1>10. \A v \in D : Preds(g, v) = {} => Preds(s, v) = {}
  BY <1>8
<1> QED
  BY <1>1, <1>3, <1>9, <1>10 DEF s

-------------------------------------------------------------------------------
(* The invariant. *)

Begun == pc \in {"run", "returned", "exited"}

\* The graph is the one of the program until its critical edges are split, and no
\* edge leads to an entry.
GraphInv ==
  /\ DOMAIN program.succs \subseteq DOMAIN graph
  /\ pc \in {"assign", "aborted"} => graph = program.succs
  /\ \A f \in DOMAIN program.entry : Preds(graph, program.entry[f]) = {}
  /\ options.path_splitting /\ pc \notin {"assign", "aborted"} =>
       \A e \in Edges(graph) : Len(graph[e[1]]) = 1 \/ Preds(graph, Target(graph, e)) = {e}

\* The selected blocks have ids, and sequential ones are distinct.
IdsInv ==
  /\ bb_ids \in [WithId -> Nat]
  /\ pc \notin {"assign", "aborted"} =>
       /\ WithId = Selected(graph)
       /\ options.generation_strategy = "SEQUENTIAL" => IsInjective(bb_ids)
  /\ Begun => exported = ExportedJumps \cup ExportedCalls

\* A run begins after the passes, and ends with its outermost call.
RunInv ==
  /\ ~Begun => stack = <<>> /\ hits = {} /\ taken = {} /\ called = {} /\ exported = {}
  /\ pc = "run" => stack # <<>>
  /\ pc = "returned" => stack = <<>>

\* b is where calls begin, or the run has come to it by an edge.
Reached(b) == Preds(graph, b) = {} \/ Preds(graph, b) \cap taken # {}

\* Blocks on the stack are reached and, if they have an id, hit.
StackInv ==
  \A j \in 1 .. Len(stack) :
    /\ Reached(stack[j].block)
    /\ stack[j].block \in WithId => bb_ids[stack[j].block] \in hits

\* What is hit is reached.
HitsInv == \A h \in hits : \E b \in WithId : h = bb_ids[b] /\ Reached(b)

\* A block with one successor that was entered has been left, or still is on the
\* stack.
LeftInv ==
  options.generation_strategy = "SEQUENTIAL" =>
    \A u \in DOMAIN graph :
      /\ Len(graph[u]) = 1
      /\ (u \in WithId /\ bb_ids[u] \in hits) \/ Preds(graph, u) \cap taken # {}
      => <<u, 1>> \in taken \/ \E j \in 1 .. Len(stack) : stack[j].block = u

\* The rules of Recovered find every edge taken.
ForcedInv ==
  options.path_splitting /\ options.selection_strategy = "NO_MULTIPLE_PRED" =>
    \A S \in SUBSET Edges(graph) : Recovered(S) => taken \subseteq S

IInv ==
  /\ TypeOK /\ GraphInv /\ IdsInv /\ RunInv
  /\ StackInv /\ HitsInv /\ LeftInv /\ ForcedInv
  /\ CoverageIsInExportedGraph

\* The graph of a program that may be compiled.
LEMMA ProgramGraph ==
  ASSUME program \in Programs
  PROVE  /\ IsGraph(program.succs)
         /\ "main" \in DOMAIN program.entry
         /\ \A f \in DOMAIN program.entry :
              program.entry[f] \in DOMAIN program.succs /\ Preds(program.succs, program.entry[f]) = {}
<1>1. /\ IsGraph(program.succs)
      /\ "main" \in DOMAIN program.entry
      /\ program.entry \in [DOMAIN program.entry -> DOMAIN program.succs]
      /\ \A b \in DOMAIN program.succs : \A i \in DOMAIN program.succs[b] :
           \A f \in DOMAIN program.entry : program.succs[b][i] # program.entry[f]
  BY ProgramAssumption DEF IsGraph
<1>2. ASSUME NEW f \in DOMAIN program.entry, NEW e \in Preds(program.succs, program.entry[f])
      PROVE  FALSE
  <2>1. e \in Edges(program.succs) /\ Target(program.succs, e) = program.entry[f]
    BY <1>2 DEF Preds
  <2> DEFINE g == program.succs
  <2>2. g \in [DOMAIN g -> Seq(DOMAIN g)]
    BY <1>1 DEF IsGraph
  <2>3. e[1] \in DOMAIN g /\ e[2] \in 1 .. Len(g[e[1]])
    BY <2>1, <2>2, EdgesOf
  <2>4. e[1] \in DOMAIN program.succs /\ e[2] \in DOMAIN program.succs[e[1]]
    BY <2>2, <2>3
  <2> QED
    BY <1>1, <2>1, <2>4 DEF Target
<1> QED
  BY <1>1, <1>2

\* The invariant holds before the passes.
LEMMA InitIInv == Init => IInv
<1> SUFFICES ASSUME Init PROVE IInv
  OBVIOUS
<1>1. /\ program \in Programs /\ options \in Options /\ pc = "assign"
      /\ graph = program.succs /\ bb_ids = <<>> /\ exported = {}
      /\ stack = <<>> /\ hits = {} /\ taken = {} /\ called = {}
  BY DEF Init
<1>2. graph \in [DOMAIN graph -> Seq(DOMAIN graph)] /\ WithId = {}
  BY <1>1, ProgramGraph DEF IsGraph, WithId
<1>3. stack \in Seq([block : DOMAIN graph, called : BOOLEAN]) /\ Len(stack) = 0
  BY <1>1
<1>4. TypeOK
  BY <1>1, <1>2, <1>3 DEF TypeOK
<1>5. GraphInv /\ RunInv
  BY <1>1, <1>2, ProgramGraph DEF GraphInv, RunInv, Begun
<1>6. IdsInv
  <2>1. bb_ids \in Seq(Nat) /\ Len(bb_ids) = 0
    BY <1>1
  <2>2. bb_ids \in [WithId -> Nat]
    BY <1>2, <2>1, SeqDef DEF WithId
  <2> QED
    BY <1>1, <2>2 DEF IdsInv, Begun
<1>7. StackInv /\ HitsInv /\ LeftInv /\ ForcedInv /\ CoverageIsInExportedGraph
  BY <1>1, <1>2, <1>3 DEF StackInv, HitsInv, LeftInv, ForcedInv, CoverageIsInExportedGraph
<1> QED
  BY <1>4, <1>5, <1>6, <1>7 DEF IInv

\* Blocks are numbered: those of the graph with its critical edges split.
LEMMA AssignIdsStep ==
  ASSUME IInv, AssignIds
  PROVE  IInv'
<1>1. /\ program \in Programs /\ options \in Options /\ pc = "assign" /\ graph = program.succs
      /\ exported = {} /\ stack = <<>> /\ hits = {} /\ taken = {} /\ called = {}
  BY DEF IInv, TypeOK, GraphInv, RunInv, Begun, AssignIds
<1>2. /\ program' = program /\ options' = options /\ pc' = "export"
      /\ exported' = {} /\ stack' = <<>> /\ hits' = {} /\ taken' = {} /\ called' = {}
      /\ graph' = IF options.path_splitting THEN SplitAllCriticalEdges(graph) ELSE graph
      /\ bb_ids' \in Numberings(Selected(graph'))
  BY <1>1 DEF AssignIds
<1>3. /\ IsGraph(graph) /\ "main" \in DOMAIN program.entry
      /\ \A f \in DOMAIN program.entry :
           program.entry[f] \in DOMAIN graph /\ Preds(graph, program.entry[f]) = {}
  BY <1>1, ProgramGraph
<1>4. /\ graph' \in [DOMAIN graph' -> Seq(DOMAIN graph')]
      /\ DOMAIN graph \subseteq DOMAIN graph'
      /\ \A f \in DOMAIN program.entry : Preds(graph', program.entry[f]) = {}
      /\ options.path_splitting =>
           \A e \in Edges(graph') : Len(graph'[e[1]]) = 1 \/ Preds(graph', Target(graph', e)) = {e}
  <2>1. CASE options.path_splitting
    BY <1>2, <1>3, <2>1, SplitGraph
  <2>2. CASE ~options.path_splitting
    BY <1>2, <1>3, <2>2 DEF IsGraph
  <2> QED
    BY <2>1, <2>2
<1> DEFINE S == Selected(graph')
<1>5. S \subseteq DOMAIN graph'
  BY DEF Selected
<1>6. /\ bb_ids' \in [S -> Nat]
      /\ options.generation_strategy = "SEQUENTIAL" => IsInjective(bb_ids')
      /\ options.generation_strategy = "RANDOM" =>
           \A b \in S : bb_ids'[b] < options.map_size
  <2>1. CASE options.generation_strategy = "SEQUENTIAL"
    <3>1. bb_ids' \in [S -> 0 .. Cardinality(S) - 1] /\ IsInjective(bb_ids')
      BY <1>2, <2>1 DEF Numberings
    <3> QED
      BY <2>1, <3>1
  <2>2. CASE options.generation_strategy # "SEQUENTIAL"
    <3>1. bb_ids' \in [S -> 0 .. options.map_size - 1]
      BY <1>2, <2>2 DEF Numberings, RandomIds
    <3>2. options.map_size \in Int
      BY <1>1, OptionAssumption
    <3> QED
      BY <2>2, <3>1, <3>2
  <2> QED
    BY <2>1, <2>2
<1> HIDE DEF S
<1>7. WithId' = S
  BY <1>6 DEF WithId
<1>8. stack' \in Seq([block : DOMAIN graph', called : BOOLEAN]) /\ Len(stack') = 0
  BY <1>2
<1>9. TypeOK'
  BY <1>1, <1>2, <1>4, <1>5, <1>6, <1>7, <1>8 DEF TypeOK
<1>10. GraphInv'
  BY <1>1, <1>2, <1>4 DEF GraphInv
<1>11. IdsInv' /\ RunInv'
  <2>1. Selected(graph') = Selected(graph)'
    BY <1>2 DEF Selected, Preds, Edges, Target
  <2> QED
    BY <1>2, <1>6, <1>7, <2>1 DEF IdsInv, RunInv, Begun, S
<1>12. StackInv' /\ HitsInv' /\ LeftInv' /\ ForcedInv' /\ CoverageIsInExportedGraph'
  <2>1. StackInv' /\ HitsInv' /\ LeftInv'
    BY <1>2, <1>8 DEF StackInv, HitsInv, LeftInv
  <2>2. ForcedInv' /\ CoverageIsInExportedGraph'
    BY <1>2 DEF ForcedInv, CoverageIsInExportedGraph
  <2> QED
    BY <2>1, <2>2
<1> QED
  BY <1>9, <1>10, <1>11, <1>12 DEF IInv

\* What a step leaves alone after the blocks are numbered.
fixed == <<program, options, graph, bb_ids>>

LEMMA FixedParts ==
  ASSUME IInv, UNCHANGED fixed, pc \notin {"assign", "aborted"}, pc' \notin {"assign", "aborted"}
  PROVE  /\ GraphInv' /\ WithId' = WithId /\ Edges(graph)' = Edges(graph)
         /\ ExportedJumps' = ExportedJumps /\ ExportedCalls' = ExportedCalls
         /\ (Begun' => exported' = ExportedJumps \cup ExportedCalls) => IdsInv'
<1>1. WithId' = WithId /\ graph' = graph /\ program' = program /\ options' = options /\ bb_ids' = bb_ids
  BY DEF fixed, WithId
<1>2. Selected(graph)' = Selected(graph) /\ Edges(graph)' = Edges(graph)
  BY <1>1 DEF Selected, Edges, Preds, Target
<1>4. ExportedJumps' = ExportedJumps /\ ExportedCalls' = ExportedCalls
  BY <1>1 DEF ExportedJumps, ExportedCalls, Edges, Target
<1>5. GraphInv'
  BY <1>1 DEF IInv, GraphInv
<1>6. ASSUME Begun' => exported' = ExportedJumps \cup ExportedCalls
      PROVE  IdsInv'
  BY <1>1, <1>2, <1>4, <1>6 DEF IInv, IdsInv
<1> QED
  BY <1>1, <1>2, <1>4, <1>5, <1>6

\* The frames of the stack.
LEMMA StackAfter ==
  ASSUME IInv, pc = "run"
  PROVE  /\ Len(stack) \in Nat /\ Len(stack) > 0
         /\ Last \in [block : DOMAIN graph, called : BOOLEAN]
         /\ Last = stack[Len(stack)]
         /\ Outer \in Seq([block : DOMAIN graph, called : BOOLEAN])
         /\ Len(Outer) = Len(stack) - 1
         /\ \A j \in 1 .. Len(stack) - 1 : Outer[j] = stack[j]
         /\ Reached(Last.block)
         /\ Last.block \in WithId => bb_ids[Last.block] \in hits
<1> DEFINE F == [block : DOMAIN graph, called : BOOLEAN]
<1>1. stack \in Seq(F) /\ stack # <<>>
  BY DEF IInv, TypeOK, RunInv
<1> HIDE DEF F
<1>2. Len(stack) \in Nat /\ Len(stack) > 0
  BY <1>1
<1>3. Last \in F /\ Last = stack[Len(stack)]
  BY <1>1, <1>2 DEF Last
<1>4. /\ Outer \in Seq(F)
      /\ Len(Outer) = Len(stack) - 1
      /\ \A j \in 1 .. Len(stack) - 1 : Outer[j] = stack[j]
  <2> DEFINE n == Len(stack) - 1
  <2>1. n \in 0 .. Len(stack) /\ n \in 1 - 1 .. Len(stack) /\ 1 \in 1 .. Len(stack) + 1
    BY <1>2
  <2> HIDE DEF n
  <2>2. /\ SubSeq(stack, 1, n) \in Seq(F)
        /\ Len(SubSeq(stack, 1, n)) = n
        /\ \A j \in 1 .. n : SubSeq(stack, 1, n)[j] = stack[j]
    BY <1>1, <1>2, <2>1, SubSeqProperties
  <2> QED
    BY <2>2 DEF Outer, n
<1>5. /\ Reached(Last.block)
      /\ Last.block \in WithId => bb_ids[Last.block] \in hits
  BY <1>2, <1>3 DEF IInv, StackInv
<1> QED
  BY <1>2, <1>3, <1>4, <1>5 DEF F

\* The graph is exported, and main is entered.
LEMMA ExportStep ==
  ASSUME IInv, Export
  PROVE  IInv'
<1> DEFINE b == program.entry["main"]
<1>1. /\ TypeOK /\ pc = "export" /\ pc' = "run" /\ UNCHANGED fixed
      /\ exported' = ExportedJumps \cup ExportedCalls
      /\ stack' = <<Frame(b)>> /\ hits' = Hit(b)
      /\ taken = {} /\ taken' = {} /\ called = {} /\ called' = {}
  BY DEF IInv, RunInv, Begun, Export, fixed
<1>2. /\ b \in DOMAIN graph /\ Preds(graph, b) = {}
      /\ "main" \in DOMAIN program.entry
  BY <1>1, ProgramGraph DEF IInv, TypeOK, GraphInv
<1>3. /\ GraphInv' /\ IdsInv' /\ WithId' = WithId
  BY <1>1, <1>2, FixedParts
<1>4. /\ bb_ids \in [WithId -> Nat] /\ WithId \subseteq DOMAIN graph
      /\ (options.generation_strategy = "SEQUENTIAL" => IsInjective(bb_ids))
  BY <1>1 DEF IInv, IdsInv, TypeOK
<1>5. /\ program' = program /\ options' = options /\ graph' = graph /\ bb_ids' = bb_ids
  BY <1>1 DEF fixed
<1>6. /\ stack' \in Seq([block : DOMAIN graph, called : BOOLEAN]) /\ Len(stack') = 1
      /\ stack'[1].block = b
  <2>1. Frame(b) \in [block : DOMAIN graph, called : BOOLEAN] /\ Frame(b).block = b
    BY <1>2 DEF Frame
  <2> QED
    BY <1>1, <2>1
<1> HIDE DEF b
<1>7. TypeOK'
  <2>1. exported' \subseteq Nat \X Nat \X {EDGE_JMP, EDGE_INDIRECT}
    BY <1>1, <1>4 DEF ExportedJumps, ExportedCalls
  <2>2. hits' \subseteq Range(bb_ids)
    BY <1>1, <1>4 DEF Hit, Range
  <2> QED
    BY <1>1, <1>3, <1>5, <1>6, <2>1, <2>2 DEF TypeOK
<1>8. RunInv'
  BY <1>1, <1>6 DEF RunInv, Begun
<1>9. StackInv' /\ HitsInv'
  <2>1. \A j \in 1 .. Len(stack') : stack'[j].block = b
    BY <1>6
  <2>2. StackInv'
    BY <1>1, <1>2, <1>3, <1>5, <2>1 DEF StackInv, Reached, Hit
  <2>3. HitsInv'
    BY <1>1, <1>2, <1>3, <1>5 DEF HitsInv, Reached, Hit
  <2> QED
    BY <2>2, <2>3
<1>10. LeftInv'
  <2>1. ASSUME options.generation_strategy = "SEQUENTIAL", NEW u \in WithId, bb_ids[u] \in hits'
        PROVE  u = b
    BY <1>1, <1>4, <2>1 DEF Hit, IsInjective
  <2> QED
    BY <1>1, <1>3, <1>5, <1>6, <2>1 DEF LeftInv
<1>11. ForcedInv'
  BY <1>1 DEF ForcedInv
<1>12. CoverageIsInExportedGraph'
  BY <1>1, <1>5 DEF CoverageIsInExportedGraph, Hit, b
<1> QED
  BY <1>3, <1>7, <1>8, <1>9, <1>10, <1>11, <1>12 DEF IInv

\* Entering block b, at the top of the stack, with all that a frame needs to be
\* below it: the parts of the invariant that a call and a jump have in common.
LEMMA EnterBlock ==
  ASSUME IInv, pc = "run", pc' = "run", UNCHANGED fixed, exported' = exported,
         NEW b \in DOMAIN graph,
         hits' = hits \cup Hit(b), taken \subseteq taken', taken' \subseteq Edges(graph),
         stack' \in Seq([block : DOMAIN graph, called : BOOLEAN]),
         called \subseteq called', called' \subseteq DOMAIN program.callee,
         Len(stack') > 0, stack'[Len(stack')].block = b,
         Preds(graph, b) = {} \/ Preds(graph, b) \cap taken' # {},
         \A j \in 1 .. Len(stack') - 1 : j <= Len(stack) /\ stack'[j].block = stack[j].block
  PROVE  /\ TypeOK' /\ GraphInv' /\ IdsInv' /\ RunInv' /\ StackInv' /\ HitsInv'
         /\ hits \subseteq hits' /\ (b \in WithId => bb_ids[b] \in hits')
         /\ options.generation_strategy = "SEQUENTIAL" =>
              \A u \in WithId : bb_ids[u] \in hits' => bb_ids[u] \in hits \/ u = b
<1>1. /\ program' = program /\ options' = options /\ graph' = graph /\ bb_ids' = bb_ids
      /\ TypeOK /\ GraphInv /\ IdsInv /\ RunInv /\ StackInv /\ HitsInv
  BY DEF fixed, IInv
<1>2. /\ bb_ids \in [WithId -> Nat] /\ WithId \subseteq DOMAIN graph
      /\ options.generation_strategy = "SEQUENTIAL" => IsInjective(bb_ids)
      /\ exported = ExportedJumps \cup ExportedCalls
  BY <1>1 DEF IdsInv, TypeOK, Begun
<1>3. GraphInv' /\ IdsInv' /\ WithId' = WithId
  BY <1>2, FixedParts
<1>4. /\ hits \subseteq hits' /\ (b \in WithId => bb_ids[b] \in hits')
      /\ \A h \in hits' : h \in hits \/ (b \in WithId /\ h = bb_ids[b])
  BY DEF Hit
<1>5. ASSUME options.generation_strategy = "SEQUENTIAL", NEW u \in WithId, bb_ids[u] \in hits'
      PROVE  bb_ids[u] \in hits \/ u = b
  BY <1>2, <1>4, <1>5 DEF IsInjective
<1>6. TypeOK'
  <2>1. hits' \subseteq Range(bb_ids)
    BY <1>1, <1>2, <1>4 DEF TypeOK, Range
  <2>2. Edges(graph)' = Edges(graph)
    BY <1>1 DEF Edges
  <2> QED
    BY <1>1, <1>3, <2>1, <2>2 DEF TypeOK
<1>7. RunInv'
  <2>1. stack' # <<>>
    OBVIOUS
  <2> QED
    BY <2>1 DEF RunInv, Begun
<1> DEFINE ReachedNow(v) == Preds(graph, v) = {} \/ Preds(graph, v) \cap taken' # {}
<1>8. \A v : Reached(v) => ReachedNow(v)
  BY DEF Reached
<1>9. ReachedNow(b)
  OBVIOUS
<1>10. StackInv'
  <2>1. ASSUME NEW j \in 1 .. Len(stack')
        PROVE  /\ ReachedNow(stack'[j].block)
               /\ stack'[j].block \in WithId => bb_ids[stack'[j].block] \in hits'
    <3>1. Len(stack') \in Nat /\ Len(stack) \in Nat
      BY <1>1 DEF TypeOK
    <3>2. CASE j = Len(stack')
      BY <1>4, <1>9, <3>2
    <3>3. CASE j # Len(stack')
      <4>1. j \in 1 .. Len(stack) /\ stack'[j].block = stack[j].block
        BY <3>1, <3>3
      <4>2. Reached(stack[j].block) /\ (stack[j].block \in WithId => bb_ids[stack[j].block] \in hits)
        BY <1>1, <4>1 DEF StackInv
      <4> QED
        BY <1>4, <1>8, <4>1, <4>2
    <3> QED
      BY <3>2, <3>3
  <2> QED
    BY <1>1, <1>3, <2>1 DEF StackInv, Reached
<1>11. HitsInv'
  <2>1. ASSUME NEW h \in hits' PROVE \E v \in WithId : h = bb_ids[v] /\ ReachedNow(v)
    BY <1>1, <1>4, <1>8, <1>9, <2>1 DEF HitsInv
  <2> QED
    BY <1>1, <1>3, <2>1 DEF HitsInv, Reached
<1> QED
  BY <1>3, <1>4, <1>5, <1>6, <1>7, <1>10, <1>11

\* A function is called: its entry is reached by no edge, and is hit.
LEMMA CallStep ==
  ASSUME IInv, Call
  PROVE  IInv'
<1> DEFINE F == [block : DOMAIN graph, called : BOOLEAN]
           f == program.callee[Last.block]
           caller == [Last EXCEPT !.called = TRUE]
           b == program.entry[f]
           n == Len(stack)
<1>1. /\ TypeOK /\ GraphInv /\ IdsInv /\ pc = "run" /\ pc' = "run" /\ UNCHANGED fixed
      /\ exported' = exported /\ taken' = taken
      /\ Last.block \in DOMAIN program.callee
  BY DEF IInv, Call, Calls, fixed
<1>2. /\ n \in Nat /\ n > 0 /\ Last.block \in DOMAIN graph /\ Last = stack[n]
      /\ Outer \in Seq(F) /\ Len(Outer) = n - 1
      /\ \A j \in 1 .. n - 1 : Outer[j] = stack[j]
      /\ (Last.block \in WithId => bb_ids[Last.block] \in hits)
      /\ Last \in F
  BY <1>1, StackAfter
<1>3. caller \in F /\ caller.block = Last.block
  BY <1>2
<1>4. program' = program /\ options' = options /\ graph' = graph /\ bb_ids' = bb_ids
  BY <1>1 DEF fixed
<1> HIDE DEF F, caller
<1>5. CASE f \in DOMAIN program.entry
  <2>1. /\ stack' = Outer \o <<caller, Frame(b)>> /\ hits' = hits \cup Hit(b)
        /\ called' = called \cup {Last.block}
    BY <1>5 DEF Call, caller
  <2>2. b \in DOMAIN graph /\ Preds(graph, b) = {}
    BY <1>1, <1>5, ProgramGraph DEF GraphInv, TypeOK
  <2>3. Frame(b) \in F /\ Frame(b).block = b
    BY <2>2 DEF Frame, F
  <2> HIDE DEF b, n
  <2>4. /\ stack' \in Seq(F) /\ Len(stack') = n + 1
        /\ \A j \in 1 .. n - 1 : stack'[j] = stack[j]
        /\ stack'[n] = caller /\ stack'[n + 1] = Frame(b)
    <3> DEFINE top == <<caller, Frame(b)>>
    <3>1. top \in Seq(F) /\ Len(top) = 2 /\ top[1] = caller /\ top[2] = Frame(b)
      BY <1>3, <2>3
    <3> HIDE DEF top
    <3>2. /\ Outer \o top \in Seq(F) /\ Len(Outer \o top) = (n - 1) + 2
          /\ \A i \in 1 .. (n - 1) + 2 :
               (Outer \o top)[i] = IF i <= n - 1 THEN Outer[i] ELSE top[i - (n - 1)]
      <4>1. /\ Outer \o top \in Seq(F) /\ Len(Outer \o top) = Len(Outer) + Len(top)
            /\ \A i \in 1 .. Len(Outer) + Len(top) :
                 (Outer \o top)[i] = IF i <= Len(Outer) THEN Outer[i] ELSE top[i - Len(Outer)]
        BY <1>2, <3>1, ConcatProperties
      <4> QED
        BY <1>2, <3>1, <4>1
    <3>3. \A j \in 1 .. n - 1 : (Outer \o top)[j] = stack[j]
      BY <1>2, <3>2
    <3>4. (Outer \o top)[n] = caller /\ (Outer \o top)[n + 1] = Frame(b)
      BY <1>2, <3>1, <3>2
    <3> QED
      BY <1>2, <2>1, <3>2, <3>3, <3>4 DEF top
  <2>5. \A j \in 1 .. n : stack'[j].block = stack[j].block
    BY <1>2, <1>3, <2>4
  <2>6. /\ TypeOK' /\ GraphInv' /\ IdsInv' /\ RunInv' /\ StackInv' /\ HitsInv'
        /\ hits \subseteq hits' /\ (b \in WithId => bb_ids[b] \in hits')
        /\ options.generation_strategy = "SEQUENTIAL" =>
             \A u \in WithId : bb_ids[u] \in hits' => bb_ids[u] \in hits \/ u = b
    <3>1. /\ called \subseteq called' /\ called' \subseteq DOMAIN program.callee
          /\ taken \subseteq taken' /\ taken' \subseteq Edges(graph)
      BY <1>1, <2>1 DEF TypeOK
    <3>2. \A j \in 1 .. Len(stack') - 1 : j <= Len(stack) /\ stack'[j].block = stack[j].block
      BY <1>2, <2>4, <2>5 DEF n
    <3>3. Len(stack') > 0 /\ stack'[Len(stack')].block = b
      BY <1>2, <2>3, <2>4
    <3> QED
      BY <1>1, <2>1, <2>2, <2>4, <3>1, <3>2, <3>3, EnterBlock DEF F
  <2>7. LeftInv'
    <3>1. ASSUME options.generation_strategy = "SEQUENTIAL",
                 NEW u \in DOMAIN graph, Len(graph[u]) = 1,
                 (u \in WithId /\ bb_ids[u] \in hits') \/ Preds(graph, u) \cap taken # {}
          PROVE  <<u, 1>> \in taken \/ \E j \in 1 .. Len(stack') : stack'[j].block = u
      <4>1. CASE u = b
        BY <1>2, <2>3, <2>4, <4>1
      <4>2. CASE u # b
        <5>1. <<u, 1>> \in taken \/ \E j \in 1 .. n : stack[j].block = u
          BY <2>6, <3>1, <4>2 DEF IInv, LeftInv, n
        <5> QED
          BY <1>2, <2>4, <2>5, <5>1
      <4> QED
        BY <4>1, <4>2
    <3> QED
      BY <1>1, <1>4, <3>1 DEF LeftInv, WithId
  <2>8. ForcedInv'
    BY <1>1, <1>4, <2>6 DEF IInv, ForcedInv, Recovered, WithId, Edges
  <2>9. CoverageIsInExportedGraph'
    <3>1. ASSUME options.selection_strategy = "ALL", NEW h \in hits'
          PROVE  \/ h = bb_ids[program.entry["main"]]
                 \/ \E u \in hits', type \in {EDGE_JMP, EDGE_INDIRECT} : <<u, h, type>> \in exported
                 \/ \E c \in called' \cap program.indirect : h = bb_ids[program.entry[program.callee[c]]]
      <4>1. CASE h \in hits
        BY <1>1, <2>1, <2>6, <3>1, <4>1 DEF IInv, CoverageIsInExportedGraph
      <4>2. CASE h \notin hits
        <5>1. b \in WithId /\ h = bb_ids[b]
          BY <2>1, <3>1, <4>2 DEF Hit
        <5>2. CASE Last.block \in program.indirect
          BY <2>1, <5>1, <5>2 DEF b
        <5>3. CASE Last.block \notin program.indirect
          <6>1. WithId = DOMAIN graph /\ exported = ExportedJumps \cup ExportedCalls
            BY <1>1, <3>1 DEF IdsInv, Begun, Selected
          <6>2. Last.block \in WithId
            BY <1>2, <6>1
          <6>3. <<bb_ids[Last.block], bb_ids[b], EDGE_INDIRECT>> \in ExportedCalls
            BY <1>1, <1>5, <5>1, <5>3, <6>2 DEF ExportedCalls, b
          <6>4. bb_ids[Last.block] \in hits'
            BY <1>2, <2>6, <6>2
          <6> QED
            BY <5>1, <6>1, <6>3, <6>4
        <5> QED
          BY <5>2, <5>3
      <4> QED
        BY <4>1, <4>2
    <3> QED
      BY <1>1, <1>4, <3>1 DEF CoverageIsInExportedGraph
  <2> QED
    BY <2>6, <2>7, <2>8, <2>9 DEF IInv
<1>6. CASE f \notin DOMAIN program.entry
  <2>1. stack' = Append(Outer, caller) /\ hits' = hits /\ called' = called
    BY <1>6 DEF Call, caller
  <2> HIDE DEF n
  <2>2. /\ stack' \in Seq(F) /\ Len(stack') = n
        /\ \A j \in 1 .. n - 1 : stack'[j] = stack[j]
        /\ stack'[n] = caller
    BY <1>2, <1>3, <2>1, AppendProperties
  <2>3. \A j \in 1 .. n : stack'[j].block = stack[j].block
    BY <1>2, <1>3, <2>2
  <2>4. GraphInv' /\ IdsInv' /\ WithId' = WithId
    BY <1>1, FixedParts DEF IdsInv, Begun
  <2>5. TypeOK'
    BY <1>1, <1>4, <2>1, <2>2, <2>4 DEF TypeOK, F, Edges
  <2>6. RunInv'
    <3>1. stack' # <<>>
      BY <1>2, <2>2
    <3> QED
      BY <1>1, <3>1 DEF RunInv, Begun
  <2>7. StackInv' /\ HitsInv' /\ LeftInv'
    <3>1. Len(stack') = Len(stack) /\ \A j \in 1 .. Len(stack) : stack'[j].block = stack[j].block
      BY <2>2, <2>3 DEF n
    <3> QED
      BY <1>1, <1>4, <2>1, <2>4, <3>1 DEF IInv, StackInv, HitsInv, LeftInv, Reached
  <2>8. ForcedInv' /\ CoverageIsInExportedGraph'
    BY <1>1, <1>4, <2>1, <2>4 DEF IInv, ForcedInv, CoverageIsInExportedGraph, Recovered, Edges
  <2> QED
    BY <2>4, <2>5, <2>6, <2>7, <2>8 DEF IInv
<1> QED
  BY <1>5, <1>6

\* The run takes an edge.  Without critical edges it is the only one into the block
\* that is entered, or the only one out of the block that is left, and Recovered
\* finds it.
LEMMA JumpStep ==
  ASSUME IInv, Jump
  PROVE  IInv'
<1> DEFINE F == [block : DOMAIN graph, called : BOOLEAN]
           u == Last.block
           n == Len(stack)
<1>1. PICK i \in DOMAIN graph[u] :
        /\ stack' = Append(Outer, Frame(graph[u][i]))
        /\ hits' = hits \cup Hit(graph[u][i])
        /\ taken' = taken \cup {<<u, i>>}
  BY DEF Jump
<1> DEFINE b == graph[u][i]
           e == <<u, i>>
<1>2. /\ TypeOK /\ GraphInv /\ IdsInv /\ pc = "run" /\ pc' = "run" /\ UNCHANGED fixed
      /\ exported' = exported /\ called' = called
      /\ program' = program /\ options' = options /\ graph' = graph /\ bb_ids' = bb_ids
  BY DEF IInv, Jump, fixed
<1>3. /\ n \in Nat /\ n > 0 /\ u \in DOMAIN graph /\ u = stack[n].block
      /\ Outer \in Seq(F) /\ Len(Outer) = n - 1
      /\ \A j \in 1 .. n - 1 : Outer[j] = stack[j]
      /\ Reached(u) /\ (u \in WithId => bb_ids[u] \in hits)
  BY <1>2, StackAfter
<1>4. /\ graph[u] \in Seq(DOMAIN graph) /\ i \in 1 .. Len(graph[u]) /\ Len(graph[u]) \in Nat
      /\ b \in DOMAIN graph
  BY <1>2, <1>3 DEF TypeOK
<1>5. e \in Edges(graph) /\ Target(graph, e) = b /\ e \in Preds(graph, b)
  <2>1. e \in Edges(graph)
    BY <1>2, <1>3, <1>4, EdgesOf DEF TypeOK
  <2> QED
    BY <2>1 DEF Target, Preds
<1>6. Frame(b) \in F /\ Frame(b).block = b
  BY <1>4 DEF Frame
<1> HIDE DEF F, u, b, e, n
<1>7. /\ stack' = Append(Outer, Frame(b)) /\ hits' = hits \cup Hit(b) /\ taken' = taken \cup {e}
      /\ e = <<u, i>>
  BY <1>1 DEF b, e
<1>8. /\ stack' \in Seq(F) /\ Len(stack') = n
      /\ \A j \in 1 .. n - 1 : stack'[j] = stack[j]
      /\ stack'[n].block = b
  BY <1>3, <1>6, <1>7, AppendProperties
<1>9. /\ TypeOK' /\ GraphInv' /\ IdsInv' /\ RunInv' /\ StackInv' /\ HitsInv'
      /\ hits \subseteq hits' /\ (b \in WithId => bb_ids[b] \in hits')
      /\ options.generation_strategy = "SEQUENTIAL" =>
           \A v \in WithId : bb_ids[v] \in hits' => bb_ids[v] \in hits \/ v = b
  <2>1. /\ called \subseteq called' /\ called' \subseteq DOMAIN program.callee
        /\ taken \subseteq taken' /\ taken' \subseteq Edges(graph)
    BY <1>2, <1>5, <1>7 DEF TypeOK
  <2>2. \A j \in 1 .. Len(stack') - 1 : j <= Len(stack) /\ stack'[j].block = stack[j].block
    BY <1>3, <1>8 DEF n
  <2>3. Len(stack') > 0 /\ stack'[Len(stack')].block = b
    BY <1>3, <1>8
  <2>4. Preds(graph, b) \cap taken' # {}
    BY <1>5, <1>7
  <2> QED
    BY <1>2, <1>4, <1>7, <1>8, <2>1, <2>2, <2>3, <2>4, EnterBlock DEF F, b
<1>10. LeftInv'
  <2>1. ASSUME options.generation_strategy = "SEQUENTIAL",
               NEW v \in DOMAIN graph, Len(graph[v]) = 1,
               (v \in WithId /\ bb_ids[v] \in hits') \/ Preds(graph, v) \cap taken' # {}
        PROVE  <<v, 1>> \in taken' \/ \E j \in 1 .. Len(stack') : stack'[j].block = v
    <3>1. CASE v = b
      BY <1>3, <1>8, <3>1
    <3>2. CASE v # b
      <4>1. e \notin Preds(graph, v)
        BY <1>5, <3>2 DEF Preds
      <4>2. <<v, 1>> \in taken \/ \E j \in 1 .. n : stack[j].block = v
        BY <1>7, <1>9, <2>1, <3>2, <4>1 DEF IInv, LeftInv, n
      <4>3. CASE <<v, 1>> \in taken
        BY <1>7, <4>3
      <4>4. ASSUME NEW j \in 1 .. n, stack[j].block = v
            PROVE  <<v, 1>> \in taken' \/ \E k \in 1 .. Len(stack') : stack'[k].block = v
        <5>1. CASE j = n
          <6>1. v = u /\ i = 1
            BY <1>3, <1>4, <2>1, <4>4, <5>1
          <6> QED
            BY <1>7, <6>1
        <5>2. CASE j # n
          BY <1>3, <1>8, <4>4, <5>2
        <5> QED
          BY <5>1, <5>2
      <4> QED
        BY <4>2, <4>3, <4>4
    <3> QED
      BY <3>1, <3>2
  <2> QED
    BY <1>2, <2>1 DEF LeftInv, WithId
<1>11. ForcedInv'
  <2>1. ASSUME options.path_splitting, options.selection_strategy = "NO_MULTIPLE_PRED",
               NEW S \in SUBSET Edges(graph), Recovered(S)'
        PROVE  taken' \subseteq S
    <3>1. /\ \A v \in WithId : bb_ids[v] \in hits' => Preds(graph, v) \subseteq S
          /\ \A w \in DOMAIN graph :
               /\ Len(graph[w]) = 1
               /\ (w \in WithId /\ bb_ids[w] \in hits') \/ Preds(graph, w) \cap S # {}
               => <<w, 1>> \in S
      BY <1>2, <2>1 DEF Recovered, WithId
    <3>2. taken \subseteq S
      BY <1>9, <2>1, <3>1 DEF IInv, ForcedInv, Recovered
    <3>3. WithId = Selected(graph) /\ (Len(graph[u]) = 1 \/ Preds(graph, b) = {e})
      BY <1>2, <1>5, <1>7, <2>1 DEF IdsInv, GraphInv
    <3>4. CASE Preds(graph, b) = {e}
      <4>1. b \in WithId
        BY <1>4, <2>1, <3>3, <3>4 DEF Selected, b
      <4> QED
        BY <1>7, <1>9, <3>1, <3>2, <3>4, <4>1
    <3>5. CASE Len(graph[u]) = 1
      <4>1. e = <<u, 1>>
        BY <1>4, <1>7, <3>5
      <4>2. CASE u \in WithId
        BY <1>3, <1>7, <1>9, <3>1, <3>2, <3>5, <4>1, <4>2
      <4>3. CASE u \notin WithId
        <5>1. Preds(graph, u) # {}
          BY <1>3, <2>1, <3>3, <4>3 DEF Selected
        <5>2. Preds(graph, u) \cap S # {}
          BY <1>3, <3>2, <5>1 DEF Reached
        <5> QED
          BY <1>3, <1>7, <3>1, <3>2, <3>5, <4>1, <5>2
      <4> QED
        BY <4>2, <4>3
    <3> QED
      BY <3>3, <3>4, <3>5
  <2>2. Edges(graph)' = Edges(graph)
    BY <1>2 DEF Edges
  <2> QED
    BY <1>2, <2>1, <2>2 DEF ForcedInv
<1>12. CoverageIsInExportedGraph'
  <2>1. ASSUME options.selection_strategy = "ALL", NEW h \in hits'
        PROVE  \/ h = bb_ids[program.entry["main"]]
               \/ \E v \in hits', type \in {EDGE_JMP, EDGE_INDIRECT} : <<v, h, type>> \in exported
               \/ \E c \in called \cap program.indirect : h = bb_ids[program.entry[program.callee[c]]]
    <3>1. CASE h \in hits
      BY <1>2, <1>9, <2>1, <3>1 DEF IInv, CoverageIsInExportedGraph
    <3>2. CASE h \notin hits
      <4>1. b \in WithId /\ h = bb_ids[b]
        BY <1>7, <2>1, <3>2 DEF Hit
      <4>2. u \in WithId /\ exported = ExportedJumps \cup ExportedCalls
        BY <1>2, <1>3, <2>1 DEF IdsInv, Begun, Selected
      <4>3. <<bb_ids[u], bb_ids[b], EDGE_JMP>> \in ExportedJumps
        <5>1. e[1] = u
          BY <1>7
        <5> QED
          BY <1>5, <4>1, <4>2, <5>1 DEF ExportedJumps
      <4> QED
        BY <1>3, <1>9, <4>1, <4>2, <4>3
    <3> QED
      BY <3>1, <3>2
  <2> QED
    BY <1>2, <2>1 DEF CoverageIsInExportedGraph
<1> QED
  BY <1>9, <1>10, <1>11, <1>12 DEF IInv

\* A call returns: its last block had no successor to go on to.
LEMMA ReturnStep ==
  ASSUME IInv, Return
  PROVE  IInv'
<1> DEFINE F == [block : DOMAIN graph, called : BOOLEAN]
           n == Len(stack)
<1>1. /\ TypeOK /\ GraphInv /\ IdsInv /\ pc = "run" /\ pc' \in {"run", "returned"}
      /\ UNCHANGED fixed
      /\ exported' = exported /\ called' = called /\ hits' = hits /\ taken' = taken
      /\ program' = program /\ options' = options /\ graph' = graph /\ bb_ids' = bb_ids
      /\ stack' = Outer /\ graph[Last.block] = <<>>
      /\ pc' = IF Outer = <<>> THEN "returned" ELSE "run"
  BY DEF IInv, Return, fixed
<1>2. /\ n \in Nat /\ n > 0 /\ Last = stack[n]
      /\ stack' \in Seq(F) /\ Len(stack') = n - 1
      /\ \A j \in 1 .. n - 1 : stack'[j] = stack[j]
  BY <1>1, StackAfter
<1> HIDE DEF F, n
<1>3. GraphInv' /\ IdsInv' /\ WithId' = WithId
  BY <1>1, FixedParts DEF IdsInv, Begun
<1>4. TypeOK'
  BY <1>1, <1>2, <1>3 DEF TypeOK, F, Edges
<1>5. RunInv'
  BY <1>1 DEF RunInv, Begun
<1>6. StackInv' /\ HitsInv'
  <2>1. \A j \in 1 .. Len(stack') : j \in 1 .. Len(stack) /\ stack'[j] = stack[j]
    BY <1>2 DEF n
  <2> QED
    BY <1>1, <1>3, <2>1 DEF IInv, StackInv, HitsInv, Reached
<1>7. LeftInv'
  <2>1. ASSUME options.generation_strategy = "SEQUENTIAL",
               NEW u \in DOMAIN graph, Len(graph[u]) = 1,
               (u \in WithId /\ bb_ids[u] \in hits) \/ Preds(graph, u) \cap taken # {}
        PROVE  <<u, 1>> \in taken \/ \E j \in 1 .. Len(stack') : stack'[j].block = u
    <3>1. <<u, 1>> \in taken \/ \E j \in 1 .. n : stack[j].block = u
      BY <2>1 DEF IInv, LeftInv, n
    <3>2. stack[n].block # u
      <4>1. SUFFICES ASSUME stack[n].block = u PROVE FALSE
        OBVIOUS
      <4>2. graph[u] = <<>>
        BY <1>1, <1>2, <4>1
      <4>3. Len(graph[u]) = 0
        BY <4>2
      <4> QED
        BY <2>1, <4>3
    <3> QED
      BY <1>2, <3>1, <3>2
  <2> QED
    BY <1>1, <1>3, <2>1 DEF LeftInv
<1>8. ForcedInv' /\ CoverageIsInExportedGraph'
  <2>1. Edges(graph)' = Edges(graph)
    BY <1>1 DEF Edges
  <2>2. ForcedInv'
    BY <1>1, <1>3, <2>1 DEF IInv, ForcedInv, Recovered
  <2>3. CoverageIsInExportedGraph'
    BY <1>1 DEF IInv, CoverageIsInExportedGraph
  <2> QED
    BY <2>2, <2>3
<1> QED
  BY <1>3, <1>4, <1>5, <1>6, <1>7, <1>8 DEF IInv

\* Steps that only end the program or the pass, and steps of nothing.
LEMMA EndStep ==
  ASSUME IInv, Exit \/ AssignerAborts \/ UNCHANGED vars
  PROVE  IInv'
<1>1. /\ program' = program /\ options' = options /\ graph' = graph /\ bb_ids' = bb_ids
      /\ exported' = exported /\ stack' = stack /\ hits' = hits
      /\ taken' = taken /\ called' = called
      /\ \/ pc' = pc
         \/ pc = "run" /\ pc' = "exited"
         \/ pc = "assign" /\ pc' = "aborted"
  BY DEF Exit, AssignerAborts, vars
<1>2. WithId' = WithId /\ Edges(graph)' = Edges(graph) /\ Selected(graph)' = Selected(graph)
      /\ ExportedJumps' = ExportedJumps /\ ExportedCalls' = ExportedCalls
  BY <1>1 DEF WithId, Edges, Selected, Preds, Target, ExportedJumps, ExportedCalls
<1>3. TypeOK'
  BY <1>1, <1>2 DEF IInv, TypeOK
<1>4. GraphInv' /\ RunInv'
  BY <1>1 DEF IInv, GraphInv, RunInv, Begun
<1>5. IdsInv'
  BY <1>1, <1>2 DEF IInv, IdsInv, Begun
<1>6. StackInv' /\ HitsInv' /\ LeftInv'
  BY <1>1, <1>2 DEF IInv, StackInv, HitsInv, LeftInv, Reached
<1>7. ForcedInv' /\ CoverageIsInExportedGraph'
  <2>1. CASE pc \in {"run", "returned", "exited", "export"}
    BY <1>1, <1>2, <2>1 DEF IInv, ForcedInv, CoverageIsInExportedGraph, Recovered
  <2>2. CASE pc \notin {"run", "returned", "exited", "export"}
    BY <1>1, <1>2, <2>2 DEF IInv, ForcedInv, CoverageIsInExportedGraph, Recovered
  <2> QED
    BY <2>1, <2>2
<1> QED
  BY <1>3, <1>4, <1>5, <1>6, <1>7 DEF IInv

\* The invariant always holds.
LEMMA Invariance == Spec => []IInv
<1>1. IInv /\ [Next]_vars => IInv'
  BY AssignIdsStep, ExportStep, CallStep, JumpStep, ReturnStep, EndStep DEF Next
<1> QED
  BY <1>1, InitIInv, PTL DEF Spec

-------------------------------------------------------------------------------
(* What follows. *)

\* Ids are below the size they are drawn from, and runs stay in the graph
\* (bb-id-assigner-pass.so.cc, cfg-exporter-pass.so.cc).
THEOREM TypeCorrect == Spec => []TypeOK
<1>1. IInv => TypeOK
  BY DEF IInv
<1> QED
  BY <1>1, Invariance, PTL

\* In any program, the instrumentation of blocks with one predecessor and split
\* edges is enough: what was hit determines which edges a run has taken.
THEOREM NodesDetermineEdgesAlways == Spec => []NodesDetermineEdges
<1>1. ASSUME IInv PROVE NodesDetermineEdges
  <2>1. SUFFICES ASSUME options.path_splitting,
                        options.selection_strategy = "NO_MULTIPLE_PRED",
                        options.generation_strategy = "SEQUENTIAL",
                        pc \in {"run", "returned", "exited"}
                 PROVE  /\ \A S \in SUBSET Edges(graph) : Recovered(S) => taken \subseteq S
                        /\ pc = "returned" => Recovered(taken)
    BY DEF NodesDetermineEdges
  <2>2. /\ \A S \in SUBSET Edges(graph) : Recovered(S) => taken \subseteq S
        /\ WithId = Selected(graph) /\ IsInjective(bb_ids)
    BY <1>1, <2>1 DEF IInv, ForcedInv, IdsInv
  <2>3. ASSUME pc = "returned" PROVE Recovered(taken)
    <3>1. ASSUME NEW v \in WithId, bb_ids[v] \in hits
          PROVE  Preds(graph, v) \subseteq taken
      <4>1. PICK b \in WithId : bb_ids[v] = bb_ids[b] /\ Reached(b)
        BY <1>1, <3>1 DEF IInv, HitsInv
      <4>2. b = v
        BY <2>2, <3>1, <4>1 DEF IsInjective, WithId
      <4>3. \A d, e \in Preds(graph, v) : d = e
        BY <2>1, <2>2, <3>1 DEF Selected
      <4> QED
        BY <4>1, <4>2, <4>3 DEF Reached
    <3>2. Len(stack) = 0
      BY <1>1, <2>3 DEF IInv, RunInv
    <3>3. ASSUME NEW u \in DOMAIN graph, Len(graph[u]) = 1,
                 (u \in WithId /\ bb_ids[u] \in hits) \/ Preds(graph, u) \cap taken # {}
          PROVE  <<u, 1>> \in taken
      BY <1>1, <2>1, <3>2, <3>3 DEF IInv, LeftInv
    <3> QED
      BY <3>1, <3>3 DEF Recovered
  <2> QED
    BY <2>2, <2>3
<1> QED
  BY <1>1, Invariance, PTL

\* In any program all of whose blocks have ids, what a run hits is a walk in the
\* exported graph, but for calls through pointers.
THEOREM CoverageIsInExportedGraphAlways == Spec => []CoverageIsInExportedGraph
<1>1. IInv => CoverageIsInExportedGraph
  BY DEF IInv
<1> QED
  BY <1>1, Invariance, PTL
===============================================================================
