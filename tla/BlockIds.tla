------------------------------- MODULE BlockIds -------------------------------
(***************************************************************************)
(* The graph of a program as the passes see it: the id assigner splits its *)
(* critical edges, selects the blocks that get an id and numbers them      *)
(* (bb-id-assigner-pass.so.cc), and the exporter writes down the jumps and *)
(* direct calls between them (cfg-exporter-pass.so.cc).  The program then  *)
(* runs, with NODE instrumentation and an update method that leaves no     *)
(* visited location at 0.                                                  *)
(***************************************************************************)
EXTENDS Integers, Sequences, FiniteSets, Functions

CONSTANTS
  Programs,    \* modules that may be compiled
  Options,     \* of the id assigner
  MaxDepth     \* bound: calls that are open at a time

\* succs: the successors in the terminator of each block, maybe the same twice.
\* entry: the first block of each function that has a body, callee: the function
\* that a block calls, and indirect: the blocks whose call is indirect.  No edge
\* leads to an entry, and blocks are not edges.
ASSUME ProgramAssumption ==
  \A p \in Programs :
    /\ p.succs \in [DOMAIN p.succs -> Seq(DOMAIN p.succs)]
    /\ \A b \in DOMAIN p.succs : b \notin (DOMAIN p.succs) \X Nat
    /\ "main" \in DOMAIN p.entry
    /\ p.entry \in [DOMAIN p.entry -> DOMAIN p.succs]
    /\ \A b \in DOMAIN p.succs : \A i \in DOMAIN p.succs[b] : \A f \in DOMAIN p.entry :
         p.succs[b][i] # p.entry[f]
    /\ DOMAIN p.callee \subseteq DOMAIN p.succs
    /\ p.indirect \subseteq DOMAIN p.callee
ASSUME OptionAssumption ==
  \A o \in Options : /\ o.path_splitting \in BOOLEAN
                     /\ o.selection_strategy \in {"ALL", "NO_MULTIPLE_PRED"}
                     /\ o.generation_strategy \in {"SEQUENTIAL", "RANDOM"}
                     /\ o.map_size \in Int
ASSUME DepthAssumption == MaxDepth \in Nat

VARIABLES
  program,    \* the module
  options,    \* of the assigner
  pc,         \* pass, or the state of the run
  graph,      \* successors of each block, after splitting
  bb_ids,     \* [selected blocks -> ids]
  exported,   \* edges <<u, v, type>> of the exported graph
  stack,      \* calls of the run, the innermost last: its block, and whether that has called
  hits,       \* locations of the bitmap that are not 0
  taken,      \* history: edges that the run took
  called      \* history: blocks that have called a function with a body

vars == <<program, options, pc, graph, bb_ids, exported, stack, hits, taken, called>>

EDGE_JMP == 0
EDGE_INDIRECT == 1

-------------------------------------------------------------------------------
(* Edges.  <<b, i>> is the i-th edge that leaves b. *)

Edges(g) == UNION {{b} \X (DOMAIN g[b]) : b \in DOMAIN g}
Target(g, e) == g[e[1]][e[2]]
Preds(g, v) == {e \in Edges(g) : Target(g, e) = v}

\* Mutant: a second edge from the same block does not count.
CriticalMerging(g) ==
  {e \in Edges(g) : Len(g[e[1]]) > 1 /\ \E d \in Preds(g, Target(g, e)) : d[1] # e[1]}

\* From a block with several successors to one with several predecessors.
Critical(g) ==
  {e \in Edges(g) : Len(g[e[1]]) > 1 /\ \E d \in Preds(g, Target(g, e)) : d # e}

\* A block on each critical edge, which gets the edge's name.
SplitAllCriticalEdges(g) ==
  [b \in DOMAIN g \cup Critical(g) |->
     IF b \in DOMAIN g
     THEN [i \in DOMAIN g[b] |-> IF <<b, i>> \in Critical(g) THEN <<b, i>> ELSE g[b][i]]
     ELSE <<Target(g, b)>>]

Selected(g) ==
  IF options.selection_strategy = "ALL" THEN DOMAIN g
  ELSE {v \in DOMAIN g : \A d, e \in Preds(g, v) : d = e}

-------------------------------------------------------------------------------
(* The passes. *)

\* Mutant: dist(0, map_size)
RandomBelowOrAt(n) == 0 .. n

\* std::uniform_int_distribution(0, map_size - 1)
RandomIds(n) == 0 .. n - 1

\* In the order of the layout, which the model leaves open, or at random.
Numberings(S) ==
  IF options.generation_strategy = "SEQUENTIAL"
  THEN {f \in [S -> 0 .. Cardinality(S) - 1] : IsInjective(f)}
  ELSE [S -> RandomIds(options.map_size)]

Init ==
  /\ program \in Programs
  /\ options \in Options
  /\ pc = "assign"
  /\ graph = program.succs
  /\ bb_ids = <<>>
  /\ exported = {}
  /\ stack = <<>>
  /\ hits = {}
  /\ taken = {} /\ called = {}

\* BBIDAssigner::run
AssignIds ==
  /\ pc = "assign"
  /\ options.generation_strategy = "RANDOM" => options.map_size >= 1
  /\ graph' = IF options.path_splitting THEN SplitAllCriticalEdges(graph) ELSE graph
  /\ bb_ids' \in Numberings(Selected(graph'))
  /\ pc' = "export"
  /\ UNCHANGED <<program, options, exported, stack, hits, taken, called>>

\* "Illegal environment variable"
AssignerAborts ==
  /\ pc = "assign"
  /\ options.generation_strategy = "RANDOM" /\ options.map_size < 1
  /\ pc' = "aborted"
  /\ UNCHANGED <<program, options, graph, bb_ids, exported, stack, hits, taken, called>>

WithId == DOMAIN bb_ids

\* Mutant: successors as they were before splitting.
UnsplitJumps ==
  {<<bb_ids[e[1]], bb_ids[Target(program.succs, e)], EDGE_JMP>> :
     e \in {d \in Edges(program.succs) : d[1] \in WithId /\ Target(program.succs, d) \in WithId}}

ExportedJumps ==
  {<<bb_ids[e[1]], bb_ids[Target(graph, e)], EDGE_JMP>> :
     e \in {d \in Edges(graph) : d[1] \in WithId /\ Target(graph, d) \in WithId}}

\* getCalledFunction() knows no indirect callee, and declarations are empty.
ExportedCalls ==
  {<<bb_ids[b], bb_ids[program.entry[program.callee[b]]], EDGE_INDIRECT>> :
     b \in {c \in WithId \cap (DOMAIN program.callee \ program.indirect) :
              /\ program.callee[c] \in DOMAIN program.entry
              /\ program.entry[program.callee[c]] \in WithId}}

\* Block b is entered: its instrumentation comes first.
Hit(b) == IF b \in WithId THEN {bb_ids[b]} ELSE {}
Frame(b) == [block |-> b, called |-> FALSE]

\* CFGExporter::run, and the start of the program.
Export ==
  /\ pc = "export"
  /\ exported' = ExportedJumps \cup ExportedCalls
  /\ pc' = "run"
  /\ stack' = <<Frame(program.entry["main"])>>
  /\ hits' = Hit(program.entry["main"])
  /\ UNCHANGED <<program, options, graph, bb_ids, taken, called>>

-------------------------------------------------------------------------------
(* The run. *)

Last == stack[Len(stack)]
Outer == SubSeq(stack, 1, Len(stack) - 1)

\* A block on a split edge has no call.
Calls == Last.block \in DOMAIN program.callee /\ ~Last.called

\* The call of a function without body returns at once.
Call ==
  /\ pc = "run" /\ Calls
  /\ LET f == program.callee[Last.block]
         caller == [Last EXCEPT !.called = TRUE]
     IN IF f \in DOMAIN program.entry
        THEN /\ Len(stack) <= MaxDepth
             /\ stack' = Outer \o <<caller, Frame(program.entry[f])>>
             /\ hits' = hits \cup Hit(program.entry[f])
             /\ called' = called \cup {Last.block}
        ELSE stack' = Append(Outer, caller) /\ UNCHANGED <<hits, called>>
  /\ UNCHANGED <<program, options, pc, graph, bb_ids, exported, taken>>

Jump ==
  /\ pc = "run" /\ ~Calls
  /\ \E i \in DOMAIN graph[Last.block] :
       LET next == graph[Last.block][i]
       IN /\ stack' = Append(Outer, Frame(next))
          /\ hits' = hits \cup Hit(next)
          /\ taken' = taken \cup {<<Last.block, i>>}
  /\ UNCHANGED <<program, options, pc, graph, bb_ids, exported, called>>

Return ==
  /\ pc = "run" /\ ~Calls
  /\ graph[Last.block] = <<>>
  /\ stack' = Outer
  /\ pc' = IF Outer = <<>> THEN "returned" ELSE "run"
  /\ UNCHANGED <<program, options, graph, bb_ids, exported, hits, taken, called>>

\* exit(), a signal, or the end of the time that the run has.
Exit ==
  /\ pc = "run"
  /\ pc' = "exited"
  /\ UNCHANGED <<program, options, graph, bb_ids, exported, stack, hits, taken, called>>

Next == AssignIds \/ AssignerAborts \/ Export \/ Call \/ Jump \/ Return \/ Exit

Spec == Init /\ [][Next]_vars

-------------------------------------------------------------------------------
(* Properties. *)

TypeOK ==
  /\ program \in Programs
  /\ options \in Options
  /\ pc \in {"assign", "export", "run", "returned", "exited", "aborted"}
  /\ graph \in [DOMAIN graph -> Seq(DOMAIN graph)]
  /\ WithId \subseteq DOMAIN graph
  /\ \A b \in WithId : bb_ids[b] \in Nat /\ (options.generation_strategy = "RANDOM"
                                               => bb_ids[b] < options.map_size)
  /\ exported \subseteq Nat \X Nat \X {EDGE_JMP, EDGE_INDIRECT}
  /\ stack \in Seq([block : DOMAIN graph, called : BOOLEAN])
  /\ hits \subseteq Range(bb_ids)
  /\ taken \subseteq Edges(graph)
  /\ called \subseteq DOMAIN program.callee

\* S has the only edge into each selected block that was hit, and the only edge
\* out of each block that was hit or that an edge of S leads to.
Recovered(S) ==
  /\ \A v \in WithId : bb_ids[v] \in hits => Preds(graph, v) \subseteq S
  /\ \A u \in DOMAIN graph :
       /\ Len(graph[u]) = 1
       /\ (u \in WithId /\ bb_ids[u] \in hits) \/ Preds(graph, u) \cap S # {}
       => <<u, 1>> \in S

\* What NO_MULTIPLE_PRED is for: with split critical edges and distinct ids, the
\* blocks that were hit determine the edges that were taken, though blocks with
\* several predecessors are not instrumented.  Any set that the rules of Recovered
\* allow holds the edges taken, also when the run was cut off, and the edges of a
\* run that returned are such a set, the least one.
NodesDetermineEdges ==
  /\ options.path_splitting
  /\ options.selection_strategy = "NO_MULTIPLE_PRED"
  /\ options.generation_strategy = "SEQUENTIAL"
  /\ pc \in {"run", "returned", "exited"}
  => /\ \A S \in SUBSET Edges(graph) : Recovered(S) => taken \subseteq S
     /\ pc = "returned" => Recovered(taken)

\* The bitmap of a run is a walk in the exported graph when all blocks have ids:
\* a location that is hit is the start of the program, or the target of an
\* exported edge from a location that is hit, or the entry of a function that
\* was called through a pointer.
CoverageIsInExportedGraph ==
  options.selection_strategy = "ALL" /\ pc \in {"run", "returned", "exited"} =>
    \A h \in hits :
      \/ h = bb_ids[program.entry["main"]]
      \/ \E u \in hits, type \in {EDGE_JMP, EDGE_INDIRECT} : <<u, h, type>> \in exported
      \/ \E b \in called \cap program.indirect : h = bb_ids[program.entry[program.callee[b]]]
===============================================================================
