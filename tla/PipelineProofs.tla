---------------------------- MODULE PipelineProofs ----------------------------
(***************************************************************************)
(* Proofs about Pipeline, for any sources, options and number of           *)
(* invocations.                                                            *)
(***************************************************************************)
EXTENDS Pipeline, SequenceTheorems, TLAPS

\* Options o load the bitmap pass at link time; and they load it at all.
AtLink(o) == o.bitmap_load_point = "FullLinkTimeOptimizationLast"
Counts(o) == \E i \in DOMAIN o.features : o.features[i] = "bitmap-feedback"

\* What is in no unit of a has not been instrumented, and the rest, by the bitmap
\* pass, once and at most once more for each time that it was compiled from IR.
Counted(o, a) ==
  \A s \in Sources :
    /\ s \notin a.units => a.hits[s] = 0 /\ a.ids[s] = {}
    /\ a.hits[s] <= 1 + a.again[s]
    /\ AtLink(o) => a.hits[s] <= 1
    /\ a.hits[s] > 0 => Counts(o)

\* The graphs of a have ids that its counters use.
Exported(a) ==
  \A e \in a.exported :
    /\ e.units \subseteq a.units
    /\ \A s \in e.units : e.ids \in a.ids[s] /\ (a.again[s] = 0 => a.ids[s] = {e.ids})

\* The sections of a are of the invocations that wrote it, or of the misnamed ones m.
Sectioned(m, a) == \A d \in a.metadata : d.invocation \in a.writers \cup m

\* What is true of every file, object and module.
Sound(o, m, a) == Counted(o, a) /\ Exported(a) /\ Sectioned(m, a)

\* Nothing has been instrumented.
Untouched(a) == \A s \in Sources : a.hits[s] = 0 /\ a.ids[s] = {}

\* Every unit of a has been instrumented.
Instrumented(a) == \A s \in a.units : a.hits[s] >= 1

\* No unit of a has been instrumented since it was last compiled.
Prepared(a) ==
  \A s \in a.units : a.hits[s] <= a.again[s] /\ (a.again[s] = 0 => a.ids[s] = {})

\* A file that is named for a source holds that source alone, and the bitmap pass has
\* run on it at compilation if it was to, and not otherwise.
UnitOf(o, m, a, s) ==
  /\ a.units = {s} /\ Sound(o, m, a) /\ a.type # "executable"
  /\ AtLink(o) => Untouched(a)
  /\ a.type # "ast" /\ Counts(o) /\ ~AtLink(o) /\ (\A f \in a.made : ~f.plain)
     => Instrumented(a)
  /\ a.type = "native" => \E f \in a.made : ~f.lto \/ f.plain

\* So does an object that the linker is given.
ObjectOf(o, m, a, s) == a.type \in {"bitcode", "native"} /\ UnitOf(o, m, a, s)

\* Every step of the build of a was to instrument it.
ToBeCounted(o, a) ==
  a.type = "executable" /\ Counts(o) /\ \A f \in a.made : ~f.plain /\ (f.lto \/ ~AtLink(o))

\* A program whose whole build was to instrument it is instrumented.
ProgramInv(o, a) == ToBeCounted(o, a) => Instrumented(a)

\* The files are sound, and those that are named for a source are of it.
FilesInv ==
  /\ \A p \in Paths : Sound(options, misnamed, files[p]) /\ ProgramInv(options, files[p])
  /\ \A s \in Sources : \A x \in Suffixes :
       files[<<s, x>>].type # "nothing" => UnitOf(options, misnamed, files[<<s, x>>], s)

\* An invocation that is under way has its arguments, what it has yet to read, and has
\* not failed.
InvocationInv ==
  /\ pc # "idle" => /\ cmd \in CommandLines /\ invocation > 0
                    /\ outcome[invocation] = "running" /\ error = "none"
                    /\ Misnamed(cmd) => invocation \in misnamed
  /\ pc # "idle" => \A x \in cmd.inputs :
       x[2] # "c" /\ (pc = "instrument" \/ x[1] \in todo) => files[x].type \in InputTypes[x[2]]
  /\ pc \notin {"idle", "instrument"} => Accepted
  /\ pc \in {"link", "lto"} => Links(cmd)
  /\ pc = "metadata" => instrumenting
  /\ pc = "passes" => Links(cmd) \/ cmd.output = NoPath \/ Single(CompiledIn(cmd))
  /\ pc = "passes" /\ ~HasModule => passes = {}

\* No unit is in two objects, and none is compiled twice.
ObjectsInv ==
  /\ \A a \in objects : \E s \in Sources : ObjectOf(options, misnamed, a, s)
  /\ \A a, b \in objects : a # b => a.units \cap b.units = {}
  /\ \A a \in objects : a.units \cap (todo \cup module.units) = {}
  /\ module.units \cap todo = {}
  /\ todo \subseteq CompiledIn(cmd)
  /\ pc \in {"idle", "instrument"} => todo = {} /\ objects = {}
  /\ pc \in {"link", "lto"} => todo = {}
  /\ pc = "lto" => \A a \in objects : a.type = "native"

\* Where the passes of the module are loaded.
Point == IF pc = "lto" THEN "FullLinkTimeOptimizationLast" ELSE "OptimizerLast"

\* The bitmap pass is before a module that nothing has been done to since it was
\* compiled, or behind it.
ModuleInv ==
  /\ pc \notin {"passes", "lto"} => module = Empty /\ passes = {} /\ bb_ids = NotCached
  /\ pc \in {"passes", "lto"} =>
       /\ passes \subseteq PassesAt(Point) /\ Sound(options, misnamed, module)
       /\ HasModule /\ "bitmap-feedback" \in PassesAt(Point) \ passes => Instrumented(module)
       /\ "bitmap-feedback" \in passes =>
            Prepared(module) /\ (AtLink(options) => Untouched(module))
       /\ bb_ids # NotCached =>
            \A s \in module.units :
              bb_ids \in module.ids[s] /\ (module.again[s] = 0 => module.ids[s] = {bb_ids})
       /\ "cfg-exporter" \in passes /\ "bitmap-feedback" \in PassesAt(Point) \ passes =>
            bb_ids # NotCached
  /\ pc = "passes" =>
       /\ \E s \in CompiledIn(cmd) : module.units = {s}
       /\ AtLink(options) => Untouched(module)
  /\ pc = "lto" =>
       /\ Counts(options) /\ ~AtLink(options) /\ (\A f \in module.made : ~f.plain)
          => Instrumented(module)

\* This invocation has written p.
Fresh(p) == files[p].by = invocation /\ invocation \in files[p].writers

\* A file of an invocation that reports success has its metadata.
Labelled(a, done) ==
  a.by \notin misnamed /\ done => \E d \in a.metadata : d.invocation = a.by

\* What an invocation has written is what its metadata is about, unless it is misnamed,
\* and what has been reported done has its metadata.
WrittenInv ==
  /\ \A p \in Paths : files[p].by <= invocation
  /\ \A p \in Paths :
       files[p].type \in {"native", "executable"} =>
         /\ files[p].by > 0
         /\ Labelled(files[p], outcome[files[p].by] = "done")
         /\ pc # "idle" /\ files[p].by = invocation =>
              p = put \/ cmd.verbose \/ Misnamed(cmd)
  /\ pc = "instrument" => \A p \in Paths : files[p].by < invocation
  /\ pc \in {"compile", "passes"} /\ ~Links(cmd) =>
       \A s \in CompiledIn(cmd) \ (todo \cup module.units) : \E p \in OutputsOf(s) : Fresh(p)
  /\ pc = "metadata" => Fresh(put) \/ Misnamed(cmd)

\* The inductive invariant.
IInv == TypeOK /\ FilesInv /\ InvocationInv /\ ObjectsInv /\ ModuleInv /\ WrittenInv

-------------------------------------------------------------------------------
(* Artifacts. *)

\* The fields of an artifact.
LEMMA Fields ==
  ASSUME NEW a \in Artifacts
  PROVE  /\ a.type \in Types /\ a.units \in SUBSET Sources /\ a.hits \in [Sources -> Nat]
         /\ a.again \in [Sources -> Nat] /\ a.ids \in [Sources -> SUBSET Results]
         /\ a.exported \in SUBSET [units : SUBSET Sources, ids : Results]
         /\ a.runtimes \in SUBSET Features /\ a.metadata \in SUBSET Metadata
         /\ a.by \in Nat /\ a.writers \in SUBSET Invocations
         /\ a.made \in SUBSET [lto : BOOLEAN, plain : BOOLEAN]
BY DEF Artifacts

\* Nothing has been made of nothing.
LEMMA EmptyIsSound ==
  ASSUME NEW o, NEW m
  PROVE  /\ Empty \in Artifacts /\ Sound(o, m, Empty) /\ ProgramInv(o, Empty)
         /\ Untouched(Empty) /\ Empty.type = "nothing" /\ Empty.units = {} /\ Empty.by = 0
<1>1. /\ Empty.type = "nothing" /\ Empty.units = {} /\ Empty.exported = {} /\ Empty.metadata = {}
      /\ Empty.by = 0
      /\ \A s \in Sources : Empty.hits[s] = 0 /\ Empty.again[s] = 0 /\ Empty.ids[s] = {}
  BY DEF Empty
<1>2. Empty \in Artifacts
  BY DEF Empty, Artifacts, Types
<1> QED
  BY <1>1, <1>2 DEF Sound, Counted, Exported, Sectioned, ProgramInv, ToBeCounted, Untouched

\* What is made of several artifacts, none of which has a unit of another.
LEMMA UnionFields ==
  ASSUME NEW S \in SUBSET Artifacts,
         \A a, b \in S : a # b => a.units \cap b.units = {}
  PROVE  /\ Union(S).type = "nothing" /\ Union(S).by = 0 /\ Union(S).runtimes = {}
         /\ Union(S).units = UNION {a.units : a \in S}
         /\ Union(S).exported = UNION {a.exported : a \in S}
         /\ Union(S).metadata = UNION {a.metadata : a \in S}
         /\ Union(S).writers = UNION {a.writers : a \in S}
         /\ Union(S).made = UNION {a.made : a \in S}
         /\ \A a \in S : \A s \in a.units : Union(S).hits[s] = a.hits[s]
         /\ \A a \in S : \A s \in a.units : Union(S).again[s] = a.again[s]
         /\ \A s \in Sources : s \notin Union(S).units =>
              Union(S).hits[s] = 0 /\ Union(S).again[s] = 0
         /\ \A s \in Sources : Union(S).ids[s] = UNION {a.ids[s] : a \in S}
         /\ Union(S).hits = [s \in Sources |-> Union(S).hits[s]]
         /\ Union(S).again = [s \in Sources |-> Union(S).again[s]]
         /\ Union(S).ids = [s \in Sources |-> Union(S).ids[s]]
         /\ Union(S).units \in SUBSET Sources /\ Union(S).hits \in [Sources -> Nat]
            /\ Union(S).again \in [Sources -> Nat] /\ Union(S).ids \in [Sources -> SUBSET Results]
            /\ Union(S).exported \in SUBSET [units : SUBSET Sources, ids : Results]
            /\ Union(S).metadata \in SUBSET Metadata /\ Union(S).writers \in SUBSET Invocations
            /\ Union(S).made \in SUBSET [lto : BOOLEAN, plain : BOOLEAN]
            => Union(S) \in Artifacts
<1> DEFINE units == UNION {a.units : a \in S}
           owner(s) == CHOOSE a \in S : s \in a.units
           hits == [s \in Sources |-> IF \E a \in S : s \in a.units THEN owner(s).hits[s] ELSE 0]
           again == [s \in Sources |-> IF \E a \in S : s \in a.units
                                       THEN owner(s).again[s] ELSE 0]
           ids == [s \in Sources |-> UNION {a.ids[s] : a \in S}]
           exported == UNION {a.exported : a \in S}
           metadata == UNION {a.metadata : a \in S}
           writers == UNION {a.writers : a \in S}
           made == UNION {a.made : a \in S}
<1>1. Union(S) = [Empty EXCEPT !.units = units, !.hits = hits, !.again = again, !.ids = ids,
                               !.exported = exported, !.metadata = metadata,
                               !.writers = writers, !.made = made]
  BY Zenon DEF Union
<1>2. ASSUME NEW a \in S, NEW s \in a.units
      PROVE  s \in Sources /\ hits[s] = a.hits[s] /\ again[s] = a.again[s]
  <2>1. s \in Sources
    BY Fields
  <2>2. owner(s) \in S /\ s \in owner(s).units
    OBVIOUS
  <2>3. owner(s) = a
    BY <2>2
  <2> QED
    BY <2>1, <2>3
<1>3. \A s \in Sources : s \notin units => hits[s] = 0 /\ again[s] = 0
  OBVIOUS
<1>4. \A s \in Sources : ids[s] = UNION {a.ids[s] : a \in S}
  OBVIOUS
<1>5. /\ hits = [s \in Sources |-> hits[s]] /\ again = [s \in Sources |-> again[s]]
      /\ ids = [s \in Sources |-> ids[s]]
  OBVIOUS
<1> HIDE DEF units, hits, again, ids, exported, metadata, writers, made
<1>6. /\ Union(S).type = "nothing" /\ Union(S).by = 0 /\ Union(S).runtimes = {}
      /\ Union(S).units = units /\ Union(S).hits = hits
      /\ Union(S).again = again /\ Union(S).ids = ids /\ Union(S).exported = exported /\ Union(S).metadata = metadata
      /\ Union(S).writers = writers /\ Union(S).made = made
      /\ units \in SUBSET Sources /\ hits \in [Sources -> Nat]
         /\ again \in [Sources -> Nat] /\ ids \in [Sources -> SUBSET Results]
         /\ exported \in SUBSET [units : SUBSET Sources, ids : Results]
         /\ metadata \in SUBSET Metadata /\ writers \in SUBSET Invocations
         /\ made \in SUBSET [lto : BOOLEAN, plain : BOOLEAN]
         => Union(S) \in Artifacts
  <2>1. Empty \in Artifacts
    BY EmptyIsSound
  <2>2. units \in SUBSET Sources /\ hits \in [Sources -> Nat]
        /\ again \in [Sources -> Nat] /\ ids \in [Sources -> SUBSET Results]
        /\ exported \in SUBSET [units : SUBSET Sources, ids : Results]
        /\ metadata \in SUBSET Metadata /\ writers \in SUBSET Invocations
        /\ made \in SUBSET [lto : BOOLEAN, plain : BOOLEAN]
        => Union(S) \in Artifacts
    BY <1>1, <2>1 DEF Artifacts
  <2>3. /\ Union(S).type = "nothing" /\ Union(S).by = 0 /\ Union(S).runtimes = {}
        /\ Union(S).units = units /\ Union(S).hits = hits
        /\ Union(S).again = again /\ Union(S).ids = ids /\ Union(S).exported = exported /\ Union(S).metadata = metadata
        /\ Union(S).writers = writers /\ Union(S).made = made
    BY <1>1 DEF Empty
  <2> QED
    BY <2>2, <2>3
<1>7. /\ \A a \in S : \A s \in a.units : Union(S).hits[s] = a.hits[s]
      /\ \A a \in S : \A s \in a.units : Union(S).again[s] = a.again[s]
      /\ \A s \in Sources : s \notin Union(S).units =>
           Union(S).hits[s] = 0 /\ Union(S).again[s] = 0
      /\ \A s \in Sources : Union(S).ids[s] = UNION {a.ids[s] : a \in S}
  BY <1>2, <1>3, <1>4, <1>6
<1>8. /\ Union(S).hits = [s \in Sources |-> Union(S).hits[s]]
      /\ Union(S).again = [s \in Sources |-> Union(S).again[s]]
      /\ Union(S).ids = [s \in Sources |-> Union(S).ids[s]]
  BY <1>5, <1>6
<1>9. /\ Union(S).units = UNION {a.units : a \in S}
      /\ Union(S).exported = UNION {a.exported : a \in S}
      /\ Union(S).metadata = UNION {a.metadata : a \in S}
      /\ Union(S).writers = UNION {a.writers : a \in S}
      /\ Union(S).made = UNION {a.made : a \in S}
  BY <1>6 DEF units, exported, metadata, writers, made
<1> QED
  BY <1>6, <1>7, <1>8, <1>9

\* It is as sound as they are.
LEMMA UnionIsSound ==
  ASSUME NEW o, NEW m, NEW S \in SUBSET Artifacts,
         \A a, b \in S : a # b => a.units \cap b.units = {},
         \A a \in S : Sound(o, m, a)
  PROVE  Union(S) \in Artifacts /\ Sound(o, m, Union(S))
<1> DEFINE u == Union(S)
<1>1. /\ u.units = UNION {a.units : a \in S}
      /\ u.exported = UNION {a.exported : a \in S}
      /\ u.metadata = UNION {a.metadata : a \in S}
      /\ u.writers = UNION {a.writers : a \in S}
      /\ u.made = UNION {a.made : a \in S}
      /\ \A a \in S : \A s \in a.units : u.hits[s] = a.hits[s]
      /\ \A a \in S : \A s \in a.units : u.again[s] = a.again[s]
      /\ \A s \in Sources : s \notin u.units => u.hits[s] = 0 /\ u.again[s] = 0
      /\ \A s \in Sources : u.ids[s] = UNION {a.ids[s] : a \in S}
  BY UnionFields
<1>2. /\ u.hits = [s \in Sources |-> u.hits[s]] /\ u.ids = [s \in Sources |-> u.ids[s]]
      /\ u.again = [s \in Sources |-> u.again[s]]
      /\ u.units \in SUBSET Sources /\ u.hits \in [Sources -> Nat]
         /\ u.again \in [Sources -> Nat] /\ u.ids \in [Sources -> SUBSET Results]
         /\ u.exported \in SUBSET [units : SUBSET Sources, ids : Results]
         /\ u.metadata \in SUBSET Metadata /\ u.writers \in SUBSET Invocations
         /\ u.made \in SUBSET [lto : BOOLEAN, plain : BOOLEAN]
         => u \in Artifacts
  BY UnionFields
<1> HIDE DEF u
<1>3. \A s \in Sources : /\ u.hits[s] \in Nat /\ u.again[s] \in Nat
                         /\ u.ids[s] \in SUBSET Results
  <2>1. ASSUME NEW s \in Sources PROVE u.hits[s] \in Nat /\ u.again[s] \in Nat
    <3>1. CASE s \in u.units
      <4>1. PICK a \in S : s \in a.units
        BY <1>1, <3>1
      <4> QED
        BY <1>1, <4>1, Fields
    <3> QED
      BY <1>1, <3>1
  <2>2. ASSUME NEW s \in Sources PROVE u.ids[s] \in SUBSET Results
    <3>1. \A a \in S : a.ids[s] \in SUBSET Results
      BY Fields
    <3> QED
      BY <1>1, <3>1
  <2> QED
    BY <2>1, <2>2
<1>4. u \in Artifacts
  <2>1. /\ u.hits \in [Sources -> Nat] /\ u.again \in [Sources -> Nat]
        /\ u.ids \in [Sources -> SUBSET Results]
    BY <1>2, <1>3
  <2>2. u.units \in SUBSET Sources
    BY <1>1, Fields
  <2>3. u.exported \in SUBSET [units : SUBSET Sources, ids : Results]
    BY <1>1, Fields
  <2>4. u.metadata \in SUBSET Metadata
    BY <1>1, Fields
  <2>5. u.writers \in SUBSET Invocations
    BY <1>1, Fields
  <2>6. u.made \in SUBSET [lto : BOOLEAN, plain : BOOLEAN]
    BY <1>1, Fields
  <2> QED
    BY <1>2, <2>1, <2>2, <2>3, <2>4, <2>5, <2>6
<1>5. Counted(o, u)
  <2> SUFFICES ASSUME NEW s \in Sources
               PROVE  /\ s \notin u.units => u.hits[s] = 0 /\ u.ids[s] = {}
                      /\ u.hits[s] <= 1 + u.again[s] /\ (AtLink(o) => u.hits[s] <= 1)
                      /\ u.hits[s] > 0 => Counts(o)
    BY DEF Counted
  <2>1. CASE s \in u.units
    <3>1. PICK a \in S : s \in a.units
      BY <1>1, <2>1
    <3>2. u.hits[s] = a.hits[s] /\ u.again[s] = a.again[s] /\ Counted(o, a)
      BY <1>1, <3>1 DEF Sound
    <3> QED
      BY <2>1, <3>2 DEF Counted
  <2>2. CASE s \notin u.units
    <3>1. \A a \in S : s \notin a.units /\ Counted(o, a)
      BY <1>1, <2>2 DEF Sound
    <3>2. \A a \in S : a.ids[s] = {}
      BY <3>1 DEF Counted
    <3>3. u.ids[s] = {}
      BY <1>1, <3>2
    <3>4. u.hits[s] = 0 /\ u.again[s] = 0
      BY <1>1, <2>2
    <3> QED
      BY <3>3, <3>4
  <2> QED
    BY <2>1, <2>2
<1>6. Exported(u)
  <2> SUFFICES ASSUME NEW e \in u.exported
               PROVE  /\ e.units \subseteq u.units
                      /\ \A s \in e.units :
                           e.ids \in u.ids[s] /\ (u.again[s] = 0 => u.ids[s] = {e.ids})
    BY DEF Exported
  <2>1. PICK a \in S : e \in a.exported
    BY <1>1
  <2>2. /\ e.units \subseteq a.units
        /\ \A s \in e.units : e.ids \in a.ids[s] /\ (a.again[s] = 0 => a.ids[s] = {e.ids})
    BY <2>1 DEF Sound, Exported
  <2>3. a.units \subseteq u.units /\ a.units \subseteq Sources
    BY <1>1, Fields
  <2>4. ASSUME NEW s \in e.units
        PROVE  e.ids \in u.ids[s] /\ (u.again[s] = 0 => u.ids[s] = {e.ids})
    <3>1. s \in Sources /\ s \in a.units /\ u.again[s] = a.again[s]
      BY <1>1, <2>2, <2>3
    <3>2. ASSUME NEW b \in S, b # a PROVE b.ids[s] = {}
      <4>1. s \notin b.units
        BY <3>1, <3>2
      <4> QED
        BY <3>1, <4>1 DEF Sound, Counted
    <3>3. UNION {b.ids[s] : b \in S} = a.ids[s]
      BY <3>2
    <3> QED
      BY <1>1, <2>2, <3>1, <3>3
  <2> QED
    BY <2>2, <2>3, <2>4
<1>7. Sectioned(m, u)
  <2> SUFFICES ASSUME NEW d \in u.metadata
               PROVE  d.invocation \in u.writers \cup m
    BY DEF Sectioned
  <2>1. PICK a \in S : d \in a.metadata
    BY <1>1
  <2>2. d.invocation \in a.writers \cup m
    BY <2>1 DEF Sound, Sectioned
  <2> QED
    BY <1>1, <2>2
<1> QED
  BY <1>4, <1>5, <1>6, <1>7 DEF Sound, u

-------------------------------------------------------------------------------
(* Types, paths and commands. *)

\* The parts of the types.
LEMMA Types1 ==
  ASSUME TypeOK
  PROVE  /\ options \in Options /\ files \in [Paths -> Artifacts]
         /\ outcome \in Seq({"running", "done", "plain", "failed"})
         /\ Len(outcome) <= MaxInvocations /\ invocation \in Nat
         /\ cmd \in CommandLines \cup {NoCommand} /\ todo \in SUBSET Sources
         /\ objects \in SUBSET Artifacts /\ module \in Artifacts
         /\ passes \in SUBSET {"bitmap-feedback", "cfg-exporter"}
         /\ bb_ids \in Results \cup {NotCached}
BY DEF TypeOK, invocation

\* The paths of outputs and programs are all different.
LEMMA PathsDiffer ==
  /\ AOut \in Paths /\ Prog \in Paths /\ Prog # NoPath
  /\ \A s \in Sources : Object(s) = <<s, "o">>
  /\ \A s \in Sources : \A x \in Suffixes :
       /\ <<s, x>> \in Paths /\ <<s, x>> # AOut /\ <<s, x>> # Prog
       /\ <<s, x>> # NoPath /\ <<s, x>> # Missing /\ <<s, x>>[1] = s
       /\ \A t \in Sources : \A y \in Suffixes : <<s, x>> = <<t, y>> => s = t /\ x = y
BY DEF Paths, Outputs, Suffixes, Object, AOut, Prog, NoPath, Missing

\* A value that is missing is none of them.
LEMMA MissingIsNoPath == \A p \in Paths : p # Missing
<1>1. \A s \in Sources : \A x \in Suffixes : <<s, x>> # Missing
  BY PathsDiffer
<1>2. AOut # Missing /\ Prog # Missing
  BY DEF AOut, Prog, Missing
<1> QED
  BY <1>1, <1>2 DEF Paths, Outputs

\* The parts of a command.
LEMMA CommandShape ==
  ASSUME NEW c \in CommandLines
  PROVE  /\ c.mode \in {"link", "-c", "-S"} /\ c.emit \in {"code", "llvm", "ast"}
         /\ c.inputs \in SUBSET (Sources \X {"c", "o", "bc", "ll"}) /\ c.inputs # {}
         /\ \A x, y \in c.inputs : x[1] = y[1] => x = y
         /\ ~Links(c) => \A x \in c.inputs : x[2] # "o"
         /\ c.output \in Paths \cup {NoPath} /\ c.separate \in Paths \cup {NoPath, Missing}
         /\ c.separate # NoPath => (c.separate = Missing <=> c.output = NoPath)
         /\ c.verbose \in BOOLEAN /\ c.lto \in BOOLEAN /\ c.linking \in {"auto", "yes", "no"}
BY CommandAssumption DEF Commands

\* What -o names is named for the link or for a source.
LEMMA NamesAre ==
  ASSUME NEW c \in CommandLines, NEW f \in {c.output, c.separate}, f # NoPath, f # Missing
  PROVE  IF Links(c) THEN f = Prog
         ELSE \E x \in c.inputs : \E y \in SuffixesOf(c) : f = <<x[1], y>>
BY CommandAssumption

\* The suffixes of a command are among those there are, and one when an object or
\* assembly is written.
LEMMA SuffixesAre ==
  ASSUME NEW c \in CommandLines
  PROVE  /\ SuffixesOf(c) \subseteq Suffixes /\ SuffixesOf(c) # {}
         /\ c.emit = "code" /\ c.mode = "-c" => SuffixesOf(c) = {"o"}
BY CommandShape DEF SuffixesOf, Suffixes

\* An input that is not an object is compiled.
LEMMA InputsAre ==
  ASSUME NEW c \in CommandLines, NEW x \in c.inputs
  PROVE  /\ x[1] \in Sources /\ x[2] \in {"c", "o", "bc", "ll"} /\ x = <<x[1], x[2]>>
         /\ x[2] # "o" => x[1] \in CompiledIn(c)
<1>1. x \in Sources \X {"c", "o", "bc", "ll"}
  BY CommandShape
<1>2. x[1] \in Sources /\ x[2] \in {"c", "o", "bc", "ll"} /\ x = <<x[1], x[2]>>
  BY <1>1
<1> QED
  BY <1>2 DEF CompiledIn

\* Without linking there is something to compile.
LEMMA SourcesToCompile ==
  ASSUME NEW c \in CommandLines
  PROVE  /\ CompiledIn(c) \subseteq Sources /\ SourcesIn(c) \subseteq CompiledIn(c)
         /\ ~Links(c) => CompiledIn(c) # {} /\ \A x \in c.inputs : x[1] \in CompiledIn(c)
<1>1. CompiledIn(c) \subseteq Sources /\ SourcesIn(c) \subseteq CompiledIn(c)
  BY DEF CompiledIn, SourcesIn
<1>2. ~Links(c) => \A x \in c.inputs : x[1] \in CompiledIn(c)
  BY CommandShape, InputsAre
<1> QED
  BY <1>1, <1>2, CommandShape

\* Clang writes to paths, and without linking to one that is named for the source.
LEMMA OutputsArePaths ==
  ASSUME cmd \in CommandLines, NEW s \in Sources,
         Links(cmd) \/ cmd.output = NoPath \/ CompiledIn(cmd) = {s}
  PROVE  ~Links(cmd) => \A p \in OutputsOf(s) : p \in Paths /\ \E x \in Suffixes : p = <<s, x>>
<1> SUFFICES ASSUME ~Links(cmd), NEW p \in OutputsOf(s)
             PROVE  p \in Paths /\ \E x \in Suffixes : p = <<s, x>>
  OBVIOUS
<1>1. \E x \in SuffixesOf(cmd) : p = <<s, x>>
  <2>1. CASE cmd.output = NoPath
    BY <2>1 DEF OutputsOf
  <2>2. CASE cmd.output # NoPath
    <3>1. p = cmd.output /\ cmd.output \in Paths
      BY <2>2, CommandShape DEF OutputsOf
    <3>2. cmd.output # Missing
      BY <3>1, MissingIsNoPath
    <3>3. PICK x \in cmd.inputs : \E y \in SuffixesOf(cmd) : cmd.output = <<x[1], y>>
      BY <2>2, <3>2, NamesAre
    <3>4. x[1] = s
      BY <2>2, SourcesToCompile
    <3> QED
      BY <3>1, <3>3, <3>4
  <2> QED
    BY <2>1, <2>2
<1> QED
  BY <1>1, SuffixesAre, PathsDiffer

\* The driver takes a path for the output.
LEMMA PutIsPath ==
  ASSUME cmd \in CommandLines, Accepted, ~cmd.verbose
  PROVE  put \in Paths
<1>1. CASE cmd.separate # NoPath
  <2>1. put = cmd.separate
    BY <1>1 DEF put
  <2>2. cmd.separate # Missing
    BY DEF Accepted
  <2> QED
    BY <1>1, <2>1, <2>2, CommandShape
<1>2. CASE cmd.separate = NoPath /\ cmd.mode = "-c"
  <2>1. PICK s \in SourcesIn(cmd) : s = CHOOSE u \in SourcesIn(cmd) : TRUE
    BY <1>2 DEF Accepted, Single
  <2>2. put = Object(s) /\ s \in Sources
    BY <1>2, <2>1, SourcesToCompile DEF put
  <2>3. "o" \in Suffixes
    BY DEF Suffixes
  <2>4. <<s, "o">> \in Paths /\ Object(s) = <<s, "o">>
    BY <2>2, <2>3, PathsDiffer
  <2> QED
    BY <2>2, <2>4
<1>3. CASE cmd.separate = NoPath /\ cmd.mode # "-c"
  BY <1>3, PathsDiffer DEF put
<1> QED
  BY <1>1, <1>2, <1>3

\* It is what clang writes, unless the command line is misnamed.
LEMMA PutIsOutput ==
  ASSUME cmd \in CommandLines, Accepted, ~cmd.verbose, ~Misnamed(cmd)
  PROVE  /\ Links(cmd) => put = IF cmd.output # NoPath THEN cmd.output ELSE AOut
         /\ ~Links(cmd) => \A s \in CompiledIn(cmd) : OutputsOf(s) = {put}
<1>1. CASE cmd.separate # NoPath
  <2>1. cmd.output = cmd.separate /\ put = cmd.output
    BY <1>1 DEF Misnamed, put
  <2> QED
    BY <1>1, <2>1 DEF OutputsOf
<1>2. CASE cmd.separate = NoPath
  <2>1. /\ cmd.output = NoPath /\ cmd.mode # "-S" /\ cmd.emit = "code"
        /\ cmd.mode = "-c" => CompiledIn(cmd) = SourcesIn(cmd)
    BY <1>2 DEF Misnamed
  <2>2. CASE Links(cmd)
    BY <1>2, <2>1, <2>2 DEF Links, put
  <2>3. CASE ~Links(cmd)
    <3>1. cmd.mode = "-c"
      BY <2>1, <2>3, CommandShape DEF Links
    <3>2. Single(SourcesIn(cmd))
      BY <1>2, <3>1 DEF Accepted
    <3>3. ASSUME NEW s \in CompiledIn(cmd) PROVE OutputsOf(s) = {put}
      <4>1. SourcesIn(cmd) = {s}
        BY <2>1, <3>1, <3>2, <3>3 DEF Single
      <4>2. put = Object(s)
        BY <1>2, <3>1, <4>1 DEF put
      <4>3. OutputsOf(s) = {<<s, "o">>}
        BY <2>1, <3>1, SuffixesAre DEF OutputsOf
      <4> QED
        BY <4>2, <4>3 DEF Object
    <3> QED
      BY <2>3, <3>3
  <2> QED
    BY <2>2, <2>3
<1> QED
  BY <1>1, <1>2

\* An invocation that is under way is one of those that are counted.
LEMMA Running ==
  ASSUME TypeOK, InvocationInv, pc # "idle"
  PROVE  /\ invocation \in Invocations /\ invocation \in Nat /\ invocation > 0
         /\ cmd \in CommandLines /\ outcome[invocation] = "running" /\ error = "none"
         /\ invocation = Len(outcome)
<1>1. invocation > 0 /\ cmd \in CommandLines /\ outcome[invocation] = "running" /\ error = "none"
  BY DEF InvocationInv
<1>2. invocation \in Nat /\ invocation <= MaxInvocations /\ invocation = Len(outcome)
  BY Types1 DEF invocation
<1> QED
  BY <1>1, <1>2, InvocationAssumption DEF Invocations

\* An invocation ends.
LEMMA EndStep ==
  ASSUME IInv, pc # "idle", NEW how \in {"done", "plain", "failed"}, End(how),
         error' \in Failures \cup {"none"}, files' \in [Paths -> Artifacts], FilesInv',
         \A p \in Paths : files'[p].by <= invocation,
         \A p \in Paths : files'[p].type \in {"native", "executable"} =>
           /\ files'[p].by > 0
           /\ Labelled(files'[p], IF files'[p].by = invocation THEN how = "done"
                                  ELSE outcome[files'[p].by] = "done")
  PROVE  IInv'
<1>1. TypeOK /\ InvocationInv
  BY DEF IInv
<1>2. /\ outcome' = [outcome EXCEPT ![invocation] = how] /\ pc' = "idle" /\ cmd' = NoCommand
      /\ todo' = {} /\ objects' = {} /\ module' = Empty /\ passes' = {} /\ bb_ids' = NotCached
      /\ options' = options /\ misnamed' = misnamed
  BY DEF End
<1>3. /\ outcome' \in Seq({"running", "done", "plain", "failed"}) /\ Len(outcome') = Len(outcome)
      /\ \A i \in 1 .. Len(outcome) : outcome'[i] = IF i = invocation THEN how ELSE outcome[i]
  <2>1. outcome \in Seq({"running", "done", "plain", "failed"}) /\ invocation \in 1 .. Len(outcome)
    BY <1>1, Types1, Running
  <2>2. how \in {"running", "done", "plain", "failed"}
    OBVIOUS
  <2> QED
    BY <1>2, <2>1, <2>2, ExceptSeq
<1>4. invocation' = invocation /\ invocation \in Nat /\ invocation = Len(outcome)
  BY <1>1, <1>3, Running DEF invocation
<1>5. TypeOK'
  <2>1. Empty \in Artifacts
    BY EmptyIsSound
  <2> QED
    BY <1>1, <1>2, <1>3, <2>1 DEF TypeOK
<1>6. InvocationInv'
  BY <1>2 DEF InvocationInv
<1>7. ObjectsInv' /\ ModuleInv'
  <2>1. Empty.units = {}
    BY EmptyIsSound
  <2> QED
    BY <1>2, <2>1 DEF ObjectsInv, ModuleInv
<1>8. WrittenInv'
  <2>1. ASSUME NEW p \in Paths, files'[p].type \in {"native", "executable"}
        PROVE  /\ files'[p].by > 0
               /\ files'[p].by \notin misnamed' /\ outcome'[files'[p].by] = "done" =>
                    \E d \in files'[p].metadata : d.invocation = files'[p].by
    <3>1. files'[p].by \in 1 .. Len(outcome)
      BY <1>4, <2>1, Fields
    <3> QED
      BY <1>2, <1>3, <2>1, <3>1 DEF Labelled
  <2> QED
    BY <1>2, <1>4, <2>1 DEF WrittenInv, Labelled
<1> QED
  BY <1>5, <1>6, <1>7, <1>8 DEF IInv

-------------------------------------------------------------------------------
(* The start of a build and of an invocation, and its failure. *)

\* What follows from the options and the command alone stays with them.
LEMMA SameBuild ==
  ASSUME UNCHANGED <<options, cmd>>
  PROVE  /\ \A point : PassesAt(point)' = PassesAt(point) /\ PluginsAt(point)' = PluginsAt(point)
         /\ put' = put /\ (\A s : OutputsOf(s)' = OutputsOf(s)) /\ Flags' = Flags
         /\ HasModule' = HasModule /\ Refused' = Refused /\ lto' = lto /\ linking' = linking /\ instrumenting' = instrumenting
         /\ Accepted' = Accepted /\ RuntimesLinked' = RuntimesLinked
<1>1. \A f : Enabled(f)' = Enabled(f)
  BY DEF Enabled
<1>2. instrumenting' = instrumenting /\ lto' = lto /\ linking' = linking
  BY DEF instrumenting, lto, linking
<1>3. \A point : PluginsAt(point)' = PluginsAt(point)
  BY <1>1, <1>2 DEF PluginsAt, BitmapLoadedAt, ExporterLoadedAt
<1>4. \A point : PassesAt(point)' = PassesAt(point)
  BY <1>3 DEF PassesAt
<1>5. /\ put' = put /\ (\A s : OutputsOf(s)' = OutputsOf(s)) /\ Flags' = Flags
      /\ HasModule' = HasModule /\ Refused' = Refused
  BY DEF put, OutputsOf, Flags, HasModule, Refused
<1>6. Accepted' = Accepted
  BY DEF Accepted, all_path_exists
<1>7. RuntimesLinked' = RuntimesLinked
  BY <1>1, <1>2 DEF RuntimesLinked
<1> QED
  BY <1>2, <1>3, <1>4, <1>5, <1>6, <1>7

\* The invariant holds before the first invocation.
LEMMA InitIInv == Init => IInv
<1> SUFFICES ASSUME Init PROVE IInv
  OBVIOUS
<1>1. /\ options \in Options /\ files = [p \in Paths |-> Empty] /\ outcome = <<>>
      /\ error = "none" /\ misnamed = {} /\ pc = "idle" /\ cmd = NoCommand /\ todo = {} /\ objects = {}
      /\ module = Empty /\ passes = {} /\ bb_ids = NotCached
  BY DEF Init
<1>2. \A p \in Paths : files[p] = Empty
  BY <1>1
<1>3. /\ Empty \in Artifacts /\ Empty.type = "nothing" /\ Empty.units = {} /\ Empty.by = 0
      /\ \A o, m : Sound(o, m, Empty) /\ ProgramInv(o, Empty)
  BY EmptyIsSound
<1>4. TypeOK
  <2>1. <<>> \in Seq({"running", "done", "plain", "failed"}) /\ Len(<<>>) <= MaxInvocations
    BY InvocationAssumption
  <2>2. files \in [Paths -> Artifacts]
    BY <1>1, <1>3
  <2> QED
    BY <1>1, <1>3, <2>1, <2>2 DEF TypeOK
<1>5. FilesInv
  BY <1>2, <1>3, PathsDiffer DEF FilesInv
<1>6. InvocationInv
  BY <1>1 DEF InvocationInv
<1>7. ObjectsInv /\ ModuleInv
  BY <1>1, <1>3 DEF ObjectsInv, ModuleInv
<1>8. WrittenInv
  BY <1>1, <1>2, <1>3 DEF WrittenInv, invocation
<1> QED
  BY <1>4, <1>5, <1>6, <1>7, <1>8 DEF IInv

\* The files stay what they are.
LEMMA SameFiles ==
  ASSUME FilesInv, UNCHANGED <<options, misnamed, files>>
  PROVE  FilesInv'
BY DEF FilesInv

\* An invocation fails, and has written what it had.
LEMMA FailStep ==
  ASSUME IInv, pc # "idle", NEW why \in Failures, Fail(why)
  PROVE  IInv'
<1>1. /\ End("failed") /\ error' = why /\ files' = files
      /\ options' = options /\ misnamed' = misnamed
  BY DEF Fail, End
<1>2. TypeOK /\ FilesInv /\ WrittenInv
  BY DEF IInv
<1>3. FilesInv' /\ files' \in [Paths -> Artifacts]
  BY <1>1, <1>2, SameFiles, Types1
<1>4. \A p \in Paths : files'[p].by <= invocation
  BY <1>1, <1>2 DEF WrittenInv
<1>5. \A p \in Paths : files'[p].type \in {"native", "executable"} =>
        /\ files'[p].by > 0
        /\ Labelled(files'[p], IF files'[p].by = invocation THEN "failed" = "done"
                               ELSE outcome[files'[p].by] = "done")
  BY <1>1, <1>2 DEF WrittenInv, Labelled
<1>6. error' \in Failures \cup {"none"} /\ "failed" \in {"done", "plain", "failed"}
  BY <1>1
<1> QED
  BY <1>1, <1>3, <1>4, <1>5, <1>6, EndStep

\* What holds of a file stays when another invocation is misnamed.
LEMMA MoreMisnamed ==
  ASSUME NEW o, NEW m, NEW n, m \subseteq n
  PROVE  /\ \A a : Sound(o, m, a) => Sound(o, n, a)
         /\ \A a, s : UnitOf(o, m, a, s) => UnitOf(o, n, a, s)
BY DEF Sound, Sectioned, UnitOf

\* The next invocation has written nothing yet.
LEMMA InvokeStep ==
  ASSUME IInv, NEW c \in CommandLines, Invoke(c)
  PROVE  IInv'
<1>1. /\ TypeOK /\ FilesInv /\ pc = "idle" /\ invocation < MaxInvocations
      /\ \A x \in c.inputs : x[2] # "c" => files[x].type \in InputTypes[x[2]]
      /\ cmd' = c /\ outcome' = Append(outcome, "running") /\ error' = "none"
      /\ misnamed' = IF Misnamed(c) THEN misnamed \cup {invocation + 1} ELSE misnamed
      /\ pc' = "instrument"
      /\ UNCHANGED <<options, files, todo, objects, module, passes, bb_ids>>
  BY DEF IInv, Invoke, compiler
<1>2. /\ outcome' \in Seq({"running", "done", "plain", "failed"})
      /\ Len(outcome') = Len(outcome) + 1 /\ outcome'[Len(outcome) + 1] = "running"
      /\ \A i \in 1 .. Len(outcome) : outcome'[i] = outcome[i]
      /\ invocation = Len(outcome) /\ invocation' = Len(outcome') /\ invocation \in Nat
  <2>1. outcome \in Seq({"running", "done", "plain", "failed"}) /\ invocation \in Nat
    BY <1>1, Types1
  <2> QED
    BY <1>1, <2>1, AppendProperties DEF invocation
<1>3. /\ misnamed \subseteq misnamed' /\ misnamed' \subseteq 1 .. Len(outcome')
      /\ Misnamed(c) => invocation' \in misnamed'
  <2>1. PICK k \in Nat : k = invocation /\ k = Len(outcome)
    BY <1>2
  <2>2. misnamed \subseteq 1 .. k /\ Len(outcome') = k + 1 /\ invocation' = k + 1
    BY <1>1, <1>2, <2>1 DEF TypeOK
  <2>3. \A i \in 1 .. k : i \in 1 .. (k + 1)
    BY <2>1
  <2>4. k + 1 \in 1 .. (k + 1)
    BY <2>1
  <2> QED
    BY <1>1, <2>1, <2>2, <2>3, <2>4
<1>4. TypeOK'
  <2>1. Len(outcome') <= MaxInvocations
    BY <1>1, <1>2, InvocationAssumption
  <2> QED
    BY <1>1, <1>2, <1>3, <2>1 DEF TypeOK
<1>5. FilesInv'
  <2>1. PICK o, m, n : o = options /\ m = misnamed /\ n = misnamed'
    OBVIOUS
  <2>2. /\ \A a : Sound(o, m, a) => Sound(o, n, a)
        /\ \A a, s : UnitOf(o, m, a, s) => UnitOf(o, n, a, s)
    BY <1>3, <2>1, MoreMisnamed
  <2> QED
    BY <1>1, <2>1, <2>2 DEF FilesInv
<1>6. InvocationInv'
  BY <1>1, <1>2, <1>3 DEF InvocationInv
<1>7. ObjectsInv' /\ ModuleInv'
  <2>1. module = Empty /\ passes = {} /\ bb_ids = NotCached /\ todo = {} /\ objects = {}
    BY <1>1 DEF IInv, ModuleInv, ObjectsInv
  <2> QED
    BY <1>1, <2>1, EmptyIsSound DEF ModuleInv, ObjectsInv
<1>8. WrittenInv'
  <2>1. ASSUME NEW p \in Paths
        PROVE  /\ files'[p].by < invocation' /\ files'[p].by <= invocation'
               /\ files'[p].by # invocation'
               /\ files'[p].type \in {"native", "executable"} =>
                    /\ files'[p].by > 0
                    /\ Labelled(files[p], outcome'[files'[p].by] = "done")
    <3>1. /\ files[p].by <= invocation /\ files[p].by \in Nat
          /\ files[p].type \in {"native", "executable"} =>
               /\ files[p].by > 0
               /\ Labelled(files[p], outcome[files[p].by] = "done")
      BY <1>1, Types1, Fields DEF IInv, WrittenInv
    <3>2. files[p].by > 0 => outcome'[files[p].by] = outcome[files[p].by]
      BY <1>2, <3>1
    <3> QED
      BY <1>1, <1>2, <3>1, <3>2 DEF Labelled
  <2> QED
    BY <1>1, <1>3, <2>1 DEF WrittenInv, Labelled
<1> QED
  BY <1>4, <1>5, <1>6, <1>7, <1>8 DEF IInv

\* Objects that the linker can be given are inputs of their type.
LEMMA InputTypesAre ==
  /\ InputTypes["o"] = {"bitcode", "native"}
  /\ \A x \in {"o", "bc", "ll"} :
       x \in Suffixes /\ \A y \in InputTypes[x] : y \in {"bitcode", "native", "ll"}
BY DEF InputTypes, Suffixes

\* The objects that are named are of their sources, and none is compiled as well.
LEMMA StartStep ==
  ASSUME IInv, StartCompiler
  PROVE  IInv'
<1>1. /\ TypeOK /\ FilesInv /\ InvocationInv /\ pc = "instrument" /\ Accepted
      /\ todo' = CompiledIn(cmd)
      /\ objects' = {files[x] : x \in {y \in cmd.inputs : y[2] = "o"}}
      /\ pc' = "compile"
      /\ UNCHANGED <<options, files, outcome, error, misnamed, cmd, module, passes, bb_ids>>
  BY DEF IInv, StartCompiler
<1>2. cmd \in CommandLines
  BY <1>1, Running
<1>3. ASSUME NEW x \in cmd.inputs, x[2] = "o"
      PROVE  /\ x[1] \in Sources /\ x = Object(x[1]) /\ files[x] \in Artifacts
             /\ ObjectOf(options, misnamed, files[x], x[1]) /\ files[x].units = {x[1]}
             /\ x[1] \notin CompiledIn(cmd)
  <2>1. x[1] \in Sources /\ x = <<x[1], "o">>
    BY <1>2, <1>3, InputsAre
  <2>2. files[x].type \in {"bitcode", "native"}
    <3>1. files[x].type \in InputTypes["o"]
      BY <1>1, <1>3 DEF InvocationInv
    <3> QED
      BY <3>1, InputTypesAre
  <2>3. PICK s \in Sources : s = x[1] /\ x = <<s, "o">> /\ x = Object(s)
    BY <2>1 DEF Object
  <2>4. ObjectOf(options, misnamed, files[x], s)
    BY <1>1, <2>2, <2>3, InputTypesAre DEF FilesInv, ObjectOf
  <2>5. files[x] \in Artifacts
    BY <1>1, <2>3, Types1, PathsDiffer, InputTypesAre
  <2>6. s \notin CompiledIn(cmd)
    <3>1. ASSUME NEW y \in {"c", "bc", "ll"}, <<s, y>> \in cmd.inputs PROVE FALSE
      <4>1. <<s, y>>[1] = x[1] => <<s, y>> = x
        BY <1>2, <3>1, CommandShape
      <4> QED
        BY <2>3, <4>1
    <3> QED
      BY <3>1 DEF CompiledIn
  <2> QED
    BY <2>3, <2>4, <2>5, <2>6 DEF ObjectOf, UnitOf
<1>4. ASSUME NEW a \in objects'
      PROVE  \E x \in cmd.inputs : x[2] = "o" /\ a = files[x]
  BY <1>1
<1>5. TypeOK'
  <2>1. objects' \subseteq Artifacts
    BY <1>3, <1>4
  <2>2. todo' \subseteq Sources
    BY <1>1, <1>2, SourcesToCompile
  <2> QED
    BY <1>1, <2>1, <2>2 DEF TypeOK
<1>6. FilesInv'
  BY <1>1, SameFiles
<1>7. InvocationInv'
  <2>1. invocation' = invocation /\ Accepted'
    BY <1>1, SameBuild DEF invocation
  <2>2. ASSUME NEW x \in cmd.inputs, x[2] # "c"
        PROVE  files[x].type \in InputTypes[x[2]]
    BY <1>1, <2>2 DEF InvocationInv
  <2> QED
    BY <1>1, <2>1, <2>2 DEF InvocationInv
<1>8. module = Empty /\ passes = {} /\ bb_ids = NotCached /\ module.units = {}
  BY <1>1, EmptyIsSound DEF IInv, ModuleInv
<1>9. ObjectsInv'
  <2>1. ASSUME NEW a \in objects'
        PROVE  /\ \E s \in Sources : ObjectOf(options, misnamed, a, s)
               /\ a.units \cap CompiledIn(cmd) = {}
    <3>1. PICK x \in cmd.inputs : x[2] = "o" /\ a = files[x]
      BY <1>4
    <3> QED
      BY <1>3, <3>1
  <2>2. ASSUME NEW a \in objects', NEW b \in objects', a # b
        PROVE  a.units \cap b.units = {}
    <3>1. PICK x \in cmd.inputs : x[2] = "o" /\ a = files[x]
      BY <1>4
    <3>2. PICK y \in cmd.inputs : y[2] = "o" /\ b = files[y]
      BY <1>4
    <3>3. a.units = {x[1]} /\ b.units = {y[1]}
      BY <1>3, <3>1, <3>2
    <3>4. x[1] # y[1]
      BY <1>2, <2>2, <3>1, <3>2, CommandShape
    <3> QED
      BY <3>3, <3>4
  <2> QED
    BY <1>1, <1>8, <2>1, <2>2 DEF ObjectsInv
<1>10. ModuleInv'
  BY <1>1, <1>8 DEF ModuleInv
<1>11. WrittenInv'
  <2>1. invocation' = invocation /\ put' = put
    BY <1>1, SameBuild DEF invocation
  <2>2. CompiledIn(cmd) \ (todo' \cup module'.units) = {}
    BY <1>1
  <2> QED
    BY <1>1, <2>1, <2>2 DEF IInv, WrittenInv, Labelled
<1> QED
  BY <1>5, <1>6, <1>7, <1>9, <1>10, <1>11 DEF IInv

-------------------------------------------------------------------------------
(* Compilation and passes. *)

\* Passes of a build are enabled features, at their load point.
LEMMA PassesAre ==
  ASSUME NEW point
  PROVE  /\ PassesAt(point) \subseteq {"bitmap-feedback", "cfg-exporter"}
         /\ "bitmap-feedback" \in PassesAt(point) <=>
              instrumenting /\ Counts(options) /\ options.bitmap_load_point = point
         /\ "cfg-exporter" \in PassesAt(point) <=>
              instrumenting /\ Enabled("cfg-exporter")
                /\ options.cfg_exporter_load_point = point
BY DEF PassesAt, AddsPass, PluginsAt, WithOptions, Enabled, Counts, BitmapLoadedAt,
       ExporterLoadedAt

\* The load points are two.
LEMMA LoadPointsAre ==
  ASSUME TypeOK
  PROVE  AtLink(options) <=> ~(options.bitmap_load_point = "OptimizerLast")
BY OptionAssumption DEF TypeOK, LoadPoints, AtLink

\* What is compiled is of its source, and has not been instrumented since.
LEMMA UnitIsPrepared ==
  ASSUME IInv, pc = "compile", NEW s \in todo
  PROVE  /\ Unit(s) \in Artifacts /\ Unit(s).units = {s} /\ Sound(options, misnamed, Unit(s))
         /\ Prepared(Unit(s)) /\ (AtLink(options) => Untouched(Unit(s)))
<1>1. /\ cmd \in CommandLines /\ s \in CompiledIn(cmd) /\ s \in Sources
      /\ TypeOK /\ FilesInv /\ InvocationInv
  BY Running, Types1 DEF IInv, ObjectsInv
<1>2. CASE s \in SourcesIn(cmd)
  <2>1. PICK a : a = [Empty EXCEPT !.units = {s}] /\ a = Unit(s)
    BY <1>2 DEF Unit
  <2>2. Empty \in Artifacts /\ {s} \in SUBSET Sources
    BY <1>1, EmptyIsSound
  <2>3. a \in Artifacts
    BY <2>1, <2>2 DEF Artifacts
  <2>4. /\ a.units = {s} /\ a.exported = {} /\ a.metadata = {}
        /\ \A t \in Sources : a.hits[t] = 0 /\ a.again[t] = 0 /\ a.ids[t] = {}
    BY <2>1 DEF Empty
  <2>5. Sound(options, misnamed, a) /\ Prepared(a) /\ Untouched(a)
    BY <1>1, <2>4 DEF Sound, Counted, Exported, Sectioned, Prepared, Untouched
  <2> QED
    BY <2>1, <2>3, <2>4, <2>5
<1>3. CASE s \notin SourcesIn(cmd)
  <2>1. PICK x \in cmd.inputs : x[1] = s /\ x = CHOOSE y \in cmd.inputs : y[1] = s
    <3>1. PICK y \in {"c", "bc", "ll"} : <<s, y>> \in cmd.inputs
      BY <1>1 DEF CompiledIn
    <3>2. <<s, y>>[1] = s
      OBVIOUS
    <3> QED
      BY <3>1, <3>2
  <2>2. x = <<s, x[2]>> /\ x[2] \in {"c", "o", "bc", "ll"}
    BY <1>1, <2>1, InputsAre
  <2>3. x[2] # "c" /\ x[2] \in Suffixes
    <3>1. <<s, "c">> \notin cmd.inputs
      BY <1>1, <1>3 DEF SourcesIn
    <3>2. x[2] \in {"o", "bc", "ll"}
      BY <2>1, <2>2, <3>1
    <3> QED
      BY <3>2 DEF Suffixes
  <2>4. files[x].type \in InputTypes[x[2]]
    BY <1>1, <2>1, <2>3 DEF InvocationInv
  <2>5. files[x].type \in {"bitcode", "native", "ll"}
    BY <2>2, <2>3, <2>4, InputTypesAre
  <2>6. PICK a \in Artifacts : a = files[x]
    BY <1>1, <2>2, <2>3, Types1, PathsDiffer
  <2>7. UnitOf(options, misnamed, a, s)
    BY <1>1, <2>2, <2>3, <2>5, <2>6 DEF FilesInv
  <2>8. PICK again \in [Sources -> Nat] :
          again = [a.again EXCEPT ![s] = a.again[s] + 1]
    <3>1. a.again \in [Sources -> Nat]
      BY Fields
    <3>2. a.again[s] + 1 \in Nat
      BY <1>1, <3>1
    <3>3. [a.again EXCEPT ![s] = a.again[s] + 1] \in [Sources -> Nat]
      BY <3>1, <3>2
    <3> QED
      BY <3>3
  <2>9. PICK b : b = [a EXCEPT !.again = again] /\ b = Unit(s)
    <3>1. Unit(s) = [files[x] EXCEPT !.again = [files[x].again EXCEPT ![s] = files[x].again[s] + 1]]
      BY <1>3, <2>1 DEF Unit
    <3> QED
      BY <2>6, <2>8, <3>1
  <2>10. /\ b.units = {s} /\ b.hits = a.hits /\ b.ids = a.ids /\ b.again = again
         /\ b.exported = a.exported /\ b.metadata = a.metadata /\ b.writers = a.writers
         /\ b \in Artifacts
    BY <2>7, <2>9 DEF Artifacts, UnitOf
  <2>11. /\ again[s] = a.again[s] + 1 /\ a.again[s] \in Nat /\ a.hits[s] \in Nat
         /\ \A t \in Sources : t # s => again[t] = a.again[t]
    BY <1>1, <2>8, Fields
  <2>12. /\ Counted(options, a) /\ Exported(a) /\ Sectioned(misnamed, a)
         /\ (AtLink(options) => Untouched(a)) /\ a.units = {s}
    BY <2>7 DEF UnitOf, Sound
  <2>13. Counted(options, b)
    <3>1. \A t \in Sources : b.hits[t] <= 1 + b.again[t]
      <4>1. \A t \in Sources : a.hits[t] \in Nat /\ a.again[t] \in Nat /\ a.hits[t] <= 1 + a.again[t]
        BY <2>12, Fields DEF Counted
      <4>2. ASSUME NEW t \in Sources PROVE a.again[t] <= again[t] /\ again[t] \in Nat
        <5>1. CASE t = s
          BY <2>11, <5>1
        <5>2. CASE t # s
          BY <2>11, <4>1, <5>2
        <5> QED
          BY <5>1, <5>2
      <4>3. ASSUME NEW t \in Sources PROVE a.hits[t] <= 1 + again[t]
        BY <4>1, <4>2
      <4> QED
        BY <2>10, <4>3
    <3> QED
      BY <2>10, <2>12, <3>1 DEF Counted
  <2>14. Exported(b)
    BY <2>10, <2>11, <2>12 DEF Exported
  <2>15. Sectioned(misnamed, b)
    BY <2>10, <2>12 DEF Sectioned
  <2>16. Prepared(b)
    <3>1. a.hits[s] <= 1 + a.again[s]
      BY <1>1, <2>12 DEF Counted
    <3> QED
      BY <2>10, <2>11, <3>1 DEF Prepared
  <2>17. AtLink(options) => Untouched(b)
    BY <2>10, <2>12 DEF Untouched
  <2> QED
    BY <2>9, <2>10, <2>13, <2>14, <2>15, <2>16, <2>17 DEF Sound
<1> QED
  BY <1>2, <1>3

\* Clang reads a source or IR of it.
LEMMA CompileStep ==
  ASSUME IInv, NEW s \in Sources, CompileSource(s)
  PROVE  IInv'
<1>1. /\ TypeOK /\ FilesInv /\ InvocationInv /\ ObjectsInv /\ WrittenInv
      /\ pc = "compile" /\ s \in todo
      /\ Links(cmd) \/ cmd.output = NoPath \/ Single(CompiledIn(cmd))
      /\ todo' = todo \ {s}
      /\ module' = [Unit(s) EXCEPT !.type = "module"]
      /\ passes' = IF HasModule THEN PassesAt("OptimizerLast") ELSE {}
      /\ bb_ids' = NotCached /\ pc' = "passes"
      /\ UNCHANGED <<options, files, outcome, error, misnamed, cmd, objects>>
  BY DEF IInv, CompileSource
<1>2. /\ module' \in Artifacts /\ module'.units = {s} /\ Prepared(module')
      /\ (AtLink(options) => Untouched(module')) /\ Sound(options, misnamed, module')
  <2>1. PICK a \in Artifacts :
          /\ a = Unit(s) /\ a.units = {s} /\ Sound(options, misnamed, a) /\ Prepared(a)
          /\ AtLink(options) => Untouched(a)
    BY <1>1, UnitIsPrepared
  <2>2. PICK b : b = [a EXCEPT !.type = "module"] /\ b = module'
    BY <1>1, <2>1
  <2>3. b \in Artifacts
    BY <2>2 DEF Artifacts, Types
  <2>4. /\ b.units = a.units /\ b.hits = a.hits /\ b.ids = a.ids /\ b.again = a.again
        /\ b.exported = a.exported /\ b.metadata = a.metadata /\ b.writers = a.writers
    BY <2>2 DEF Artifacts
  <2>5. Sound(options, misnamed, b) /\ Prepared(b) /\ (AtLink(options) => Untouched(b))
    BY <2>1, <2>4 DEF Sound, Counted, Exported, Sectioned, Prepared, Untouched
  <2> QED
    BY <2>1, <2>2, <2>3, <2>4, <2>5
<1>3. /\ module.units = {} /\ passes' \in SUBSET {"bitmap-feedback", "cfg-exporter"}
      /\ invocation' = invocation /\ put' = put /\ Accepted' = Accepted
      /\ (\A t : OutputsOf(t)' = OutputsOf(t)) /\ HasModule' = HasModule
      /\ PassesAt("OptimizerLast")' = PassesAt("OptimizerLast")
  BY <1>1, SameBuild, PassesAre, EmptyIsSound DEF IInv, ModuleInv, invocation
<1>4. TypeOK'
  BY <1>1, <1>2, <1>3 DEF TypeOK
<1>5. FilesInv'
  BY <1>1, SameFiles
<1>6. InvocationInv'
  BY <1>1, <1>3 DEF InvocationInv
<1>7. ObjectsInv'
  BY <1>1, <1>2, <1>3 DEF ObjectsInv
<1>8. ModuleInv'
  <2>1. Point' = "OptimizerLast"
    BY <1>1 DEF Point
  <2>2. HasModule => PassesAt("OptimizerLast") \ passes' = {}
    BY <1>1
  <2>3. s \in CompiledIn(cmd)
    BY <1>1 DEF ObjectsInv
  <2>4. passes' \subseteq PassesAt("OptimizerLast")
    BY <1>1
  <2>5. "cfg-exporter" \in passes' => HasModule
    BY <1>1
  <2> QED
    BY <1>1, <1>2, <1>3, <2>1, <2>2, <2>3, <2>4, <2>5 DEF ModuleInv
<1>9. WrittenInv'
  <2>1. todo' \cup module'.units = todo \cup module.units
    BY <1>1, <1>2, <1>3
  <2>2. \A p : Fresh(p)' = Fresh(p)
    BY <1>1, <1>3 DEF Fresh
  <2>3. ASSUME ~Links(cmd), NEW t \in CompiledIn(cmd) \ (todo' \cup module'.units)
        PROVE  \E p \in OutputsOf(t)' : Fresh(p)'
    <3>1. PICK p \in OutputsOf(t) : Fresh(p)
      BY <1>1, <2>1, <2>3 DEF WrittenInv
    <3> QED
      BY <1>3, <2>2, <3>1
  <2> QED
    BY <1>1, <1>3, <2>3 DEF WrittenInv, Labelled
<1> QED
  BY <1>4, <1>5, <1>6, <1>7, <1>8, <1>9 DEF IInv

\* A pass changes nothing but the module and what is cached of it.
LEMMA PassStep ==
  ASSUME IInv, pc \in {"passes", "lto"}, ModuleInv', module' \in Artifacts,
         module'.units = module.units, passes' \subseteq passes,
         bb_ids' \in Results \cup {NotCached},
         UNCHANGED <<options, files, outcome, error, misnamed, pc, cmd, todo, objects>>
  PROVE  IInv'
<1>1. /\ TypeOK /\ FilesInv /\ InvocationInv /\ ObjectsInv /\ WrittenInv
      /\ invocation' = invocation /\ put' = put /\ Accepted' = Accepted
      /\ (\A t : OutputsOf(t)' = OutputsOf(t)) /\ HasModule' = HasModule
  BY SameBuild DEF IInv, invocation
<1>2. TypeOK'
  BY <1>1 DEF TypeOK
<1>3. FilesInv' /\ InvocationInv' /\ ObjectsInv'
  BY <1>1, SameFiles DEF InvocationInv, ObjectsInv
<1>4. WrittenInv'
  <2>1. ASSUME pc = "passes", ~Links(cmd),
               NEW t \in CompiledIn(cmd) \ (todo \cup module.units)
        PROVE  \E p \in OutputsOf(t)' : Fresh(p)'
    <3>1. PICK p \in OutputsOf(t) : Fresh(p)
      BY <1>1, <2>1 DEF WrittenInv
    <3> QED
      BY <1>1, <3>1 DEF Fresh
  <2> QED
    BY <1>1, <2>1 DEF WrittenInv, Labelled
<1> QED
  BY <1>2, <1>3, <1>4 DEF IInv

\* The result for a module is for its source, or for the linker's module.
LEMMA ModuleNamed ==
  ASSUME IInv, pc \in {"passes", "lto"}
  PROVE  NewResult \in Results /\ NewResult # NotCached
<1>1. CASE pc = "lto"
  BY <1>1 DEF NewResult, Results, Merged, NotCached
<1>2. CASE pc = "passes"
  <2>1. PICK s \in Sources : module.units = {s}
    BY <1>2 DEF IInv, ModuleInv, CompiledIn
  <2>2. NewResult = <<s, module.again[s]>>
    BY <1>2, <2>1 DEF NewResult
  <2>3. module.again[s] \in Nat
    BY Types1, Fields DEF IInv
  <2> QED
    BY <2>2, <2>3 DEF Results, NotCached
<1> QED
  BY <1>1, <1>2

\* The bitmap pass instruments every unit of the module once, with the ids that
\* are cached from then on.
LEMMA BitmapStep ==
  ASSUME IInv, BitmapPass
  PROVE  IInv'
<1> DEFINE ids == IF bb_ids = NotCached THEN NewResult ELSE bb_ids
           hits == [s \in Sources |-> IF s \in module.units THEN module.hits[s] + 1
                                                             ELSE module.hits[s]]
           used == [s \in Sources |-> IF s \in module.units THEN module.ids[s] \cup {ids}
                                                             ELSE module.ids[s]]
<1>1. /\ TypeOK /\ ModuleInv /\ pc \in {"passes", "lto"} /\ "bitmap-feedback" \in passes
      /\ module' = [module EXCEPT !.hits = hits, !.ids = used]
      /\ bb_ids' = ids
      /\ passes' = passes \ {"bitmap-feedback"}
      /\ UNCHANGED <<options, files, outcome, error, misnamed, pc, cmd, todo, objects>>
  BY DEF IInv, BitmapPass, Runs, Preserved
<1>2. /\ module \in Artifacts /\ Sound(options, misnamed, module) /\ Prepared(module)
      /\ AtLink(options) => Untouched(module)
  BY <1>1, Types1 DEF ModuleInv
<1>3. ids \in Results /\ ids # NotCached
  BY <1>1, ModuleNamed, Types1
<1> HIDE DEF ids
<1>4. /\ hits \in [Sources -> Nat] /\ used \in [Sources -> SUBSET Results]
      /\ \A s \in Sources :
           /\ module.hits[s] \in Nat /\ module.again[s] \in Nat
           /\ s \in module.units => hits[s] = module.hits[s] + 1
                                    /\ used[s] = module.ids[s] \cup {ids}
           /\ s \notin module.units => hits[s] = module.hits[s] /\ used[s] = module.ids[s]
  <2>1. /\ module.hits \in [Sources -> Nat] /\ module.ids \in [Sources -> SUBSET Results]
        /\ module.again \in [Sources -> Nat]
    BY <1>2, Fields
  <2> QED
    BY <1>3, <2>1
<1> HIDE DEF hits, used
<1>5. /\ module'.hits = hits /\ module'.ids = used /\ module'.units = module.units
      /\ module'.again = module.again
      /\ module'.exported = module.exported /\ module'.metadata = module.metadata
      /\ module'.writers = module.writers /\ module'.made = module.made
      /\ module' \in Artifacts
  BY <1>1, <1>2, <1>4 DEF Artifacts
<1>6. /\ Counts(options) /\ options.bitmap_load_point = Point
  <2>1. "bitmap-feedback" \in PassesAt(Point)
    BY <1>1 DEF ModuleInv
  <2> QED
    BY <2>1, PassesAre
<1>7. module.units \subseteq Sources
  BY <1>2, Fields
<1>8. Sound(options, misnamed, module')
  <2>1. Counted(options, module')
    <3> SUFFICES ASSUME NEW s \in Sources
                 PROVE  /\ s \notin module.units => hits[s] = 0 /\ used[s] = {}
                        /\ hits[s] <= 1 + module.again[s]
                        /\ AtLink(options) => hits[s] <= 1
      BY <1>5, <1>6 DEF Counted
    <3>1. CASE s \in module.units
      <4>1. hits[s] = module.hits[s] + 1 /\ module.hits[s] <= module.again[s]
        BY <1>2, <1>4, <3>1 DEF Prepared
      <4>2. AtLink(options) => module.hits[s] = 0
        BY <1>2 DEF Untouched
      <4> QED
        BY <1>4, <3>1, <4>1, <4>2
    <3>2. CASE s \notin module.units
      <4>1. hits[s] = 0 /\ used[s] = {}
        BY <1>2, <1>4, <3>2 DEF Sound, Counted
      <4> QED
        BY <1>4, <4>1
    <3> QED
      BY <3>1, <3>2
  <2>2. Exported(module')
    <3> SUFFICES ASSUME NEW e \in module.exported
                 PROVE  /\ e.units \subseteq module.units
                        /\ \A s \in e.units :
                             e.ids \in used[s] /\ (module.again[s] = 0 => used[s] = {e.ids})
      BY <1>5 DEF Exported
    <3>1. /\ e.units \subseteq module.units
          /\ \A s \in e.units : e.ids \in module.ids[s]
      BY <1>2 DEF Sound, Exported
    <3>2. \A s \in e.units : module.again[s] # 0 /\ used[s] = module.ids[s] \cup {ids}
      BY <1>2, <1>4, <1>7, <3>1 DEF Prepared
    <3> QED
      BY <3>1, <3>2
  <2>3. Sectioned(misnamed, module')
    BY <1>2, <1>5 DEF Sound, Sectioned
  <2> QED
    BY <2>1, <2>2, <2>3 DEF Sound
<1>9. /\ Instrumented(module')
      /\ \A s \in module'.units :
           bb_ids' \in module'.ids[s] /\ (module'.again[s] = 0 => module'.ids[s] = {bb_ids'})
  <2> SUFFICES ASSUME NEW s \in module.units
               PROVE  /\ hits[s] >= 1 /\ ids \in used[s]
                      /\ module.again[s] = 0 => used[s] = {ids}
    BY <1>1, <1>5 DEF Instrumented
  <2>1. /\ s \in Sources /\ hits[s] = module.hits[s] + 1 /\ module.hits[s] \in Nat
        /\ used[s] = module.ids[s] \cup {ids}
        /\ module.again[s] = 0 => module.ids[s] = {}
    BY <1>2, <1>4, <1>7 DEF Prepared
  <2> QED
    BY <2>1
<1>10. ModuleInv'
  <2>1. Point' = Point /\ PassesAt(Point)' = PassesAt(Point)
    <3>1. PICK point : point = Point /\ point = Point'
      BY <1>1 DEF Point
    <3>2. PassesAt(point)' = PassesAt(point)
      BY <1>1, SameBuild
    <3> QED
      BY <3>1, <3>2 DEF PassesAt, PluginsAt, BitmapLoadedAt, ExporterLoadedAt
  <2>2. passes' \subseteq PassesAt(Point)' /\ "bitmap-feedback" \notin passes'
    BY <1>1, <2>1 DEF ModuleInv
  <2>3. bb_ids' # NotCached
    BY <1>1, <1>3
  <2>4. ASSUME pc' = "passes"
        PROVE  /\ \E s \in CompiledIn(cmd') : module'.units = {s}
               /\ AtLink(options') => Untouched(module')
    <3>1. ~AtLink(options)
      BY <1>1, <1>6, <2>4, LoadPointsAre DEF Point
    <3> QED
      BY <1>1, <1>5, <2>4, <3>1 DEF ModuleInv
  <2> QED
    BY <1>1, <1>8, <1>9, <2>2, <2>3, <2>4 DEF ModuleInv
<1> QED
  BY <1>1, <1>3, <1>5, <1>10, PassStep

\* The exporter writes a graph whose vertices are the ids that are cached.
LEMMA ExporterStep ==
  ASSUME IInv, ExporterPass
  PROVE  IInv'
<1> DEFINE graph == [units |-> module.units, ids |-> bb_ids]
<1>1. /\ TypeOK /\ ModuleInv /\ pc \in {"passes", "lto"} /\ "cfg-exporter" \in passes
      /\ bb_ids # NotCached
      /\ module' = [module EXCEPT !.exported = module.exported \cup {graph}]
      /\ passes' = passes \ {"cfg-exporter"}
      /\ UNCHANGED <<options, files, outcome, error, misnamed, pc, cmd, todo, objects, bb_ids>>
  BY DEF IInv, ExporterPass, Runs, CachedResult
<1>2. /\ module \in Artifacts /\ Sound(options, misnamed, module)
      /\ \A s \in module.units :
           bb_ids \in module.ids[s] /\ (module.again[s] = 0 => module.ids[s] = {bb_ids})
      /\ bb_ids \in Results
  BY <1>1, Types1 DEF ModuleInv
<1>3. graph \in [units : SUBSET Sources, ids : Results]
  BY <1>2, Fields
<1>4. graph.units = module.units /\ graph.ids = bb_ids
  OBVIOUS
<1> HIDE DEF graph
<1>5. /\ module'.hits = module.hits /\ module'.ids = module.ids /\ module'.units = module.units
      /\ module'.exported = module.exported \cup {graph} /\ module'.again = module.again
      /\ module'.metadata = module.metadata
      /\ module'.writers = module.writers /\ module'.made = module.made
      /\ module' \in Artifacts
  <2>1. module.exported \cup {graph} \in SUBSET [units : SUBSET Sources, ids : Results]
    BY <1>2, <1>3, Fields
  <2> QED
    BY <1>1, <1>2, <2>1 DEF Artifacts
<1>6. Sound(options, misnamed, module')
  <2>1. Counted(options, module') /\ Sectioned(misnamed, module')
    BY <1>2, <1>5 DEF Sound, Counted, Sectioned
  <2>2. Exported(module')
    BY <1>2, <1>4, <1>5 DEF Sound, Exported
  <2> QED
    BY <2>1, <2>2 DEF Sound
<1>7. ModuleInv'
  <2>1. Point' = Point /\ PassesAt(Point)' = PassesAt(Point)
    <3>1. PICK point : point = Point /\ point = Point'
      BY <1>1 DEF Point
    <3>2. PassesAt(point)' = PassesAt(point)
      BY <1>1, SameBuild
    <3> QED
      BY <3>1, <3>2 DEF PassesAt, PluginsAt, BitmapLoadedAt, ExporterLoadedAt
  <2>2. /\ Untouched(module) => Untouched(module')
        /\ Instrumented(module) => Instrumented(module')
        /\ Prepared(module) => Prepared(module')
        /\ HasModule' = HasModule
    BY <1>1, <1>5, SameBuild DEF Untouched, Instrumented, Prepared
  <2>3. passes' \subseteq PassesAt(Point)' /\ "cfg-exporter" \notin passes'
        /\ ("bitmap-feedback" \in passes' <=> "bitmap-feedback" \in passes)
    BY <1>1, <2>1 DEF ModuleInv
  <2> QED
    BY <1>1, <1>2, <1>5, <1>6, <2>1, <2>2, <2>3 DEF ModuleInv
<1> QED
  BY <1>1, <1>2, <1>5, <1>7, PassStep

\* What is written is typed, and has the fields of what it is made of.
LEMMA WrittenFields ==
  ASSUME TypeOK, InvocationInv, pc # "idle", NEW a \in Artifacts, NEW type \in Types
  PROVE  /\ Written(a, type) \in Artifacts /\ Written(a, type).type = type
         /\ Written(a, type).by = invocation
         /\ Written(a, type).writers = a.writers \cup {invocation}
         /\ Written(a, type).made = a.made \cup {Flags}
         /\ Written(a, type).units = a.units /\ Written(a, type).hits = a.hits
         /\ Written(a, type).again = a.again
         /\ Written(a, type).ids = a.ids /\ Written(a, type).exported = a.exported
         /\ Written(a, type).metadata = a.metadata
<1>1. invocation \in Invocations /\ invocation \in Nat /\ Flags \in [lto : BOOLEAN, plain : BOOLEAN]
  BY Running, CommandShape DEF Flags
<1>2. PICK i \in Invocations \cap Nat, f \in [lto : BOOLEAN, plain : BOOLEAN] :
        i = invocation /\ f = Flags
  BY <1>1
<1>3. PICK w \in Artifacts \cup {[a EXCEPT !.type = type, !.by = i, !.writers = a.writers \cup {i},
                                           !.made = a.made \cup {f}]} :
        w = [a EXCEPT !.type = type, !.by = i, !.writers = a.writers \cup {i},
                      !.made = a.made \cup {f}]
  OBVIOUS
<1>4. w = Written(a, type)
  BY <1>2, <1>3 DEF Written
<1>5. /\ w.type = type /\ w.by = i /\ w.writers = a.writers \cup {i} /\ w.made = a.made \cup {f}
      /\ w.units = a.units /\ w.hits = a.hits /\ w.ids = a.ids /\ w.exported = a.exported
      /\ w.metadata = a.metadata /\ w.again = a.again
  BY <1>3 DEF Artifacts
<1>6. w \in Artifacts
  <2>1. /\ a.writers \cup {i} \in SUBSET Invocations
        /\ a.made \cup {f} \in SUBSET [lto : BOOLEAN, plain : BOOLEAN]
    BY Fields
  <2> QED
    BY <1>3, <2>1 DEF Artifacts
<1> QED
  BY <1>2, <1>4, <1>5, <1>6

\* It is as sound as that.
LEMMA WrittenIsSound ==
  ASSUME TypeOK, InvocationInv, pc # "idle", NEW a \in Artifacts, NEW type \in Types,
         Sound(options, misnamed, a)
  PROVE  Sound(options, misnamed, Written(a, type))
<1>1. PICK w : w = Written(a, type)
  OBVIOUS
<1>2. /\ w.writers = a.writers \cup {invocation}
      /\ w.units = a.units /\ w.hits = a.hits /\ w.again = a.again
      /\ w.ids = a.ids /\ w.exported = a.exported /\ w.metadata = a.metadata
  BY <1>1, WrittenFields
<1> QED
  BY <1>1, <1>2 DEF Sound, Counted, Exported, Sectioned

\* A file is written, with its type.
LEMMA FileWritten ==
  ASSUME FilesInv, UNCHANGED <<options, misnamed>>, NEW p \in Paths, NEW a, files \in [Paths -> Artifacts],
         files' = [files EXCEPT ![p] = a],
         Sound(options, misnamed, a), ProgramInv(options, a),
         \A s \in Sources : \A x \in Suffixes :
           p = <<s, x>> /\ a.type # "nothing" => UnitOf(options, misnamed, a, s)
  PROVE  FilesInv'
<1>1. \A q \in Paths : files'[q] = IF q = p THEN a ELSE files[q]
  OBVIOUS
<1>2. \A s \in Sources : \A x \in Suffixes : <<s, x>> \in Paths
  BY PathsDiffer
<1> QED
  BY <1>1, <1>2 DEF FilesInv

\* The files of an invocation after it has written one of them.
LEMMA BooksOfFile ==
  ASSUME TypeOK, WrittenInv, NEW p \in Paths, NEW a \in Artifacts,
         files' = [files EXCEPT ![p] = a], a.by = invocation, UNCHANGED <<outcome, misnamed>>,
         outcome[invocation] = "running", invocation > 0
  PROVE  /\ files' \in [Paths -> Artifacts]
         /\ \A q \in Paths : files'[q] = IF q = p THEN a ELSE files[q]
         /\ \A q \in Paths : files'[q].by <= invocation
         /\ \A q \in Paths : files'[q].type \in {"native", "executable"} =>
              /\ files'[q].by > 0
              /\ Labelled(files'[q], outcome[files'[q].by] = "done")
<1>1. files \in [Paths -> Artifacts] /\ invocation \in Nat
  BY Types1
<1>2. /\ files' \in [Paths -> Artifacts]
      /\ \A q \in Paths : files'[q] = IF q = p THEN a ELSE files[q]
  BY <1>1
<1> QED
  BY <1>1, <1>2 DEF WrittenInv, Labelled

-------------------------------------------------------------------------------
(* The output of clang. *)

\* The paths that clang may write the unit of a module to are named for its source.
LEMMA OutputOfModule ==
  ASSUME IInv, pc = "passes", NEW s \in Sources, module.units = {s}, ~Links(cmd)
  PROVE  \A p \in OutputsOf(s) : p \in Paths /\ \E x \in Suffixes : p = <<s, x>>
<1>1. /\ cmd \in CommandLines /\ s \in CompiledIn(cmd)
      /\ cmd.output = NoPath \/ Single(CompiledIn(cmd))
  BY Running DEF IInv, InvocationInv, ModuleInv
<1>2. Single(CompiledIn(cmd)) => CompiledIn(cmd) = {s}
  BY <1>1 DEF Single
<1> QED
  BY <1>1, <1>2, OutputsArePaths

\* The kind of file that a command makes, and what it says about the command.
LEMMA EmittedIs ==
  ASSUME cmd \in CommandLines
  PROVE  /\ Emitted \in {"ast", "ll", "bitcode", "assembly", "native"} /\ Emitted \in Types
         /\ Emitted # "ast" => HasModule
         /\ Emitted = "native" => ~lto
         /\ Links(cmd) => Emitted \in {"bitcode", "native"}
BY CommandShape DEF Emitted, Types, HasModule, Links

\* What becomes of a module whose passes have run.
LEMMA ObjectWritten ==
  ASSUME IInv, pc = "passes", passes = {}, NEW s \in Sources, module.units = {s}
  PROVE  UnitOf(options, misnamed, Written(module, Emitted), s)
<1>1. /\ TypeOK /\ InvocationInv /\ module \in Artifacts /\ Sound(options, misnamed, module)
      /\ (AtLink(options) => Untouched(module))
      /\ (HasModule /\ "bitmap-feedback" \in PassesAt(Point) => Instrumented(module))
      /\ Point = "OptimizerLast" /\ cmd \in CommandLines
  BY Types1, Running DEF IInv, ModuleInv, Point
<1>2. PICK type \in Types :
        /\ type = Emitted /\ type # "executable" /\ (type # "ast" => HasModule)
        /\ type = "native" => ~lto
  BY <1>1, EmittedIs
<1>3. PICK w : w = Written(module, type)
  OBVIOUS
<1>4. /\ w.type = type /\ w.made = module.made \cup {Flags} /\ w.units = {s}
      /\ w.hits = module.hits /\ w.ids = module.ids
  BY <1>1, <1>2, <1>3, WrittenFields
<1>9. Flags \in w.made /\ Flags.plain = cmd.verbose /\ Flags.lto = cmd.lto
  BY <1>4 DEF Flags
<1>5. Sound(options, misnamed, w)
  BY <1>1, <1>2, <1>3, WrittenIsSound
<1>6. AtLink(options) => Untouched(w)
  BY <1>1, <1>4 DEF Untouched
<1>7. ASSUME w.type # "ast", Counts(options), ~AtLink(options), \A f \in w.made : ~f.plain
      PROVE  Instrumented(w)
  <2>1. ~cmd.verbose
    BY <1>9, <1>7
  <2>2. Instrumented(module)
    BY <1>1, <1>2, <1>4, <1>7, <2>1, PassesAre, LoadPointsAre DEF instrumenting
  <2> QED
    BY <1>4, <2>2 DEF Instrumented
<1>8. w.type = "native" => \E f \in w.made : ~f.lto \/ f.plain
  BY <1>2, <1>4, <1>9 DEF lto, instrumenting
<1> QED
  BY <1>2, <1>3, <1>4, <1>5, <1>6, <1>7, <1>8 DEF UnitOf

\* An object is handed to the linker, or written to its file.
LEMMA EmitStep ==
  ASSUME IInv, EmitObject
  PROVE  IInv'
<1>1. /\ TypeOK /\ FilesInv /\ InvocationInv /\ ObjectsInv /\ ModuleInv /\ WrittenInv
      /\ pc = "passes" /\ passes = {}
      /\ module' = Empty /\ bb_ids' = NotCached /\ pc' = "compile"
      /\ UNCHANGED <<options, outcome, error, misnamed, cmd, todo, passes>>
  BY DEF IInv, EmitObject
<1>2. PICK s \in Sources : module.units = {s} /\ s \in CompiledIn(cmd)
  BY <1>1 DEF ModuleInv, CompiledIn
<1>3. PICK type \in Types : type = Emitted
  BY <1>1, Running, EmittedIs
<1>4. PICK object \in Artifacts : object = Written(module, type)
  BY <1>1, Types1, WrittenFields
<1>5. IF Links(cmd) THEN objects' = objects \cup {object} /\ UNCHANGED files
      ELSE /\ \E p \in OutputsOf(s) : files' = [files EXCEPT ![p] = object]
           /\ UNCHANGED objects
  <2>1. (CHOOSE t \in module.units : TRUE) = s
    BY <1>2
  <2> QED
    BY <1>1, <1>3, <1>4, <2>1 DEF EmitObject
<1>6. UnitOf(options, misnamed, object, s)
  BY <1>1, <1>2, <1>3, <1>4, ObjectWritten
<1>7. /\ object.type = type /\ object.units = {s} /\ object.by = invocation
      /\ invocation \in object.writers /\ Sound(options, misnamed, object)
      /\ object.type # "executable"
  <2>1. module \in Artifacts
    BY <1>1, Types1
  <2>2. object.type = type /\ object.by = invocation /\ invocation \in object.writers
    BY <1>1, <1>4, <2>1, WrittenFields
  <2> QED
    BY <1>6, <2>2 DEF UnitOf
<1>8. /\ cmd \in CommandLines /\ outcome[invocation] = "running" /\ invocation > 0
      /\ invocation' = invocation /\ put' = put /\ Accepted' = Accepted
      /\ (\A t : OutputsOf(t)' = OutputsOf(t)) /\ Empty.units = {} /\ Empty \in Artifacts
      /\ files \in [Paths -> Artifacts]
  BY <1>1, Running, SameBuild, EmptyIsSound, Types1 DEF invocation
<1>9. s \notin todo
  BY <1>1, <1>2 DEF ObjectsInv
<1>10. ModuleInv'
  BY <1>1 DEF ModuleInv
<1>11. CASE Links(cmd)
  <2>1. objects' = objects \cup {object} /\ files' = files
    BY <1>5, <1>11
  <2>2. TypeOK'
    BY <1>1, <1>8, <2>1 DEF TypeOK
  <2>3. FilesInv' /\ InvocationInv'
    BY <1>1, <1>8, <2>1, SameFiles DEF InvocationInv
  <2>4. ObjectsInv'
    <3>1. ASSUME NEW a \in objects
          PROVE  a.units \cap {s} = {} /\ a.units \cap todo = {}
      BY <1>1, <1>2 DEF ObjectsInv
    <3>2. {s} \cap todo = {}
      BY <1>9
    <3>3. ObjectOf(options, misnamed, object, s)
      BY <1>3, <1>6, <1>7, <1>8, <1>11, EmittedIs DEF ObjectOf
    <3>4. \A a \in objects' : \E t \in Sources : ObjectOf(options, misnamed, a, t)
      BY <1>1, <2>1, <3>3 DEF ObjectsInv
    <3>5. \A a, b \in objects' : a # b => a.units \cap b.units = {}
      BY <1>1, <1>7, <2>1, <3>1 DEF ObjectsInv
    <3>6. \A a \in objects' : a.units \cap (todo' \cup module'.units) = {}
      BY <1>1, <1>7, <1>8, <2>1, <3>1, <3>2
    <3> QED
      BY <1>1, <1>8, <3>4, <3>5, <3>6 DEF ObjectsInv
  <2>5. WrittenInv'
    BY <1>1, <1>8, <1>11, <2>1 DEF WrittenInv, Labelled
  <2> QED
    BY <1>10, <2>2, <2>3, <2>4, <2>5 DEF IInv
<1>12. CASE ~Links(cmd)
  <2>1. PICK p \in OutputsOf(s) : files' = [files EXCEPT ![p] = object]
    BY <1>5, <1>12
  <2>2. PICK y \in Suffixes : p = <<s, y>> /\ p \in Paths
    BY <1>1, <1>2, <1>12, <2>1, OutputOfModule
  <2>3. objects' = objects
    BY <1>5, <1>12
  <2>4. FilesInv'
    <3>1. ProgramInv(options, object)
      BY <1>7 DEF ProgramInv, ToBeCounted
    <3>2. \A t \in Sources : \A x \in Suffixes :
            p = <<t, x>> => UnitOf(options, misnamed, object, t)
      BY <1>6, <2>2, PathsDiffer
    <3> QED
      BY <1>1, <1>7, <1>8, <2>1, <2>2, <3>1, <3>2, FileWritten
  <2>5. /\ files' \in [Paths -> Artifacts]
        /\ \A q \in Paths : files'[q] = IF q = p THEN object ELSE files[q]
        /\ \A q \in Paths : files'[q].by <= invocation
        /\ \A q \in Paths : files'[q].type \in {"native", "executable"} =>
             /\ files'[q].by > 0
             /\ Labelled(files'[q], outcome[files'[q].by] = "done")
    BY <1>1, <1>7, <1>8, <2>1, <2>2, BooksOfFile
  <2>6. TypeOK'
    BY <1>1, <1>8, <2>3, <2>5 DEF TypeOK
  <2>7. ObjectsInv'
    BY <1>1, <1>8, <2>3 DEF ObjectsInv
  <2>8. InvocationInv'
    <3>1. ASSUME NEW x \in cmd.inputs, x[2] # "c", x[1] \in todo
          PROVE  files'[x].type \in InputTypes[x[2]]
      <4>1. x = <<x[1], x[2]>> /\ x[1] \in Sources /\ x[2] \in {"c", "o", "bc", "ll"}
        BY <1>8, InputsAre
      <4>2. x[2] \in Suffixes /\ x[1] # s
        BY <1>9, <3>1, <4>1 DEF Suffixes
      <4>3. x # p /\ x \in Paths
        BY <2>2, <4>1, <4>2, PathsDiffer
      <4>4. files'[x] = files[x]
        BY <2>5, <4>3
      <4> QED
        BY <1>1, <3>1, <4>4 DEF InvocationInv
    <3> QED
      BY <1>1, <1>8, <3>1 DEF InvocationInv
  <2>9. WrittenInv'
    <3>1. ASSUME NEW q \in Paths, files'[q].type \in {"native", "executable"},
                 files'[q].by = invocation
          PROVE  q = put \/ cmd.verbose \/ Misnamed(cmd)
      <4>1. CASE q = p
        BY <1>1, <1>2, <1>8, <1>12, <2>1, <4>1, PutIsOutput DEF InvocationInv
      <4>2. CASE q # p
        BY <1>1, <2>5, <3>1, <4>2 DEF WrittenInv
      <4> QED
        BY <4>1, <4>2
    <3>2. ASSUME NEW t \in CompiledIn(cmd) \ todo
          PROVE  \E q \in OutputsOf(t)' : Fresh(q)'
      <4>1. CASE t = s
        BY <1>7, <1>8, <2>1, <2>2, <2>5, <4>1 DEF Fresh
      <4>2. CASE t # s
        <5>1. PICK q \in OutputsOf(t) : Fresh(q)
          BY <1>1, <1>2, <1>12, <3>2, <4>2 DEF WrittenInv
        <5>2. t \in Sources /\ (cmd.output = NoPath \/ Single(CompiledIn(cmd)))
          BY <1>1, <1>8, <1>12, SourcesToCompile DEF InvocationInv
        <5>3. cmd.output = NoPath
          BY <1>2, <3>2, <4>2, <5>2 DEF Single
        <5>4. q \in Paths
          BY <1>8, <1>12, <5>1, <5>2, <5>3, OutputsArePaths
        <5>5. Fresh(q)'
          BY <1>7, <1>8, <2>5, <5>1, <5>4 DEF Fresh
        <5> QED
          BY <1>8, <5>1, <5>5
      <4> QED
        BY <4>1, <4>2
    <3> QED
      BY <1>1, <1>8, <2>5, <3>1, <3>2 DEF WrittenInv, Labelled
  <2> QED
    BY <1>10, <2>4, <2>6, <2>7, <2>8, <2>9 DEF IInv
<1> QED
  BY <1>11, <1>12

\* Every output of clang has been written.
LEMMA CompilerDoneStep ==
  ASSUME IInv, CompilerDone
  PROVE  IInv'
<1>1. /\ TypeOK /\ FilesInv /\ InvocationInv /\ ObjectsInv /\ ModuleInv /\ WrittenInv
      /\ pc = "compile" /\ todo = {}
  BY DEF IInv, CompilerDone
<1>2. /\ cmd \in CommandLines /\ module.units = {} /\ files \in [Paths -> Artifacts]
      /\ outcome[invocation] = "running" /\ error = "none" /\ Accepted
  BY <1>1, Running, EmptyIsSound, Types1 DEF ModuleInv, InvocationInv
<1>3. CASE /\ pc' \in {"link", "metadata"}
           /\ pc' = "link" <=> Links(cmd)
           /\ pc' = "metadata" => instrumenting
           /\ UNCHANGED <<options, files, outcome, error, misnamed, cmd, todo, objects, module,
                          passes, bb_ids>>
  <2>1. /\ invocation' = invocation /\ put' = put /\ Accepted' = Accepted
        /\ instrumenting' = instrumenting
    BY <1>3, SameBuild DEF invocation
  <2>2. TypeOK' /\ FilesInv' /\ InvocationInv' /\ ObjectsInv' /\ ModuleInv'
    BY <1>1, <1>3, <2>1, SameFiles DEF TypeOK, InvocationInv, ObjectsInv, ModuleInv
  <2>3. ASSUME ~Links(cmd), instrumenting, ~Misnamed(cmd)
        PROVE  Fresh(put)
    <3>1. PICK t \in CompiledIn(cmd) : OutputsOf(t) = {put}
      BY <1>2, <2>3, SourcesToCompile, PutIsOutput DEF instrumenting
    <3>2. \E p \in OutputsOf(t) : Fresh(p)
      BY <1>1, <1>2, <2>3 DEF WrittenInv
    <3> QED
      BY <3>1, <3>2
  <2>4. pc' = "metadata" => Fresh(put)' \/ Misnamed(cmd)
    BY <1>3, <2>1, <2>3 DEF Fresh
  <2>5. WrittenInv'
    BY <1>1, <1>3, <2>1, <2>4 DEF WrittenInv, Labelled
  <2> QED
    BY <2>2, <2>5 DEF IInv
<1>4. CASE End("plain") /\ UNCHANGED <<files, error>>
  <2>1. FilesInv' /\ files' \in [Paths -> Artifacts]
    BY <1>1, <1>2, <1>4, SameFiles DEF End
  <2>2. \A p \in Paths : files'[p].by <= invocation
    BY <1>1, <1>4 DEF WrittenInv
  <2>3. \A p \in Paths : files'[p].type \in {"native", "executable"} =>
          /\ files'[p].by > 0
          /\ Labelled(files'[p], IF files'[p].by = invocation THEN "plain" = "done"
                                 ELSE outcome[files'[p].by] = "done")
    BY <1>1, <1>4 DEF WrittenInv, Labelled
  <2>4. error' \in Failures \cup {"none"} /\ "plain" \in {"done", "plain", "failed"}
    BY <1>2, <1>4
  <2> QED
    BY <1>1, <1>4, <2>1, <2>2, <2>3, <2>4, EndStep
<1> QED
  BY <1>1, <1>3, <1>4 DEF CompilerDone, compiler

-------------------------------------------------------------------------------
(* The linker. *)

\* u is the union of S, sound, and has the units of its members, as they are.
UnionOf(o, m, S, u) ==
  /\ u = Union(S) /\ Sound(o, m, u)
  /\ u.units = UNION {a.units : a \in S}
  /\ u.made = UNION {a.made : a \in S}
  /\ \A a \in S : \A s \in a.units : u.hits[s] = a.hits[s]
  /\ \A s \in Sources : s \notin u.units => u.hits[s] = 0
  /\ \A s \in Sources : u.ids[s] = UNION {a.ids[s] : a \in S}

\* Sound artifacts that share no unit have such a union.
LEMMA UnionIs ==
  ASSUME NEW o, NEW m, NEW S \in SUBSET Artifacts,
         \A a, b \in S : a # b => a.units \cap b.units = {},
         \A a \in S : Sound(o, m, a)
  PROVE  \E u \in Artifacts : UnionOf(o, m, S, u)
<1> DEFINE u == Union(S)
<1>1. u \in Artifacts /\ Sound(o, m, u)
  BY UnionIsSound
<1>2. /\ u.units = UNION {a.units : a \in S}
      /\ u.made = UNION {a.made : a \in S}
      /\ \A a \in S : \A s \in a.units : u.hits[s] = a.hits[s]
      /\ \A s \in Sources : s \notin u.units => u.hits[s] = 0
      /\ \A s \in Sources : u.ids[s] = UNION {a.ids[s] : a \in S}
  BY UnionFields
<1>3. u = Union(S)
  OBVIOUS
<1> HIDE DEF u
<1> QED
  BY <1>1, <1>2, <1>3 DEF UnionOf

\* The bitcode of the link becomes a module, which the bitmap pass has not seen
\* if it is loaded now.
LEMMA LinkStep ==
  ASSUME IInv, Link
  PROVE  IInv'
<1>1. /\ TypeOK /\ FilesInv /\ InvocationInv /\ ObjectsInv /\ ModuleInv /\ WrittenInv
      /\ pc = "link" /\ todo = {} /\ Links(cmd)
      /\ objects' = objects \ Bitcode
      /\ module' = [Union(Bitcode) EXCEPT !.type = "module"]
      /\ passes' = IF Bitcode = {} THEN {} ELSE PassesAt("FullLinkTimeOptimizationLast")
      /\ bb_ids' = NotCached /\ pc' = "lto"
      /\ UNCHANGED <<options, files, outcome, error, misnamed, cmd, todo>>
  BY DEF IInv, Link, InvocationInv, ObjectsInv
<1>14. HasModule
  BY <1>1 DEF HasModule, Links
<1>2. /\ Bitcode \in SUBSET Artifacts /\ Bitcode \subseteq objects
      /\ \A a, b \in Bitcode : a # b => a.units \cap b.units = {}
      /\ \A a \in Bitcode : Sound(options, misnamed, a)
  BY <1>1, Types1 DEF Bitcode, ObjectsInv, ObjectOf, UnitOf
<1>3. PICK S \in SUBSET Artifacts : S = Bitcode
  BY <1>2
<1>4. PICK u \in Artifacts : UnionOf(options, misnamed, S, u)
  BY <1>2, <1>3, UnionIs
<1>5. /\ u.units = UNION {a.units : a \in S}
      /\ u.made = UNION {a.made : a \in S}
      /\ \A a \in S : \A s \in a.units : u.hits[s] = a.hits[s]
      /\ \A s \in Sources : s \notin u.units => u.hits[s] = 0
      /\ \A s \in Sources : u.ids[s] = UNION {a.ids[s] : a \in S}
  BY <1>4 DEF UnionOf
<1>6. /\ module' \in Artifacts /\ module'.units = u.units /\ module'.hits = u.hits
      /\ module'.ids = u.ids /\ module'.again = u.again
      /\ module'.exported = u.exported /\ module'.made = u.made
      /\ module'.metadata = u.metadata /\ module'.writers = u.writers
  <2>1. module' = [u EXCEPT !.type = "module"] /\ "module" \in Types
    BY <1>1, <1>3, <1>4 DEF Types, UnionOf
  <2> QED
    BY <2>1 DEF Artifacts
<1>7. Sound(options, misnamed, module')
  BY <1>4, <1>6 DEF UnionOf, Sound, Counted, Exported, Sectioned
<1>8. /\ invocation' = invocation /\ put' = put /\ Accepted' = Accepted
      /\ PassesAt("FullLinkTimeOptimizationLast")' = PassesAt("FullLinkTimeOptimizationLast")
      /\ passes' \in SUBSET {"bitmap-feedback", "cfg-exporter"} /\ HasModule' = HasModule
  BY <1>1, SameBuild, PassesAre DEF invocation
<1>9. TypeOK'
  BY <1>1, <1>6, <1>8 DEF TypeOK
<1>10. FilesInv' /\ InvocationInv'
  BY <1>1, <1>8, SameFiles DEF InvocationInv
<1>11. ObjectsInv'
  <2>1. \A a \in objects' : a \in objects /\ a \notin S
    BY <1>1, <1>3
  <2>2. \A a \in objects' : \E s \in Sources : ObjectOf(options, misnamed, a, s)
    BY <1>1, <2>1 DEF ObjectsInv
  <2>3. \A a \in objects' : a.type = "native"
    BY <1>3, <2>1, <2>2 DEF Bitcode, ObjectOf
  <2>4. \A a, b \in objects' : a # b => a.units \cap b.units = {}
    BY <1>1, <2>1 DEF ObjectsInv
  <2>5. ASSUME NEW a \in objects'
        PROVE  a.units \cap (todo' \cup module'.units) = {}
    <3>1. \A b \in S : a.units \cap b.units = {}
      BY <1>1, <1>2, <1>3, <2>1 DEF ObjectsInv
    <3> QED
      BY <1>1, <1>5, <1>6, <3>1
  <2> QED
    BY <1>1, <2>2, <2>3, <2>4, <2>5 DEF ObjectsInv
<1>12. ModuleInv'
  <2>1. Point' = "FullLinkTimeOptimizationLast"
    BY <1>1 DEF Point
  <2>2. ASSUME "bitmap-feedback" \in passes'
        PROVE  Untouched(module') /\ Prepared(module')
    <3>1. "bitmap-feedback" \in PassesAt("FullLinkTimeOptimizationLast")
      BY <1>1, <2>2
    <3>2. AtLink(options)
      BY <3>1, PassesAre DEF AtLink
    <3>3. \A a \in S : Untouched(a) /\ a.units \subseteq Sources
      BY <1>1, <1>2, <1>3, <3>2, Fields DEF ObjectsInv, ObjectOf, UnitOf
    <3>4. ASSUME NEW s \in Sources PROVE u.hits[s] = 0 /\ u.ids[s] = {}
      <4>1. u.hits[s] = 0
        <5>1. CASE s \in u.units
          <6>1. PICK a \in S : s \in a.units
            BY <1>5, <5>1
          <6> QED
            BY <1>5, <3>3, <6>1 DEF Untouched
        <5> QED
          BY <1>5, <5>1
      <4>2. \A a \in S : a.ids[s] = {}
        BY <3>3 DEF Untouched
      <4> QED
        BY <1>5, <4>1, <4>2
    <3>5. u.units \subseteq Sources /\ \A s \in Sources : u.again[s] \in Nat
      BY <1>4, Fields
    <3> QED
      BY <1>6, <3>4, <3>5 DEF Untouched, Prepared
  <2>3. ASSUME "bitmap-feedback" \in PassesAt("FullLinkTimeOptimizationLast") \ passes'
        PROVE  Instrumented(module') /\ "cfg-exporter" \notin passes'
    <3>1. S = {} /\ passes' = {}
      BY <1>1, <1>3, <2>3
    <3> QED
      BY <1>5, <1>6, <3>1 DEF Instrumented
  <2>4. ASSUME Counts(options), ~AtLink(options), \A f \in module'.made : ~f.plain
        PROVE  Instrumented(module')
    <3>1. ASSUME NEW s \in u.units PROVE u.hits[s] >= 1
      <4>1. PICK a \in S : s \in a.units
        BY <1>5, <3>1
      <4>2. \A f \in a.made : ~f.plain
        BY <1>5, <1>6, <2>4, <4>1
      <4>3. Instrumented(a)
        BY <1>1, <1>2, <1>3, <2>4, <4>2 DEF ObjectsInv, ObjectOf, UnitOf
      <4> QED
        BY <1>5, <4>1, <4>3 DEF Instrumented
    <3> QED
      BY <1>6, <3>1 DEF Instrumented
  <2>5. passes' \subseteq PassesAt("FullLinkTimeOptimizationLast")
    BY <1>1
  <2> QED
    BY <1>1, <1>7, <1>8, <2>1, <2>2, <2>3, <2>4, <2>5 DEF ModuleInv
<1>13. WrittenInv'
  BY <1>1, <1>8 DEF WrittenInv, Labelled
<1> QED
  BY <1>9, <1>10, <1>11, <1>12, <1>13 DEF IInv

\* A program is as sound as its parts, and instrumented when they were to be.
LEMMA ProgramWritten ==
  ASSUME IInv, pc = "lto", passes = {}
  PROVE  /\ Program \in Artifacts /\ Sound(options, misnamed, Program) /\ ProgramInv(options, Program)
         /\ Program.by = invocation /\ invocation \in Program.writers
<1>1. /\ TypeOK /\ InvocationInv /\ ObjectsInv /\ module \in Artifacts
      /\ Sound(options, misnamed, module) /\ objects \in SUBSET Artifacts
      /\ cmd \in CommandLines /\ Point = "FullLinkTimeOptimizationLast"
      /\ HasModule /\ "bitmap-feedback" \in PassesAt(Point) => Instrumented(module)
      /\ Counts(options) /\ ~AtLink(options) /\ (\A f \in module.made : ~f.plain) =>
           Instrumented(module)
      /\ HasModule
  <2>1. Links(cmd)
    BY DEF IInv, InvocationInv
  <2>2. HasModule
    BY <2>1 DEF Links, HasModule
  <2> QED
    BY <2>1, <2>2, Types1, Running DEF IInv, ModuleInv, Point
<1>2. PICK S \in SUBSET Artifacts : S = objects \cup {module}
  BY <1>1
<1>3. /\ \A a, b \in S : a # b => a.units \cap b.units = {}
      /\ \A a \in S : Sound(options, misnamed, a)
  BY <1>1, <1>2 DEF ObjectsInv, ObjectOf, UnitOf
<1>4. PICK u \in Artifacts : UnionOf(options, misnamed, S, u)
  BY <1>3, UnionIs
<1>5. /\ u.units = UNION {a.units : a \in S}
      /\ u.made = UNION {a.made : a \in S}
      /\ \A a \in S : \A s \in a.units : u.hits[s] = a.hits[s]
  BY <1>4 DEF UnionOf
<1>6. PICK r \in Artifacts : r = [u EXCEPT !.runtimes = RuntimesLinked]
  <2>1. RuntimesLinked \subseteq Features
    BY DEF RuntimesLinked, Runtimes, Features
  <2> QED
    BY <2>1 DEF Artifacts
<1>7. /\ r.units = u.units /\ r.hits = u.hits /\ r.ids = u.ids /\ r.exported = u.exported
      /\ r.made = u.made /\ r.metadata = u.metadata /\ r.writers = u.writers
      /\ r.again = u.again
  BY <1>6 DEF Artifacts
<1>8. Sound(options, misnamed, r)
  BY <1>4, <1>7 DEF UnionOf, Sound, Counted, Exported, Sectioned
<1>9. PICK w \in Artifacts : w = Program /\ w = Written(r, "executable")
  <2>1. Program = Written(r, "executable")
    BY <1>2, <1>4, <1>6 DEF Program, UnionOf
  <2> QED
    BY <1>1, <2>1, WrittenFields DEF Types
<1>10. /\ w.type = "executable" /\ w.made = u.made \cup {Flags} /\ w.units = u.units
       /\ w.hits = u.hits /\ w.by = invocation /\ invocation \in w.writers
       /\ Sound(options, misnamed, w)
  <2>1. "executable" \in Types /\ pc # "idle"
    BY DEF Types
  <2>2. /\ w.type = "executable" /\ w.made = r.made \cup {Flags} /\ w.units = r.units
        /\ w.hits = r.hits /\ w.by = invocation /\ w.writers = r.writers \cup {invocation}
    BY <1>1, <1>9, <2>1, WrittenFields
  <2>3. Sound(options, misnamed, w)
    BY <1>1, <1>8, <1>9, <2>1, WrittenIsSound
  <2> QED
    BY <1>7, <2>2, <2>3
<1>11. ASSUME ToBeCounted(options, w) PROVE Instrumented(w)
  <2>1. /\ Counts(options)
        /\ \A f \in u.made \cup {Flags} : ~f.plain /\ (f.lto \/ ~AtLink(options))
    BY <1>10, <1>11 DEF ToBeCounted
  <2>2. Instrumented(module)
    <3>1. CASE AtLink(options)
      <4>1. instrumenting
        <5>1. ~Flags.plain
          BY <2>1
        <5> QED
          BY <5>1 DEF Flags, instrumenting
      <4>2. "bitmap-feedback" \in PassesAt(Point)
        BY <1>1, <2>1, <3>1, <4>1, PassesAre DEF AtLink
      <4> QED
        BY <1>1, <4>2
    <3>2. CASE ~AtLink(options)
      <4>1. \A f \in module.made : ~f.plain
        BY <1>2, <1>5, <2>1
      <4> QED
        BY <1>1, <2>1, <3>2, <4>1
    <3> QED
      BY <3>1, <3>2
  <2>3. ASSUME NEW a \in objects PROVE Instrumented(a)
    <3>1. \A f \in a.made : ~f.plain /\ (f.lto \/ ~AtLink(options))
      BY <1>2, <1>5, <2>1
    <3>2. PICK s \in Sources : ObjectOf(options, misnamed, a, s) /\ a.type = "native"
      BY <1>1 DEF ObjectsInv
    <3>3. ~AtLink(options)
      BY <3>1, <3>2 DEF ObjectOf, UnitOf
    <3> QED
      BY <2>1, <3>1, <3>2, <3>3 DEF ObjectOf, UnitOf
  <2>4. ASSUME NEW s \in w.units PROVE w.hits[s] >= 1
    <3>1. PICK a \in S : s \in a.units
      BY <1>5, <1>10
    <3>2. Instrumented(a)
      BY <1>2, <2>2, <2>3
    <3> QED
      BY <1>5, <1>10, <3>1, <3>2 DEF Instrumented
  <2> QED
    BY <2>4 DEF Instrumented
<1> QED
  BY <1>9, <1>10, <1>11 DEF ProgramInv

\* The program is where the driver looks for it.
LEMMA EmitProgramStep ==
  ASSUME IInv, EmitProgram
  PROVE  IInv'
<1>1. /\ TypeOK /\ FilesInv /\ InvocationInv /\ ObjectsInv /\ ModuleInv /\ WrittenInv
      /\ pc = "lto" /\ passes = {} /\ Links(cmd) /\ cmd \in CommandLines
      /\ outcome[invocation] = "running" /\ invocation > 0 /\ error = "none" /\ Accepted
      /\ invocation \in Nat
  BY Running DEF IInv, EmitProgram, InvocationInv
<1>2. PICK p \in {Prog, AOut} : p = IF cmd.output # NoPath THEN cmd.output ELSE AOut
  <2>1. cmd.output # NoPath => cmd.output = Prog
    BY <1>1, NamesAre, MissingIsNoPath, CommandShape
  <2> QED
    BY <2>1
<1>3. PICK a \in Artifacts :
        /\ a = Program /\ Sound(options, misnamed, a) /\ ProgramInv(options, a)
        /\ a.by = invocation /\ invocation \in a.writers
  BY <1>1, ProgramWritten
<1>4. files' = [files EXCEPT ![p] = a] /\ p \in Paths
  BY <1>2, <1>3, PathsDiffer DEF EmitProgram
<1>5. \A s \in Sources : \A x \in Suffixes : p # <<s, x>>
  BY <1>2, PathsDiffer
<1>6. options' = options /\ misnamed' = misnamed /\ outcome[invocation] = "running"
  BY <1>1 DEF EmitProgram, End
<1>7. FilesInv'
  BY <1>1, <1>3, <1>4, <1>5, <1>6, Types1, FileWritten
<1>8. /\ files' \in [Paths -> Artifacts]
      /\ \A q \in Paths : files'[q] = IF q = p THEN a ELSE files[q]
      /\ \A q \in Paths : files'[q].by <= invocation
      /\ \A q \in Paths : files'[q].type \in {"native", "executable"} =>
           /\ files'[q].by > 0
           /\ Labelled(files'[q], outcome[files'[q].by] = "done")
  <2>1. files \in [Paths -> Artifacts]
    BY <1>1, Types1
  <2>2. /\ files' \in [Paths -> Artifacts]
        /\ \A q \in Paths : files'[q] = IF q = p THEN a ELSE files[q]
    BY <1>4, <2>1
  <2> QED
    BY <1>1, <1>3, <1>4, <2>2 DEF WrittenInv, Labelled
<1>9. CASE /\ instrumenting /\ pc' = "metadata"
           /\ objects' = {} /\ module' = Empty /\ bb_ids' = NotCached
           /\ UNCHANGED <<options, outcome, error, misnamed, cmd, todo, passes>>
  <2>1. /\ invocation' = invocation /\ put' = put /\ Accepted' = Accepted
        /\ instrumenting' = instrumenting /\ Empty \in Artifacts /\ Empty.units = {}
    BY <1>9, SameBuild, EmptyIsSound DEF invocation
  <2>2. TypeOK'
    BY <1>1, <1>8, <1>9, <2>1 DEF TypeOK
  <2>3. InvocationInv'
    <3>1. todo' = {}
      BY <1>1, <1>9 DEF ObjectsInv
    <3> QED
      BY <1>1, <1>9, <2>1, <3>1 DEF InvocationInv
  <2>4. ObjectsInv' /\ ModuleInv'
    BY <1>1, <1>9, <2>1 DEF ObjectsInv, ModuleInv
  <2>5. Misnamed(cmd) \/ p = put
    BY <1>1, <1>2, <1>9, PutIsOutput DEF instrumenting
  <2>6. Fresh(put)' \/ Misnamed(cmd)
    BY <1>3, <1>4, <1>8, <2>1, <2>5 DEF Fresh
  <2>7. WrittenInv'
    <3>1. ASSUME NEW q \in Paths, files'[q].type \in {"native", "executable"},
                 files'[q].by = invocation
          PROVE  q = put \/ cmd.verbose \/ Misnamed(cmd)
      BY <1>1, <1>8, <2>5, <3>1 DEF WrittenInv
    <3> QED
      BY <1>8, <1>9, <2>1, <2>6, <3>1 DEF WrittenInv, Labelled
  <2> QED
    BY <1>7, <2>2, <2>3, <2>4, <2>7 DEF IInv
<1>10. CASE End("plain") /\ UNCHANGED error
  <2>1. error' \in Failures \cup {"none"} /\ "plain" \in {"done", "plain", "failed"}
    BY <1>1, <1>10
  <2>2. \A q \in Paths : files'[q].type \in {"native", "executable"} =>
          /\ files'[q].by > 0
          /\ Labelled(files'[q], IF files'[q].by = invocation THEN "plain" = "done"
                                 ELSE outcome[files'[q].by] = "done")
    BY <1>8 DEF Labelled
  <2> QED
    BY <1>1, <1>7, <1>8, <1>10, <2>1, <2>2, EndStep
<1> QED
  BY <1>9, <1>10 DEF EmitProgram

-------------------------------------------------------------------------------
(* Metadata, and the invariant. *)

\* The metadata that an invocation adds.
LEMMA SectionIs ==
  ASSUME IInv, pc = "metadata"
  PROVE  /\ Section \in Metadata /\ Section.invocation = invocation /\ put \in Paths
         /\ Fresh(put) \/ invocation \in misnamed
<1>1. /\ TypeOK /\ InvocationInv /\ cmd \in CommandLines /\ invocation \in Invocations
      /\ Fresh(put) \/ invocation \in misnamed
  BY Running DEF IInv, WrittenInv, InvocationInv
<1>2. put \in Paths
  BY <1>1, PutIsPath DEF InvocationInv, instrumenting
<1>3. PICK i \in Invocations, p \in Paths : i = invocation /\ p = put
  BY <1>1, <1>2
<1>4. Section = [invocation |-> i, filename |-> p]
  BY <1>3 DEF Section
<1>5. Section \in Metadata /\ Section.invocation = i
  BY <1>4 DEF Metadata
<1> QED
  BY <1>1, <1>2, <1>3, <1>5

\* Of the native files and programs only the output is of an invocation to which
\* metadata is added, unless it is misnamed.
LEMMA OnlyTheOutput ==
  ASSUME IInv, pc = "metadata", NEW q \in Paths, files[q].type \in {"native", "executable"},
         files[q].by = invocation
  PROVE  q = put \/ invocation \in misnamed
BY DEF IInv, WrittenInv, InvocationInv, instrumenting

\* The section is in a file of this invocation, and no file of it is without.
LEMMA AddMetadataStep ==
  ASSUME IInv, AddMetadata
  PROVE  IInv'
<1>1. /\ TypeOK /\ FilesInv /\ InvocationInv /\ WrittenInv /\ pc = "metadata"
      /\ files[put].type \in {"native", "executable"}
      /\ files' = [files EXCEPT ![put].metadata = @ \cup {Section}]
      /\ End("done") /\ error' = error /\ UNCHANGED <<options, misnamed>>
  BY DEF IInv, AddMetadata, End
<1>2. /\ cmd \in CommandLines /\ error = "none" /\ invocation \in Nat
      /\ files \in [Paths -> Artifacts]
  BY <1>1, Running, Types1
<1>3. PICK p \in Paths : p = put
  BY <1>1, SectionIs
<1>4. PICK d \in Metadata :
        /\ d = Section /\ d.invocation = invocation
        /\ Fresh(p) \/ invocation \in misnamed
  BY <1>1, <1>3, SectionIs
<1>5. PICK a \in Artifacts : a = files[p] /\ a.type \in {"native", "executable"}
  BY <1>1, <1>2, <1>3
<1>6. PICK b \in Artifacts \cup {[a EXCEPT !.metadata = a.metadata \cup {d}]} :
        b = [a EXCEPT !.metadata = a.metadata \cup {d}]
  OBVIOUS
<1>7. b \in Artifacts
  <2>1. a.metadata \cup {d} \in SUBSET Metadata
    BY Fields
  <2> QED
    BY <1>6, <2>1 DEF Artifacts
<1>8. /\ b.metadata = a.metadata \cup {d} /\ b.type = a.type /\ b.units = a.units
      /\ b.hits = a.hits /\ b.ids = a.ids /\ b.exported = a.exported /\ b.by = a.by
      /\ b.writers = a.writers /\ b.made = a.made /\ b.again = a.again
  BY <1>6 DEF Artifacts
<1>9. files' = [files EXCEPT ![p] = b]
  BY <1>1, <1>3, <1>4, <1>5, <1>6
<1>10. Sound(options, misnamed, a) /\ ProgramInv(options, a)
  BY <1>1, <1>5 DEF FilesInv
<1>11. Sound(options, misnamed, b)
  <2>1. Fresh(p) => invocation \in b.writers
    BY <1>5, <1>8 DEF Fresh
  <2>2. Sectioned(misnamed, b)
    BY <1>4, <1>8, <1>10, <2>1 DEF Sound, Sectioned
  <2> QED
    BY <1>8, <1>10, <2>2 DEF Sound, Counted, Exported
<1>12. ProgramInv(options, b)
  BY <1>8, <1>10 DEF ProgramInv, ToBeCounted, Instrumented
<1>13. ASSUME NEW s \in Sources, NEW x \in Suffixes, p = <<s, x>>
       PROVE  UnitOf(options, misnamed, b, s)
  <2>1. UnitOf(options, misnamed, a, s)
    BY <1>1, <1>5, <1>13 DEF FilesInv
  <2> QED
    BY <1>8, <1>11, <2>1 DEF UnitOf, Untouched, Instrumented
<1>14. FilesInv'
  BY <1>1, <1>2, <1>9, <1>11, <1>12, <1>13, FileWritten
<1>15. \A q \in Paths : files'[q] = IF q = p THEN b ELSE files[q]
  BY <1>2, <1>9
<1>16. \A q \in Paths : files'[q].by = files[q].by /\ files[q].by <= invocation
  BY <1>1, <1>5, <1>8, <1>15 DEF WrittenInv
<1>17. ASSUME NEW q \in Paths, files'[q].type \in {"native", "executable"}
       PROVE  /\ files'[q].by > 0
              /\ Labelled(files'[q], IF files'[q].by = invocation THEN "done" = "done"
                                     ELSE outcome[files'[q].by] = "done")
  <2>1. files[q].type \in {"native", "executable"}
    BY <1>5, <1>15, <1>17
  <2>2. /\ files[q].by > 0
        /\ files[q].by \notin misnamed /\ outcome[files[q].by] = "done" =>
             \E e \in files[q].metadata : e.invocation = files[q].by
    BY <1>1, <2>1 DEF WrittenInv, Labelled
  <2>3. \A e \in files[q].metadata : e \in files'[q].metadata
    BY <1>5, <1>8, <1>15
  <2>4. files[q].by = invocation /\ invocation \notin misnamed => d \in files'[q].metadata
    BY <1>1, <1>3, <1>8, <1>15, <2>1, OnlyTheOutput
  <2> QED
    BY <1>4, <1>16, <2>2, <2>3, <2>4 DEF Labelled
<1>18. /\ error' \in Failures \cup {"none"} /\ "done" \in {"done", "plain", "failed"}
       /\ files' \in [Paths -> Artifacts] /\ \A q \in Paths : files'[q].by <= invocation
  BY <1>1, <1>2, <1>7, <1>9, <1>16
<1> QED
  BY <1>1, <1>14, <1>17, <1>18, EndStep

\* An output without the section has to be bitcode, or the invocation fails.
LEMMA AddMetadataFailsStep ==
  ASSUME IInv, AddMetadataFails
  PROVE  IInv'
<1>1. /\ TypeOK /\ FilesInv /\ InvocationInv /\ WrittenInv /\ pc = "metadata"
  BY DEF IInv, AddMetadataFails
<1>2. CASE accept_fail /\ End("done") /\ UNCHANGED <<files, error>>
  <2>1. /\ files[put].type = "bitcode" /\ UNCHANGED <<options, misnamed>> /\ error = "none"
        /\ files \in [Paths -> Artifacts]
    BY <1>1, <1>2, Running, Types1 DEF accept_fail, End
  <2>2. FilesInv'
    BY <1>1, <1>2, <2>1, SameFiles
  <2>3. ASSUME NEW q \in Paths, files'[q].type \in {"native", "executable"}
        PROVE  /\ files'[q].by > 0 /\ (files'[q].by # invocation \/ invocation \in misnamed)
               /\ Labelled(files'[q], outcome[files'[q].by] = "done")
    <3>1. files[q].by # invocation \/ invocation \in misnamed
      BY <1>1, <1>2, <2>1, <2>3, OnlyTheOutput
    <3> QED
      BY <1>1, <1>2, <2>3, <3>1 DEF WrittenInv, Labelled
  <2>4. \A q \in Paths : files'[q].by <= invocation
    BY <1>1, <1>2 DEF WrittenInv
  <2>5. \A q \in Paths : files'[q].type \in {"native", "executable"} =>
          /\ files'[q].by > 0
          /\ Labelled(files'[q], IF files'[q].by = invocation THEN "done" = "done"
                                 ELSE outcome[files'[q].by] = "done")
    BY <2>3 DEF Labelled
  <2>6. /\ error' \in Failures \cup {"none"} /\ "done" \in {"done", "plain", "failed"}
        /\ files' \in [Paths -> Artifacts]
    BY <1>2, <2>1
  <2> QED
    BY <1>1, <1>2, <2>2, <2>4, <2>5, <2>6, EndStep
<1>3. CASE Fail("objcopy")
  BY <1>1, <1>3, FailStep DEF Failures
<1> QED
  BY <1>2, <1>3 DEF AddMetadataFails

\* Every step preserves the invariant.
LEMMA StepIInv == IInv /\ [Next]_vars => IInv'
<1> SUFFICES ASSUME IInv, [Next]_vars PROVE IInv'
  OBVIOUS
<1>1. CASE \E c \in CommandLines : Invoke(c)
  BY <1>1, InvokeStep
<1>2. CASE RejectArguments
  BY <1>2, FailStep DEF RejectArguments, Failures
<1>3. CASE StartCompiler
  BY <1>3, StartStep
<1>4. CASE CompilerFails
  BY <1>4, FailStep DEF CompilerFails, Failures
<1>5. CASE PluginFails
  BY <1>5, FailStep DEF PluginFails, Failures
<1>6. CASE \E s \in Sources : CompileSource(s)
  BY <1>6, CompileStep
<1>7. CASE BitmapPass
  BY <1>7, BitmapStep
<1>8. CASE ExporterPass
  BY <1>8, ExporterStep
<1>9. CASE ExporterPassFails
  BY <1>9, FailStep DEF ExporterPassFails, Runs, Failures
<1>10. CASE EmitObject
  BY <1>10, EmitStep
<1>11. CASE CompilerDone
  BY <1>11, CompilerDoneStep
<1>12. CASE LinkFails
  BY <1>12, FailStep DEF LinkFails, Failures
<1>13. CASE Link
  BY <1>13, LinkStep
<1>14. CASE EmitProgram
  BY <1>14, EmitProgramStep
<1>15. CASE AddMetadata
  BY <1>15, AddMetadataStep
<1>16. CASE AddMetadataFails
  BY <1>16, AddMetadataFailsStep
<1>17. CASE UNCHANGED vars
  <2>1. UNCHANGED <<options, files, outcome, error, misnamed, pc, cmd, todo, objects, module,
                    passes, bb_ids>>
    BY <1>17 DEF vars, compiler
  <2>2. /\ invocation' = invocation /\ put' = put /\ Accepted' = Accepted
        /\ instrumenting' = instrumenting /\ HasModule' = HasModule
        /\ (\A s : OutputsOf(s)' = OutputsOf(s)) /\ (\A p : PassesAt(p)' = PassesAt(p))
    BY <2>1, SameBuild DEF invocation
  <2>3. TypeOK' /\ FilesInv' /\ InvocationInv' /\ ObjectsInv'
    BY <2>1, <2>2, SameFiles DEF IInv, TypeOK, InvocationInv, ObjectsInv
  <2>4. ModuleInv'
    <3>1. PICK point : point = Point /\ point = Point'
      BY <2>1 DEF Point
    <3>2. PassesAt(point)' = PassesAt(point)
      BY <2>2
    <3>3. PassesAt(Point)' = PassesAt(Point)
      BY <3>1, <3>2
    <3> QED
      BY <2>1, <2>2, <3>3 DEF IInv, ModuleInv
  <2>5. WrittenInv'
    <3>1. ASSUME pc \in {"compile", "passes"}, ~Links(cmd),
                 NEW t \in CompiledIn(cmd) \ (todo \cup module.units)
          PROVE  \E p \in OutputsOf(t)' : Fresh(p)'
      <4>1. PICK p \in OutputsOf(t) : Fresh(p)
        BY <3>1 DEF IInv, WrittenInv
      <4> QED
        BY <2>1, <2>2, <4>1 DEF Fresh
    <3>2. pc = "metadata" => Fresh(put)' \/ Misnamed(cmd)
      BY <2>1, <2>2 DEF IInv, WrittenInv, Fresh
    <3> QED
      BY <2>1, <2>2, <3>1, <3>2 DEF IInv, WrittenInv, Labelled
  <2> QED
    BY <2>3, <2>4, <2>5 DEF IInv
<1> QED
  BY <1>1, <1>2, <1>3, <1>4, <1>5, <1>6, <1>7, <1>8, <1>9, <1>10, <1>11, <1>12, <1>13, <1>14,
     <1>15, <1>16, <1>17 DEF Next

\* The invariant holds at every step of a build.
THEOREM Invariance == Spec => []IInv
<1>1. Init => IInv
  BY InitIInv
<1>2. IInv /\ [Next]_vars => IInv'
  BY StepIInv
<1> QED
  BY <1>1, <1>2, PTL DEF Spec

-------------------------------------------------------------------------------
(* What follows from it. *)

\* The variables keep their types.
THEOREM TypeCorrect == Spec => []TypeOK
<1>1. IInv => TypeOK
  BY DEF IInv
<1> QED
  BY <1>1, Invariance, PTL

\* No unit is counted twice, unless IR of it was compiled again, and none is left out
\* of a program whose parts were all built for it: a pass that is loaded at link time
\* finds nothing that one at compilation has done, whichever invocations built it.
THEOREM InstrumentedOnceAlways == Spec => []InstrumentedOnce
<1>1. IInv => InstrumentedOnce
  <2> SUFFICES ASSUME IInv, NEW p \in Paths, NEW s \in Sources
               PROVE  /\ files[p].hits[s] <= 1 + files[p].again[s]
                      /\ AtLink(options) => files[p].hits[s] <= 1
                      /\ /\ files[p].type = "executable" /\ s \in files[p].units
                         /\ Enabled("bitmap-feedback")
                         /\ \A f \in files[p].made :
                              ~f.plain /\ (f.lto \/ options.bitmap_load_point = "OptimizerLast")
                         => files[p].hits[s] >= 1
    BY DEF InstrumentedOnce, AtLink
  <2>1. TypeOK /\ Counted(options, files[p]) /\ ProgramInv(options, files[p])
    BY DEF IInv, FilesInv, Sound
  <2>2. files[p].hits[s] <= 1 + files[p].again[s] /\ (AtLink(options) => files[p].hits[s] <= 1)
    BY <2>1 DEF Counted
  <2>3. ASSUME files[p].type = "executable", s \in files[p].units, Enabled("bitmap-feedback"),
               \A f \in files[p].made :
                 ~f.plain /\ (f.lto \/ options.bitmap_load_point = "OptimizerLast")
        PROVE  files[p].hits[s] >= 1
    <3>1. ToBeCounted(options, files[p])
      BY <2>1, <2>3, LoadPointsAre DEF ToBeCounted, Counts, Enabled
    <3> QED
      BY <2>1, <2>3, <3>1 DEF ProgramInv, Instrumented
  <2> QED
    BY <2>2, <2>3
<1> QED
  BY <1>1, Invariance, PTL

\* The vertices of every exported graph are ids that its file counts, and the only
\* ones unless IR was compiled again.
THEOREM ExportedIdsAreUsedAlways == Spec => []ExportedIdsAreUsed
<1>1. IInv => ExportedIdsAreUsed
  BY DEF IInv, FilesInv, Sound, Exported, ExportedIdsAreUsed
<1> QED
  BY <1>1, Invariance, PTL

\* A section is in a file that its invocation wrote, and an invocation that
\* reports success has left its section in its output, unless its command line is
\* one from which the driver cannot tell what clang writes.
THEOREM MetadataOnOwnOutputAlways == Spec => []MetadataOnOwnOutput
<1>1. IInv => MetadataOnOwnOutput
  BY DEF IInv, FilesInv, WrittenInv, Labelled, Sound, Sectioned, MetadataOnOwnOutput
<1> QED
  BY <1>1, Invariance, PTL

\* Under supported options every plugin finds the assigner's.
LEMMA SupportedIsLoadable ==
  ASSUME TypeOK, Supported, NEW point
  PROVE  Loadable(PluginsAt(point))
<1>1. options.features \in Seq(STRING)
  BY OptionAssumption DEF TypeOK
<1>2. \A i \in DOMAIN options.features : i \in Nat
  BY <1>1
<1> SUFFICES ASSUME NEW f \in PluginsAt(point), f # "bb-id-assigner"
             PROVE  "bb-id-assigner" \in PluginsAt(point) /\ Before("bb-id-assigner", f)
  BY DEF Loadable
<1>3. instrumenting /\ Enabled(f) /\ f \in {"bitmap-feedback", "cfg-exporter"}
  BY DEF PluginsAt, WithOptions
<1>4. /\ Enabled("bitmap-feedback") /\ Enabled("bb-id-assigner")
      /\ Before("bb-id-assigner", "bitmap-feedback")
      /\ f = "cfg-exporter" => Before("bitmap-feedback", "cfg-exporter")
  BY <1>3 DEF Supported
<1>5. Before("bb-id-assigner", f)
  <2>1. CASE f = "bitmap-feedback"
    BY <1>4, <2>1
  <2>2. CASE f = "cfg-exporter"
    <3>1. PICK k \in DOMAIN options.features : options.features[k] = "bitmap-feedback"
      BY <1>4 DEF Enabled
    <3>2. ASSUME NEW i \in DOMAIN options.features, NEW j \in DOMAIN options.features,
                 options.features[i] = "bb-id-assigner", options.features[j] = "cfg-exporter"
          PROVE  i < j
      <4>1. i < k /\ k < j
        BY <1>4, <2>2, <3>1, <3>2 DEF Before
      <4> QED
        BY <1>2, <4>1
    <3> QED
      BY <2>2, <3>2 DEF Before
  <2> QED
    BY <1>3, <2>1, <2>2
<1>6. "bb-id-assigner" \in PluginsAt(point)
  BY <1>3, <1>4 DEF PluginsAt, WithOptions
<1> QED
  BY <1>5, <1>6

\* When the exporter runs, the bitmap pass has, and what it used is still cached.
LEMMA SupportedIsCached ==
  ASSUME IInv, Supported, Runs("cfg-exporter")
  PROVE  CachedResult # NotCached
<1>1. /\ TypeOK /\ ModuleInv /\ pc \in {"passes", "lto"} /\ "cfg-exporter" \in passes
      /\ \A g \in passes \ {"cfg-exporter"} : Before("cfg-exporter", g)
      /\ "cfg-exporter" \in PassesAt(Point)
  BY DEF IInv, Runs, ModuleInv
<1>2. /\ Enabled("cfg-exporter") /\ options.cfg_exporter_load_point = Point /\ instrumenting
  BY <1>1, PassesAre
<1>3. /\ Enabled("bitmap-feedback") /\ Before("bitmap-feedback", "cfg-exporter")
      /\ options.bitmap_load_point = Point
  BY <1>2 DEF Supported
<1>4. "bitmap-feedback" \in PassesAt(Point)
  BY <1>2, <1>3, PassesAre DEF Counts, Enabled
<1>5. "bitmap-feedback" \notin passes
  <2> SUFFICES ASSUME "bitmap-feedback" \in passes PROVE FALSE
    OBVIOUS
  <2>1. Before("cfg-exporter", "bitmap-feedback")
    BY <1>1
  <2>2. PICK i, j \in DOMAIN options.features :
          options.features[i] = "bitmap-feedback" /\ options.features[j] = "cfg-exporter"
    BY <1>2, <1>3 DEF Enabled
  <2>3. i < j /\ j < i
    BY <1>3, <2>1, <2>2 DEF Before
  <2>4. options.features \in Seq(STRING)
    BY <1>1, OptionAssumption DEF TypeOK
  <2>5. i \in Nat /\ j \in Nat
    BY <2>2, <2>4
  <2> QED
    BY <2>3, <2>5
<1> QED
  BY <1>1, <1>4, <1>5 DEF ModuleInv, CachedResult

\* What the linker is given can be linked, when bitcode is linked with LTO.
LEMMA SupportedIsLinkable ==
  ASSUME IInv, Supported, instrumenting, pc = "link", linking, Bitcode # {} => lto
  PROVE  Linkable
<1>1. TypeOK /\ ObjectsInv
  BY DEF IInv
<1>2. Loadable(PluginsAt("FullLinkTimeOptimizationLast"))
  BY <1>1, SupportedIsLoadable
<1>3. ASSUME NEW o \in objects, NEW s \in Sources, o.hits[s] > 0
      PROVE  "bitmap-feedback" \in RuntimesLinked
  <2>1. Counts(options)
    BY <1>1, <1>3 DEF ObjectsInv, ObjectOf, UnitOf, Sound, Counted
  <2>2. Enabled("bitmap-feedback")
    BY <2>1 DEF Counts, Enabled
  <2> QED
    BY <2>2 DEF RuntimesLinked, Runtimes
<1>4. \A i, j \in DOMAIN options.features : options.features[i] = options.features[j] => i = j
  BY DEF Supported
<1> QED
  BY <1>2, <1>3, <1>4 DEF Linkable

\* Under supported options no plugin fails to load, no pass aborts and the linker
\* finds what it needs, in one step or in several.
THEOREM SupportedBuildsSucceedAlways == Spec => SupportedBuildsSucceed
<1>1. IInv /\ [Next]_vars =>
        [error' # "none" /\ Supported /\ instrumenting
         /\ (pc = "link" => linking /\ (Bitcode # {} => lto))
         => error' \notin {"plugin", "cached result", "linker"}]_vars
  <2> SUFFICES ASSUME IInv, Next, error' # "none", Supported, instrumenting,
                      pc = "link" => linking /\ (Bitcode # {} => lto)
               PROVE  error' \notin {"plugin", "cached result", "linker"}
    OBVIOUS
  <2>1. TypeOK /\ (pc # "idle" => error = "none")
    BY DEF IInv, InvocationInv
  <2>2. ~PluginFails /\ ~ExporterPassFails /\ ~LinkFails
    BY <2>1, SupportedIsLoadable, SupportedIsCached, SupportedIsLinkable
       DEF PluginFails, ExporterPassFails, LinkFails
  <2>3. CASE RejectArguments \/ CompilerFails \/ AddMetadataFails
    BY <2>1, <2>3 DEF RejectArguments, CompilerFails, AddMetadataFails, Fail
  <2>4. CASE \/ \E c \in CommandLines : Invoke(c)
             \/ StartCompiler \/ (\E s \in Sources : CompileSource(s))
             \/ BitmapPass \/ ExporterPass \/ EmitObject \/ CompilerDone
             \/ Link \/ EmitProgram \/ AddMetadata
    <3>1. error' = "none"
      <4>1. \A c \in CommandLines : Invoke(c) => error' = "none"
        BY DEF Invoke
      <4>2. StartCompiler \/ (\E s \in Sources : CompileSource(s)) => error' = "none"
        BY <2>1 DEF StartCompiler, CompileSource
      <4>3. BitmapPass \/ ExporterPass => error' = "none"
        BY <2>1 DEF BitmapPass, ExporterPass, Runs
      <4>4. EmitObject \/ CompilerDone => error' = "none"
        BY <2>1 DEF EmitObject, CompilerDone
      <4>5. Link \/ EmitProgram \/ AddMetadata => error' = "none"
        BY <2>1 DEF Link, EmitProgram, AddMetadata
      <4> QED
        BY <2>4, <4>1, <4>2, <4>3, <4>4, <4>5
    <3> QED
      BY <3>1
  <2> QED
    BY <2>2, <2>3, <2>4 DEF Next
<1> QED
  BY <1>1, Invariance, PTL DEF Spec, SupportedBuildsSucceed
===============================================================================
