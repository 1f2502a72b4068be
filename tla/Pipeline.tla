------------------------------- MODULE Pipeline -------------------------------
(***************************************************************************)
(* The compiler driver (fuzzuf_cc/): what an invocation asks clang and lld *)
(* to do, the passes they run on each module with the analysis cache they  *)
(* share, and the metadata section that the driver adds to the output.     *)
(* Files stay from one invocation to the next, so a program may be built   *)
(* in one step or in several.                                              *)
(*                                                                         *)
(* A translation unit is instrumented as a whole here: which of its blocks *)
(* have ids, and which edges are exported, is in BlockIds.                 *)
(***************************************************************************)
EXTENDS Integers, Sequences

CONSTANTS
  Sources,        \* translation units
  Options,        \* --features and load points, the same in all invocations of a build,
                  \* and the features whose plugins and objects are installed
  CommandLines,   \* the other arguments that an invocation may have
  MaxInvocations  \* bound: invocations of the driver

Features == {"bb-id-assigner", "bitmap-feedback", "cfg-exporter", "ijon-feedback", "forkserver"}
LoadPoints == {"OptimizerLast", "FullLinkTimeOptimizationLast"}

ASSUME OptionAssumption ==
  \A o \in Options : /\ o.features \in Seq(STRING)
                     /\ o.bitmap_load_point \in LoadPoints
                     /\ o.cfg_exporter_load_point \in LoadPoints
                     /\ o.built \subseteq Features
ASSUME InvocationAssumption == MaxInvocations \in Nat

VARIABLES
  options,      \* the options of this build
  files,        \* [Paths -> what is there]
  outcome,      \* how each invocation ended
  error,        \* what the last one failed for
  misnamed,     \* history: invocations with a CommandLine that is Misnamed
  pc,           \* where the driver is
  cmd,          \* its other arguments
  todo,         \* sources that clang has yet to compile
  objects,      \* objects that clang hands to the linker
  module,       \* the LLVM module that passes run on
  passes,       \* passes that it has before it, in the order of the features
  bb_ids        \* cached result of BBIDAssigner for that module

compiler == <<todo, objects, module, passes, bb_ids>>
vars == <<options, files, outcome, error, misnamed, pc, cmd, compiler>>

\* Paths: the base name and its suffix.
AOut == <<"a", "out">>
Prog == <<"prog", "">>
Object(s) == <<s, "o">>
Suffixes == {"o", "s", "bc", "ll", "ast"}
Outputs == {<<s, x>> : s \in Sources, x \in Suffixes}
Paths == {AOut, Prog} \cup Outputs
NoPath == <<"", "">>
Missing == <<"", "missing">>

\* One module is the input of the linker's LTO, the others are named like their source.
Merged == "ld-temp"

\* A result of BBIDAssigner: the module it was computed for, and how often that had
\* been compiled from IR.
Results == (Sources \cup {Merged}) \X Nat
NotCached == <<>>

(* An object, a module, or a program.  hits is how often each unit has been
   instrumented, ids are the results of BBIDAssigner that this used, and exported
   the graphs, each with the result its vertices are taken from.  again, writers,
   by and made are history: how often each unit was compiled from IR that clang
   had written, the invocations that made it and its parts, and with which
   arguments. *)
Empty == [type |-> "nothing", units |-> {}, hits |-> [s \in Sources |-> 0],
          again |-> [s \in Sources |-> 0], ids |-> [s \in Sources |-> {}], exported |-> {},
          runtimes |-> {}, metadata |-> {}, by |-> 0, writers |-> {}, made |-> {}]

Types == {"nothing", "module", "bitcode", "ll", "native", "assembly", "ast", "executable"}
Invocations == 1 .. MaxInvocations
Metadata == [invocation : Invocations, filename : Paths]
Artifacts == [type : Types, units : SUBSET Sources, hits : [Sources -> Nat],
              again : [Sources -> Nat], ids : [Sources -> SUBSET Results],
              exported : SUBSET [units : SUBSET Sources, ids : Results],
              runtimes : SUBSET Features, metadata : SUBSET Metadata,
              by : Nat, writers : SUBSET Invocations,
              made : SUBSET [lto : BOOLEAN, plain : BOOLEAN]]

\* Arguments other than features and load points: -c, -S or neither; -emit-llvm,
\* -emit-ast or neither; inputs, of each source at most one form (the source, an
\* object or IR); what -o, -oX or several of them name, the last one for clang and
\* the first separate one for the driver, which may lack its value; -v (a flag that
\* bypasses the driver); and one of --disable-lto, --inst-linking and
\* --inst-no-linking, which exclude each other and mean nothing to it with -v.
Commands ==
  [mode : {"link", "-c", "-S"}, emit : {"code", "llvm", "ast"},
   inputs : SUBSET (Sources \X {"c", "o", "bc", "ll"}), output : Paths \cup {NoPath},
   separate : Paths \cup {NoPath, Missing}, verbose : BOOLEAN, lto : BOOLEAN,
   linking : {"auto", "yes", "no"}]
NoCommand == [mode |-> "link", emit |-> "code", inputs |-> {}, output |-> NoPath,
              separate |-> NoPath, verbose |-> FALSE, lto |-> FALSE, linking |-> "auto"]

\* The link is reached, as far as clang is concerned.
Links(c) == c.mode = "link" /\ c.emit = "code"

\* How clang may end the name of what it writes for a source.  With -flto its output
\* is of a type of its own, whose suffix is that of an object or of assembly.
SuffixesOf(c) ==
  CASE c.emit = "ast"                    -> {"ast"}
    [] c.emit = "llvm" /\ c.mode = "-S"  -> {"ll"} \cup IF c.lto THEN {"s"} ELSE {}
    [] c.emit = "llvm" /\ c.mode # "-S"  -> {"bc"} \cup IF c.lto THEN {"o"} ELSE {}
    [] c.emit = "code" /\ c.mode = "-S"  -> {"s"}
    [] c.emit = "code" /\ c.mode # "-S"  -> {"o"}

\* An output is named for a source and what is made of it.
ASSUME CommandAssumption ==
  \A c \in CommandLines :
    /\ c \in Commands
    /\ c.inputs # {}
    /\ \A x, y \in c.inputs : x[1] = y[1] => x = y
    /\ ~Links(c) => \A x \in c.inputs : x[2] # "o"
    /\ \A f \in {c.output, c.separate} \ {NoPath, Missing} :
         IF Links(c) THEN f = Prog
         ELSE \E x \in c.inputs : \E y \in SuffixesOf(c) : f = <<x[1], y>>
    /\ c.separate # NoPath => (c.separate = Missing <=> c.output = NoPath)
    /\ c.linking # "auto" => c.lto
    /\ c.verbose => c.lto /\ c.linking = "auto" /\ c.separate # Missing

Failures == {"usage", "plugin", "cached result", "compiler", "linker", "objcopy"}

TypeOK ==
  /\ options \in Options
  /\ files \in [Paths -> Artifacts]
  /\ outcome \in Seq({"running", "done", "plain", "failed"}) /\ Len(outcome) <= MaxInvocations
  /\ error \in Failures \cup {"none"}
  /\ misnamed \subseteq 1 .. Len(outcome)
  /\ pc \in {"idle", "instrument", "compile", "passes", "link", "lto", "metadata"}
  /\ cmd \in CommandLines \cup {NoCommand}
  /\ todo \subseteq Sources
  /\ objects \subseteq Artifacts
  /\ module \in Artifacts
  /\ passes \subseteq {"bitmap-feedback", "cfg-exporter"}
  /\ bb_ids \in Results \cup {NotCached}

Init ==
  /\ options \in Options
  /\ files = [p \in Paths |-> Empty]
  /\ outcome = <<>> /\ error = "none" /\ misnamed = {}
  /\ pc = "idle"
  /\ cmd = NoCommand
  /\ todo = {} /\ objects = {}
  /\ module = Empty /\ passes = {} /\ bb_ids = NotCached

invocation == Len(outcome)
Enabled(f) == \E i \in DOMAIN options.features : options.features[i] = f
Before(f, g) ==
  \A i, j \in DOMAIN options.features :
    options.features[i] = f /\ options.features[j] = g => i < j
SourcesIn(c) == {s \in Sources : <<s, "c">> \in c.inputs}
CompiledIn(c) == {s \in Sources : \E x \in {"c", "bc", "ll"} : <<s, x>> \in c.inputs}
Single(S) == \E x \in S : S = {x}
Flags == [lto |-> cmd.lto, plain |-> cmd.verbose]

\* The invocation is over; so are clang and lld.
End(how) ==
  /\ outcome' = [outcome EXCEPT ![invocation] = how]
  /\ pc' = "idle"
  /\ cmd' = NoCommand
  /\ todo' = {} /\ objects' = {}
  /\ module' = Empty /\ passes' = {} /\ bb_ids' = NotCached
  /\ UNCHANGED <<options, misnamed>>

Fail(why) == End("failed") /\ error' = why /\ UNCHANGED files

-------------------------------------------------------------------------------
(* The user. *)

\* Command lines from which the driver cannot tell what clang writes: a joined -oX or
\* several -o, -S or another kind of output without -o, and IR next to the source
\* that the name of an object is derived from.
Misnamed(c) ==
  IF c.separate # NoPath THEN c.separate # c.output
  ELSE \/ c.output # NoPath
       \/ c.mode = "-S"
       \/ c.emit # "code"
       \/ c.mode = "-c" /\ CompiledIn(c) # SourcesIn(c)

\* What a file of a name must hold to be an input.
InputTypes == [o |-> {"bitcode", "native"}, bc |-> {"bitcode"}, ll |-> {"ll"}]

\* The sources are there, and so are the files that are named.
Invoke(c) ==
  /\ pc = "idle" /\ invocation < MaxInvocations
  /\ \A x \in c.inputs : x[2] # "c" => files[x].type \in InputTypes[x[2]]
  /\ cmd' = c
  /\ misnamed' = IF Misnamed(c) THEN misnamed \cup {invocation + 1} ELSE misnamed
  /\ outcome' = Append(outcome, "running") /\ error' = "none"
  /\ pc' = "instrument"
  /\ UNCHANGED <<options, files, compiler>>

-------------------------------------------------------------------------------
(* Instrumentor.instrument, up to subprocess.run(cc_args). *)

\* None of -c, -S, -emit-ast and -emit-llvm, if nothing is said about it.
linking == IF cmd.linking = "auto" THEN Links(cmd) ELSE cmd.linking = "yes"

\* Mutant: the name of the object is not derived.
PutAlwaysAOut == IF cmd.separate # NoPath THEN cmd.separate ELSE AOut

\* The file that the metadata is about.  -oX is not looked for.
put ==
  IF cmd.separate # NoPath THEN cmd.separate
  ELSE IF cmd.mode = "-c" THEN Object(CHOOSE s \in SourcesIn(cmd) : TRUE)
  ELSE AOut

\* The output of clang is what the last -o names, else it depends on what it is.
OutputsOf(s) == IF cmd.output # NoPath THEN {cmd.output} ELSE {<<s, x>> : x \in SuffixesOf(cmd)}

\* Feature.all_path_exists
all_path_exists(f) == f \in options.built

\* Features whose factories add options to the parser, which argparse refuses to
\* do twice.
WithOptions == {"bb-id-assigner", "bitmap-feedback", "cfg-exporter"}

\* No "Unsupported feature", conflicting option, "module is not built", "argument to
\* `-o` is missing" and, since without -o the driver names one object, no "Input
\* filepath is missing".
Accepted ==
  /\ \A i \in DOMAIN options.features :
       options.features[i] \in Features /\ all_path_exists(options.features[i])
  /\ \A i, j \in DOMAIN options.features :
       options.features[i] = options.features[j] /\ options.features[i] \in WithOptions => i = j
  /\ cmd.separate # Missing
  /\ cmd.verbose \/ cmd.separate # NoPath \/ cmd.mode # "-c" \/ Single(SourcesIn(cmd))

RejectArguments == pc = "instrument" /\ ~Accepted /\ Fail("usage")

StartCompiler ==
  /\ pc = "instrument" /\ Accepted
  /\ todo' = CompiledIn(cmd)
  /\ objects' = {files[x] : x \in {y \in cmd.inputs : y[2] = "o"}}
  /\ pc' = "compile"
  /\ UNCHANGED <<options, files, outcome, error, misnamed, cmd, module, passes, bb_ids>>

\* -v and the like: clang gets the rest of the arguments and nothing else.
instrumenting == ~cmd.verbose
lto == instrumenting /\ cmd.lto

\* Mutant: bitmap-feedback is loaded at both points.
BitmapLoadedAtBoth(point) == TRUE

\* The pass is registered at this point, as the environment tells its plugin.
BitmapLoadedAt(point) == options.bitmap_load_point = point
ExporterLoadedAt(point) == options.cfg_exporter_load_point = point

\* llvm_pass_obj_paths and llvm_lto_pass_obj_paths of each feature, in the order
\* of the features: the assigner is in both.
PluginsAt(point) ==
  {f \in WithOptions :
     /\ instrumenting /\ Enabled(f)
     /\ f = "bitmap-feedback" => BitmapLoadedAt(point)
     /\ f = "cfg-exporter" => ExporterLoadedAt(point)}

\* The other two plugins refer to BBIDAssigner::Key, which the loader has to find
\* in a plugin that it has loaded before.
Loadable(plugins) ==
  \A f \in plugins \ {"bb-id-assigner"} :
    "bb-id-assigner" \in plugins /\ Before("bb-id-assigner", f)

\* Mutant: the assigner runs as a pass of its own.
PassesAtAll(point) == PluginsAt(point)

\* The plugin of the assigner registers an analysis and adds no pass.
AddsPass(f) == f # "bb-id-assigner"

PassesAt(point) == {f \in PluginsAt(point) : AddsPass(f)}

\* The pass that runs next.
Runs(f) ==
  /\ pc \in {"passes", "lto"}
  /\ f \in passes /\ \A g \in passes \ {f} : Before(f, g)

-------------------------------------------------------------------------------
(* clang and the passes. *)

\* "-emit-llvm cannot be used when linking".
Refused == cmd.mode = "link" /\ cmd.emit = "llvm"

\* An AST is written before there is a module: no plugin is loaded.
HasModule == cmd.emit # "ast"

\* What clang refuses, -o with more than one output, or code that does not compile.
CompilerFails ==
  /\ pc = "compile" /\ (todo # {} \/ Refused)
  /\ Fail("compiler")

PluginFails ==
  /\ pc = "compile" /\ todo # {}
  /\ HasModule /\ ~Loadable(PluginsAt("OptimizerLast"))
  /\ Fail("plugin")

\* What is compiled: a source, or IR with all that it has been through.
Unit(s) ==
  IF s \in SourcesIn(cmd) THEN [Empty EXCEPT !.units = {s}]
  ELSE LET x == CHOOSE x \in cmd.inputs : x[1] = s
       IN [files[x] EXCEPT !.again[s] = @ + 1]

\* No AST is made of IR.
CompileSource(s) ==
  /\ pc = "compile" /\ s \in todo
  /\ ~Refused
  /\ Links(cmd) \/ cmd.output = NoPath \/ Single(CompiledIn(cmd))
  /\ IF HasModule THEN Loadable(PluginsAt("OptimizerLast")) ELSE s \in SourcesIn(cmd)
  /\ todo' = todo \ {s}
  /\ module' = [Unit(s) EXCEPT !.type = "module"]
  /\ passes' = IF HasModule THEN PassesAt("OptimizerLast") ELSE {}
  /\ bb_ids' = NotCached
  /\ pc' = "passes"
  /\ UNCHANGED <<options, files, outcome, error, misnamed, cmd, objects>>

\* What BBIDAssigner computes for the module.
NewResult ==
  IF pc = "lto" THEN <<Merged, 0>>
  ELSE LET s == CHOOSE s \in module.units : TRUE IN <<s, module.again[s]>>

\* Mutant: PreservedAnalyses without BBIDAssigner.
PreservedNothing(ids) == NotCached

\* PA.preserve<BBIDAssigner>()
Preserved(ids) == ids

\* AFLCoverage::run: getResult runs the assigner unless its result is cached.
BitmapPass ==
  /\ Runs("bitmap-feedback")
  /\ LET ids == IF bb_ids = NotCached THEN NewResult ELSE bb_ids
     IN /\ module' = [module EXCEPT
             !.hits = [s \in Sources |-> IF s \in module.units THEN @[s] + 1 ELSE @[s]],
             !.ids = [s \in Sources |-> IF s \in module.units THEN @[s] \cup {ids} ELSE @[s]]]
        /\ bb_ids' = Preserved(ids)
  /\ passes' = passes \ {"bitmap-feedback"}
  /\ UNCHANGED <<options, files, outcome, error, misnamed, pc, cmd, todo, objects>>

\* Mutant: getResult for getCachedResult.
CachedOrComputed == IF bb_ids = NotCached THEN NewResult ELSE bb_ids

CachedResult == bb_ids

\* CFGExporter::run
ExporterPass ==
  /\ Runs("cfg-exporter")
  /\ CachedResult # NotCached
  /\ module' = [module EXCEPT !.exported = @ \cup {[units |-> module.units, ids |-> CachedResult]}]
  /\ passes' = passes \ {"cfg-exporter"}
  /\ UNCHANGED <<options, files, outcome, error, misnamed, pc, cmd, todo, objects, bb_ids>>

\* "Cached result not found"
ExporterPassFails ==
  /\ Runs("cfg-exporter")
  /\ CachedResult = NotCached
  /\ Fail("cached result")

\* What is written is history, too.
Written(a, type) ==
  [a EXCEPT !.type = type, !.by = invocation, !.writers = @ \cup {invocation},
            !.made = @ \cup {Flags}]

\* With -flto an object is bitcode.
Emitted ==
  CASE cmd.emit = "ast"                      -> "ast"
    [] cmd.emit = "llvm" /\ cmd.mode = "-S"  -> "ll"
    [] cmd.emit = "llvm" /\ cmd.mode # "-S"  -> "bitcode"
    [] cmd.emit = "code" /\ cmd.mode = "-S"  -> "assembly"
    [] cmd.emit = "code" /\ cmd.mode # "-S"  -> IF lto THEN "bitcode" ELSE "native"

EmitObject ==
  /\ pc = "passes" /\ passes = {}
  /\ LET s == CHOOSE s \in module.units : TRUE
         object == Written(module, Emitted)
     IN IF Links(cmd)
        THEN objects' = objects \cup {object} /\ UNCHANGED files
        ELSE /\ \E p \in OutputsOf(s) : files' = [files EXCEPT ![p] = object]
             /\ UNCHANGED objects
  /\ module' = Empty /\ bb_ids' = NotCached
  /\ pc' = "compile"
  /\ UNCHANGED <<options, outcome, error, misnamed, cmd, todo, passes>>

\* All sources are compiled.
CompilerDone ==
  /\ pc = "compile" /\ todo = {} /\ ~Refused
  /\ IF Links(cmd)
     THEN /\ pc' = "link"
          /\ UNCHANGED <<options, files, outcome, error, misnamed, cmd, compiler>>
     ELSE IF instrumenting
     THEN /\ pc' = "metadata"
          /\ UNCHANGED <<options, files, outcome, error, misnamed, cmd, compiler>>
     ELSE End("plain") /\ UNCHANGED <<files, error>>

-------------------------------------------------------------------------------
(* The linker. *)

Bitcode == {o \in objects : o.type = "bitcode"}

\* Features with object_paths.
Runtimes == {"bitmap-feedback", "ijon-feedback", "forkserver"}

RuntimesLinked == IF instrumenting /\ linking THEN {f \in Runtimes : Enabled(f)} ELSE {}

\* Only lld reads bitcode (the system's linker is taken to have no plugin for it).
\* __bitmap_area_ptr is in the runtime, and the objects of a feature that is named
\* twice define their symbols twice.
Linkable ==
  /\ \A i, j \in DOMAIN options.features :
       options.features[i] = options.features[j] /\ options.features[i] \in RuntimesLinked => i = j
  /\ Bitcode # {} => lto /\ linking /\ Loadable(PluginsAt("FullLinkTimeOptimizationLast"))
  /\ (\E o \in objects : \E s \in Sources : o.hits[s] > 0) => "bitmap-feedback" \in RuntimesLinked

LinkFails ==
  /\ pc = "link"
  /\ ~Linkable
  /\ Fail("linker")

Union(S) ==
  [Empty EXCEPT
     !.units = UNION {o.units : o \in S},
     !.hits = [s \in Sources |-> IF \E o \in S : s \in o.units
                                 THEN (CHOOSE o \in S : s \in o.units).hits[s] ELSE 0],
     !.again = [s \in Sources |-> IF \E o \in S : s \in o.units
                                  THEN (CHOOSE o \in S : s \in o.units).again[s] ELSE 0],
     !.ids = [s \in Sources |-> UNION {o.ids[s] : o \in S}],
     !.exported = UNION {o.exported : o \in S},
     !.metadata = UNION {o.metadata : o \in S},
     !.writers = UNION {o.writers : o \in S},
     !.made = UNION {o.made : o \in S}]

\* What is bitcode becomes one module, with the passes that lld has loaded.
Link ==
  /\ pc = "link"
  /\ Linkable
  /\ objects' = objects \ Bitcode
  /\ module' = [Union(Bitcode) EXCEPT !.type = "module"]
  /\ passes' = IF Bitcode = {} THEN {} ELSE PassesAt("FullLinkTimeOptimizationLast")
  /\ bb_ids' = NotCached
  /\ pc' = "lto"
  /\ UNCHANGED <<options, files, outcome, error, misnamed, cmd, todo>>

Program == Written([Union(objects \cup {module}) EXCEPT !.runtimes = RuntimesLinked], "executable")

EmitProgram ==
  /\ pc = "lto" /\ passes = {}
  /\ files' = [files EXCEPT ![IF cmd.output # NoPath THEN cmd.output ELSE AOut] = Program]
  /\ IF instrumenting
     THEN /\ pc' = "metadata"
          /\ objects' = {} /\ module' = Empty /\ bb_ids' = NotCached
          /\ UNCHANGED <<options, outcome, error, misnamed, cmd, todo, passes>>
     ELSE End("plain") /\ UNCHANGED error

-------------------------------------------------------------------------------
(* objcopy *)

Section == [invocation |-> invocation, filename |-> put]

AddMetadata ==
  /\ pc = "metadata"
  /\ files[put].type \in {"native", "executable"}
  /\ files' = [files EXCEPT ![put].metadata = @ \cup {Section}]
  /\ End("done") /\ UNCHANGED error

\* accept_fail: file(1) says that the output is bitcode.
accept_fail == files[put].type = "bitcode"

\* objcopy knows neither bitcode nor text nor an AST nor a file that is not there, and
\* may be missing itself.
AddMetadataFails ==
  /\ pc = "metadata"
  /\ IF accept_fail THEN End("done") /\ UNCHANGED <<files, error>> ELSE Fail("objcopy")

-------------------------------------------------------------------------------
Next ==
  \/ \E c \in CommandLines : Invoke(c)
  \/ RejectArguments
  \/ StartCompiler
  \/ CompilerFails
  \/ PluginFails
  \/ \E s \in Sources : CompileSource(s)
  \/ BitmapPass
  \/ ExporterPass
  \/ ExporterPassFails
  \/ EmitObject
  \/ CompilerDone
  \/ LinkFails
  \/ Link
  \/ EmitProgram
  \/ AddMetadata
  \/ AddMetadataFails

Spec == Init /\ [][Next]_vars

-------------------------------------------------------------------------------
(* Properties. *)

\* The options that the passes need: no feature twice, the assigner first, the
\* exporter at the point at which the bitmap pass has asked for the ids, and after it.
Supported ==
  /\ \A i \in DOMAIN options.features : options.features[i] \in Features
  /\ \A i, j \in DOMAIN options.features : options.features[i] = options.features[j] => i = j
  /\ Enabled("bitmap-feedback") =>
       Enabled("bb-id-assigner") /\ Before("bb-id-assigner", "bitmap-feedback")
  /\ Enabled("cfg-exporter") =>
       /\ Enabled("bitmap-feedback") /\ Before("bitmap-feedback", "cfg-exporter")
       /\ options.bitmap_load_point = options.cfg_exporter_load_point

\* No unit of a program is counted twice, whichever way it was built, unless IR of it
\* that clang had already instrumented was compiled again: the passes run at
\* compilation or at link time, and never at both.  None is left out either when no
\* invocation bypassed the driver and, if the bitmap pass is loaded at link time,
\* all of them left LTO on.
InstrumentedOnce ==
  \A p \in Paths : \A s \in Sources :
    /\ files[p].hits[s] <= 1 + files[p].again[s]
    /\ options.bitmap_load_point = "FullLinkTimeOptimizationLast" => files[p].hits[s] <= 1
    /\ /\ files[p].type = "executable" /\ s \in files[p].units /\ Enabled("bitmap-feedback")
       /\ \A f \in files[p].made :
            ~f.plain /\ (f.lto \/ options.bitmap_load_point = "OptimizerLast")
       => files[p].hits[s] >= 1

\* The vertices of an exported graph are the ids that the program counts, and the only
\* ones unless IR was compiled again: an exporter that is loaded at another point
\* than the bitmap pass aborts, and never names blocks by ids of its own.
ExportedIdsAreUsed ==
  \A p \in Paths : \A e \in files[p].exported : \A s \in e.units :
    /\ e.ids \in files[p].ids[s]
    /\ files[p].again[s] = 0 => files[p].ids[s] = {e.ids}

\* A metadata section is in a file that its invocation wrote, or that was linked
\* from one, and an invocation that reports success has put one into the native
\* file that it made.  Misnamed command lines are excepted: the driver then takes
\* another file for the output, and if there is one of an earlier build, that gets
\* the section and success is reported.
MetadataOnOwnOutput ==
  \A p \in Paths :
    /\ \A d \in files[p].metadata : d.invocation \in files[p].writers \cup misnamed
    /\ /\ files[p].type \in {"native", "executable"}
       /\ outcome[files[p].by] = "done" /\ files[p].by \notin misnamed
       => \E d \in files[p].metadata : d.invocation = files[p].by

\* Under supported options, in the order of features that fuzzuf-afl-cc has, no
\* pass aborts, no plugin fails to load and the linker finds what it needs, in
\* one step or in several, as long as bitcode is linked with LTO.
SupportedBuildsSucceed ==
  [][error' # "none" /\ Supported /\ instrumenting
     /\ (pc = "link" => linking /\ (Bitcode # {} => lto))
     => error' \notin {"plugin", "cached result", "linker"}]_vars

\* docs/features/*.md: "fuzzuf-cc --features <name> [options] <file>".  One source
\* that compiles, nothing else: the plugin of the feature can be loaded.
DocumentedUsageWorks ==
  [][error' # "plugin"]_vars
===============================================================================
