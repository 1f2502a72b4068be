------------------------------ MODULE MCPipeline ------------------------------
(* Pipeline with the features of fuzzuf-afl-cc at every pair of load points, and *)
(* with lists that a user of fuzzuf-cc may give; and with command lines of which *)
(* each has at most one thing out of the ordinary.                              *)
EXTENDS Pipeline, TLC

MCBuild(features, bitmap, exporter) ==
  [features |-> features, bitmap_load_point |-> bitmap, cfg_exporter_load_point |-> exporter,
   built |-> Features \ {"ijon-feedback"}]

MCWrapper == {MCBuild(<<"bb-id-assigner", "bitmap-feedback", "cfg-exporter", "forkserver">>, b, e) :
                b, e \in LoadPoints}

MCOptions ==
  MCWrapper \cup
  {MCBuild(<<"bb-id-assigner", "cfg-exporter", "bitmap-feedback">>, "OptimizerLast",
           "OptimizerLast"),
   MCBuild(<<"bitmap-feedback", "bb-id-assigner">>, "OptimizerLast", "OptimizerLast"),
   MCBuild(<<"bb-id-assigner", "ijon-feedback">>, "OptimizerLast", "OptimizerLast"),
   MCBuild(<<"bitmap-feedback", "coverage">>, "OptimizerLast", "OptimizerLast"),
   MCBuild(<<"bb-id-assigner", "bitmap-feedback", "bitmap-feedback">>, "OptimizerLast",
           "OptimizerLast"),
   MCBuild(<<"bb-id-assigner", "bitmap-feedback", "forkserver", "forkserver">>, "OptimizerLast",
           "OptimizerLast")}

MCDocumented == {MCBuild(<<"cfg-exporter">>, "OptimizerLast", "OptimizerLast")}

MCPlain == [verbose |-> TRUE, lto |-> TRUE, linking |-> "auto"]
MCLto == [verbose |-> FALSE, lto |-> TRUE, linking |-> "auto"]
MCNoLto == [MCLto EXCEPT !.lto = FALSE]
MCForced == {[MCLto EXCEPT !.linking = k] : k \in {"yes", "no"}}

MCCommand(mode, emit, inputs, output, separate, f) ==
  [mode |-> mode, emit |-> emit, inputs |-> inputs, output |-> output, separate |-> separate,
   verbose |-> f.verbose, lto |-> f.lto, linking |-> f.linking]

MCInputs(forms) ==
  {i \in SUBSET (Sources \X forms) : i # {} /\ \A x, y \in i : x[1] = y[1] => x = y}

\* Sources and objects, with one -o or none.
MCOrdinary ==
  UNION {
    {MCCommand("link", "code", i, NoPath, NoPath, f) :
       i \in MCInputs({"c", "o"}), f \in {MCPlain, MCLto, MCNoLto}},
    {MCCommand("link", "code", i, Prog, Prog, MCLto) : i \in MCInputs({"o"})},
    {MCCommand("link", "code", {x}, NoPath, NoPath, f) :
       x \in Sources \X {"c", "o"}, f \in MCForced},
    {MCCommand("-c", "code", i, NoPath, NoPath, f) :
       i \in MCInputs({"c"}), f \in {MCPlain, MCLto, MCNoLto}},
    {MCCommand("-c", "code", {<<s, "c">>}, Object(s), Object(s), MCLto) : s \in Sources},
    {MCCommand("-S", "code", {<<s, "c">>}, NoPath, NoPath, MCLto) : s \in Sources},
    {MCCommand("-S", "code", {<<s, "c">>}, <<s, "s">>, <<s, "s">>, MCLto) : s \in Sources}}

\* -emit-llvm and -emit-ast.
MCEmitting ==
  UNION {
    {MCCommand("-c", "llvm", {<<s, "c">>}, NoPath, NoPath, f) :
       s \in Sources, f \in {MCPlain, MCLto, MCNoLto}},
    {MCCommand("-S", "llvm", {<<s, "c">>}, NoPath, NoPath, f) :
       s \in Sources, f \in {MCLto, MCNoLto}},
    {MCCommand("link", e, {<<s, "c">>}, NoPath, NoPath, MCLto) :
       s \in Sources, e \in {"llvm", "ast"}}}

\* IR as input.
MCFromIR ==
  UNION {
    {MCCommand("link", "code", {<<s, x>>}, NoPath, NoPath, f) :
       s \in Sources, x \in {"bc", "ll"}, f \in {MCLto, MCNoLto}},
    {MCCommand("-c", "code", {<<s, x>>}, Object(s), Object(s), f) :
       s \in Sources, x \in {"bc", "ll"}, f \in {MCLto, MCNoLto}},
    {MCCommand("-c", "code", {<<p[1], "c">>, <<p[2], "bc">>}, NoPath, NoPath, MCLto) :
       p \in {q \in Sources \X Sources : q[1] # q[2]}}}

\* -oX, -o X -o Y, and -o without a value.
MCNaming ==
  UNION {
    {MCCommand("link", "code", {<<s, "c">>}, Prog, NoPath, MCLto) : s \in Sources},
    {MCCommand("-c", "code", {<<s, "c">>}, Object(s), NoPath, MCNoLto) : s \in Sources},
    {MCCommand("-c", "llvm", {<<s, "c">>}, <<s, "bc">>, Object(s), MCLto) : s \in Sources},
    {MCCommand("link", "code", {<<s, "c">>}, NoPath, Missing, MCLto) : s \in Sources}}

MCCommandLines == MCOrdinary \cup MCEmitting \cup MCFromIR \cup MCNaming

MCSymmetry == Permutations(Sources)
===============================================================================
