------------------------------ MODULE MCBlockIds ------------------------------
(* BlockIds with small programs: edges to be split, a switch with two cases that *)
(* go to one block, loops, and calls that are direct, indirect, recursive or go  *)
(* to a function without body.                                                  *)
EXTENDS BlockIds, TLC

CONSTANTS A, B, C, D, E

MCProgram(succs, entry, callee, indirect) ==
  [succs |-> succs, entry |-> entry, callee |-> callee, indirect |-> indirect]

MCPrograms ==
  { \* if without else, in a loop
    MCProgram(A :> <<B>> @@ B :> <<C, D>> @@ C :> <<D>> @@ D :> <<B, E>> @@ E :> <<>>,
              [main |-> A], <<>>, {}),
    \* switch with two equal cases, and a call in one arm
    MCProgram(A :> <<B, B, C>> @@ B :> <<C>> @@ C :> <<>> @@ D :> <<>>,
              [main |-> A, f |-> D], B :> "f", {}),
    \* loops of one and of two blocks
    MCProgram(A :> <<B>> @@ B :> <<B, C>> @@ C :> <<B, D>> @@ D :> <<>>,
              [main |-> A], C :> "printf", {}),
    \* a function that calls itself, itself called through a pointer
    MCProgram(A :> <<>> @@ B :> <<C, D>> @@ C :> <<D>> @@ D :> <<>>,
              [main |-> A, f |-> B], A :> "f" @@ C :> "f", {A}) }

MCOptions ==
  {[path_splitting |-> split, selection_strategy |-> selection,
    generation_strategy |-> generation, map_size |-> IF generation = "RANDOM" THEN 2 ELSE 0] :
     split \in BOOLEAN, selection \in {"ALL", "NO_MULTIPLE_PRED"},
     generation \in {"SEQUENTIAL", "RANDOM"}}
  \cup {[path_splitting |-> FALSE, selection_strategy |-> "ALL",
         generation_strategy |-> "RANDOM", map_size |-> 0]}
===============================================================================
