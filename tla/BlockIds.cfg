SPECIFICATION Spec
CONSTANTS
  A = A
  B = B
  C = C
  D = D
  E = E
  Programs <- MCPrograms
  Options <- MCOptions
  MaxDepth = 2
INVARIANTS TypeOK NodesDetermineEdges CoverageIsInExportedGraph
\* The run ends.
CHECK_DEADLOCK FALSE
