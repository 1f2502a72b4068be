SPECIFICATION Spec
CONSTANTS
  Threads = {main, t1}
  Main = main
  b1 = b1
  b2 = b2
  Blocks = {b1, b2}
  MapSize = 4
  IdMapSize = 5
  IdSpace = 8
  ByteValues = 3
  BitXor <- MCXor
  MaxBlocks = 4
  MaxRuns = 2
INVARIANTS
  CoverageIsOfPath
  VisitedNotZero
  NeverOvercounts
  PastOnlyByIds
  EdgesAreOfOneThread
CONSTRAINT MCBound
\* The client stops calling.
CHECK_DEADLOCK FALSE
