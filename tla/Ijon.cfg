CONSTANTS
  Threads = {main, worker}
  Main = main
  Layouts <- MCLayouts
  MapSize = 4
  MaxMapSize = 2
  WordSize = 2
  StateValues = 16
  LogBase = 4
  ByteValues = 4
  HashShifts <- MCHashShifts
  HashFactors <- MCHashFactors
  Sites <- MCSites
  Numbers = {1, 2}
  Strings <- MCStrings
  Stacks <- MCStacks
  MaxFrames = 2
  MaxValue = 3
  BitXor <- MCXor
  MaxCalls = 2
  MaxRuns = 2
SPECIFICATION Spec
INVARIANTS TypeOK StateIsContext WritesInOwnRegion UpdatedNotZero MaximumIsReported
CHECK_DEADLOCK FALSE
