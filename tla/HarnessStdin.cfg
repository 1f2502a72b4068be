SPECIFICATION HSpec
CONSTANTS
  Executors = {e1, e2, e3}
  executor = e1
  NoFile = NoFile
  MaxCalls = 2
  OtherCalls = 1
  TestCases = {"short", "long"}
  Length <- MCLength
  MaxChunks = 0
  PipeSize = 1
  Size = 1
SYMMETRY MCOthers
INVARIANT InputIsTestcase
\* The test program ends, or waits for ever when the fork server has died.
CHECK_DEADLOCK FALSE
