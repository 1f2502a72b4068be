SPECIFICATION FairHSpec
CONSTANTS
  Executors = {e1, e2}
  executor = e1
  NoFile = NoFile
  MaxCalls = 2
  OtherCalls = 0
  TestCases = {"short", "long"}
  Length <- MCLength
  MaxChunks = 2
  PipeSize = 1
  Size = 2
INVARIANTS
  HarnessTypeOK
  OutputsComplete
  ReturnsItsResponse
  CoverageIsOfCall
  SegmentLifetime
PROPERTIES
  CallReturnsIfServerLives
  HarnessEnds
\* The test program ends, or waits for ever when the fork server has died.
CHECK_DEADLOCK FALSE
