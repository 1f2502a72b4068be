SPECIFICATION FairSpec
CONSTANTS
  Executors = {e1}
  NoFile = NoFile
  MaxCalls = 2
  TestCases = {"short", "long"}
  Length <- MCLength
  MaxChunks = 2
  PipeSize = 1
PROPERTY CallReturns
CHECK_DEADLOCK FALSE
