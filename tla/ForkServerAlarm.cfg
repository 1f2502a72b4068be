SPECIFICATION Spec
CONSTANTS
  MaxRuns = 2
  MaxSettings = 1
  Timeouts = {0, 4}
  DefaultTimeout = 3
  ExecutorIds = {1, 255}
  HANDSHAKE_FAILED = 255
  ConfigCommands = {2}
  ServerPid = ServerPid
  ExitCodes = {0}
  CrashSignals = {11}
  ForkMayFail = FALSE
INVARIANT EveryRunAnswered
CHECK_DEADLOCK FALSE
