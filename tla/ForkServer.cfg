SPECIFICATION FairSpec
CONSTANTS
  MaxRuns = 3
  MaxSettings = 2
  Timeouts = {0, 4}
  DefaultTimeout = 3
  ExecutorIds = {1, 255}
  HANDSHAKE_FAILED = 255
  ConfigCommands = {0, 2, 3}
  ServerPid = ServerPid
  ExitCodes = {0, 9}
  CrashSignals = {11}
  ForkMayFail = TRUE
INVARIANTS
  TypeOK
  InFrame
  RepliesAreFates
  ClientNeverOverlapsPut
  WritesHaveReader
  RunsAsRequested
  AlarmsAreContained
  AbortedLosesNoOutcome
PROPERTIES
  ImplementsService
  AnsweredOrFailed
  ServerFollowsClient
CHECK_DEADLOCK FALSE
