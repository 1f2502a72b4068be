SPECIFICATION Spec
CONSTANTS
  Sources = {a}
  Options <- MCDocumented
  CommandLines <- MCCommandLines
  MaxInvocations = 1
PROPERTY DocumentedUsageWorks
CHECK_DEADLOCK FALSE
