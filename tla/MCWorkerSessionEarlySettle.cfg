SPECIFICATION Spec
CONSTANTS
  None = None
  Workspace = {ws1}
  Worker = {w1}
  Dispatcher = {1, 2, 3}
  Result = {r1}
  CleanupId = {c1}
  MaxFaults = 0
  MaxCrashes = 0
  MaxCancels = 0
CHECK_DEADLOCK FALSE
PROPERTY
  RunEndsAtLast
