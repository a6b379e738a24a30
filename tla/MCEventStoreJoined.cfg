SPECIFICATION Spec
CONSTANTS
  None = None
  Workspace = {ws1}
  Worker = {w1}
  Dispatcher = {d1}
  CleanupId = {}
  Result = {r1}
  Malformed = {}
  Process = {p1}
  Slot = {a}
  Intents = {}
  MaxCalls = 2
  MaxFaults = 1
  MaxCrashes = 0
  MaxPowerLosses = 1
CHECK_DEADLOCK FALSE
INVARIANTS
  JoinedIsKept
