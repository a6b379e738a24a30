SPECIFICATION Spec
CONSTANTS
  None = None
  Workspace = {ws1}
  Worker = {w1}
  Dispatcher = {1, 2, 3}
  Result = {r1}
  CleanupId = {c1}
  MaxFaults = 1
  MaxCrashes = 1
  MaxTroubles = 1
  Answers = {"accepted", "not_accepted", "unknown"}
CHECK_DEADLOCK FALSE
PROPERTIES
  EveryFinalIsAnswered
