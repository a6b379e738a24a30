SPECIFICATION Spec
CONSTANTS
  None = None
  Pid = {1, 2}
  WorkerPid = 1
  c1 = c1
  Run = run
  Attempt <- OneCancellation
  Kinds <- KindsOfSuccess
  MaxBirths = 0
CHECK_DEADLOCK FALSE
INVARIANT
  CapturedAreStopped
