SPECIFICATION Spec
CONSTANTS
  None = None
  Pid = {1, 2, 3}
  WorkerPid = 1
  c1 = c1
  Run = run
  Attempt <- OneCancellation
  Kinds <- KindsOfAttempts
  MaxBirths = 1
CHECK_DEADLOCK FALSE
INVARIANTS
  StopProofIsTrue
  OnlyTakersAreHarmed
