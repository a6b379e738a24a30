SPECIFICATION Spec
CONSTANTS
  None = None
  Workspace = {ws1}
  Worker = {w1}
  Dispatcher = {d1}
  CleanupId = {}
  Result = {r1, r2}
  Malformed = {m1}
  Process = {p1, p2}
  Slot = {a, b}
  Intents = {"operation_requested", "agent_settled", "operation_failed"}
  MaxCalls = 3
  MaxFaults = 1
  MaxCrashes = 1
  MaxPowerLosses = 1
SYMMETRY Symmetry
CHECK_DEADLOCK FALSE
INVARIANTS
  BodyMatchesRecord
  AckedIsDurable
  FetchedBodyIsAccepted
  QueuesMove
PROPERTIES
  RecordOnlyGrows
