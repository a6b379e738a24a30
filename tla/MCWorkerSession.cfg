SPECIFICATION Spec
CONSTANTS
  None = None
  Workspace = {ws1}
  Worker = {w1}
  Dispatcher = {1, 2, 3}
  Result = {r1}
  CleanupId = {c1}
  MaxFaults = 1
  MaxCrashes = 2
  MaxCancels = 1
CHECK_DEADLOCK FALSE
INVARIANTS
  AcceptanceIsStored
  RefusedStaysRefused
  AcknowledgedIsRecorded
  PeersAgree
PROPERTIES
  ResultIsRecorded
  ImplementsSingleStart
