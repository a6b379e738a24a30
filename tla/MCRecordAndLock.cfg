SPECIFICATION Spec
CONSTANTS
  None = None
  Workspace = {ws1, ws2}
  Worker = {w1, w2}
  Dispatcher = {d1, d2, d3}
  Result = {r1}
  CleanupId = {c1}
  MaxStateSeq = 16
  MaxGeneration = 3
  MaxEpoch = 1
  NoSecret = NoSecret
  Process = {p1, p2, p3}
  Secret = {s1, s2}
  MaxFaults = 1
  MaxCrashes = 1
  MaxPowerLosses = 1
SYMMETRY Symmetry
CHECK_DEADLOCK FALSE
INVARIANTS
  IInv
  StartEvidenceOrdered
  OutcomeJustified
  HandoffsOrdered
  LockIInv
PROPERTIES
  FinalIsFinal
  EvidenceKept
  ImplementsLifecycle
  ImplementsMutex
  LockIsPassedOn
