SPECIFICATION Spec
CONSTANTS
  None = None
  c1 = c1
  c2 = c2
  c3 = c3
  Call <- ThreeCalls
  Kinds <- KindsOfCalls
  MaxFaults = 1
  MaxDeaths = 1
  MaxTroubles = 1
CHECK_DEADLOCK FALSE
INVARIANTS
  OneOwner
  AnswersMatchRecord
  ConfirmedIsDriven
PROPERTIES
  CallsAndOwnersEnd
