SPECIFICATION ExtensionSpec
CONSTANTS
  e1 = e1
  e2 = e2
  k1 = k1
  k2 = k2
  Call = {e1, e2}
  Tool = {k1, k2}
  Sessions <- SomeSessions
  Config = {s1}
  Boot = Boot
  Old = {o1}
  None = None
  MaxFaults = 1
  Operation = {a, b}
  Result <- SomeResults
  Limit = {4, 5}
  NoResult = NoResult
CHECK_DEADLOCK FALSE
INVARIANTS
  QuietAfterShutdown
  OneDriver
  ShutdownGoesOn
  ChunksLieEndToEnd
  NoDeadEnd
