--------------------------- MODULE StorageHost ---------------------------
(* The processes that write the private storage, and what may still befall *)
(* them and their host.                                                    *)
EXTENDS Naturals

CONSTANTS
  Process,        \* processes that have the storage open
  MaxFaults,      \* bound: file or socket operations that fail
  MaxCrashes,     \* bound: processes that die
  MaxPowerLosses  \* bound: power losses of the host

ASSUME BoundsAreNatural == {MaxFaults, MaxCrashes, MaxPowerLosses} \subseteq Nat

VARIABLES faults, crashes, powerLosses

=============================================================================
