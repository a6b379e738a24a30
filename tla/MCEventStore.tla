--------------------------- MODULE MCEventStore ---------------------------
(* Instance of EventStore for TLC. *)
EXTENDS EventStore, TLC

Symmetry == Permutations(Process) \cup Permutations(Slot) \cup Permutations(Result)

=============================================================================
