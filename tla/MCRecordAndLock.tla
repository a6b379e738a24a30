-------------------------- MODULE MCRecordAndLock --------------------------
(* Instances of OperationLog and WriterLock for TLC.  They share nothing, so *)
(* a behaviour is one of the record or one of the lock: each moves only      *)
(* while the other has not been used.                                        *)
EXTENDS OperationLog, WriterLock, TLC

\* The lock has none of these values, so that its liveness is not disturbed.
Symmetry == Permutations(Dispatcher) \cup Permutations(Worker) \cup Permutations(Workspace)

Init == LogInit /\ LockInit

RecordMoves == LockInit /\ secretFile = NoSecret /\ LogNext /\ UNCHANGED lockVars
LockMoves   == LogInit /\ LockNext /\ UNCHANGED logVars

Next == RecordMoves \/ LockMoves

Spec == Init /\ [][Next]_<<logVars, lockVars>> /\ LockFairness

=============================================================================
