------------------------- MODULE MCWorkerSession -------------------------
(* Instance of WorkerSession for TLC. *)
EXTENDS WorkerSession

=============================================================================
