--------------------------- MODULE MCRuntime ---------------------------
(* Instance of Runtime for TLC. *)
EXTENDS Runtime

=============================================================================
