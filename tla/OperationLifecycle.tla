----------------------- MODULE OperationLifecycle -----------------------
(***************************************************************************)
(* What a caller may rely on about one Operation, without its start        *)
(* protocol or its storage: it is open until something final is recorded,  *)
(* success needs an accepted result and a stopped worker, a confirmed      *)
(* cancellation needs a stopped worker, a requested cancellation excludes  *)
(* success and failure, and nothing follows a final state.                 *)
(***************************************************************************)

VARIABLES
  phase,      \* where the Operation stands
  accepted,   \* a result has been accepted
  stopped     \* the worker is known to have stopped

lifecycleVars == <<phase, accepted, stopped>>

FinalPhases == {"completed", "failed", "cancelled", "unknown"}
Phases      == {"open", "cancelling"} \cup FinalPhases

LifecycleTypeOK ==
  /\ phase \in Phases
  /\ accepted \in BOOLEAN
  /\ stopped \in BOOLEAN

LifecycleInit ==
  /\ phase = "open"
  /\ accepted = FALSE
  /\ stopped = FALSE

AcceptResult ==
  /\ phase = "open"
  /\ ~accepted
  /\ accepted' = TRUE
  /\ UNCHANGED <<phase, stopped>>

ConfirmStop ==
  /\ phase \in {"open", "cancelling"}
  /\ stopped' = TRUE
  /\ UNCHANGED <<phase, accepted>>

Complete ==
  /\ phase = "open"
  /\ accepted
  /\ stopped
  /\ phase' = "completed"
  /\ UNCHANGED <<accepted, stopped>>

Fail ==
  /\ phase = "open"
  /\ phase' = "failed"
  /\ UNCHANGED <<accepted, stopped>>

RequestCancellation ==
  /\ phase = "open"
  /\ phase' = "cancelling"
  /\ UNCHANGED <<accepted, stopped>>

ConfirmCancellation ==
  /\ phase = "cancelling"
  /\ stopped
  /\ phase' = "cancelled"
  /\ UNCHANGED <<accepted, stopped>>

GiveUp ==
  /\ phase \in {"open", "cancelling"}
  /\ phase' = "unknown"
  /\ UNCHANGED <<accepted, stopped>>

LifecycleNext ==
  \/ AcceptResult
  \/ ConfirmStop
  \/ Complete
  \/ Fail
  \/ RequestCancellation
  \/ ConfirmCancellation
  \/ GiveUp

LifecycleSpec == LifecycleInit /\ [][LifecycleNext]_lifecycleVars

=============================================================================
