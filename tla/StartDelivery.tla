------------------------- MODULE StartDelivery -------------------------
(***************************************************************************)
(* Which start instruction a Runtime delivers: a fresh run the one it      *)
(* acquires the authority with, a recovering run the next generation's.    *)
(* A dispatcher is named after the generation it delivers.                 *)
(***************************************************************************)
EXTENDS OperationReducer

TheWorker == CHOOSE w \in Worker : TRUE
TheResult == CHOOSE r \in Result : TRUE

\* The instruction the dispatcher of a generation delivers: the first one is the
\* runtime's own, the later ones are its recoveries'.
InstructionOf(generation) ==
  [dispatcherId |-> generation, workerProcessInstanceId |-> TheWorker,
   deliveryGeneration |-> generation]

\* The recovering Runtime succeeds to the authority on record, or resumes the
\* handover an earlier recovery began.
SuccessorOf(o) ==
  LET next    == o.startDeliveryAuthority.deliveryGeneration + 1
      resumes == HandoffPending(o) /\ LastHandoff(o).deliveryGeneration = next
  IN [InstructionOf(next) EXCEPT
        !.dispatcherId = IF resumes THEN LastHandoff(o).successorDispatcherId ELSE @]

=============================================================================
