-------------------------- MODULE StorageProofs --------------------------
(* Theorems about the record and where it is kept, for every value of the  *)
(* constants: OperationLog, for any sequence of events; EventStore, for    *)
(* any processes, calls and mishaps; WriterLock, for any processes and     *)
(* secrets.                                                                *)
EXTENDS EventStore, WriterLock, OperationLog, OperationReducerProofs

-----------------------------------------------------------------------------
(* Type correctness.                                                       *)

LEMMA InputsTyped ==
  /\ Instruction \subseteq StartInstruction
  /\ Generation \subseteq Nat \ {0}
  /\ Epoch \subseteq Nat
  BY LogBoundsAreNatural, SMT DEF Instruction, StartInstruction, Generation, Epoch

LEMMA StartStepTyped ==
  ASSUME TypeOK, StartSteps
  PROVE  op' \in Operation /\ stateSeq' = stateSeq + 1
<1> USE DEF AppendEvent, AppendCleanup, TypeOK
<1>1. CASE PresentationOwned
  BY <1>1, ValueArmsTyped DEF PresentationOwned
<1>2. CASE OperationStarting
  BY <1>2, StateArmsTyped DEF OperationStarting
<1>3. CASE WorkerLaunched
  BY <1>3, FlagArmsTyped DEF WorkerLaunched
<1>4. CASE WorkerIdentified
  BY <1>4, ValueArmsTyped DEF WorkerIdentified
<1>5. CASE StartDeliveryAuthorityAcquired
  BY <1>5, InputsTyped, InstructionArmsTyped DEF StartDeliveryAuthorityAcquired
<1>6. CASE StartDeliveryAuthorityRevoked
  <2>1. PICK d \in Dispatcher, g \in Generation :
          AppendEvent(CanRevokeAuthority(op, d, g), RevokeAuthority(op, d, g))
    BY <1>6 DEF StartDeliveryAuthorityRevoked
  <2>2. op.startDeliveryAuthority \in StartInstruction
    BY <2>1, SMT DEF CanRevokeAuthority, Operation
  <2> QED
    BY <2>1, <2>2, InputsTyped, RevokeAuthorityTyped
<1>7. CASE StartDeliveryGenerationConfirmed
  BY <1>7, ConfirmGenerationTyped
  DEF StartDeliveryGenerationConfirmed, CanConfirmGeneration, HandoffPending
<1>8. CASE StartDeliveryEntered
  BY <1>8, InputsTyped, InstructionArmsTyped DEF StartDeliveryEntered
<1>9. CASE StartInstructionDispatched
  BY <1>9, InputsTyped, InstructionArmsTyped DEF StartInstructionDispatched
<1>10. CASE StartInstructionAccepted
  BY <1>10, InputsTyped, InstructionArmsTyped DEF StartInstructionAccepted
<1>11. CASE StartInstructionAcknowledged
  BY <1>11, InputsTyped, InstructionArmsTyped DEF StartInstructionAcknowledged
<1> QED
  BY <1>1, <1>2, <1>3, <1>4, <1>5, <1>6, <1>7, <1>8, <1>9, <1>10, <1>11 DEF StartSteps

LEMMA LaterStepTyped ==
  ASSUME TypeOK, SettlementSteps \/ CleanupSteps
  PROVE  op' \in Operation /\ stateSeq' = stateSeq + 1
<1> USE DEF AppendEvent, AppendCleanup, TypeOK
<1>1. CASE ResultAccepted
  BY <1>1, ValueArmsTyped DEF ResultAccepted
<1>2. CASE WorkerStopConfirmed \/ AgentSettled \/ CancelDispatched \/ CancelAcknowledged
  BY <1>2, FlagArmsTyped
  DEF WorkerStopConfirmed, AgentSettled, CancelDispatched, CancelAcknowledged
<1>3. CASE OperationCompleted \/ OperationFailed \/ OperationCancelled \/ OperationUnknown
  BY <1>3, StateArmsTyped
  DEF OperationCompleted, OperationFailed, OperationCancelled, OperationUnknown
<1>4. CASE CancellationRequested
  BY <1>4, InputsTyped, RequestCancellationTyped DEF CancellationRequested
<1>5. CASE PresentationCleanupStarted
  BY <1>5, CleanupArmsTyped DEF PresentationCleanupStarted
<1>6. CASE PresentationCleanupCompleted \/ PresentationCleanupUnconfirmed
  BY <1>6, CleanupArmsTyped
  DEF PresentationCleanupCompleted, PresentationCleanupUnconfirmed, CanFinishCleanup
<1> QED
  BY <1>1, <1>2, <1>3, <1>4, <1>5, <1>6 DEF SettlementSteps, CleanupSteps

LEMMA NextTyped ==
  ASSUME TypeOK, [LogNext]_logVars
  PROVE  TypeOK'
<1>1. CASE StartSteps \/ SettlementSteps \/ CleanupSteps
  <2>1. op' \in Operation /\ stateSeq' = stateSeq + 1
    BY <1>1, StartStepTyped, LaterStepTyped
  <2> QED
    BY <2>1, SMT DEF TypeOK
<1>2. CASE UNCHANGED logVars
  BY <1>2 DEF logVars, TypeOK
<1> QED
  BY <1>1, <1>2 DEF LogNext

\* Whatever events are appended, in whatever order, the record replays to an
\* Operation of the declared shape.
THEOREM TypeCorrect == LogSpec => []TypeOK
<1>1. LogInit => TypeOK
  BY RequestedTyped DEF LogInit, TypeOK
<1> QED
  BY <1>1, NextTyped, PTL DEF LogSpec

-----------------------------------------------------------------------------
(* The inductive invariant, one conjunct at a time.                        *)

\* The start proceeds in order: workspace, worker, identity, evidence.
LEMMA StartPresupposesKept ==
  ASSUME IInv, LogNext
  PROVE  StartPresupposes'
<1> USE DEF IInv, TypeOK, Operation, AppendEvent, AppendCleanup,
            StartPresupposes, Starting, Instruction, StartInstruction,
            StartEvidenceOrdered, NoLaterThan
<1>1. CASE PresentationOwned
  BY <1>1, SMT DEF PresentationOwned, OwnPresentation, CanOwnPresentation
<1>2. CASE OperationStarting
  BY <1>2, SMT DEF OperationStarting, Start, CanStart
<1>3. CASE WorkerLaunched
  BY <1>3, SMT DEF WorkerLaunched, LaunchWorker, CanLaunchWorker
<1>4. CASE WorkerIdentified
  BY <1>4, SMT DEF WorkerIdentified, IdentifyWorker, CanIdentifyWorker
<1>5. CASE StartDeliveryAuthorityAcquired
  BY <1>5, SMT DEF StartDeliveryAuthorityAcquired, AcquireAuthority, CanAcquireAuthority, ValidStartInstructionReference
<1>6. CASE StartDeliveryAuthorityRevoked
  BY <1>6, SMT DEF StartDeliveryAuthorityRevoked, RevokeAuthority
<1>7. CASE StartDeliveryGenerationConfirmed
  BY <1>7, SMT DEF StartDeliveryGenerationConfirmed, ConfirmGeneration
<1>8. CASE StartDeliveryEntered
  BY <1>8, SMT DEF StartDeliveryEntered, EnterDelivery, CanEnterDelivery
<1>9. CASE StartInstructionDispatched
  BY <1>9, SMT DEF StartInstructionDispatched, DispatchStart, CanDispatchStart
<1>10. CASE StartInstructionAccepted
  BY <1>10, SMT DEF StartInstructionAccepted, AcceptStart, CanAcceptStart, DeliveredInstruction
<1>11. CASE StartInstructionAcknowledged
  BY <1>11, SMT DEF StartInstructionAcknowledged, AcknowledgeStart, CanAcknowledgeStart
<1>12. CASE ResultAccepted
  BY <1>12, SMT DEF ResultAccepted, AcceptResult, CanAcceptResult
<1>13. CASE WorkerStopConfirmed
  BY <1>13, SMT DEF WorkerStopConfirmed, ConfirmWorkerStop, CanConfirmWorkerStop
<1>14. CASE AgentSettled
  BY <1>14, SMT DEF AgentSettled, SettleAgent, CanSettleAgent
<1>15. CASE OperationCompleted
  BY <1>15, SMT DEF OperationCompleted, Complete, CanComplete
<1>16. CASE OperationFailed
  BY <1>16, SMT DEF OperationFailed, Fail, CanFail
<1>17. CASE CancellationRequested
  BY <1>17, LogBoundsAreNatural, SMT DEF CancellationRequested, RequestCancellation, CanRequestCancellation, Epoch
<1>18. CASE CancelDispatched
  BY <1>18, SMT DEF CancelDispatched, DispatchCancel
<1>19. CASE CancelAcknowledged
  BY <1>19, SMT DEF CancelAcknowledged, AcknowledgeCancel, OfCancellation
<1>20. CASE OperationCancelled
  BY <1>20, SMT DEF OperationCancelled, Cancel, CanCancel, OfCancellation
<1>21. CASE OperationUnknown
  BY <1>21, SMT DEF OperationUnknown, GiveUp, CanGiveUp, OfCancellation
<1>22. CASE PresentationCleanupStarted
  BY <1>22, SMT DEF PresentationCleanupStarted, StartCleanup, CanStartCleanup
<1>23. CASE PresentationCleanupCompleted
  BY <1>23, SMT DEF PresentationCleanupCompleted, FinishCleanup, CanFinishCleanup, Cleanup
<1>24. CASE PresentationCleanupUnconfirmed
  BY <1>24, SMT DEF PresentationCleanupUnconfirmed, FinishCleanup, CanFinishCleanup, Cleanup
<1> QED
  BY <1>1, <1>2, <1>3, <1>4, <1>5, <1>6, <1>7, <1>8, <1>9, <1>10, <1>11, <1>12,
     <1>13, <1>14, <1>15, <1>16, <1>17, <1>18, <1>19, <1>20, <1>21, <1>22, <1>23, <1>24
  DEF LogNext, StartSteps, SettlementSteps, CleanupSteps

\* Outcomes stay justified: running is reached by an acknowledgement alone.
LEMMA OutcomeJustifiedKept ==
  ASSUME IInv, LogNext
  PROVE  OutcomeJustified'
<1> USE DEF IInv, TypeOK, Operation, AppendEvent, AppendCleanup,
            OutcomeJustified, StartPresupposes, Starting, StartEvidenceOrdered
<1>1. CASE PresentationOwned
  BY <1>1, SMT DEF PresentationOwned, OwnPresentation, CanOwnPresentation
<1>2. CASE OperationStarting
  BY <1>2, SMT DEF OperationStarting, Start, CanStart
<1>3. CASE WorkerLaunched
  BY <1>3, SMT DEF WorkerLaunched, LaunchWorker, CanLaunchWorker
<1>4. CASE WorkerIdentified
  BY <1>4, SMT DEF WorkerIdentified, IdentifyWorker, CanIdentifyWorker
<1>5. CASE StartDeliveryAuthorityAcquired
  BY <1>5, SMT DEF StartDeliveryAuthorityAcquired, AcquireAuthority, CanAcquireAuthority, ValidStartInstructionReference
<1>6. CASE StartDeliveryAuthorityRevoked
  BY <1>6, SMT DEF StartDeliveryAuthorityRevoked, RevokeAuthority
<1>7. CASE StartDeliveryGenerationConfirmed
  BY <1>7, SMT DEF StartDeliveryGenerationConfirmed, ConfirmGeneration
<1>8. CASE StartDeliveryEntered
  BY <1>8, SMT DEF StartDeliveryEntered, EnterDelivery, CanEnterDelivery
<1>9. CASE StartInstructionDispatched
  BY <1>9, SMT DEF StartInstructionDispatched, DispatchStart, CanDispatchStart
<1>10. CASE StartInstructionAccepted
  BY <1>10, SMT DEF StartInstructionAccepted, AcceptStart, CanAcceptStart, DeliveredInstruction
<1>11. CASE StartInstructionAcknowledged
  BY <1>11, SMT DEF StartInstructionAcknowledged, AcknowledgeStart, CanAcknowledgeStart
<1>12. CASE ResultAccepted
  BY <1>12, SMT DEF ResultAccepted, AcceptResult, CanAcceptResult
<1>13. CASE WorkerStopConfirmed
  BY <1>13, SMT DEF WorkerStopConfirmed, ConfirmWorkerStop, CanConfirmWorkerStop
<1>14. CASE AgentSettled
  BY <1>14, SMT DEF AgentSettled, SettleAgent, CanSettleAgent
<1>15. CASE OperationCompleted
  BY <1>15, SMT DEF OperationCompleted, Complete, CanComplete
<1>16. CASE OperationFailed
  BY <1>16, SMT DEF OperationFailed, Fail, CanFail
<1>17. CASE CancellationRequested
  BY <1>17, LogBoundsAreNatural, SMT DEF CancellationRequested, RequestCancellation, CanRequestCancellation, Epoch
<1>18. CASE CancelDispatched
  BY <1>18, SMT DEF CancelDispatched, DispatchCancel
<1>19. CASE CancelAcknowledged
  BY <1>19, SMT DEF CancelAcknowledged, AcknowledgeCancel, OfCancellation
<1>20. CASE OperationCancelled
  BY <1>20, SMT DEF OperationCancelled, Cancel, CanCancel, OfCancellation
<1>21. CASE OperationUnknown
  BY <1>21, SMT DEF OperationUnknown, GiveUp, CanGiveUp, OfCancellation
<1>22. CASE PresentationCleanupStarted
  BY <1>22, SMT DEF PresentationCleanupStarted, StartCleanup, CanStartCleanup
<1>23. CASE PresentationCleanupCompleted
  BY <1>23, SMT DEF PresentationCleanupCompleted, FinishCleanup, CanFinishCleanup, Cleanup
<1>24. CASE PresentationCleanupUnconfirmed
  BY <1>24, SMT DEF PresentationCleanupUnconfirmed, FinishCleanup, CanFinishCleanup, Cleanup
<1> QED
  BY <1>1, <1>2, <1>3, <1>4, <1>5, <1>6, <1>7, <1>8, <1>9, <1>10, <1>11, <1>12,
     <1>13, <1>14, <1>15, <1>16, <1>17, <1>18, <1>19, <1>20, <1>21, <1>22, <1>23, <1>24
  DEF LogNext, StartSteps, SettlementSteps, CleanupSteps

\* Eligibility for cleanup is final, like the states that grant it.
LEMMA CleanupJustifiedKept ==
  ASSUME IInv, LogNext
  PROVE  CleanupJustified'
<1> USE DEF IInv, TypeOK, Operation, AppendEvent, AppendCleanup,
            CleanupJustified, PresentationCleanupEligible, Terminal, TerminalStates
<1>1. CASE PresentationOwned
  BY <1>1, SMT DEF PresentationOwned, OwnPresentation, CanOwnPresentation
<1>2. CASE OperationStarting
  BY <1>2, SMT DEF OperationStarting, Start, CanStart
<1>3. CASE WorkerLaunched
  BY <1>3, SMT DEF WorkerLaunched, LaunchWorker, CanLaunchWorker
<1>4. CASE WorkerIdentified
  BY <1>4, SMT DEF WorkerIdentified, IdentifyWorker, CanIdentifyWorker
<1>5. CASE StartDeliveryAuthorityAcquired
  BY <1>5, SMT DEF StartDeliveryAuthorityAcquired, AcquireAuthority, CanAcquireAuthority, ValidStartInstructionReference
<1>6. CASE StartDeliveryAuthorityRevoked
  BY <1>6, SMT DEF StartDeliveryAuthorityRevoked, RevokeAuthority
<1>7. CASE StartDeliveryGenerationConfirmed
  BY <1>7, SMT DEF StartDeliveryGenerationConfirmed, ConfirmGeneration
<1>8. CASE StartDeliveryEntered
  BY <1>8, SMT DEF StartDeliveryEntered, EnterDelivery, CanEnterDelivery
<1>9. CASE StartInstructionDispatched
  BY <1>9, SMT DEF StartInstructionDispatched, DispatchStart, CanDispatchStart
<1>10. CASE StartInstructionAccepted
  BY <1>10, SMT DEF StartInstructionAccepted, AcceptStart, CanAcceptStart, DeliveredInstruction
<1>11. CASE StartInstructionAcknowledged
  BY <1>11, SMT DEF StartInstructionAcknowledged, AcknowledgeStart, CanAcknowledgeStart
<1>12. CASE ResultAccepted
  BY <1>12, SMT DEF ResultAccepted, AcceptResult, CanAcceptResult
<1>13. CASE WorkerStopConfirmed
  BY <1>13, SMT DEF WorkerStopConfirmed, ConfirmWorkerStop, CanConfirmWorkerStop
<1>14. CASE AgentSettled
  BY <1>14, SMT DEF AgentSettled, SettleAgent, CanSettleAgent
<1>15. CASE OperationCompleted
  BY <1>15, SMT DEF OperationCompleted, Complete, CanComplete
<1>16. CASE OperationFailed
  BY <1>16, SMT DEF OperationFailed, Fail, CanFail
<1>17. CASE CancellationRequested
  BY <1>17, LogBoundsAreNatural, SMT DEF CancellationRequested, RequestCancellation, CanRequestCancellation, Epoch
<1>18. CASE CancelDispatched
  BY <1>18, SMT DEF CancelDispatched, DispatchCancel
<1>19. CASE CancelAcknowledged
  BY <1>19, SMT DEF CancelAcknowledged, AcknowledgeCancel, OfCancellation
<1>20. CASE OperationCancelled
  BY <1>20, SMT DEF OperationCancelled, Cancel, CanCancel, OfCancellation
<1>21. CASE OperationUnknown
  BY <1>21, SMT DEF OperationUnknown, GiveUp, CanGiveUp, OfCancellation
<1>22. CASE PresentationCleanupStarted
  BY <1>22, SMT DEF PresentationCleanupStarted, StartCleanup, CanStartCleanup
<1>23. CASE PresentationCleanupCompleted
  BY <1>23, SMT DEF PresentationCleanupCompleted, FinishCleanup, CanFinishCleanup, Cleanup
<1>24. CASE PresentationCleanupUnconfirmed
  BY <1>24, SMT DEF PresentationCleanupUnconfirmed, FinishCleanup, CanFinishCleanup, Cleanup
<1> QED
  BY <1>1, <1>2, <1>3, <1>4, <1>5, <1>6, <1>7, <1>8, <1>9, <1>10, <1>11, <1>12,
     <1>13, <1>14, <1>15, <1>16, <1>17, <1>18, <1>19, <1>20, <1>21, <1>22, <1>23, <1>24
  DEF LogNext, StartSteps, SettlementSteps, CleanupSteps

\* What the start delivery has recorded.
DeliveryRecord ==
  <<op.startDeliveryAuthority, op.startDeliveryEntry, op.startInstructionDelivery,
    op.startInstructionAcceptance, op.startInstructionAcknowledgement,
    op.startDeliveryHandoffs>>

OtherSteps ==
  \/ PresentationOwned \/ OperationStarting \/ WorkerLaunched \/ WorkerIdentified
  \/ SettlementSteps
  \/ CleanupSteps

\* Events of other kinds leave the record of the start delivery alone.
LEMMA DeliveryRecordKept ==
  ASSUME TypeOK, OtherSteps
  PROVE  DeliveryRecord' = DeliveryRecord
<1> USE DEF TypeOK, Operation, AppendEvent, AppendCleanup, DeliveryRecord
<1>1. CASE PresentationOwned
  BY <1>1, SMT DEF PresentationOwned, OwnPresentation
<1>2. CASE OperationStarting
  BY <1>2, SMT DEF OperationStarting, Start
<1>3. CASE WorkerLaunched
  BY <1>3, SMT DEF WorkerLaunched, LaunchWorker
<1>4. CASE WorkerIdentified
  BY <1>4, SMT DEF WorkerIdentified, IdentifyWorker
<1>5. CASE ResultAccepted
  BY <1>5, SMT DEF ResultAccepted, AcceptResult
<1>6. CASE WorkerStopConfirmed
  BY <1>6, SMT DEF WorkerStopConfirmed, ConfirmWorkerStop
<1>7. CASE AgentSettled
  BY <1>7, SMT DEF AgentSettled, SettleAgent
<1>8. CASE OperationCompleted
  BY <1>8, SMT DEF OperationCompleted, Complete
<1>9. CASE OperationFailed
  BY <1>9, SMT DEF OperationFailed, Fail
<1>10. CASE CancellationRequested
  BY <1>10, SMT DEF CancellationRequested, RequestCancellation
<1>11. CASE CancelDispatched
  BY <1>11, SMT DEF CancelDispatched, DispatchCancel
<1>12. CASE CancelAcknowledged
  BY <1>12, SMT DEF CancelAcknowledged, AcknowledgeCancel
<1>13. CASE OperationCancelled
  BY <1>13, SMT DEF OperationCancelled, Cancel
<1>14. CASE OperationUnknown
  BY <1>14, SMT DEF OperationUnknown, GiveUp
<1>15. CASE PresentationCleanupStarted
  BY <1>15, SMT DEF PresentationCleanupStarted, StartCleanup
<1>16. CASE PresentationCleanupCompleted
  BY <1>16, SMT DEF PresentationCleanupCompleted, FinishCleanup
<1>17. CASE PresentationCleanupUnconfirmed
  BY <1>17, SMT DEF PresentationCleanupUnconfirmed, FinishCleanup
<1> QED
  BY <1>1, <1>2, <1>3, <1>4, <1>5, <1>6, <1>7, <1>8, <1>9,
     <1>10, <1>11, <1>12, <1>13, <1>14, <1>15, <1>16, <1>17
  DEF OtherSteps, SettlementSteps, CleanupSteps

\* A delivery is acquired for the first time, again by the same dispatcher, or
\* for a later generation.
LEMMA AcquisitionAdvances ==
  ASSUME IInv, NEW i \in Instruction, CanAcquireAuthority(op, i)
  PROVE  NoLaterThan(op.startDeliveryAuthority, i)
<1> SUFFICES ASSUME op.startDeliveryAuthority # None
    PROVE  NoLaterThan(op.startDeliveryAuthority, i)
  BY DEF NoLaterThan
<1> DEFINE a == op.startDeliveryAuthority
           h == op.startDeliveryHandoffs
           last == h[Len(h)]
<1>1. /\ a \in StartInstruction /\ h \in Seq(Handoff)
      /\ a.workerProcessInstanceId = op.workerIdentity
      /\ i.workerProcessInstanceId = op.workerIdentity
      /\ i \in StartInstruction
  BY InputsTyped, SMT
  DEF IInv, TypeOK, Operation, StartPresupposes, CanAcquireAuthority,
      ValidStartInstructionReference
<1>2. /\ h # <<>>
      /\ last.successorDispatcherId = i.dispatcherId
      /\ last.deliveryGeneration = i.deliveryGeneration
  BY DEF CanAcquireAuthority, LastHandoffNames, HasHandoff, LastHandoff
<1>3. Len(h) \in DOMAIN h
  BY <1>1, <1>2, SMT
<1>4. last.deliveryGeneration = last.previousDeliveryGeneration + 1
  BY <1>3 DEF IInv, HandoffsOrdered
<1>5. \/ a.deliveryGeneration = last.previousDeliveryGeneration
      \/ Names(a, last.successorDispatcherId, last.deliveryGeneration)
  BY <1>2 DEF IInv, HandoffsFollowAuthority, HasHandoff, LastHandoff, Names
<1>6. i # None
  BY <1>1, NoneIsNoRecord
<1> QED
  <2> HIDE DEF last, h
  <2> DEFINE g == last.deliveryGeneration
             p == last.previousDeliveryGeneration
  <2>1. a.deliveryGeneration <= i.deliveryGeneration
    <3>1. CASE a.deliveryGeneration = p
      BY <1>1, <1>2, <1>4, <3>1, SMT DEF StartInstruction
    <3>2. CASE Names(a, last.successorDispatcherId, g)
      BY <1>1, <1>2, <3>2, SMT DEF StartInstruction, Names
    <3> QED
      BY <1>5, <3>1, <3>2
  <2>2. a.deliveryGeneration = i.deliveryGeneration => a = i
    <3>1. CASE a.deliveryGeneration = p
      BY <1>1, <1>2, <1>4, <3>1, SMT DEF StartInstruction
    <3>2. CASE Names(a, last.successorDispatcherId, g)
      BY <1>1, <1>2, <3>2, SMT DEF StartInstruction, Names
    <3> QED
      BY <1>5, <3>1, <3>2
  <2> QED
    BY <1>6, <2>1, <2>2 DEF NoLaterThan

\* Evidence of the start delivery stays ordered.
LEMMA StartEvidenceOrderedKept ==
  ASSUME IInv, LogNext
  PROVE  StartEvidenceOrdered'
<1> USE DEF IInv, TypeOK, Operation, AppendEvent, AppendCleanup,
            StartPresupposes, StartEvidenceOrdered, NoLaterThan, Instruction,
            StartInstruction, Generation
<1>1. CASE OtherSteps
  BY <1>1, DeliveryRecordKept, Zenon DEF DeliveryRecord
<1>2. CASE StartDeliveryAuthorityAcquired
  <2>1. PICK i \in Instruction :
          AppendEvent(CanAcquireAuthority(op, i), AcquireAuthority(op, i))
    BY <1>2 DEF StartDeliveryAuthorityAcquired
  <2>2. NoLaterThan(op.startDeliveryAuthority, i)
    BY <2>1, AcquisitionAdvances
  <2>3. /\ op' = [op EXCEPT !.startDeliveryAuthority = i]
        /\ i \in StartInstruction /\ i # None
    BY <2>1, InputsTyped, NoneIsNoRecord DEF AcquireAuthority
  <2> QED
    BY <2>2, <2>3, SMT
<1>3. CASE StartDeliveryAuthorityRevoked
  BY <1>3, SMT DEF StartDeliveryAuthorityRevoked, RevokeAuthority
<1>4. CASE StartDeliveryGenerationConfirmed
  BY <1>4, SMT DEF StartDeliveryGenerationConfirmed, ConfirmGeneration
<1>5. CASE StartDeliveryEntered
  BY <1>5, SMT DEF StartDeliveryEntered, EnterDelivery, CanEnterDelivery
<1>6. CASE StartInstructionDispatched
  BY <1>6, SMT DEF StartInstructionDispatched, DispatchStart, CanDispatchStart
<1>7. CASE StartInstructionAccepted
  BY <1>7, SMT DEF StartInstructionAccepted, AcceptStart, CanAcceptStart, DeliveredInstruction
<1>8. CASE StartInstructionAcknowledged
  BY <1>8, SMT DEF StartInstructionAcknowledged, AcknowledgeStart, CanAcknowledgeStart
<1> QED
  BY <1>1, <1>2, <1>3, <1>4, <1>5, <1>6, <1>7, <1>8
  DEF LogNext, StartSteps, OtherSteps

\* Handoffs and authority matter to these invariants, nothing else does.
LEMMA HandoffInvariantsFramed ==
  ASSUME HandoffsOrdered, HandoffsFollowAuthority,
         op'.startDeliveryAuthority = op.startDeliveryAuthority,
         op'.startDeliveryHandoffs = op.startDeliveryHandoffs
  PROVE  HandoffsOrdered' /\ HandoffsFollowAuthority'
  BY Zenon
  DEF HandoffsOrdered, HandoffsFollowAuthority, HandoffPending, HasHandoff,
      LastHandoff, Names

LEMMA AcquisitionKeepsHandoffs ==
  ASSUME IInv, StartDeliveryAuthorityAcquired
  PROVE  HandoffsOrdered' /\ HandoffsFollowAuthority'
<1>1. PICK i \in Instruction :
        AppendEvent(CanAcquireAuthority(op, i), AcquireAuthority(op, i))
  BY DEF StartDeliveryAuthorityAcquired
<1> DEFINE h == op.startDeliveryHandoffs
           last == h[Len(h)]
<1>2. h \in Seq(Handoff) /\ i.deliveryGeneration \in Nat /\ op \in Operation
  BY InputsTyped, SMT DEF IInv, TypeOK, Operation, StartInstruction
<1>3. op'.startDeliveryAuthority = i /\ op'.startDeliveryHandoffs = h
  BY <1>1, <1>2, SMT DEF AppendEvent, AppendCleanup, AcquireAuthority, Operation
<1>4. ASSUME h # <<>>
      PROVE  /\ last.acceptanceState = "not_accepted"
             /\ Names(i, last.successorDispatcherId, last.deliveryGeneration)
  BY <1>1, <1>4, Zenon
  DEF IInv, HandoffsFollowAuthority, AppendEvent, AppendCleanup, CanAcquireAuthority,
      LastHandoffNames, HasHandoff, LastHandoff, Names
<1>5. HandoffsOrdered'
  <2>1. ~HandoffPending(op)'
    BY <1>3, <1>4, Zenon DEF HandoffPending, HasHandoff, LastHandoff
  <2> QED
    BY <1>3, <2>1, Zenon DEF IInv, HandoffsOrdered
<1>6. HandoffsFollowAuthority'
  <2>1. i # None
    BY InputsTyped, NoneIsNoRecord
  <2>2. ASSUME NEW k \in DOMAIN h
        PROVE  h[k].deliveryGeneration <= i.deliveryGeneration + 1
    <3>1. h # <<>> /\ Len(h) \in DOMAIN h /\ k \in 1..Len(h)
      BY <1>2, <2>2, SMT
    <3>2. h[k] \in Handoff /\ h[Len(h)] \in Handoff
      BY <1>2, <3>1, SMT
    <3>3. k # Len(h) => h[k].deliveryGeneration <= h[Len(h)].deliveryGeneration
      BY <1>2, <3>1, SMT DEF IInv, HandoffsOrdered
    <3>4. h[Len(h)].deliveryGeneration = i.deliveryGeneration
      BY <1>4, <3>1 DEF Names
    <3>5. h[k].deliveryGeneration \in Nat
      BY <3>2, SMT DEF Handoff
    <3> HIDE DEF h
    <3> QED
      BY <1>2, <3>3, <3>4, <3>5, SMT
  <2> QED
    BY <1>3, <1>4, <2>1, <2>2, Zenon
    DEF HandoffsFollowAuthority, HasHandoff, LastHandoff, Names
<1> QED
  BY <1>5, <1>6

LEMMA RevocationKeepsHandoffs ==
  ASSUME IInv, StartDeliveryAuthorityRevoked
  PROVE  HandoffsOrdered' /\ HandoffsFollowAuthority'
<1>1. PICK d \in Dispatcher, g \in Generation :
        AppendEvent(CanRevokeAuthority(op, d, g), RevokeAuthority(op, d, g))
  BY DEF StartDeliveryAuthorityRevoked
<1> DEFINE h == op.startDeliveryHandoffs
           a == op.startDeliveryAuthority
           n == AppendHandoff(op, d, g)
<1>2. /\ op \in Operation /\ h \in Seq(Handoff) /\ a # None /\ a \in StartInstruction
      /\ a.deliveryGeneration \in Nat /\ g \in Nat \ {0}
      /\ g = a.deliveryGeneration + 1
  BY <1>1, InputsTyped, SMT
  DEF IInv, TypeOK, Operation, StartInstruction, AppendEvent, AppendCleanup,
      CanRevokeAuthority
<1>3. op'.startDeliveryAuthority = a /\ op'.startDeliveryHandoffs = n
  BY <1>1, <1>2, SMT DEF AppendEvent, AppendCleanup, RevokeAuthority, Operation
<1>4. CASE ResumesHandoff(op, d, g)
  <2>1. n = h
    BY <1>4 DEF AppendHandoff
  <2> QED
    BY <1>3, <2>1, HandoffInvariantsFramed DEF IInv
<1>5. CASE ~ResumesHandoff(op, d, g)
  <2> DEFINE L == Len(h)
  <2>1. ~HandoffPending(op)
    BY <1>1, <1>5 DEF AppendEvent, AppendCleanup, CanRevokeAuthority
  <2> DEFINE new == [previousDispatcherId       |-> a.dispatcherId,
                     previousDeliveryGeneration |-> a.deliveryGeneration,
                     successorDispatcherId      |-> d,
                     deliveryGeneration         |-> g,
                     acceptanceState            |-> "pending"]
  <2>0. /\ L \in Nat /\ n \in Seq(Handoff) /\ Len(n) = L + 1
        /\ \A k \in 1..L : n[k] = h[k]
        /\ n[L + 1] = new
    BY <1>2, <1>5, AppendKeepsHandoffs, Zenon
  <2>2. /\ L \in Nat /\ n \in Seq(Handoff) /\ Len(n) = L + 1 /\ DOMAIN n = 1..(L + 1)
        /\ DOMAIN h = 1..L
        /\ \A k \in 1..L : n[k] = h[k] /\ h[k] \in Handoff
    <3> HIDE DEF n, new, h
    <3>1. DOMAIN n = 1..(L + 1) /\ DOMAIN h = 1..L
      BY <1>2, <2>0, SMT DEF L
    <3>2. \A k \in 1..L : h[k] \in Handoff
      BY <1>2, SMT DEF L
    <3> QED
      BY <2>0, <3>1, <3>2
  <2>3. /\ n[L + 1].previousDispatcherId = a.dispatcherId
        /\ n[L + 1].previousDeliveryGeneration = a.deliveryGeneration
        /\ n[L + 1].deliveryGeneration = g
        /\ n[L + 1].acceptanceState = "pending"
    <3> HIDE DEF n
    <3> QED
      BY <2>0
  <2>4. ASSUME NEW k \in 1..L
        PROVE  /\ h[k].acceptanceState # "pending"
               /\ h[k].deliveryGeneration = h[k].previousDeliveryGeneration + 1
               /\ h[k].deliveryGeneration <= g
               /\ h[k].deliveryGeneration \in Nat
    <3>1. h # <<>>
      BY <2>2, <2>4, <1>2, SMT
    <3>2. h[L].acceptanceState # "pending"
      BY <2>1, <3>1 DEF HandoffPending, HasHandoff, LastHandoff
    <3>3. k < L => h[k].acceptanceState # "pending"
      BY <2>2, <2>4 DEF IInv, HandoffsOrdered
    <3>4. k < L \/ k = L
      BY <2>2, <2>4, SMT
    <3>5. /\ h[k].deliveryGeneration = h[k].previousDeliveryGeneration + 1
          /\ h[k].deliveryGeneration <= a.deliveryGeneration + 1
      BY <2>2, <2>4 DEF IInv, HandoffsOrdered, HandoffsFollowAuthority
    <3>6. h[k].deliveryGeneration \in Nat
      <4>1. h[k] \in Handoff
        BY <2>2, <2>4
      <4> HIDE DEF h
      <4> QED
        BY <4>1, SMT DEF Handoff
    <3> QED
      BY <1>2, <3>2, <3>3, <3>4, <3>5, <3>6
  <2>5. \A j, k \in 1..L : j < k => h[j].deliveryGeneration <= h[k].deliveryGeneration
    BY <2>2 DEF IInv, HandoffsOrdered
  <2> HIDE DEF h, n, a, L
  <2>6. /\ \A k \in 1..(L + 1) : k < L + 1 => n[k].acceptanceState # "pending"
        /\ \A j, k \in 1..(L + 1) : j < k => n[j].deliveryGeneration <= n[k].deliveryGeneration
        /\ \A k \in 1..(L + 1) :
             /\ n[k].deliveryGeneration = n[k].previousDeliveryGeneration + 1
             /\ n[k].deliveryGeneration <= a.deliveryGeneration + 1
    <3>1. ASSUME NEW k \in 1..(L + 1) PROVE k \in 1..L \/ k = L + 1
      BY <2>2, SMT
    <3>2. ASSUME NEW k \in 1..(L + 1), k < L + 1 PROVE k \in 1..L
      BY <2>2, <3>2, SMT
    <3>3. ASSUME NEW k \in 1..(L + 1)
          PROVE  /\ n[k].deliveryGeneration = n[k].previousDeliveryGeneration + 1
                 /\ n[k].deliveryGeneration <= a.deliveryGeneration + 1
      BY <1>2, <2>2, <2>3, <2>4, <3>1, SMT
    <3>4. ASSUME NEW j \in 1..(L + 1), NEW k \in 1..(L + 1), j < k
          PROVE  n[j].deliveryGeneration <= n[k].deliveryGeneration
      <4>1. j \in 1..L
        BY <2>2, <3>4, SMT
      <4>2. CASE k \in 1..L
        BY <2>2, <2>5, <3>4, <4>1, <4>2, Zenon
      <4>3. CASE k = L + 1
        BY <2>2, <2>3, <2>4, <4>1, <4>3, Zenon
      <4> QED
        BY <3>1, <4>2, <4>3
    <3> QED
      BY <2>2, <2>4, <3>2, <3>3, <3>4, Zenon
  <2>7. n # <<>>
    BY <2>2, SMT
  <2>8. HandoffsOrdered'
    BY <1>3, <2>2, <2>3, <2>6, Zenon
    DEF HandoffsOrdered, HandoffPending, HasHandoff, LastHandoff
  <2>9. HandoffsFollowAuthority'
    BY <1>2, <1>3, <2>2, <2>3, <2>6, <2>7, Zenon
    DEF HandoffsFollowAuthority, HasHandoff, LastHandoff, Names
  <2> QED
    BY <2>8, <2>9
<1> QED
  BY <1>4, <1>5

LEMMA ConfirmationKeepsHandoffs ==
  ASSUME IInv, StartDeliveryGenerationConfirmed
  PROVE  HandoffsOrdered' /\ HandoffsFollowAuthority'
<1>1. PICK d \in Dispatcher, g \in Generation, s \in AcceptanceStates,
           i \in Instruction \cup {None} :
        AppendEvent(CanConfirmGeneration(op, d, g, s, i), ConfirmGeneration(op, s))
  BY DEF StartDeliveryGenerationConfirmed
<1> DEFINE h == op.startDeliveryHandoffs
           a == op.startDeliveryAuthority
           n == AnswerLastHandoff(op, s)
           L == Len(h)
<1>2. /\ op \in Operation /\ h \in Seq(Handoff) /\ HasHandoff(op) /\ HandoffPending(op)
      /\ s # "pending"
  BY <1>1, SMT
  DEF IInv, TypeOK, Operation, AppendEvent, AppendCleanup, CanConfirmGeneration,
      HandoffPending, AcceptanceStates
<1>3. op'.startDeliveryAuthority = a /\ op'.startDeliveryHandoffs = n
  BY <1>1, <1>2, SMT DEF AppendEvent, AppendCleanup, ConfirmGeneration, Operation
<1>4. /\ n \in Seq(Handoff) /\ Len(n) = L /\ L \in Nat \ {0}
      /\ \A k \in 1..L : k # L => n[k] = h[k]
      /\ n[L] = [h[L] EXCEPT !.acceptanceState = s]
      /\ h[L] \in Handoff
  BY <1>2, AnswerKeepsHandoffs, Zenon
<1>5. /\ n[L].acceptanceState = s
      /\ n[L].deliveryGeneration = h[L].deliveryGeneration
      /\ n[L].previousDeliveryGeneration = h[L].previousDeliveryGeneration
      /\ n[L].previousDispatcherId = h[L].previousDispatcherId
  <2> HIDE DEF n, h, L
  <2> QED
    BY <1>4, SMT DEF Handoff
<1>6. DOMAIN n = 1..L /\ DOMAIN h = 1..L /\ L \in 1..L /\ n # <<>>
  <2> HIDE DEF n, h
  <2> QED
    BY <1>2, <1>4, SMT
<1>7. /\ \A k \in 1..L : k < L => h[k].acceptanceState # "pending"
      /\ \A j, k \in 1..L : j < k => h[j].deliveryGeneration <= h[k].deliveryGeneration
      /\ \A k \in 1..L :
           /\ h[k].deliveryGeneration = h[k].previousDeliveryGeneration + 1
           /\ h[k].deliveryGeneration <= a.deliveryGeneration + 1
      /\ a.dispatcherId = h[L].previousDispatcherId
      /\ a.deliveryGeneration = h[L].previousDeliveryGeneration
      /\ a # None
  BY <1>2, <1>6
  DEF IInv, HandoffsOrdered, HandoffsFollowAuthority, HasHandoff, LastHandoff
<1> HIDE DEF h, a, n, L
<1>8. ASSUME NEW k \in 1..L
      PROVE  /\ n[k].deliveryGeneration = h[k].deliveryGeneration
             /\ n[k].previousDeliveryGeneration = h[k].previousDeliveryGeneration
             /\ k < L => n[k].acceptanceState = h[k].acceptanceState
  <2>1. k < L => k # L
    BY <1>4, SMT
  <2> QED
    BY <1>4, <1>5, <2>1, Zenon
<1>9. HandoffsOrdered'
  <2>1. ~HandoffPending(op)'
    BY <1>2, <1>3, <1>4, <1>5, Zenon DEF HandoffPending, HasHandoff, LastHandoff
  <2>2. \A k \in 1..L : k < L => n[k].acceptanceState # "pending"
    BY <1>7, <1>8, Zenon
  <2>3. \A j, k \in 1..L : j < k => n[j].deliveryGeneration <= n[k].deliveryGeneration
    BY <1>7, <1>8, Zenon
  <2>4. \A k \in 1..L : n[k].deliveryGeneration = n[k].previousDeliveryGeneration + 1
    BY <1>7, <1>8, Zenon
  <2> QED
    BY <1>3, <1>4, <1>6, <2>1, <2>2, <2>3, <2>4, Zenon DEF HandoffsOrdered
<1>10. HandoffsFollowAuthority'
  BY <1>3, <1>4, <1>5, <1>6, <1>7, <1>8, Zenon
  DEF HandoffsFollowAuthority, HasHandoff, LastHandoff, Names
<1> QED
  BY <1>9, <1>10

\* Handing the delivery over stays ordered, and stays behind the authority.
LEMMA HandoffsKept ==
  ASSUME IInv, LogNext
  PROVE  HandoffsOrdered' /\ HandoffsFollowAuthority'
<1> USE DEF IInv, TypeOK, Operation, AppendEvent, AppendCleanup
<1>1. CASE OtherSteps
  BY <1>1, DeliveryRecordKept, HandoffInvariantsFramed, Zenon DEF DeliveryRecord
<1>2. CASE StartDeliveryEntered
  <2>1. /\ op'.startDeliveryAuthority = op.startDeliveryAuthority
        /\ op'.startDeliveryHandoffs = op.startDeliveryHandoffs
    BY <1>2, SMT DEF StartDeliveryEntered, EnterDelivery
  <2> QED
    BY <2>1, HandoffInvariantsFramed
<1>3. CASE StartInstructionDispatched
  <2>1. /\ op'.startDeliveryAuthority = op.startDeliveryAuthority
        /\ op'.startDeliveryHandoffs = op.startDeliveryHandoffs
    BY <1>3, SMT DEF StartInstructionDispatched, DispatchStart
  <2> QED
    BY <2>1, HandoffInvariantsFramed
<1>4. CASE StartInstructionAccepted
  <2>1. /\ op'.startDeliveryAuthority = op.startDeliveryAuthority
        /\ op'.startDeliveryHandoffs = op.startDeliveryHandoffs
    BY <1>4, SMT DEF StartInstructionAccepted, AcceptStart
  <2> QED
    BY <2>1, HandoffInvariantsFramed
<1>5. CASE StartInstructionAcknowledged
  <2>1. /\ op'.startDeliveryAuthority = op.startDeliveryAuthority
        /\ op'.startDeliveryHandoffs = op.startDeliveryHandoffs
    BY <1>5, SMT DEF StartInstructionAcknowledged, AcknowledgeStart
  <2> QED
    BY <2>1, HandoffInvariantsFramed
<1> QED
  BY <1>1, <1>2, <1>3, <1>4, <1>5, AcquisitionKeepsHandoffs, RevocationKeepsHandoffs,
     ConfirmationKeepsHandoffs
  DEF LogNext, StartSteps, OtherSteps

LEMMA InitInvariant == LogInit => IInv
<1> SUFFICES ASSUME LogInit PROVE IInv
  OBVIOUS
<1> USE DEF LogInit, Requested
<1>1. TypeOK
  BY RequestedTyped DEF TypeOK
<1>2. StartPresupposes /\ StartEvidenceOrdered /\ OutcomeJustified /\ CleanupJustified
  BY SMT DEF StartPresupposes, Starting, StartEvidenceOrdered, NoLaterThan,
             OutcomeJustified, CleanupJustified
<1>3. op.startDeliveryHandoffs = <<>>
  BY SMT
<1>4. HandoffsFollowAuthority /\ HandoffsOrdered
  <2>1. DOMAIN op.startDeliveryHandoffs = {}
    BY <1>3, SMT
  <2> QED
    BY <1>3, <2>1, Zenon
    DEF HandoffsFollowAuthority, HandoffsOrdered, HandoffPending, HasHandoff
<1> QED
  BY <1>1, <1>2, <1>4 DEF IInv

LEMMA NextInvariant == IInv /\ [LogNext]_logVars => IInv'
<1>1. CASE IInv /\ LogNext
  BY <1>1, NextTyped, StartPresupposesKept, OutcomeJustifiedKept, CleanupJustifiedKept,
     StartEvidenceOrderedKept, HandoffsKept
  DEF IInv
<1>2. CASE IInv /\ UNCHANGED logVars
  <2>1. op' = op /\ stateSeq' = stateSeq
    BY <1>2 DEF logVars
  <2>2. TypeOK' /\ StartPresupposes' /\ HandoffsFollowAuthority'
    BY <1>2, <2>1, Zenon DEF IInv, TypeOK, StartPresupposes, HandoffsFollowAuthority
  <2>3. StartEvidenceOrdered' /\ HandoffsOrdered' /\ OutcomeJustified' /\ CleanupJustified'
    BY <1>2, <2>1, Zenon
    DEF IInv, StartEvidenceOrdered, HandoffsOrdered, OutcomeJustified, CleanupJustified
  <2> QED
    BY <2>2, <2>3 DEF IInv
<1> QED
  BY <1>1, <1>2

\* The invariants hold together, and together they are inductive.
THEOREM Invariant == LogSpec => []IInv
  BY InitInvariant, NextInvariant, PTL DEF LogSpec

\* Entry, dispatch, acceptance and acknowledgement of the start instruction
\* never overtake the evidence they rest on.
THEOREM StartEvidenceIsOrdered == LogSpec => []StartEvidenceOrdered
<1>1. IInv => StartEvidenceOrdered
  BY DEF IInv
<1> QED
  BY <1>1, Invariant, PTL

\* Handing the delivery over only moves forward, one handoff at a time.
THEOREM HandoffsAreOrdered == LogSpec => []HandoffsOrdered
<1>1. IInv => HandoffsOrdered
  BY DEF IInv
<1> QED
  BY <1>1, Invariant, PTL

\* A completed Operation has a result of an acknowledged worker that stopped.
THEOREM OutcomesAreJustified == LogSpec => []OutcomeJustified
<1>1. IInv => OutcomeJustified
  BY DEF IInv
<1> QED
  BY <1>1, Invariant, PTL

\* Only the owned workspace of a stopped worker is ever closed.
THEOREM CleanupsAreJustified == LogSpec => []CleanupJustified
<1>1. IInv => CleanupJustified
  BY DEF IInv
<1> QED
  BY <1>1, Invariant, PTL

-----------------------------------------------------------------------------
(* What a step may never do.                                               *)

LEMMA FinalStepTaken ==
  ASSUME IInv, LogNext
  PROVE  FinalStep
<1> SUFFICES ASSUME Terminal(op) PROVE FinalStep
  BY DEF FinalStep
<1> USE DEF IInv, TypeOK, Operation, AppendCleanup, FinalStep
<1>1. CASE PresentationCleanupStarted
  BY <1>1, SMT DEF PresentationCleanupStarted, StartCleanup, CanStartCleanup
<1>2. CASE PresentationCleanupCompleted
  BY <1>2, SMT DEF PresentationCleanupCompleted, FinishCleanup, CanFinishCleanup, Cleanup
<1>3. CASE PresentationCleanupUnconfirmed
  BY <1>3, SMT DEF PresentationCleanupUnconfirmed, FinishCleanup, CanFinishCleanup, Cleanup
<1>4. ~StartSteps
  BY Zenon
  DEF StartSteps, AppendEvent, PresentationOwned, OperationStarting, WorkerLaunched,
      WorkerIdentified, StartDeliveryAuthorityAcquired, StartDeliveryAuthorityRevoked,
      StartDeliveryGenerationConfirmed, StartDeliveryEntered, StartInstructionDispatched,
      StartInstructionAccepted, StartInstructionAcknowledged
<1>5. ~SettlementSteps
  BY Zenon
  DEF SettlementSteps, AppendEvent, ResultAccepted, WorkerStopConfirmed, AgentSettled,
      OperationCompleted, OperationFailed, CancellationRequested, CancelDispatched,
      CancelAcknowledged, OperationCancelled, OperationUnknown
<1> QED
  BY <1>1, <1>2, <1>3, <1>4, <1>5 DEF LogNext, CleanupSteps

\* Nothing but the outcome of the workspace cleanup follows a final state.
THEOREM FinalStateIsFinal == LogSpec => FinalIsFinal
<1>1. IInv /\ [LogNext]_logVars => [FinalStep]_logVars
  BY FinalStepTaken
<1> QED
  BY <1>1, Invariant, PTL DEF LogSpec, FinalIsFinal

\* A presentation, a worker, a result and an acknowledgement are recorded once.
LEMMA ValuesRecordedOnce ==
  ASSUME IInv, LogNext
  PROVE  /\ op.presentation # None => op'.presentation = op.presentation
         /\ op.workerIdentity # None => op'.workerIdentity = op.workerIdentity
         /\ op.result # None => op'.result = op.result
         /\ op.startInstructionAcknowledgement # None =>
              op'.startInstructionAcknowledgement = op.startInstructionAcknowledgement
         /\ op.workerStopConfirmed => op'.workerStopConfirmed
<1> USE DEF IInv, TypeOK, Operation, AppendEvent, AppendCleanup, StartPresupposes
<1>1. CASE PresentationOwned
  BY <1>1, SMT DEF PresentationOwned, OwnPresentation, CanOwnPresentation
<1>2. CASE OperationStarting
  BY <1>2, SMT DEF OperationStarting, Start, CanStart
<1>3. CASE WorkerLaunched
  BY <1>3, SMT DEF WorkerLaunched, LaunchWorker, CanLaunchWorker
<1>4. CASE WorkerIdentified
  BY <1>4, SMT DEF WorkerIdentified, IdentifyWorker, CanIdentifyWorker
<1>5. CASE StartDeliveryAuthorityAcquired
  BY <1>5, SMT DEF StartDeliveryAuthorityAcquired, AcquireAuthority, CanAcquireAuthority
<1>6. CASE StartDeliveryAuthorityRevoked
  BY <1>6, SMT DEF StartDeliveryAuthorityRevoked, RevokeAuthority, CanRevokeAuthority
<1>7. CASE StartDeliveryGenerationConfirmed
  BY <1>7, SMT DEF StartDeliveryGenerationConfirmed, ConfirmGeneration, CanConfirmGeneration
<1>8. CASE StartDeliveryEntered
  BY <1>8, SMT DEF StartDeliveryEntered, EnterDelivery, CanEnterDelivery
<1>9. CASE StartInstructionDispatched
  BY <1>9, SMT DEF StartInstructionDispatched, DispatchStart, CanDispatchStart
<1>10. CASE StartInstructionAccepted
  BY <1>10, SMT DEF StartInstructionAccepted, AcceptStart, CanAcceptStart
<1>11. CASE StartInstructionAcknowledged
  BY <1>11, SMT DEF StartInstructionAcknowledged, AcknowledgeStart, CanAcknowledgeStart
<1>12. CASE ResultAccepted
  BY <1>12, SMT DEF ResultAccepted, AcceptResult, CanAcceptResult
<1>13. CASE WorkerStopConfirmed
  BY <1>13, SMT DEF WorkerStopConfirmed, ConfirmWorkerStop, CanConfirmWorkerStop
<1>14. CASE AgentSettled
  BY <1>14, SMT DEF AgentSettled, SettleAgent, CanSettleAgent
<1>15. CASE OperationCompleted
  BY <1>15, SMT DEF OperationCompleted, Complete, CanComplete
<1>16. CASE OperationFailed
  BY <1>16, SMT DEF OperationFailed, Fail, CanFail
<1>17. CASE CancellationRequested
  BY <1>17, SMT DEF CancellationRequested, RequestCancellation, CanRequestCancellation
<1>18. CASE CancelDispatched
  BY <1>18, SMT DEF CancelDispatched, DispatchCancel, OfCancellation
<1>19. CASE CancelAcknowledged
  BY <1>19, SMT DEF CancelAcknowledged, AcknowledgeCancel, OfCancellation
<1>20. CASE OperationCancelled
  BY <1>20, SMT DEF OperationCancelled, Cancel, CanCancel, OfCancellation
<1>21. CASE OperationUnknown
  BY <1>21, SMT DEF OperationUnknown, GiveUp, CanGiveUp, OfCancellation
<1>22. CASE PresentationCleanupStarted
  BY <1>22, SMT DEF PresentationCleanupStarted, StartCleanup, CanStartCleanup
<1>23. CASE PresentationCleanupCompleted
  BY <1>23, SMT DEF PresentationCleanupCompleted, FinishCleanup, CanFinishCleanup
<1>24. CASE PresentationCleanupUnconfirmed
  BY <1>24, SMT DEF PresentationCleanupUnconfirmed, FinishCleanup, CanFinishCleanup
<1> HIDE DEF IInv, TypeOK, Operation, AppendEvent, AppendCleanup
<1> QED
  BY <1>1, <1>2, <1>3, <1>4, <1>5, <1>6, <1>7, <1>8, <1>9, <1>10, <1>11, <1>12,
     <1>13, <1>14, <1>15, <1>16, <1>17, <1>18, <1>19, <1>20, <1>21, <1>22, <1>23, <1>24
  DEF LogNext, StartSteps, SettlementSteps, CleanupSteps

\* A handoff is recorded for good once its worker has answered it, and
\* authority never returns to an older generation.
LEMMA HandoffsRecordedOnce ==
  ASSUME IInv, LogNext
  PROVE  /\ \A k \in DOMAIN op.startDeliveryHandoffs :
              /\ k \in DOMAIN op'.startDeliveryHandoffs
              /\ op.startDeliveryHandoffs[k].acceptanceState # "pending" =>
                   op'.startDeliveryHandoffs[k] = op.startDeliveryHandoffs[k]
         /\ NoLaterThan(op.startDeliveryAuthority, op'.startDeliveryAuthority)
<1> DEFINE h == op.startDeliveryHandoffs
           a == op.startDeliveryAuthority
           Goal == /\ \A k \in DOMAIN h :
                        /\ k \in DOMAIN op'.startDeliveryHandoffs
                        /\ h[k].acceptanceState # "pending" =>
                             op'.startDeliveryHandoffs[k] = h[k]
                   /\ NoLaterThan(a, op'.startDeliveryAuthority)
<1>1. op \in Operation /\ h \in Seq(Handoff) /\ Len(h) \in Nat /\ DOMAIN h = 1..Len(h)
  BY SMT DEF IInv, TypeOK, Operation
<1>2. NoLaterThan(a, a)
  BY <1>1, SMT DEF NoLaterThan, Operation, StartInstruction
<1>3. ASSUME op'.startDeliveryAuthority = a, op'.startDeliveryHandoffs = h
      PROVE  Goal
  BY <1>2, <1>3, Zenon
<1> SUFFICES Goal
  OBVIOUS
<1> HIDE DEF Goal
<1> USE <1>1 DEF AppendEvent, AppendCleanup
<1>4. CASE OtherSteps
  BY <1>3, <1>4, DeliveryRecordKept, Zenon DEF DeliveryRecord, IInv
<1>5. CASE StartDeliveryAuthorityAcquired
  <2>1. PICK i \in Instruction :
          AppendEvent(CanAcquireAuthority(op, i), AcquireAuthority(op, i))
    BY <1>5 DEF StartDeliveryAuthorityAcquired
  <2>2. op'.startDeliveryAuthority = i /\ op'.startDeliveryHandoffs = h
    BY <2>1, SMT DEF AcquireAuthority, Operation
  <2>3. NoLaterThan(a, i)
    BY <2>1, AcquisitionAdvances
  <2> QED
    BY <2>2, <2>3, Zenon DEF Goal
<1>6. CASE StartDeliveryAuthorityRevoked
  <2>1. PICK d \in Dispatcher, g \in Generation :
          AppendEvent(CanRevokeAuthority(op, d, g), RevokeAuthority(op, d, g))
    BY <1>6 DEF StartDeliveryAuthorityRevoked
  <2>2. a \in StartInstruction /\ g \in Nat \ {0}
    BY <2>1, InputsTyped, SMT DEF CanRevokeAuthority, Operation
  <2>3. /\ op'.startDeliveryAuthority = a
        /\ op'.startDeliveryHandoffs = AppendHandoff(op, d, g)
    BY <2>1, SMT DEF RevokeAuthority, Operation
  <2>4. CASE ResumesHandoff(op, d, g)
    BY <1>3, <2>3, <2>4 DEF AppendHandoff
  <2>5. CASE ~ResumesHandoff(op, d, g)
    <3> DEFINE n == AppendHandoff(op, d, g)
    <3>1. n \in Seq(Handoff) /\ Len(n) = Len(h) + 1 /\ \A k \in 1..Len(h) : n[k] = h[k]
      BY <2>2, <2>5, AppendKeepsHandoffs, Zenon
    <3> HIDE DEF n
    <3>2. \A k \in 1..Len(h) : k \in DOMAIN n
      BY <3>1, SMT
    <3> QED
      BY <1>2, <2>3, <3>1, <3>2, Zenon DEF Goal, n
  <2> QED
    BY <2>4, <2>5
<1>7. CASE StartDeliveryGenerationConfirmed
  <2>1. PICK d \in Dispatcher, g \in Generation, s \in AcceptanceStates,
             i \in Instruction \cup {None} :
          AppendEvent(CanConfirmGeneration(op, d, g, s, i), ConfirmGeneration(op, s))
    BY <1>7 DEF StartDeliveryGenerationConfirmed
  <2> DEFINE n == AnswerLastHandoff(op, s)
  <2>2. op'.startDeliveryAuthority = a /\ op'.startDeliveryHandoffs = n
    BY <2>1, SMT DEF ConfirmGeneration, Operation
  <2>3. HasHandoff(op) /\ h[Len(h)].acceptanceState = "pending"
    BY <2>1 DEF CanConfirmGeneration, HandoffPending, LastHandoff
  <2>4. /\ n \in Seq(Handoff) /\ Len(n) = Len(h)
        /\ \A k \in 1..Len(h) : k # Len(h) => n[k] = h[k]
    BY <2>1, <2>3, AnswerKeepsHandoffs, Zenon
  <2> HIDE DEF n
  <2>5. DOMAIN n = 1..Len(h)
    BY <2>4, SMT
  <2> QED
    BY <1>2, <2>2, <2>3, <2>4, <2>5, Zenon DEF Goal
<1>8. CASE StartDeliveryEntered
  BY <1>3, <1>8, SMT DEF StartDeliveryEntered, EnterDelivery, Operation
<1>9. CASE StartInstructionDispatched
  BY <1>3, <1>9, SMT DEF StartInstructionDispatched, DispatchStart, Operation
<1>10. CASE StartInstructionAccepted
  BY <1>3, <1>10, SMT DEF StartInstructionAccepted, AcceptStart, Operation
<1>11. CASE StartInstructionAcknowledged
  BY <1>3, <1>11, SMT DEF StartInstructionAcknowledged, AcknowledgeStart, Operation
<1> QED
  BY <1>4, <1>5, <1>6, <1>7, <1>8, <1>9, <1>10, <1>11
  DEF LogNext, StartSteps, OtherSteps

\* Recorded evidence is never rewritten.
THEOREM EvidenceIsKept == LogSpec => EvidenceKept
<1>1. IInv /\ [LogNext]_logVars => [EvidenceStep]_logVars
  BY ValuesRecordedOnce, HandoffsRecordedOnce DEF EvidenceStep
<1> QED
  BY <1>1, Invariant, PTL DEF LogSpec, EvidenceKept

LEMMA CancellationStepTaken ==
  ASSUME IInv, LogNext
  PROVE  CancellationStep
<1> USE DEF IInv, TypeOK, Operation, AppendEvent, AppendCleanup, CancellationStep,
            Starting, OpenStates, Terminal, TerminalStates
<1>1. CASE PresentationOwned
  BY <1>1, SMT DEF PresentationOwned, OwnPresentation, CanOwnPresentation
<1>2. CASE OperationStarting
  BY <1>2, SMT DEF OperationStarting, Start, CanStart
<1>3. CASE WorkerLaunched
  BY <1>3, SMT DEF WorkerLaunched, LaunchWorker, CanLaunchWorker
<1>4. CASE WorkerIdentified
  BY <1>4, SMT DEF WorkerIdentified, IdentifyWorker, CanIdentifyWorker
<1>5. CASE StartDeliveryAuthorityAcquired
  BY <1>5, SMT DEF StartDeliveryAuthorityAcquired, AcquireAuthority, CanAcquireAuthority
<1>6. CASE StartDeliveryAuthorityRevoked
  BY <1>6, SMT DEF StartDeliveryAuthorityRevoked, RevokeAuthority, CanRevokeAuthority
<1>7. CASE StartDeliveryGenerationConfirmed
  BY <1>7, SMT DEF StartDeliveryGenerationConfirmed, ConfirmGeneration, CanConfirmGeneration
<1>8. CASE StartDeliveryEntered
  BY <1>8, SMT DEF StartDeliveryEntered, EnterDelivery, CanEnterDelivery
<1>9. CASE StartInstructionDispatched
  BY <1>9, SMT DEF StartInstructionDispatched, DispatchStart, CanDispatchStart
<1>10. CASE StartInstructionAccepted
  BY <1>10, SMT DEF StartInstructionAccepted, AcceptStart, CanAcceptStart
<1>11. CASE StartInstructionAcknowledged
  BY <1>11, SMT DEF StartInstructionAcknowledged, AcknowledgeStart, CanAcknowledgeStart
<1>12. CASE ResultAccepted
  BY <1>12, SMT DEF ResultAccepted, AcceptResult, CanAcceptResult
<1>13. CASE WorkerStopConfirmed
  BY <1>13, SMT DEF WorkerStopConfirmed, ConfirmWorkerStop, CanConfirmWorkerStop
<1>14. CASE AgentSettled
  BY <1>14, SMT DEF AgentSettled, SettleAgent, CanSettleAgent
<1>15. CASE OperationCompleted
  BY <1>15, SMT DEF OperationCompleted, Complete, CanComplete
<1>16. CASE OperationFailed
  BY <1>16, SMT DEF OperationFailed, Fail, CanFail
<1>17. CASE CancellationRequested
  BY <1>17, SMT DEF CancellationRequested, RequestCancellation, CanRequestCancellation
<1>18. CASE CancelDispatched
  BY <1>18, SMT DEF CancelDispatched, DispatchCancel, OfCancellation
<1>19. CASE CancelAcknowledged
  BY <1>19, SMT DEF CancelAcknowledged, AcknowledgeCancel, OfCancellation
<1>20. CASE OperationCancelled
  BY <1>20, SMT DEF OperationCancelled, Cancel, CanCancel, OfCancellation
<1>21. CASE OperationUnknown
  BY <1>21, SMT DEF OperationUnknown, GiveUp, CanGiveUp, OfCancellation
<1>22. CASE PresentationCleanupStarted
  BY <1>22, SMT DEF PresentationCleanupStarted, StartCleanup, CanStartCleanup
<1>23. CASE PresentationCleanupCompleted
  BY <1>23, SMT DEF PresentationCleanupCompleted, FinishCleanup, CanFinishCleanup
<1>24. CASE PresentationCleanupUnconfirmed
  BY <1>24, SMT DEF PresentationCleanupUnconfirmed, FinishCleanup, CanFinishCleanup
<1> QED
  BY <1>1, <1>2, <1>3, <1>4, <1>5, <1>6, <1>7, <1>8, <1>9, <1>10, <1>11, <1>12,
     <1>13, <1>14, <1>15, <1>16, <1>17, <1>18, <1>19, <1>20, <1>21, <1>22, <1>23, <1>24
  DEF LogNext, StartSteps, SettlementSteps, CleanupSteps

\* A requested cancellation excludes a result, a completion and a failure.
THEOREM CancellationIsExclusive == LogSpec => CancellationExcludesOutcome
<1>1. IInv /\ [LogNext]_logVars => [CancellationStep]_logVars
  BY CancellationStepTaken
<1> QED
  BY <1>1, Invariant, PTL DEF LogSpec, CancellationExcludesOutcome

-----------------------------------------------------------------------------
(* The record implements the abstract life cycle.                          *)

LEMMA LifecycleStepTaken ==
  ASSUME IInv, LogNext
  PROVE  [Lifecycle!LifecycleNext]_(Lifecycle!lifecycleVars)
<1> USE DEF IInv, TypeOK, Operation, AppendEvent, AppendCleanup, Starting, OpenStates,
            Terminal, TerminalStates, States,
            Lifecycle!LifecycleNext, Lifecycle!lifecycleVars, Lifecycle!AcceptResult,
            Lifecycle!ConfirmStop, Lifecycle!Complete, Lifecycle!Fail,
            Lifecycle!RequestCancellation, Lifecycle!ConfirmCancellation, Lifecycle!GiveUp
<1>1. CASE PresentationOwned
  BY <1>1, SMT DEF PresentationOwned, OwnPresentation, CanOwnPresentation
<1>2. CASE OperationStarting
  BY <1>2, SMT DEF OperationStarting, Start, CanStart
<1>3. CASE WorkerLaunched
  BY <1>3, SMT DEF WorkerLaunched, LaunchWorker, CanLaunchWorker
<1>4. CASE WorkerIdentified
  BY <1>4, SMT DEF WorkerIdentified, IdentifyWorker, CanIdentifyWorker
<1>5. CASE StartDeliveryAuthorityAcquired
  BY <1>5, SMT DEF StartDeliveryAuthorityAcquired, AcquireAuthority, CanAcquireAuthority
<1>6. CASE StartDeliveryAuthorityRevoked
  BY <1>6, SMT DEF StartDeliveryAuthorityRevoked, RevokeAuthority, CanRevokeAuthority
<1>7. CASE StartDeliveryGenerationConfirmed
  BY <1>7, SMT DEF StartDeliveryGenerationConfirmed, ConfirmGeneration, CanConfirmGeneration
<1>8. CASE StartDeliveryEntered
  BY <1>8, SMT DEF StartDeliveryEntered, EnterDelivery, CanEnterDelivery
<1>9. CASE StartInstructionDispatched
  BY <1>9, SMT DEF StartInstructionDispatched, DispatchStart, CanDispatchStart
<1>10. CASE StartInstructionAccepted
  BY <1>10, SMT DEF StartInstructionAccepted, AcceptStart, CanAcceptStart
<1>11. CASE StartInstructionAcknowledged
  BY <1>11, SMT DEF StartInstructionAcknowledged, AcknowledgeStart, CanAcknowledgeStart
<1>12. CASE ResultAccepted
  BY <1>12, SMT DEF ResultAccepted, AcceptResult, CanAcceptResult
<1>13. CASE WorkerStopConfirmed
  <2>1. /\ op.state \in OpenStates
        /\ op'.state = op.state /\ op'.result = op.result
    BY <1>13, SMT DEF WorkerStopConfirmed, ConfirmWorkerStop, CanConfirmWorkerStop
  <2>2. op'.workerStopConfirmed = TRUE
    BY <1>13, Zenon DEF WorkerStopConfirmed, ConfirmWorkerStop, CanConfirmWorkerStop
  <2> QED
    BY <2>1, <2>2, Zenon
<1>14. CASE AgentSettled
  BY <1>14, SMT DEF AgentSettled, SettleAgent, CanSettleAgent
<1>15. CASE OperationCompleted
  <2>1. /\ op.state \in OpenStates /\ op.result # None
        /\ op'.state = "completed" /\ op'.result = op.result
    BY <1>15, SMT DEF OperationCompleted, Complete, CanComplete
  <2>2. op'.workerStopConfirmed = op.workerStopConfirmed
    BY <1>15, Zenon DEF OperationCompleted, Complete, CanComplete
  <2>3. op.workerStopConfirmed
    BY <1>15, Zenon DEF OperationCompleted, Complete, CanComplete
  <2> QED
    BY <2>1, <2>2, <2>3, Zenon
<1>16. CASE OperationFailed
  BY <1>16, SMT DEF OperationFailed, Fail, CanFail
<1>17. CASE CancellationRequested
  BY <1>17, SMT DEF CancellationRequested, RequestCancellation, CanRequestCancellation
<1>18. CASE CancelDispatched
  BY <1>18, SMT DEF CancelDispatched, DispatchCancel, OfCancellation
<1>19. CASE CancelAcknowledged
  <2>1. /\ op.state = "cancelling"
        /\ op'.state = op.state /\ op'.result = op.result
    BY <1>19, SMT DEF CancelAcknowledged, AcknowledgeCancel, OfCancellation
  <2>2. op'.workerStopConfirmed = TRUE
    BY <1>19, Zenon DEF CancelAcknowledged, AcknowledgeCancel, OfCancellation
  <2> QED
    BY <2>1, <2>2, Zenon
<1>20. CASE OperationCancelled
  <2>1. /\ op.state = "cancelling"
        /\ op'.state = "cancelled" /\ op'.result = op.result
    BY <1>20, SMT DEF OperationCancelled, Cancel, CanCancel, OfCancellation
  <2>2. op'.workerStopConfirmed = op.workerStopConfirmed
    BY <1>20, Zenon DEF OperationCancelled, Cancel, CanCancel, OfCancellation
  <2>3. op.workerStopConfirmed
    BY <1>20, Zenon DEF OperationCancelled, Cancel, CanCancel, OfCancellation
  <2> QED
    BY <2>1, <2>2, <2>3, Zenon
<1>21. CASE OperationUnknown
  BY <1>21, SMT DEF OperationUnknown, GiveUp, CanGiveUp, OfCancellation
<1>22. CASE PresentationCleanupStarted
  BY <1>22, SMT DEF PresentationCleanupStarted, StartCleanup, CanStartCleanup
<1>23. CASE PresentationCleanupCompleted
  BY <1>23, SMT DEF PresentationCleanupCompleted, FinishCleanup, CanFinishCleanup
<1>24. CASE PresentationCleanupUnconfirmed
  BY <1>24, SMT DEF PresentationCleanupUnconfirmed, FinishCleanup, CanFinishCleanup
<1> HIDE DEF IInv, TypeOK, Operation, AppendEvent, AppendCleanup, States,
             Lifecycle!LifecycleNext
<1> QED
  BY <1>1, <1>2, <1>3, <1>4, <1>5, <1>6, <1>7, <1>8, <1>9, <1>10, <1>11, <1>12,
     <1>13, <1>14, <1>15, <1>16, <1>17, <1>18, <1>19, <1>20, <1>21, <1>22, <1>23, <1>24
  DEF LogNext, StartSteps, SettlementSteps, CleanupSteps

\* Every event of the record is a step of the life cycle promised to callers,
\* or invisible in it.
THEOREM RecordImplementsLifecycle == LogSpec => ImplementsLifecycle
<1>1. LogInit => Lifecycle!LifecycleInit
  BY DEF LogInit, Requested, Lifecycle!LifecycleInit, OpenStates
<1>2. IInv /\ [LogNext]_logVars => [Lifecycle!LifecycleNext]_(Lifecycle!lifecycleVars)
  <2>1. CASE IInv /\ LogNext
    BY <2>1, LifecycleStepTaken
  <2>2. CASE UNCHANGED logVars
    BY <2>2 DEF logVars, Lifecycle!lifecycleVars
  <2> QED
    BY <2>1, <2>2
<1> QED
  BY <1>1, <1>2, Invariant, PTL DEF LogSpec, ImplementsLifecycle, Lifecycle!LifecycleSpec

-----------------------------------------------------------------------------
(* The inductive invariant.                                                *)

\* Whoever is inside the lock holds it, and its holder is inside.
LockHeld == \A c \in Caller : Inside(c) <=> holder = c

\* A writer has decided on the record it is about to replace, and the body of an
\* acceptance is visible, then safe, before the record is replaced.
WriterPrepared ==
  \A c \in Caller : pc[c] \in {"writing_body", "syncing_body", "writing"} =>
    \/ /\ call[c].kind = "append" /\ pc[c] = "writing"
       /\ Legal(record, call[c].intent)
       /\ view[c] = Appended(record, call[c].intent)
    \/ /\ call[c].kind = "accept"
       /\ Exists(record) /\ CanAcceptResult(record.op) /\ call[c].bytes \in Result
       /\ view[c] = WithResult(record, call[c].bytes)
       /\ pc[c] # "writing_body" => body = call[c].bytes
       /\ pc[c] = "writing" => syncedBody = body

WriterPublished ==
  \A c \in Caller : pc[c] = "syncing" =>
    /\ call[c].kind \in {"append", "accept"}
    /\ view[c] = record /\ Exists(record)
    /\ call[c].kind = "accept" => record.op.result # None

\* The body of an acceptance on record is visible and safe: what a power loss
\* undoes is at most the record.
BodyKept ==
  HasResult(record) => body = record.op.result /\ syncedBody = record.op.result

\* The safe record is an earlier one, and acceptances are not taken back.
SyncedBefore ==
  /\ syncedRecord.seq <= record.seq
  /\ HasResult(syncedRecord) => HasResult(record) /\ record.op.result = syncedRecord.op.result

\* A reply that acknowledges a write is given once the write is safe.
RepliesSynced ==
  \A c \in Caller : pc[c] \in {"unlocking", "leaving"} =>
    /\ reply[c].kind = "snapshot" /\ call[c].kind = "append" => reply[c].seq <= syncedRecord.seq
    /\ reply[c].kind = "accepted" /\ ~reply[c].joined =>
         HasResult(syncedRecord) /\ syncedRecord.op.result = reply[c].bytes

\* While no call fails and no process dies, a record that is not safe is just
\* being synced.
SyncedAtRest ==
  faults = 0 /\ crashes = 0 => record = syncedRecord \/ \E c \in Caller : pc[c] = "syncing"

\* A reply that joins an acceptance is given while the acceptance is on record.
JoinsHold ==
  \A c \in Caller :
    pc[c] \in {"unlocking", "leaving"} /\ reply[c].kind = "accepted" /\ reply[c].joined =>
      /\ Holds(record, reply[c].bytes)
      /\ faults = 0 /\ crashes = 0 => Holds(syncedRecord, reply[c].bytes)

\* The acceptance a reader has seen stays on record until it reads the body.
FetchedStays ==
  \A c \in Caller :
    /\ pc[c] \in {"unlocking", "leaving"} /\ call[c].kind = "fetch" /\ reply[c].kind = "snapshot" =>
         /\ Exists(view[c])
         /\ HasResult(view[c]) => HasResult(record) /\ record.op.result = view[c].op.result
    /\ pc[c] = "fetching" =>
         HasResult(view[c]) /\ HasResult(record) /\ record.op.result = view[c].op.result

InQueue(q, s)  == \E i \in DOMAIN q : q[i] = s
Distinct(q)    == \A i, j \in DOMAIN q : q[i] = q[j] => i = j

\* The queue of a process has the calls under way, once each; only its head has
\* got beyond waiting.
QueueOrder ==
  /\ \A p \in Process : Distinct(tail[p])
  /\ \A c \in Caller :
       /\ pc[c] \notin {"idle", "fetching"} <=> InQueue(tail[c[1]], c[2])
       /\ pc[c] \notin {"idle", "fetching", "queued"} => Head(tail[c[1]]) = c[2]

StoreIInv ==
  /\ StoreTypeOK /\ LockHeld
  /\ WriterPrepared /\ WriterPublished
  /\ BodyKept /\ SyncedBefore
  /\ RepliesSynced /\ FetchedStays /\ FetchedBodyIsAccepted /\ WrittenIsDurable
  /\ SyncedAtRest /\ JoinsHold /\ JoinedIsDurable
  /\ QueueOrder

-----------------------------------------------------------------------------
(* Records.                                                                *)

LEMMA CallerParts ==
  ASSUME NEW c \in Caller
  PROVE  c[1] \in Process /\ c[2] \in Slot /\ c = <<c[1], c[2]>>
  BY DEF Caller

LEMMA RecordTyped ==
  ASSUME NEW r \in Record, Exists(r)
  PROVE  /\ r.op \in Operation /\ r.seq \in Nat \ {0}
         /\ r.op.result \in Result \cup {None}
  BY SMT DEF Record, Exists, NoRecord, Operation

LEMMA SeqTyped == \A r \in Record : r.seq \in Nat
  BY SMT DEF Record, NoRecord

LEMMA RecordMade ==
  ASSUME NEW o \in Operation, NEW n \in Nat \ {0}
  PROVE  [op |-> o, seq |-> n] \in Record /\ Exists([op |-> o, seq |-> n])
  BY SMT DEF Record, Exists, NoRecord

\* The arms that calls append leave the result alone.
LEMMA ReducedKeeps ==
  ASSUME NEW r \in Record, NEW intent \in Intents, Legal(r, intent)
  PROVE  /\ Reduced(r.op, intent) \in Operation
         /\ Exists(r) => Reduced(r.op, intent).result = r.op.result
         /\ ~Exists(r) => Reduced(r.op, intent).result = None
<1>1. CASE intent = "operation_requested"
  <2>1. Reduced(r.op, intent) = Requested /\ ~Exists(r)
    BY <1>1 DEF Reduced, Legal
  <2> QED
    BY <2>1, RequestedTyped DEF Requested
<1>2. CASE intent # "operation_requested"
  <2>1. Exists(r) /\ r.op \in Operation
    BY <1>2, RecordTyped DEF Legal
  <2>2. CASE intent = "agent_settled"
    BY <2>1, <2>2, FlagArmsTyped, ArmsKeepResult DEF Reduced
  <2>3. CASE intent = "worker_stop_confirmed"
    BY <2>1, <2>3, FlagArmsTyped, ArmsKeepResult DEF Reduced
  <2>4. CASE intent = "operation_completed"
    BY <2>1, <2>4, StateArmsTyped DEF Reduced, Complete, Operation
  <2>5. CASE intent = "operation_failed"
    BY <2>1, <2>5, StateArmsTyped DEF Reduced, Fail, Operation
  <2>6. CASE intent = "cancellation_requested"
    BY <2>1, <2>6, RequestCancellationTyped DEF Reduced, RequestCancellation, Operation
  <2> QED
    BY <1>2, <2>2, <2>3, <2>4, <2>5, <2>6, IntentsAreModelled
<1> QED
  BY <1>1, <1>2

LEMMA AppendedTyped ==
  ASSUME NEW r \in Record, NEW intent \in Intents, Legal(r, intent)
  PROVE  /\ Appended(r, intent) \in Record /\ Exists(Appended(r, intent))
         /\ Appended(r, intent).seq > r.seq
         /\ HasResult(Appended(r, intent)) <=> HasResult(r)
         /\ HasResult(r) => Appended(r, intent).op.result = r.op.result
<1>1. r.seq \in Nat
  BY RecordTyped, SMT DEF Exists, NoRecord
<1>2. r.seq + 1 \in Nat \ {0} /\ r.seq + 1 > r.seq
  BY <1>1, SMT
<1>3. Appended(r, intent) \in Record /\ Exists(Appended(r, intent))
  BY <1>2, ReducedKeeps, RecordMade DEF Appended
<1> QED
  BY <1>2, <1>3, ReducedKeeps DEF Appended, HasResult

LEMMA WithResultTyped ==
  ASSUME NEW r \in Record, Exists(r), NEW b \in Result
  PROVE  /\ WithResult(r, b) \in Record /\ Exists(WithResult(r, b))
         /\ WithResult(r, b).seq > r.seq
         /\ HasResult(WithResult(r, b)) /\ WithResult(r, b).op.result = b
<1>1. r.op \in Operation /\ r.seq + 1 \in Nat \ {0} /\ r.seq + 1 > r.seq
  BY RecordTyped, SMT
<1>2. AcceptResult(r.op, b) \in Operation /\ AcceptResult(r.op, b).result = b
  BY <1>1, ValueArmsTyped DEF AcceptResult, Operation
<1>3. b # None
  BY NoneIsNoValue
<1>4. WithResult(r, b) \in Record /\ Exists(WithResult(r, b))
  BY <1>1, <1>2, RecordMade DEF WithResult
<1> QED
  BY <1>1, <1>2, <1>3, <1>4 DEF WithResult, HasResult

LEMMA RunningTyped ==
  ASSUME NEW w \in Workspace, NEW p \in Worker, NEW d \in Dispatcher
  PROVE  Running(w, p, d) \in Record /\ Running(w, p, d).op.result = None
<1> DEFINE i  == [dispatcherId |-> d, workerProcessInstanceId |-> p, deliveryGeneration |-> 1]
           o1 == OwnPresentation(Requested, w)
           o2 == Start(o1)
           o3 == LaunchWorker(o2)
           o4 == IdentifyWorker(o3, p)
           o5 == AcquireAuthority(o4, i)
           o6 == EnterDelivery(o5, i)
           o7 == DispatchStart(o6, i)
           o8 == AcceptStart(o7, i)
           o9 == AcknowledgeStart(o8, i)
<1>1. i \in StartInstruction
  BY SMT DEF StartInstruction
<1>2. o1 \in Operation /\ o1.result = None
  <2>1. Requested.result = None
    BY DEF Requested
  <2> QED
    BY <2>1, RequestedTyped, ValueArmsTyped, OtherFieldsKeepResult DEF OwnPresentation
<1> HIDE DEF i, o1
<1>3. o2 \in Operation /\ o2.result = None
  BY <1>2, StateArmsTyped, ArmsKeepResult
<1> HIDE DEF o2
<1>4. o3 \in Operation /\ o3.result = None
  BY <1>3, FlagArmsTyped, ArmsKeepResult
<1> HIDE DEF o3
<1>5. o4 \in Operation /\ o4.result = None
  BY <1>4, ValueArmsTyped DEF IdentifyWorker, Operation
<1> HIDE DEF o4
<1>6. o5 \in Operation /\ o5.result = None
  BY <1>1, <1>5, InstructionArmsTyped DEF AcquireAuthority, Operation
<1> HIDE DEF o5
<1>7. o6 \in Operation /\ o6.result = None
  BY <1>1, <1>6, InstructionArmsTyped DEF EnterDelivery, Operation
<1> HIDE DEF o6
<1>8. o7 \in Operation /\ o7.result = None
  BY <1>1, <1>7, InstructionArmsTyped DEF DispatchStart, Operation
<1> HIDE DEF o7
<1>9. o8 \in Operation /\ o8.result = None
  BY <1>1, <1>8, InstructionArmsTyped DEF AcceptStart, Operation
<1> HIDE DEF o8
<1>10. o9 \in Operation /\ o9.result = None
  BY <1>1, <1>9, InstructionArmsTyped, ArmsKeepResult
<1>11. Running(w, p, d) = [op |-> o9, seq |-> 10]
  BY DEF Running, o9, o8, o7, o6, o5, o4, o3, o2, o1, i
<1> HIDE DEF o9
<1>12. 10 \in Nat \ {0}
  BY SMT
<1> QED
  BY <1>10, <1>11, <1>12, RecordMade

LEMMA NoRecordTyped == NoRecord \in Record /\ ~Exists(NoRecord) /\ ~HasResult(NoRecord)
  BY DEF Record, Exists, HasResult

-----------------------------------------------------------------------------
(* Queues.                                                                 *)

LEMMA AppendEnqueues ==
  ASSUME NEW S, NEW q \in Seq(S), NEW s \in S, Distinct(q), ~InQueue(q, s)
  PROVE  /\ Append(q, s) \in Seq(S) /\ Distinct(Append(q, s))
         /\ \A t : InQueue(Append(q, s), t) <=> t = s \/ InQueue(q, t)
         /\ q # <<>> => Head(Append(q, s)) = Head(q)
<1>1. /\ Append(q, s) \in Seq(S) /\ Len(q) \in Nat
      /\ DOMAIN q = 1..Len(q) /\ DOMAIN Append(q, s) = 1..(Len(q) + 1)
      /\ \A i \in 1..Len(q) : Append(q, s)[i] = q[i]
      /\ Append(q, s)[Len(q) + 1] = s
  BY AppendProperties, LenProperties
<1>2. Distinct(Append(q, s))
  BY <1>1, SMT DEF Distinct, InQueue
<1>3. ASSUME NEW t PROVE InQueue(Append(q, s), t) <=> t = s \/ InQueue(q, t)
  BY <1>1, SMT DEF InQueue
<1>4. q # <<>> => Head(Append(q, s)) = Head(q)
  BY <1>1, SMT
<1> QED
  BY <1>1, <1>2, <1>3, <1>4

LEMMA QueuedNotEmpty ==
  ASSUME NEW q, NEW s, InQueue(q, s)
  PROVE  q # <<>>
  BY EmptySeq, SMT DEF InQueue

LEMMA HeadIsQueued ==
  ASSUME NEW S, NEW q \in Seq(S), NEW s, InQueue(q, s)
  PROVE  Head(q) \in S /\ InQueue(q, Head(q))
<1>1. /\ Len(q) \in Nat /\ Len(q) >= 1 /\ DOMAIN q = 1..Len(q)
      /\ Head(q) = q[1] /\ Head(q) \in S
  BY QueuedNotEmpty, HeadTailProperties, LenProperties, EmptySeq, SMT
<1> QED
  BY <1>1, SMT DEF InQueue

LEMMA TailDequeues ==
  ASSUME NEW S, NEW q \in Seq(S), q # <<>>, Distinct(q)
  PROVE  /\ Tail(q) \in Seq(S) /\ Distinct(Tail(q))
         /\ \A t : InQueue(Tail(q), t) <=> t # Head(q) /\ InQueue(q, t)
<1>1. /\ Tail(q) \in Seq(S) /\ Len(q) \in Nat /\ Len(q) >= 1
      /\ DOMAIN q = 1..Len(q) /\ DOMAIN Tail(q) = 1..(Len(q) - 1)
      /\ \A i \in 1..(Len(q) - 1) : Tail(q)[i] = q[i + 1]
      /\ Head(q) = q[1]
  BY SMT, HeadTailProperties, LenProperties, EmptySeq
<1>2. Distinct(Tail(q))
  BY <1>1, SMT DEF Distinct
<1>3. ASSUME NEW t PROVE InQueue(Tail(q), t) <=> t # Head(q) /\ InQueue(q, t)
  <2>1. ASSUME NEW i \in 1..(Len(q) - 1), Tail(q)[i] = t
        PROVE  t # Head(q) /\ InQueue(q, t)
    BY <1>1, <2>1, SMT DEF InQueue, Distinct
  <2>2. ASSUME t # Head(q), NEW i \in 1..Len(q), q[i] = t
        PROVE  InQueue(Tail(q), t)
    <3>1. i - 1 \in 1..(Len(q) - 1) /\ Tail(q)[i - 1] = t
      BY <1>1, <2>2, SMT
    <3> QED
      BY <1>1, <3>1 DEF InQueue
  <2> QED
    BY <1>1, <2>1, <2>2 DEF InQueue
<1> QED
  BY <1>1, <1>2, <1>3

-----------------------------------------------------------------------------
(* Calls, replies and processes that stop.                                 *)

LEMMA CallTyped ==
  ASSUME NEW k \in Calls \cup {NoCall}
  PROVE  /\ k.kind = "append" => k.intent \in Intents
         /\ k.kind = "accept" => k.bytes \in Result \cup Malformed
  BY SMT DEF Calls, NoCall

LEMMA RepliesTyped ==
  /\ {NoReply, Refused, WriteFailed} \subseteq Replies
  /\ \A r \in Record : Snapshot(r) \in Replies
  /\ \A r, join : r.op.result \in Result /\ join \in BOOLEAN => Accepted(r, join) \in Replies
<1>1. ASSUME NEW r \in Record PROVE r.seq \in Nat
  BY SMT DEF Record, NoRecord
<1>2. {NoReply, Refused, WriteFailed} \subseteq Replies
  BY SMT DEF Replies, NoReply, Refused, WriteFailed
<1>3. ASSUME NEW r \in Record PROVE Snapshot(r) \in Replies
  BY <1>1, SMT DEF Replies, Snapshot
<1>4. ASSUME NEW r, NEW join \in BOOLEAN, r.op.result \in Result
      PROVE  Accepted(r, join) \in Replies
  BY <1>4, Zenon DEF Replies, Accepted
<1> QED
  BY <1>2, <1>3, <1>4

LEMMA ReplyParts ==
  /\ NoReply.kind = "none" /\ Refused.kind = "refused" /\ WriteFailed.kind = "write_failed"
  /\ \A r : Snapshot(r).kind = "snapshot" /\ Snapshot(r).seq = r.seq
  /\ \A r, join : /\ Accepted(r, join).kind = "accepted" /\ Accepted(r, join).joined = join
                   /\ Accepted(r, join).bytes = r.op.result
  BY SMT DEF NoReply, Refused, WriteFailed, Snapshot, Accepted

LEMMA ReplyTyped ==
  ASSUME NEW r \in Replies
  PROVE  /\ r.kind = "snapshot" => r.seq \in Nat
         /\ r.kind = "accepted" => r.bytes \in Result
  BY SMT DEF Replies

LEMMA BodyReplyTyped ==
  ASSUME NEW b \in Result \cup {None}, NEW o \in Result
  PROVE  [kind |-> "body", bytes |-> b, of |-> o] \in Replies
  BY Zenon DEF Replies

\* What the death of a process does to a call: it is gone, or untouched.
LEMMA StoppedCall ==
  ASSUME StoreTypeOK, NEW dead, Stopped(dead), NEW c \in Caller
  PROVE  /\ c[1] \in dead =>
              /\ pc'[c] = "idle" /\ call'[c] = NoCall /\ reply'[c] = NoReply
              /\ view'[c] = NoRecord /\ tail'[c[1]] = <<>> /\ holder' # c
         /\ c[1] \notin dead =>
              /\ pc'[c] = pc[c] /\ call'[c] = call[c] /\ reply'[c] = reply[c]
              /\ view'[c] = view[c] /\ tail'[c[1]] = tail[c[1]]
              /\ holder' = c <=> holder = c
<1>1. c[1] \in Process /\ c # None
  BY CallerParts, NoneIsNoCaller DEF Caller
<1>2. holder \in Caller \cup {None}
  BY DEF StoreTypeOK
<1> QED
  BY <1>1, <1>2 DEF Stopped

LEMMA StoppedTyped ==
  ASSUME StoreTypeOK, NEW dead, Stopped(dead)
  PROVE  /\ pc' \in [Caller -> {"idle", "queued", "loading", "writing_body", "syncing_body",
                         "writing", "syncing", "unlocking", "leaving", "fetching"}]
         /\ call' \in [Caller -> Calls \cup {NoCall}]
         /\ view' \in [Caller -> Record]
         /\ reply' \in [Caller -> Replies]
         /\ tail' \in [Process -> Seq(Slot)]
         /\ holder' \in Caller \cup {None}
  BY RepliesTyped, NoRecordTyped, CallerParts, EmptySeq DEF Stopped, StoreTypeOK

\* What a writer is about to put in place of the record.
LEMMA WrittenGrows ==
  ASSUME StoreIInv, NEW c \in Caller, pc[c] = "writing"
  PROVE  /\ view[c] \in Record /\ Exists(view[c]) /\ view[c].seq > record.seq
         /\ HasResult(record) => HasResult(view[c]) /\ view[c].op.result = record.op.result
         /\ call[c].kind \in {"append", "accept"}
         /\ call[c].kind = "append" => (HasResult(view[c]) => HasResult(record))
         /\ call[c].kind = "accept" =>
              /\ ~HasResult(record) /\ HasResult(view[c])
              /\ view[c].op.result = body /\ syncedBody = body
<1>1. WriterPrepared /\ record \in Record /\ call[c] \in Calls \cup {NoCall}
  BY DEF StoreIInv, StoreTypeOK
<1>2. CASE call[c].kind = "append"
  <2>1. Legal(record, call[c].intent) /\ view[c] = Appended(record, call[c].intent)
    BY <1>1, <1>2 DEF WriterPrepared
  <2>2. call[c].intent \in Intents
    BY <1>1, <1>2, CallTyped
  <2> QED
    BY <1>1, <1>2, <2>1, <2>2, AppendedTyped
<1>3. CASE call[c].kind = "accept"
  <2>1. /\ Exists(record) /\ CanAcceptResult(record.op) /\ call[c].bytes \in Result
        /\ view[c] = WithResult(record, call[c].bytes)
        /\ body = call[c].bytes /\ syncedBody = body
    BY <1>1, <1>3 DEF WriterPrepared
  <2>2. ~HasResult(record)
    BY <2>1 DEF CanAcceptResult, HasResult
  <2> QED
    BY <1>1, <1>3, <2>1, <2>2, WithResultTyped
<1> QED
  BY <1>1, <1>2, <1>3 DEF WriterPrepared

LEMMA StoppedQueues ==
  ASSUME StoreTypeOK, QueueOrder, NEW dead, Stopped(dead)
  PROVE  QueueOrder'
<1>1. ~\E s : InQueue(<<>>, s)
  BY QueuedNotEmpty
<1>2. Distinct(<<>>)
  BY EmptySeq, SMT DEF Distinct
<1>3. ASSUME NEW p \in Process PROVE Distinct(tail'[p])
  BY <1>2 DEF Stopped, QueueOrder
<1>4. ASSUME NEW c \in Caller
      PROVE  /\ pc'[c] \notin {"idle", "fetching"} <=> InQueue(tail'[c[1]], c[2])
             /\ pc'[c] \notin {"idle", "fetching", "queued"} => Head(tail'[c[1]]) = c[2]
  <2>1. CASE c[1] \in dead
    BY <1>1, <2>1, StoppedCall
  <2>2. CASE c[1] \notin dead
    BY <2>2, StoppedCall DEF QueueOrder
  <2> QED
    BY <2>1, <2>2
<1> QED
  BY <1>3, <1>4 DEF QueueOrder

LEMMA StoreNextTyped ==
  ASSUME StoreIInv, [Next]_vars
  PROVE  StoreTypeOK'
<1> USE DEF StoreIInv, Goto, Answer, Fault, files, control, mishaps, StoreTypeOK
<1>1. ASSUME NEW c \in Caller, Invoke(c) PROVE StoreTypeOK'
  <2>1. c[1] \in Process /\ Append(tail[c[1]], c[2]) \in Seq(Slot)
    BY CallerParts, AppendProperties
  <2>2. PICK k \in Calls : call' = [call EXCEPT ![c] = k]
    BY <1>1 DEF Invoke
  <2> QED
    BY <1>1, <2>1, <2>2, RepliesTyped, NoRecordTyped DEF Invoke
<1>2. ASSUME NEW c \in Caller, Step(c) PROVE StoreTypeOK'
  <2>1. CASE Lock(c)
    BY <2>1 DEF Lock
  <2>2. CASE LoadToAppend(c)
    <3>1. CASE Legal(record, call[c].intent)
      <4>1. Appended(record, call[c].intent) \in Record
        BY <2>2, <3>1, CallTyped, AppendedTyped DEF LoadToAppend
      <4> QED
        BY <2>2, <3>1, <4>1 DEF LoadToAppend, Decided
    <3>2. CASE ~Legal(record, call[c].intent)
      BY <2>2, <3>2, RepliesTyped DEF LoadToAppend, Decided
    <3> QED
      BY <3>1, <3>2
  <2>3. CASE JoinAcceptance(c)
    <3>1. record.op.result \in Result
      BY <2>3, CallTyped, RecordTyped, MalformedIsNoResult DEF JoinAcceptance
    <3>2. Accepted(record, TRUE) \in Replies
      BY <3>1, RepliesTyped
    <3> QED
      BY <2>3, <3>2 DEF JoinAcceptance, Decided
  <2>4. CASE LoadToAccept(c)
    <3>1. CASE /\ Exists(record)
             /\ CanAcceptResult(record.op)
             /\ call[c].bytes \notin Malformed
      <4>1. WithResult(record, call[c].bytes) \in Record
        BY <2>4, <3>1, CallTyped, WithResultTyped DEF LoadToAccept
      <4> QED
        BY <2>4, <3>1, <4>1 DEF LoadToAccept, Decided
    <3>2. Refused \in Replies
      BY RepliesTyped
    <3> QED
      BY <2>4, <3>1, <3>2 DEF LoadToAccept, Decided
  <2>5. CASE LoadToFetch(c)
    <3>1. record \in Record /\ Snapshot(record) \in Replies /\ Refused \in Replies
      BY RepliesTyped
    <3>2. CASE Exists(record)
      <4>1. /\ pc' = [pc EXCEPT ![c] = "unlocking"] /\ view' = [view EXCEPT ![c] = record]
            /\ reply' = [reply EXCEPT ![c] = Snapshot(record)]
            /\ UNCHANGED <<call, control, files, acked, mishaps>>
        BY <2>5, <3>2, Zenon DEF LoadToFetch, Decided
      <4> QED
        BY <3>1, <4>1
    <3>3. CASE ~Exists(record)
      BY <2>5, <3>1, <3>3 DEF LoadToFetch, Decided
    <3> QED
      BY <3>2, <3>3
  <2>6. CASE WriteBody(c)
    BY <2>6 DEF WriteBody, WriterPrepared
  <2>7. CASE SyncBody(c)
    BY <2>7 DEF SyncBody
  <2>8. CASE WriteRecord(c)
    BY <2>8 DEF WriteRecord
  <2>9. CASE SyncRecord(c)
    <3>1. view[c] \in Record /\ call[c].kind = "accept" => view[c].op.result \in Result
      BY <2>9, RecordTyped DEF SyncRecord, WriterPublished
    <3>2. PICK r \in Replies : reply' = [reply EXCEPT ![c] = r]
      <4>1. CASE call[c].kind = "accept"
        <5>1. reply' = [reply EXCEPT ![c] = Accepted(view[c], FALSE)]
          BY <2>9, <4>1, Zenon DEF SyncRecord, Decided, Answer
        <5> QED
          BY <3>1, <4>1, <5>1, RepliesTyped
      <4>2. CASE call[c].kind # "accept"
        <5>1. reply' = [reply EXCEPT ![c] = Snapshot(view[c])]
          BY <2>9, <4>2, Zenon DEF SyncRecord, Decided, Answer
        <5> QED
          BY <3>1, <5>1, RepliesTyped
      <4> QED
        BY <4>1, <4>2
    <3>3. /\ pc' = [pc EXCEPT ![c] = "unlocking"] /\ syncedBody' = body /\ syncedRecord' = record
          /\ UNCHANGED <<call, view, control, record, body, acked, mishaps>>
      BY <2>9, Zenon DEF SyncRecord, Decided, Goto
    <3> QED
      BY <3>2, <3>3
  <2>10. CASE Unlock(c)
    BY <2>10 DEF Unlock
  <2>11. CASE Leave(c)
    <3>1. Tail(tail[c[1]]) \in Seq(Slot)
      BY <2>11, CallerParts, QueuedNotEmpty, HeadTailProperties DEF Leave, QueueOrder
    <3>2. acked' \in [seq : Nat, result : Result \cup {None}, joined : Result \cup {None}]
      <4>1. reply[c] \in Replies
        OBVIOUS
      <4>2. CASE reply[c].kind = "snapshot" /\ call[c].kind = "append"
        <5>1. acked' = [acked EXCEPT !.seq = IF reply[c].seq > acked.seq THEN reply[c].seq ELSE acked.seq]
          BY <2>11, <4>2 DEF Leave, Tell
        <5>2. acked.seq \in Nat /\ reply[c].seq \in Nat
          BY <4>1, <4>2, ReplyTyped
        <5>3. (IF reply[c].seq > acked.seq THEN reply[c].seq ELSE acked.seq) \in Nat
          BY <5>2
        <5> QED
          BY <5>1, <5>3
      <4>3. CASE reply[c].kind = "accepted" /\ ~reply[c].joined
        <5>1. acked' = [acked EXCEPT !.result = reply[c].bytes]
          BY <2>11, <4>3 DEF Leave, Tell
        <5> QED
          BY <4>1, <4>3, <5>1, ReplyTyped
      <4>4. CASE reply[c].kind = "accepted" /\ reply[c].joined
        <5>1. acked' = [acked EXCEPT !.joined = reply[c].bytes]
          BY <2>11, <4>4, Zenon DEF Leave, Tell
        <5> QED
          BY <4>1, <4>4, <5>1, ReplyTyped
      <4>5. CASE /\ ~(reply[c].kind = "snapshot" /\ call[c].kind = "append")
                  /\ reply[c].kind # "accepted"
        BY <2>11, <4>5 DEF Leave, Tell
      <4> QED
        BY <4>2, <4>3, <4>4, <4>5
    <3> QED
      BY <2>11, <3>1, <3>2, CallerParts DEF Leave
  <2>12. CASE ReadResultBody(c)
    <3>1. view[c].op.result \in Result
      BY <2>12, RecordTyped DEF ReadResultBody, FetchedStays, HasResult
    <3> QED
      BY <2>12, <3>1, BodyReplyTyped DEF ReadResultBody
  <2> QED
    BY <1>2, <2>1, <2>2, <2>3, <2>4, <2>5, <2>6, <2>7, <2>8, <2>9, <2>10, <2>11, <2>12 DEF Step
<1>3. ASSUME NEW c \in Caller, StepFails(c) PROVE StoreTypeOK'
  <2>1. CASE LockFails(c)
    BY <2>1, RepliesTyped DEF LockFails
  <2>2. CASE LoadFails(c)
    BY <2>2, RepliesTyped DEF LoadFails, Decided
  <2>3. CASE WriteFails(c)
    BY <2>3, RepliesTyped DEF WriteFails, Decided
  <2>4. CASE ReadResultBodyFails(c)
    BY <2>4, RepliesTyped DEF ReadResultBodyFails
  <2> QED
    BY <1>3, <2>1, <2>2, <2>3, <2>4 DEF StepFails
<1>4. ASSUME NEW p \in Process, Crash(p) PROVE StoreTypeOK'
  <2>1. /\ Stopped({p}) /\ UNCHANGED <<files, acked, calls, faults, powerLosses>>
        /\ crashes' = crashes + 1
    BY <1>4 DEF Crash
  <2>2. {calls', faults', crashes', powerLosses'} \subseteq Nat
    BY <2>1
  <2> QED
    BY <2>1, <2>2, StoppedTyped
<1>5. CASE PowerLoss
  <2>1. /\ Stopped(Process) /\ UNCHANGED acked
        /\ {record', syncedRecord'} \subseteq {record, syncedRecord}
        /\ {body', syncedBody'} \subseteq {body, syncedBody}
    BY <1>5 DEF PowerLoss
  <2>2. {calls', faults', crashes', powerLosses'} \subseteq Nat
    BY <1>5 DEF PowerLoss
  <2> QED
    BY <2>1, <2>2, StoppedTyped
<1>6. CASE UNCHANGED vars
  BY <1>6 DEF vars
<1> QED
  BY <1>1, <1>2, <1>3, <1>4, <1>5, <1>6 DEF Next

LEMMA LockHeldKept ==
  ASSUME StoreIInv, [Next]_vars
  PROVE  LockHeld'
<1> USE DEF StoreIInv, Goto, Answer, Fault, files, control, mishaps, StoreTypeOK, LockHeld, Inside
<1>1. ASSUME NEW c \in Caller, Invoke(c) PROVE LockHeld'
  BY <1>1 DEF Invoke
<1>2. ASSUME NEW c \in Caller, Step(c) PROVE LockHeld'
  <2>1. CASE Lock(c)
    BY <2>1, NoneIsNoCaller DEF Lock, Caller
  <2>2. CASE LoadToAppend(c)
    BY <2>2 DEF LoadToAppend, Decided
  <2>3. CASE JoinAcceptance(c)
    BY <2>3 DEF JoinAcceptance, Decided
  <2>4. CASE LoadToAccept(c)
    BY <2>4 DEF LoadToAccept, Decided
  <2>5. CASE LoadToFetch(c)
    BY <2>5 DEF LoadToFetch, Decided
  <2>6. CASE WriteBody(c)
    BY <2>6 DEF WriteBody
  <2>7. CASE SyncBody(c)
    BY <2>7 DEF SyncBody
  <2>8. CASE WriteRecord(c)
    BY <2>8 DEF WriteRecord
  <2>9. CASE SyncRecord(c)
    BY <2>9 DEF SyncRecord, Decided
  <2>10. CASE Unlock(c)
    BY <2>10, NoneIsNoCaller DEF Unlock, Caller
  <2>11. CASE Leave(c)
    BY <2>11 DEF Leave
  <2>12. CASE ReadResultBody(c)
    BY <2>12 DEF ReadResultBody
  <2> QED
    BY <1>2, <2>1, <2>2, <2>3, <2>4, <2>5, <2>6, <2>7, <2>8, <2>9, <2>10, <2>11, <2>12 DEF Step
<1>3. ASSUME NEW c \in Caller, StepFails(c) PROVE LockHeld'
  <2>1. CASE LockFails(c)
    BY <2>1 DEF LockFails
  <2>2. CASE LoadFails(c)
    BY <2>2 DEF LoadFails, Decided
  <2>3. CASE WriteFails(c)
    BY <2>3 DEF WriteFails, Decided
  <2>4. CASE ReadResultBodyFails(c)
    BY <2>4 DEF ReadResultBodyFails
  <2> QED
    BY <1>3, <2>1, <2>2, <2>3, <2>4 DEF StepFails
<1>4. ASSUME NEW p \in Process, Crash(p) PROVE LockHeld'
  <2>1. Stopped({p}) /\ UNCHANGED <<files, acked>>
    BY <1>4 DEF Crash
  <2> QED
    BY <2>1, StoppedCall DEF LockHeld, Inside
<1>5. CASE PowerLoss
  <2>1. Stopped(Process)
    BY <1>5 DEF PowerLoss
  <2>2. \A c \in Caller : pc'[c] = "idle" /\ call'[c] = NoCall /\ reply'[c] = NoReply /\ holder' # c
    BY <2>1, StoppedCall, CallerParts
  <2> QED
    BY <2>2 DEF LockHeld, Inside
<1>6. CASE UNCHANGED vars
  BY <1>6 DEF vars
<1> QED
  BY <1>1, <1>2, <1>3, <1>4, <1>5, <1>6 DEF Next

LEMMA WriterPreparedKept ==
  ASSUME StoreIInv, [Next]_vars
  PROVE  WriterPrepared'
<1> USE DEF StoreIInv, Goto, Answer, Fault, files, control, mishaps, StoreTypeOK, LockHeld, Inside, WriterPrepared
<1>1. ASSUME NEW c \in Caller, Invoke(c) PROVE WriterPrepared'
  BY <1>1 DEF Invoke
<1>2. ASSUME NEW c \in Caller, Step(c) PROVE WriterPrepared'
  <2>1. CASE Lock(c)
    BY <2>1 DEF Lock
  <2>2. CASE LoadToAppend(c)
    BY <2>2 DEF LoadToAppend, Decided
  <2>3. CASE JoinAcceptance(c)
    BY <2>3 DEF JoinAcceptance, Decided
  <2>4. CASE LoadToAccept(c)
    BY <2>4, CallTyped DEF LoadToAccept, Decided
  <2>5. CASE LoadToFetch(c)
    BY <2>5 DEF LoadToFetch, Decided
  <2>6. CASE WriteBody(c)
    BY <2>6 DEF WriteBody
  <2>7. CASE SyncBody(c)
    BY <2>7 DEF SyncBody
  <2>8. CASE WriteRecord(c)
    BY <2>8 DEF WriteRecord
  <2>9. CASE SyncRecord(c)
    BY <2>9 DEF SyncRecord, Decided
  <2>10. CASE Unlock(c)
    BY <2>10 DEF Unlock
  <2>11. CASE Leave(c)
    BY <2>11 DEF Leave
  <2>12. CASE ReadResultBody(c)
    BY <2>12 DEF ReadResultBody
  <2> QED
    BY <1>2, <2>1, <2>2, <2>3, <2>4, <2>5, <2>6, <2>7, <2>8, <2>9, <2>10, <2>11, <2>12 DEF Step
<1>3. ASSUME NEW c \in Caller, StepFails(c) PROVE WriterPrepared'
  <2>1. CASE LockFails(c)
    BY <2>1 DEF LockFails
  <2>2. CASE LoadFails(c)
    BY <2>2 DEF LoadFails, Decided
  <2>3. CASE WriteFails(c)
    BY <2>3 DEF WriteFails, Decided
  <2>4. CASE ReadResultBodyFails(c)
    BY <2>4 DEF ReadResultBodyFails
  <2> QED
    BY <1>3, <2>1, <2>2, <2>3, <2>4 DEF StepFails
<1>4. ASSUME NEW p \in Process, Crash(p) PROVE WriterPrepared'
  <2>1. Stopped({p}) /\ UNCHANGED <<files, acked>>
    BY <1>4 DEF Crash
  <2> QED
    BY <2>1, StoppedCall DEF WriterPrepared
<1>5. CASE PowerLoss
  <2>1. Stopped(Process)
    BY <1>5 DEF PowerLoss
  <2>2. \A c \in Caller : pc'[c] = "idle" /\ call'[c] = NoCall /\ reply'[c] = NoReply /\ holder' # c
    BY <2>1, StoppedCall, CallerParts
  <2> QED
    BY <2>2 DEF WriterPrepared
<1>6. CASE UNCHANGED vars
  BY <1>6 DEF vars
<1> QED
  BY <1>1, <1>2, <1>3, <1>4, <1>5, <1>6 DEF Next

LEMMA WriterPublishedKept ==
  ASSUME StoreIInv, [Next]_vars
  PROVE  WriterPublished'
<1> USE DEF StoreIInv, Goto, Answer, Fault, files, control, mishaps, StoreTypeOK, LockHeld, Inside, WriterPublished
<1>1. ASSUME NEW c \in Caller, Invoke(c) PROVE WriterPublished'
  BY <1>1 DEF Invoke
<1>2. ASSUME NEW c \in Caller, Step(c) PROVE WriterPublished'
  <2>1. CASE Lock(c)
    BY <2>1 DEF Lock
  <2>2. CASE LoadToAppend(c)
    BY <2>2 DEF LoadToAppend, Decided
  <2>3. CASE JoinAcceptance(c)
    BY <2>3 DEF JoinAcceptance, Decided
  <2>4. CASE LoadToAccept(c)
    BY <2>4 DEF LoadToAccept, Decided
  <2>5. CASE LoadToFetch(c)
    BY <2>5 DEF LoadToFetch, Decided
  <2>6. CASE WriteBody(c)
    BY <2>6 DEF WriteBody
  <2>7. CASE SyncBody(c)
    BY <2>7 DEF SyncBody
  <2>8. CASE WriteRecord(c)
    <3>1. holder = c
      BY <2>8 DEF WriteRecord
    <3>2. \A d \in Caller : d # c => ~Inside(d)'
      BY <2>8, <3>1 DEF WriteRecord
    <3>3. /\ call[c].kind \in {"append", "accept"} /\ Exists(view[c])
          /\ call[c].kind = "accept" => view[c].op.result # None
      BY <2>8, WrittenGrows DEF WriteRecord, HasResult
    <3> QED
      BY <2>8, <3>2, <3>3 DEF WriteRecord
  <2>9. CASE SyncRecord(c)
    BY <2>9 DEF SyncRecord, Decided
  <2>10. CASE Unlock(c)
    BY <2>10 DEF Unlock
  <2>11. CASE Leave(c)
    BY <2>11 DEF Leave
  <2>12. CASE ReadResultBody(c)
    BY <2>12 DEF ReadResultBody
  <2> QED
    BY <1>2, <2>1, <2>2, <2>3, <2>4, <2>5, <2>6, <2>7, <2>8, <2>9, <2>10, <2>11, <2>12 DEF Step
<1>3. ASSUME NEW c \in Caller, StepFails(c) PROVE WriterPublished'
  <2>1. CASE LockFails(c)
    BY <2>1 DEF LockFails
  <2>2. CASE LoadFails(c)
    BY <2>2 DEF LoadFails, Decided
  <2>3. CASE WriteFails(c)
    BY <2>3 DEF WriteFails, Decided
  <2>4. CASE ReadResultBodyFails(c)
    BY <2>4 DEF ReadResultBodyFails
  <2> QED
    BY <1>3, <2>1, <2>2, <2>3, <2>4 DEF StepFails
<1>4. ASSUME NEW p \in Process, Crash(p) PROVE WriterPublished'
  <2>1. Stopped({p}) /\ UNCHANGED <<files, acked>>
    BY <1>4 DEF Crash
  <2> QED
    BY <2>1, StoppedCall DEF WriterPublished
<1>5. CASE PowerLoss
  <2>1. Stopped(Process)
    BY <1>5 DEF PowerLoss
  <2>2. \A c \in Caller : pc'[c] = "idle" /\ call'[c] = NoCall /\ reply'[c] = NoReply /\ holder' # c
    BY <2>1, StoppedCall, CallerParts
  <2> QED
    BY <2>2 DEF WriterPublished
<1>6. CASE UNCHANGED vars
  BY <1>6 DEF vars
<1> QED
  BY <1>1, <1>2, <1>3, <1>4, <1>5, <1>6 DEF Next

LEMMA BodyKeptKept ==
  ASSUME StoreIInv, [Next]_vars
  PROVE  BodyKept'
<1> USE DEF StoreIInv, Goto, Answer, Fault, files, control, mishaps, StoreTypeOK
<1>1. ASSUME NEW c \in Caller, Invoke(c) PROVE BodyKept'
  BY <1>1 DEF Invoke, BodyKept, HasResult
<1>2. ASSUME NEW c \in Caller, Step(c) PROVE BodyKept'
  <2>1. CASE Lock(c)
    BY <2>1 DEF Lock, BodyKept, HasResult
  <2>2. CASE LoadToAppend(c)
    BY <2>2 DEF LoadToAppend, Decided, BodyKept, HasResult
  <2>3. CASE JoinAcceptance(c)
    BY <2>3 DEF JoinAcceptance, Decided, BodyKept, HasResult
  <2>4. CASE LoadToAccept(c)
    BY <2>4 DEF LoadToAccept, Decided, BodyKept, HasResult
  <2>5. CASE LoadToFetch(c)
    BY <2>5 DEF LoadToFetch, Decided, BodyKept, HasResult
  <2>6. CASE WriteBody(c)
    BY <2>6 DEF WriteBody, WriterPrepared, CanAcceptResult, HasResult, BodyKept
  <2>7. CASE SyncBody(c)
    BY <2>7 DEF SyncBody, BodyKept, HasResult
  <2>8. CASE WriteRecord(c)
    <3>1. pc[c] = "writing" /\ record' = view[c] /\ UNCHANGED <<body, syncedBody>>
      BY <2>8 DEF WriteRecord
    <3>2. HasResult(view[c]) => body = view[c].op.result /\ syncedBody = view[c].op.result
      BY <3>1, WrittenGrows DEF BodyKept
    <3> QED
      BY <3>1, <3>2 DEF BodyKept, HasResult
  <2>9. CASE SyncRecord(c)
    BY <2>9 DEF SyncRecord, Decided, BodyKept, HasResult
  <2>10. CASE Unlock(c)
    BY <2>10 DEF Unlock, BodyKept, HasResult
  <2>11. CASE Leave(c)
    BY <2>11 DEF Leave, BodyKept, HasResult
  <2>12. CASE ReadResultBody(c)
    BY <2>12 DEF ReadResultBody, BodyKept, HasResult
  <2> QED
    BY <1>2, <2>1, <2>2, <2>3, <2>4, <2>5, <2>6, <2>7, <2>8, <2>9, <2>10, <2>11, <2>12 DEF Step
<1>3. ASSUME NEW c \in Caller, StepFails(c) PROVE BodyKept'
  <2>1. CASE LockFails(c)
    BY <2>1 DEF LockFails, BodyKept, HasResult
  <2>2. CASE LoadFails(c)
    BY <2>2 DEF LoadFails, Decided, BodyKept, HasResult
  <2>3. CASE WriteFails(c)
    BY <2>3 DEF WriteFails, Decided, BodyKept, HasResult
  <2>4. CASE ReadResultBodyFails(c)
    BY <2>4 DEF ReadResultBodyFails, BodyKept, HasResult
  <2> QED
    BY <1>3, <2>1, <2>2, <2>3, <2>4 DEF StepFails
<1>4. ASSUME NEW p \in Process, Crash(p) PROVE BodyKept'
  BY <1>4 DEF Crash, Stopped, BodyKept, HasResult
<1>5. CASE PowerLoss
  <2>1. /\ record' \in {record, syncedRecord} /\ syncedRecord' = record'
        /\ body' \in {body, syncedBody} /\ syncedBody' = body'
    BY <1>5 DEF PowerLoss
  <2> QED
    BY <2>1 DEF BodyKept, SyncedBefore, HasResult
<1>6. CASE UNCHANGED vars
  BY <1>6 DEF vars, BodyKept, HasResult
<1> QED
  BY <1>1, <1>2, <1>3, <1>4, <1>5, <1>6 DEF Next

LEMMA SyncedBeforeKept ==
  ASSUME StoreIInv, [Next]_vars
  PROVE  SyncedBefore'
<1> USE DEF StoreIInv, Goto, Answer, Fault, files, control, mishaps, StoreTypeOK
<1>1. ASSUME NEW c \in Caller, Invoke(c) PROVE SyncedBefore'
  BY <1>1 DEF Invoke, SyncedBefore, HasResult
<1>2. ASSUME NEW c \in Caller, Step(c) PROVE SyncedBefore'
  <2>1. CASE Lock(c)
    BY <2>1 DEF Lock, SyncedBefore, HasResult
  <2>2. CASE LoadToAppend(c)
    BY <2>2 DEF LoadToAppend, Decided, SyncedBefore, HasResult
  <2>3. CASE JoinAcceptance(c)
    BY <2>3 DEF JoinAcceptance, Decided, SyncedBefore, HasResult
  <2>4. CASE LoadToAccept(c)
    BY <2>4 DEF LoadToAccept, Decided, SyncedBefore, HasResult
  <2>5. CASE LoadToFetch(c)
    BY <2>5 DEF LoadToFetch, Decided, SyncedBefore, HasResult
  <2>6. CASE WriteBody(c)
    BY <2>6 DEF WriteBody, SyncedBefore, HasResult
  <2>7. CASE SyncBody(c)
    BY <2>7, SeqTyped DEF SyncBody, SyncedBefore, HasResult
  <2>8. CASE WriteRecord(c)
    <3>1. view[c].seq \in Nat /\ record.seq \in Nat /\ syncedRecord.seq \in Nat
      BY SeqTyped
    <3> QED
      BY <2>8, <3>1, WrittenGrows DEF WriteRecord, SyncedBefore
  <2>9. CASE SyncRecord(c)
    BY <2>9, SeqTyped DEF SyncRecord, Decided, SyncedBefore, HasResult
  <2>10. CASE Unlock(c)
    BY <2>10 DEF Unlock, SyncedBefore, HasResult
  <2>11. CASE Leave(c)
    BY <2>11 DEF Leave, SyncedBefore, HasResult
  <2>12. CASE ReadResultBody(c)
    BY <2>12 DEF ReadResultBody, SyncedBefore, HasResult
  <2> QED
    BY <1>2, <2>1, <2>2, <2>3, <2>4, <2>5, <2>6, <2>7, <2>8, <2>9, <2>10, <2>11, <2>12 DEF Step
<1>3. ASSUME NEW c \in Caller, StepFails(c) PROVE SyncedBefore'
  <2>1. CASE LockFails(c)
    BY <2>1 DEF LockFails, SyncedBefore, HasResult
  <2>2. CASE LoadFails(c)
    BY <2>2 DEF LoadFails, Decided, SyncedBefore, HasResult
  <2>3. CASE WriteFails(c)
    BY <2>3 DEF WriteFails, Decided, SyncedBefore, HasResult
  <2>4. CASE ReadResultBodyFails(c)
    BY <2>4 DEF ReadResultBodyFails, SyncedBefore, HasResult
  <2> QED
    BY <1>3, <2>1, <2>2, <2>3, <2>4 DEF StepFails
<1>4. ASSUME NEW p \in Process, Crash(p) PROVE SyncedBefore'
  BY <1>4 DEF Crash, Stopped, SyncedBefore, HasResult
<1>5. CASE PowerLoss
  <2>1. /\ record' \in {record, syncedRecord} /\ syncedRecord' = record'
        /\ body' \in {body, syncedBody} /\ syncedBody' = body'
    BY <1>5 DEF PowerLoss
  <2> QED
    BY <2>1, SeqTyped DEF SyncedBefore, HasResult
<1>6. CASE UNCHANGED vars
  BY <1>6 DEF vars, SyncedBefore, HasResult
<1> QED
  BY <1>1, <1>2, <1>3, <1>4, <1>5, <1>6 DEF Next

LEMMA RepliesSyncedKept ==
  ASSUME StoreIInv, [Next]_vars
  PROVE  RepliesSynced'
<1> USE DEF StoreIInv, Goto, Answer, Fault, files, control, mishaps, StoreTypeOK
<1>1. ASSUME NEW c \in Caller, Invoke(c) PROVE RepliesSynced'
  BY <1>1 DEF Invoke, RepliesSynced
<1>2. ASSUME NEW c \in Caller, Step(c) PROVE RepliesSynced'
  <2>1. CASE Lock(c)
    BY <2>1 DEF Lock, RepliesSynced
  <2>2. CASE LoadToAppend(c)
    BY <2>2, ReplyParts DEF LoadToAppend, Decided, RepliesSynced
  <2>3. CASE JoinAcceptance(c)
    <3>1. reply' = [reply EXCEPT ![c] = Accepted(record, TRUE)]
      BY <2>3 DEF JoinAcceptance, Decided
    <3>2. reply'[c].kind = "accepted" /\ reply'[c].joined
      BY <3>1, Zenon DEF Accepted
    <3> QED
      BY <2>3, <3>1, <3>2 DEF JoinAcceptance, Decided, RepliesSynced
  <2>4. CASE LoadToAccept(c)
    BY <2>4, ReplyParts DEF LoadToAccept, Decided, RepliesSynced
  <2>5. CASE LoadToFetch(c)
    BY <2>5, ReplyParts DEF LoadToFetch, Decided, RepliesSynced
  <2>6. CASE WriteBody(c)
    BY <2>6 DEF WriteBody, RepliesSynced
  <2>7. CASE SyncBody(c)
    <3>1. \A d \in Caller : d # c /\ pc[d] \in {"unlocking", "leaving"} =>
            /\ reply[d].kind = "snapshot" /\ call[d].kind = "append" => reply[d].seq <= record.seq
            /\ reply[d].kind = "accepted" /\ ~reply[d].joined =>
                 HasResult(record) /\ record.op.result = reply[d].bytes
      <4>1. /\ record.seq \in Nat /\ syncedRecord.seq \in Nat
            /\ \A d \in Caller : reply[d].kind = "snapshot" => reply[d].seq \in Nat
        BY ReplyTyped, SeqTyped
      <4> QED
        BY <4>1, SMT DEF SyncedBefore, RepliesSynced
    <3> QED
      BY <2>7, <3>1 DEF SyncBody, RepliesSynced
  <2>8. CASE WriteRecord(c)
    BY <2>8 DEF WriteRecord, RepliesSynced
  <2>9. CASE SyncRecord(c)
    <3>1. \A d \in Caller : d # c /\ pc[d] \in {"unlocking", "leaving"} =>
            /\ reply[d].kind = "snapshot" /\ call[d].kind = "append" => reply[d].seq <= record.seq
            /\ reply[d].kind = "accepted" /\ ~reply[d].joined =>
                 HasResult(record) /\ record.op.result = reply[d].bytes
      <4>1. /\ record.seq \in Nat /\ syncedRecord.seq \in Nat
            /\ \A d \in Caller : reply[d].kind = "snapshot" => reply[d].seq \in Nat
        BY ReplyTyped, SeqTyped
      <4> QED
        BY <4>1, SMT DEF SyncedBefore, RepliesSynced
    <3>2. /\ view[c] = record /\ record.seq \in Nat
          /\ call[c].kind = "accept" => HasResult(record)
      BY <2>9, SeqTyped DEF SyncRecord, WriterPublished, HasResult
    <3>3. /\ syncedRecord' = record /\ UNCHANGED call
          /\ pc' = [pc EXCEPT ![c] = "unlocking"]
          /\ \A d \in Caller \ {c} : reply'[d] = reply[d]
          /\ reply'[c] = IF call[c].kind = "accept" THEN Accepted(record, FALSE) ELSE Snapshot(record)
      BY <2>9, <3>2 DEF SyncRecord, Decided
    <3>4. /\ reply'[c].kind = "snapshot" /\ call[c].kind = "append" => reply'[c].seq <= record.seq
          /\ reply'[c].kind = "accepted" => HasResult(record) /\ record.op.result = reply'[c].bytes
      <4>1. CASE call[c].kind = "accept"
        <5>1. reply'[c] = Accepted(record, FALSE)
          BY <3>3, <4>1
        <5>2. reply'[c].kind = "accepted" /\ reply'[c].bytes = record.op.result
          BY <5>1, SMT DEF Accepted
        <5> QED
          BY <3>2, <4>1, <5>2
      <4>2. CASE call[c].kind # "accept"
        BY <3>2, <3>3, <4>2, ReplyParts
      <4> QED
        BY <4>1, <4>2
    <3> QED
      BY <3>1, <3>3, <3>4 DEF RepliesSynced
  <2>10. CASE Unlock(c)
    BY <2>10 DEF Unlock, RepliesSynced
  <2>11. CASE Leave(c)
    BY <2>11 DEF Leave, RepliesSynced
  <2>12. CASE ReadResultBody(c)
    BY <2>12 DEF ReadResultBody, RepliesSynced
  <2> QED
    BY <1>2, <2>1, <2>2, <2>3, <2>4, <2>5, <2>6, <2>7, <2>8, <2>9, <2>10, <2>11, <2>12 DEF Step
<1>3. ASSUME NEW c \in Caller, StepFails(c) PROVE RepliesSynced'
  <2>1. CASE LockFails(c)
    BY <2>1, ReplyParts DEF LockFails, RepliesSynced
  <2>2. CASE LoadFails(c)
    BY <2>2, ReplyParts DEF LoadFails, Decided, RepliesSynced
  <2>3. CASE WriteFails(c)
    BY <2>3, ReplyParts DEF WriteFails, Decided, RepliesSynced
  <2>4. CASE ReadResultBodyFails(c)
    BY <2>4 DEF ReadResultBodyFails, RepliesSynced
  <2> QED
    BY <1>3, <2>1, <2>2, <2>3, <2>4 DEF StepFails
<1>4. ASSUME NEW p \in Process, Crash(p) PROVE RepliesSynced'
  <2>1. Stopped({p}) /\ UNCHANGED <<files, acked>>
    BY <1>4 DEF Crash
  <2> QED
    BY <2>1, StoppedCall DEF RepliesSynced
<1>5. CASE PowerLoss
  <2>1. Stopped(Process)
    BY <1>5 DEF PowerLoss
  <2>2. \A c \in Caller : pc'[c] = "idle" /\ call'[c] = NoCall /\ reply'[c] = NoReply /\ holder' # c
    BY <2>1, StoppedCall, CallerParts
  <2> QED
    BY <2>2 DEF RepliesSynced
<1>6. CASE UNCHANGED vars
  BY <1>6 DEF vars, RepliesSynced
<1> QED
  BY <1>1, <1>2, <1>3, <1>4, <1>5, <1>6 DEF Next

LEMMA FetchedStaysKept ==
  ASSUME StoreIInv, [Next]_vars
  PROVE  FetchedStays'
<1> USE DEF StoreIInv, Goto, Answer, Fault, files, control, mishaps, StoreTypeOK
<1>1. ASSUME NEW c \in Caller, Invoke(c) PROVE FetchedStays'
  BY <1>1 DEF Invoke, FetchedStays
<1>2. ASSUME NEW c \in Caller, Step(c) PROVE FetchedStays'
  <2>1. CASE Lock(c)
    BY <2>1 DEF Lock, FetchedStays
  <2>2. CASE LoadToAppend(c)
    BY <2>2 DEF LoadToAppend, Decided, FetchedStays
  <2>3. CASE JoinAcceptance(c)
    BY <2>3 DEF JoinAcceptance, Decided, FetchedStays
  <2>4. CASE LoadToAccept(c)
    BY <2>4 DEF LoadToAccept, Decided, FetchedStays
  <2>5. CASE LoadToFetch(c)
    <3>1. CASE Exists(record)
      BY <2>5, <3>1 DEF LoadToFetch, Decided, FetchedStays
    <3>2. CASE ~Exists(record)
      BY <2>5, <3>2, ReplyParts DEF LoadToFetch, Decided, FetchedStays
    <3> QED
      BY <3>1, <3>2
  <2>6. CASE WriteBody(c)
    BY <2>6 DEF WriteBody, FetchedStays
  <2>7. CASE SyncBody(c)
    BY <2>7 DEF SyncBody, FetchedStays
  <2>8. CASE WriteRecord(c)
    BY <2>8, WrittenGrows DEF WriteRecord, FetchedStays
  <2>9. CASE SyncRecord(c)
    BY <2>9 DEF SyncRecord, Decided, WriterPublished, FetchedStays
  <2>10. CASE Unlock(c)
    BY <2>10 DEF Unlock, FetchedStays
  <2>11. CASE Leave(c)
    BY <2>11 DEF Leave, BodyFollows, HasResult, FetchedStays
  <2>12. CASE ReadResultBody(c)
    BY <2>12 DEF ReadResultBody, FetchedStays
  <2> QED
    BY <1>2, <2>1, <2>2, <2>3, <2>4, <2>5, <2>6, <2>7, <2>8, <2>9, <2>10, <2>11, <2>12 DEF Step
<1>3. ASSUME NEW c \in Caller, StepFails(c) PROVE FetchedStays'
  <2>1. CASE LockFails(c)
    BY <2>1, ReplyParts DEF LockFails, FetchedStays
  <2>2. CASE LoadFails(c)
    BY <2>2, ReplyParts DEF LoadFails, Decided, FetchedStays
  <2>3. CASE WriteFails(c)
    BY <2>3, ReplyParts DEF WriteFails, Decided, FetchedStays
  <2>4. CASE ReadResultBodyFails(c)
    BY <2>4 DEF ReadResultBodyFails, FetchedStays
  <2> QED
    BY <1>3, <2>1, <2>2, <2>3, <2>4 DEF StepFails
<1>4. ASSUME NEW p \in Process, Crash(p) PROVE FetchedStays'
  <2>1. Stopped({p}) /\ UNCHANGED <<files, acked>>
    BY <1>4 DEF Crash
  <2> QED
    BY <2>1, StoppedCall DEF FetchedStays
<1>5. CASE PowerLoss
  <2>1. Stopped(Process)
    BY <1>5 DEF PowerLoss
  <2>2. \A c \in Caller : pc'[c] = "idle" /\ call'[c] = NoCall /\ reply'[c] = NoReply /\ holder' # c
    BY <2>1, StoppedCall, CallerParts
  <2> QED
    BY <2>2 DEF FetchedStays
<1>6. CASE UNCHANGED vars
  BY <1>6 DEF vars, FetchedStays
<1> QED
  BY <1>1, <1>2, <1>3, <1>4, <1>5, <1>6 DEF Next

LEMMA FetchedBodyKept ==
  ASSUME StoreIInv, [Next]_vars
  PROVE  FetchedBodyIsAccepted'
<1> USE DEF StoreIInv, Goto, Answer, Fault, files, control, mishaps, StoreTypeOK
<1>1. ASSUME NEW c \in Caller, Invoke(c) PROVE FetchedBodyIsAccepted'
  BY <1>1, ReplyParts DEF Invoke, FetchedBodyIsAccepted
<1>2. ASSUME NEW c \in Caller, Step(c) PROVE FetchedBodyIsAccepted'
  <2>1. CASE Lock(c)
    BY <2>1 DEF Lock, FetchedBodyIsAccepted
  <2>2. CASE LoadToAppend(c)
    BY <2>2, ReplyParts DEF LoadToAppend, Decided, FetchedBodyIsAccepted
  <2>3. CASE JoinAcceptance(c)
    BY <2>3, ReplyParts DEF JoinAcceptance, Decided, FetchedBodyIsAccepted
  <2>4. CASE LoadToAccept(c)
    BY <2>4, ReplyParts DEF LoadToAccept, Decided, FetchedBodyIsAccepted
  <2>5. CASE LoadToFetch(c)
    <3>1. reply' = [reply EXCEPT ![c] = IF Exists(record) THEN Snapshot(record) ELSE Refused]
      BY <2>5 DEF LoadToFetch, Decided
    <3> QED
      BY <3>1, ReplyParts DEF FetchedBodyIsAccepted
  <2>6. CASE WriteBody(c)
    BY <2>6 DEF WriteBody, FetchedBodyIsAccepted
  <2>7. CASE SyncBody(c)
    BY <2>7 DEF SyncBody, FetchedBodyIsAccepted
  <2>8. CASE WriteRecord(c)
    BY <2>8 DEF WriteRecord, FetchedBodyIsAccepted
  <2>9. CASE SyncRecord(c)
    BY <2>9, ReplyParts DEF SyncRecord, Decided, FetchedBodyIsAccepted
  <2>10. CASE Unlock(c)
    BY <2>10 DEF Unlock, FetchedBodyIsAccepted
  <2>11. CASE Leave(c)
    BY <2>11 DEF Leave, FetchedBodyIsAccepted
  <2>12. CASE ReadResultBody(c)
    <3>1. body = view[c].op.result
      BY <2>12 DEF ReadResultBody, FetchedStays, BodyKept
    <3> QED
      BY <2>12, <3>1 DEF ReadResultBody, FetchedBodyIsAccepted
  <2> QED
    BY <1>2, <2>1, <2>2, <2>3, <2>4, <2>5, <2>6, <2>7, <2>8, <2>9, <2>10, <2>11, <2>12 DEF Step
<1>3. ASSUME NEW c \in Caller, StepFails(c) PROVE FetchedBodyIsAccepted'
  <2>1. CASE LockFails(c)
    BY <2>1, ReplyParts DEF LockFails, FetchedBodyIsAccepted
  <2>2. CASE LoadFails(c)
    BY <2>2, ReplyParts DEF LoadFails, Decided, FetchedBodyIsAccepted
  <2>3. CASE WriteFails(c)
    BY <2>3, ReplyParts DEF WriteFails, Decided, FetchedBodyIsAccepted
  <2>4. CASE ReadResultBodyFails(c)
    BY <2>4, ReplyParts DEF ReadResultBodyFails, FetchedBodyIsAccepted
  <2> QED
    BY <1>3, <2>1, <2>2, <2>3, <2>4 DEF StepFails
<1>4. ASSUME NEW p \in Process, Crash(p) PROVE FetchedBodyIsAccepted'
  <2>1. Stopped({p}) /\ UNCHANGED <<files, acked>>
    BY <1>4 DEF Crash
  <2> QED
    BY <2>1, StoppedCall, ReplyParts DEF FetchedBodyIsAccepted
<1>5. CASE PowerLoss
  <2>1. Stopped(Process)
    BY <1>5 DEF PowerLoss
  <2>2. \A c \in Caller : pc'[c] = "idle" /\ call'[c] = NoCall /\ reply'[c] = NoReply /\ holder' # c
    BY <2>1, StoppedCall, CallerParts
  <2> QED
    BY <2>2, ReplyParts DEF FetchedBodyIsAccepted
<1>6. CASE UNCHANGED vars
  BY <1>6 DEF vars, FetchedBodyIsAccepted
<1> QED
  BY <1>1, <1>2, <1>3, <1>4, <1>5, <1>6 DEF Next

LEMMA WrittenIsDurableKept ==
  ASSUME StoreIInv, [Next]_vars
  PROVE  WrittenIsDurable'
<1> USE DEF StoreIInv, Goto, Answer, Fault, files, control, mishaps, StoreTypeOK
<1>1. ASSUME NEW c \in Caller, Invoke(c) PROVE WrittenIsDurable'
  BY <1>1 DEF Invoke, WrittenIsDurable
<1>2. ASSUME NEW c \in Caller, Step(c) PROVE WrittenIsDurable'
  <2>1. CASE Lock(c)
    BY <2>1 DEF Lock, WrittenIsDurable
  <2>2. CASE LoadToAppend(c)
    BY <2>2 DEF LoadToAppend, Decided, WrittenIsDurable
  <2>3. CASE JoinAcceptance(c)
    BY <2>3 DEF JoinAcceptance, Decided, WrittenIsDurable
  <2>4. CASE LoadToAccept(c)
    BY <2>4 DEF LoadToAccept, Decided, WrittenIsDurable
  <2>5. CASE LoadToFetch(c)
    BY <2>5 DEF LoadToFetch, Decided, WrittenIsDurable
  <2>6. CASE WriteBody(c)
    BY <2>6 DEF WriteBody, WrittenIsDurable
  <2>7. CASE SyncBody(c)
    <3>1. acked.seq \in Nat /\ syncedRecord.seq \in Nat /\ record.seq \in Nat
      BY SeqTyped
    <3> QED
      BY <2>7, <3>1 DEF SyncBody, WrittenIsDurable, Holds, SyncedBefore
  <2>8. CASE WriteRecord(c)
    BY <2>8 DEF WriteRecord, WrittenIsDurable
  <2>9. CASE SyncRecord(c)
    <3>1. acked.seq \in Nat /\ syncedRecord.seq \in Nat /\ record.seq \in Nat
      BY SeqTyped
    <3> QED
      BY <2>9, <3>1 DEF SyncRecord, WrittenIsDurable, Holds, SyncedBefore
  <2>10. CASE Unlock(c)
    BY <2>10 DEF Unlock, WrittenIsDurable
  <2>11. CASE Leave(c)
    <3>1. \/ UNCHANGED <<acked.seq, acked.result>>
          \/ /\ reply[c].kind = "snapshot" /\ call[c].kind = "append"
             /\ acked'.result = acked.result /\ acked'.seq \in {acked.seq, reply[c].seq}
          \/ /\ reply[c].kind = "accepted" /\ ~reply[c].joined
             /\ acked'.seq = acked.seq /\ acked'.result = reply[c].bytes
      BY <2>11, Zenon DEF Leave, Tell
    <3> QED
      BY <2>11, <3>1 DEF Leave, WrittenIsDurable, Holds, RepliesSynced
  <2>12. CASE ReadResultBody(c)
    BY <2>12 DEF ReadResultBody, WrittenIsDurable
  <2> QED
    BY <1>2, <2>1, <2>2, <2>3, <2>4, <2>5, <2>6, <2>7, <2>8, <2>9, <2>10, <2>11, <2>12 DEF Step
<1>3. ASSUME NEW c \in Caller, StepFails(c) PROVE WrittenIsDurable'
  <2>1. CASE LockFails(c)
    BY <2>1 DEF LockFails, WrittenIsDurable
  <2>2. CASE LoadFails(c)
    BY <2>2 DEF LoadFails, Decided, WrittenIsDurable
  <2>3. CASE WriteFails(c)
    BY <2>3 DEF WriteFails, Decided, WrittenIsDurable
  <2>4. CASE ReadResultBodyFails(c)
    BY <2>4 DEF ReadResultBodyFails, WrittenIsDurable
  <2> QED
    BY <1>3, <2>1, <2>2, <2>3, <2>4 DEF StepFails
<1>4. ASSUME NEW p \in Process, Crash(p) PROVE WrittenIsDurable'
  BY <1>4 DEF Crash, Stopped, WrittenIsDurable
<1>5. CASE PowerLoss
  <2>1. acked.seq \in Nat /\ syncedRecord.seq \in Nat /\ record.seq \in Nat
    BY SeqTyped
  <2>2. acked' = acked /\ syncedRecord' \in {record, syncedRecord}
    BY <1>5 DEF PowerLoss
  <2> QED
    BY <2>1, <2>2 DEF WrittenIsDurable, Holds, SyncedBefore, HasResult
<1>6. CASE UNCHANGED vars
  BY <1>6 DEF vars, WrittenIsDurable
<1> QED
  BY <1>1, <1>2, <1>3, <1>4, <1>5, <1>6 DEF Next

\* An acceptance stays on record, and a safe one stays safe; only a power loss
\* takes an unsafe one back.
LEMMA AcceptancesStay ==
  ASSUME StoreIInv, [Next]_vars, NEW b
  PROVE  /\ Holds(syncedRecord, b) => Holds(syncedRecord', b)
         /\ Holds(record, b) /\ powerLosses' = powerLosses => Holds(record', b)
<1> USE DEF StoreIInv, StoreTypeOK, Fault, files, control, mishaps
<1>1. ASSUME NEW c \in Caller, Invoke(c) PROVE UNCHANGED <<record, syncedRecord>>
  BY <1>1 DEF Invoke
<1>2. ASSUME NEW c \in Caller, Step(c), ~WriteRecord(c), ~SyncBody(c), ~SyncRecord(c)
      PROVE  UNCHANGED <<record, syncedRecord>>
  BY <1>2 DEF Step, Lock, LoadToAppend, JoinAcceptance, LoadToAccept, LoadToFetch,
              WriteBody, Unlock, Leave, ReadResultBody
<1>3. ASSUME NEW c \in Caller, WriteRecord(c)
      PROVE  /\ syncedRecord' = syncedRecord
             /\ Holds(record, b) => Holds(record', b)
  BY <1>3, WrittenGrows DEF WriteRecord, Holds
<1>4. ASSUME NEW c \in Caller, SyncBody(c) \/ SyncRecord(c)
      PROVE  record' = record /\ syncedRecord' = record
  BY <1>4 DEF SyncBody, SyncRecord
<1>5. ASSUME NEW c \in Caller, StepFails(c) PROVE UNCHANGED <<record, syncedRecord>>
  BY <1>5 DEF StepFails, LockFails, LoadFails, WriteFails, ReadResultBodyFails
<1>6. ASSUME NEW p \in Process, Crash(p) PROVE UNCHANGED <<record, syncedRecord>>
  BY <1>6 DEF Crash
<1>7. CASE PowerLoss
  <2>1. powerLosses' # powerLosses
    BY <1>7, SMT DEF PowerLoss
  <2>2. syncedRecord' \in {record, syncedRecord}
    BY <1>7 DEF PowerLoss
  <2> QED
    BY <2>1, <2>2 DEF Holds, SyncedBefore
<1>8. CASE UNCHANGED vars
  BY <1>8 DEF vars
<1>9. Holds(syncedRecord, b) => Holds(record, b)
  BY DEF Holds, SyncedBefore
<1> QED
  BY <1>1, <1>2, <1>3, <1>4, <1>5, <1>6, <1>7, <1>8, <1>9 DEF Next, Holds, HasResult

\* Counts only grow, so that what has not happened had not happened before.
LEMMA MishapsCounted ==
  ASSUME StoreIInv, [Next]_vars
  PROVE  /\ faults' = 0 => faults = 0
         /\ crashes' = 0 => crashes = 0
         /\ powerLosses' = 0 => powerLosses = 0
<1>1. {faults, crashes, powerLosses} \subseteq Nat
  BY DEF StoreIInv, StoreTypeOK
<1>2. /\ faults' \in {faults, faults + 1}
      /\ crashes' \in {crashes, crashes + 1}
      /\ powerLosses' \in {powerLosses, powerLosses + 1}
  BY Zenon DEF Next, Invoke, Step, StepFails, Lock, LoadToAppend, JoinAcceptance, LoadToAccept,
       LoadToFetch, WriteBody, SyncBody, WriteRecord, SyncRecord, Unlock, Leave,
       ReadResultBody, LockFails, LoadFails, WriteFails, ReadResultBodyFails, Fault,
       Crash, PowerLoss, vars, mishaps
<1> QED
  BY <1>1, <1>2

LEMMA SyncedAtRestKept ==
  ASSUME StoreIInv, [Next]_vars
  PROVE  SyncedAtRest'
<1> USE DEF StoreIInv, StoreTypeOK, Goto, files, control, mishaps
<1>1. faults' = 0 /\ crashes' = 0 => faults = 0 /\ crashes = 0
  BY MishapsCounted
<1>2. ASSUME NEW c \in Caller, Invoke(c) PROVE SyncedAtRest'
  BY <1>1, <1>2 DEF Invoke, SyncedAtRest
<1>3. ASSUME NEW c \in Caller, Step(c), ~WriteRecord(c), ~SyncBody(c), ~SyncRecord(c)
      PROVE  SyncedAtRest'
  <2>1. /\ UNCHANGED <<record, syncedRecord>>
        /\ pc[c] # "syncing" /\ \A d \in Caller \ {c} : pc'[d] = pc[d]
    BY <1>3 DEF Step, Lock, LoadToAppend, JoinAcceptance, LoadToAccept, LoadToFetch,
                WriteBody, Unlock, Leave, ReadResultBody, Decided
  <2> QED
    BY <1>1, <2>1 DEF SyncedAtRest
<1>4. ASSUME NEW c \in Caller, WriteRecord(c) PROVE SyncedAtRest'
  BY <1>4 DEF WriteRecord, SyncedAtRest
<1>5. ASSUME NEW c \in Caller, SyncBody(c) \/ SyncRecord(c) PROVE SyncedAtRest'
  BY <1>5 DEF SyncBody, SyncRecord, SyncedAtRest
<1>6. ASSUME NEW c \in Caller, StepFails(c) PROVE SyncedAtRest'
  <2>1. faults' # 0
    BY <1>6 DEF StepFails, LockFails, LoadFails, WriteFails, ReadResultBodyFails, Fault
  <2> QED
    BY <2>1 DEF SyncedAtRest
<1>7. ASSUME NEW p \in Process, Crash(p) PROVE SyncedAtRest'
  <2>1. crashes' # 0
    BY <1>7 DEF Crash
  <2> QED
    BY <2>1 DEF SyncedAtRest
<1>8. CASE PowerLoss
  BY <1>8 DEF PowerLoss, SyncedAtRest
<1>9. CASE UNCHANGED vars
  BY <1>9 DEF vars, SyncedAtRest
<1> QED
  BY <1>2, <1>3, <1>4, <1>5, <1>6, <1>7, <1>8, <1>9 DEF Next

\* Whoever is about to be answered was so before, or has just joined.
LEMMA JoinersAnswered ==
  ASSUME StoreIInv, [Next]_vars, NEW d \in Caller,
         pc'[d] \in {"unlocking", "leaving"}, reply'[d].kind = "accepted", reply'[d].joined
  PROVE  \/ /\ pc[d] \in {"unlocking", "leaving"} /\ reply'[d] = reply[d]
            /\ powerLosses' = powerLosses
         \/ JoinAcceptance(d)
<1> USE DEF StoreIInv, StoreTypeOK, Goto, Answer, files, control, mishaps
<1>1. ASSUME NEW c \in Caller, Invoke(c) PROVE pc'[d] = pc[d] /\ reply'[d] = reply[d] /\ powerLosses' = powerLosses
  BY <1>1 DEF Invoke
<1>2. ASSUME NEW c \in Caller, c # d, Step(c) \/ StepFails(c)
      PROVE  pc'[d] = pc[d] /\ reply'[d] = reply[d] /\ powerLosses' = powerLosses
  BY <1>2 DEF Step, StepFails, Lock, LoadToAppend, JoinAcceptance, LoadToAccept, LoadToFetch,
              WriteBody, SyncBody, WriteRecord, SyncRecord, Unlock, Leave, ReadResultBody,
              LockFails, LoadFails, WriteFails, ReadResultBodyFails, Decided
<1>3. CASE Unlock(d) \/ Leave(d)
  BY <1>3 DEF Unlock, Leave
<1>4. ~(Lock(d) \/ WriteBody(d) \/ SyncBody(d) \/ WriteRecord(d) \/ ReadResultBody(d) \/ ReadResultBodyFails(d))
  BY DEF Lock, WriteBody, SyncBody, WriteRecord, ReadResultBody, ReadResultBodyFails
<1>5. ~LoadToAppend(d) /\ ~LoadToAccept(d) /\ ~LoadToFetch(d)
  BY ReplyParts DEF LoadToAppend, LoadToAccept, LoadToFetch, Decided
<1>6. ~SyncRecord(d)
  <2>1. SUFFICES ASSUME SyncRecord(d) PROVE FALSE
    OBVIOUS
  <2>2. CASE call[d].kind = "accept"
    <3>1. reply'[d] = Accepted(view[d], FALSE)
      BY <2>1, <2>2 DEF SyncRecord, Decided
    <3>2. reply'[d].joined = FALSE
      BY <3>1, SMT DEF Accepted
    <3> QED
      BY <3>2
  <2>3. CASE call[d].kind # "accept"
    <3>1. reply'[d] = Snapshot(view[d])
      BY <2>1, <2>3 DEF SyncRecord, Decided
    <3> QED
      BY <3>1, ReplyParts
  <2> QED
    BY <2>2, <2>3
<1>7. ~(LockFails(d) \/ LoadFails(d) \/ WriteFails(d))
  BY ReplyParts DEF LockFails, LoadFails, WriteFails, Decided
<1>8. ASSUME NEW p \in Process, Crash(p)
      PROVE  pc'[d] = pc[d] /\ reply'[d] = reply[d] /\ powerLosses' = powerLosses
  BY <1>8, StoppedCall DEF Crash
<1>9. ~PowerLoss
  BY StoppedCall, CallerParts DEF PowerLoss
<1>10. CASE UNCHANGED vars
  BY <1>10 DEF vars
<1> QED
  BY <1>1, <1>2, <1>3, <1>4, <1>5, <1>6, <1>7, <1>8, <1>9, <1>10 DEF Next, Step, StepFails

LEMMA JoinsKept ==
  ASSUME StoreIInv, [Next]_vars
  PROVE  JoinsHold' /\ JoinedIsDurable'
<1> USE DEF StoreIInv, StoreTypeOK, files, control, mishaps
<1>1. /\ faults' = 0 /\ crashes' = 0 => faults = 0 /\ crashes = 0
      /\ powerLosses' = 0 => powerLosses = 0
  BY MishapsCounted
<1>2. JoinsHold'
  <2>1. SUFFICES ASSUME NEW d \in Caller, pc'[d] \in {"unlocking", "leaving"},
                        reply'[d].kind = "accepted", reply'[d].joined
                 PROVE  /\ Holds(record', reply'[d].bytes)
                        /\ faults' = 0 /\ crashes' = 0 => Holds(syncedRecord', reply'[d].bytes)
    BY DEF JoinsHold, Holds, HasResult
  <2>2. CASE JoinAcceptance(d)
    <3>1. /\ pc[d] = "loading" /\ call[d].kind = "accept"
          /\ Exists(record) /\ record.op.result = call[d].bytes
          /\ reply' = [reply EXCEPT ![d] = Accepted(record, TRUE)]
      BY <2>2 DEF JoinAcceptance, Decided, Answer
    <3>2. reply'[d] = Accepted(record, TRUE)
      BY <3>1
    <3>3. reply'[d].bytes = record.op.result
      BY <3>2, SMT DEF Accepted
    <3>4. record.op.result # None
      <4>1. call[d] \in Calls \cup {NoCall} /\ record \in Record
        OBVIOUS
      <4> QED
        BY <3>1, <4>1, CallTyped, RecordTyped, MalformedIsNoResult, NoneIsNoValue
    <3>5. Holds(record, reply'[d].bytes)
      BY <3>1, <3>3, <3>4 DEF Holds, HasResult
    <3>6. ASSUME NEW c \in Caller PROVE pc[c] # "syncing"
      BY <3>1 DEF LockHeld, Inside
    <3>7. UNCHANGED <<record, syncedRecord>>
      BY <2>2 DEF JoinAcceptance
    <3> QED
      BY <1>1, <3>5, <3>6, <3>7 DEF SyncedAtRest
  <2>3. CASE /\ pc[d] \in {"unlocking", "leaving"} /\ reply'[d] = reply[d]
             /\ powerLosses' = powerLosses
    BY <1>1, <2>1, <2>3, AcceptancesStay DEF JoinsHold
  <2> QED
    BY <2>1, <2>2, <2>3, JoinersAnswered
<1>3. JoinedIsDurable'
  <2>1. CASE acked'.joined = acked.joined
    <3>1. powerLosses' = 0 => powerLosses' = powerLosses
      BY <1>1
    <3> QED
      BY <1>1, <2>1, <3>1, AcceptancesStay DEF JoinedIsDurable, Holds, HasResult
  <2>2. ASSUME NEW c \in Caller, Leave(c), acked'.joined # acked.joined PROVE JoinedIsDurable'
    <3>1. /\ reply[c].kind = "accepted" /\ reply[c].joined
          /\ acked'.joined = reply[c].bytes
      BY <2>2, Zenon DEF Leave, Tell
    <3>2. /\ pc[c] = "leaving" /\ UNCHANGED <<record, syncedRecord>>
      BY <2>2 DEF Leave
    <3> QED
      BY <1>1, <3>1, <3>2 DEF JoinsHold, JoinedIsDurable, Holds, HasResult
  <2>3. acked' = acked \/ \E c \in Caller : Leave(c)
    BY Zenon DEF Next, Invoke, Step, StepFails, Lock, LoadToAppend, JoinAcceptance, LoadToAccept,
       LoadToFetch, WriteBody, SyncBody, WriteRecord, SyncRecord, Unlock, ReadResultBody,
       LockFails, LoadFails, WriteFails, ReadResultBodyFails, Crash, PowerLoss, vars
  <2> QED
    BY <2>1, <2>2, <2>3
<1> QED
  BY <1>2, <1>3

LEMMA QueueOrderKept ==
  ASSUME StoreIInv, [Next]_vars
  PROVE  QueueOrder'
<1> USE DEF StoreIInv, Goto, Answer, Fault, files, control, mishaps, StoreTypeOK
<1>1. ASSUME NEW c \in Caller, Invoke(c) PROVE QueueOrder'
  <2>1. /\ c[1] \in Process /\ c[2] \in Slot /\ c = <<c[1], c[2]>>
        /\ \A d \in Caller : d[1] \in Process /\ d = <<d[1], d[2]>>
    BY CallerParts
  <2>2. /\ tail[c[1]] \in Seq(Slot) /\ Distinct(tail[c[1]]) /\ ~InQueue(tail[c[1]], c[2])
    BY <1>1, <2>1 DEF Invoke, QueueOrder
  <2>3. /\ tail' = [tail EXCEPT ![c[1]] = Append(tail[c[1]], c[2])]
        /\ pc' = [pc EXCEPT ![c] = "queued"]
    BY <1>1 DEF Invoke
  <2>4. /\ Distinct(Append(tail[c[1]], c[2]))
        /\ \A t : InQueue(Append(tail[c[1]], c[2]), t) <=> t = c[2] \/ InQueue(tail[c[1]], t)
        /\ tail[c[1]] # <<>> => Head(Append(tail[c[1]], c[2])) = Head(tail[c[1]])
    BY <2>1, <2>2, AppendEnqueues
  <2>5. \A p \in Process : Distinct(tail'[p])
    BY <2>1, <2>3, <2>4 DEF QueueOrder
  <2>6. ASSUME NEW d \in Caller
        PROVE  /\ pc'[d] \notin {"idle", "fetching"} <=> InQueue(tail'[d[1]], d[2])
               /\ pc'[d] \notin {"idle", "fetching", "queued"} => Head(tail'[d[1]]) = d[2]
    <3>1. CASE d = c
      BY <2>1, <2>3, <2>4, <3>1
    <3>2. CASE d # c /\ d[1] = c[1]
      <4>1. d[2] # c[2]
        BY <2>1, <3>2
      <4>2. pc'[d] = pc[d]
        BY <2>3, <3>2
      <4>3. InQueue(tail'[d[1]], d[2]) <=> InQueue(tail[d[1]], d[2])
        BY <2>1, <2>3, <2>4, <3>2, <4>1
      <4>4. InQueue(tail[d[1]], d[2]) => Head(tail'[d[1]]) = Head(tail[d[1]])
        BY <2>1, <2>3, <2>4, <3>2, QueuedNotEmpty
      <4> QED
        BY <4>2, <4>3, <4>4 DEF QueueOrder
    <3>3. CASE d[1] # c[1]
      BY <2>1, <2>3, <3>3 DEF QueueOrder
    <3> QED
      BY <3>1, <3>2, <3>3
  <2> QED
    BY <2>5, <2>6 DEF QueueOrder
<1>2. ASSUME NEW c \in Caller, Step(c) PROVE QueueOrder'
  <2>1. CASE Lock(c)
    BY <2>1 DEF Lock, QueueOrder
  <2>2. CASE LoadToAppend(c)
    BY <2>2 DEF LoadToAppend, Decided, QueueOrder
  <2>3. CASE JoinAcceptance(c)
    BY <2>3 DEF JoinAcceptance, Decided, QueueOrder
  <2>4. CASE LoadToAccept(c)
    BY <2>4 DEF LoadToAccept, Decided, QueueOrder
  <2>5. CASE LoadToFetch(c)
    BY <2>5 DEF LoadToFetch, Decided, QueueOrder
  <2>6. CASE WriteBody(c)
    BY <2>6 DEF WriteBody, QueueOrder
  <2>7. CASE SyncBody(c)
    BY <2>7 DEF SyncBody, QueueOrder
  <2>8. CASE WriteRecord(c)
    BY <2>8 DEF WriteRecord, QueueOrder
  <2>9. CASE SyncRecord(c)
    BY <2>9 DEF SyncRecord, Decided, QueueOrder
  <2>10. CASE Unlock(c)
    BY <2>10 DEF Unlock, QueueOrder
  <2>11. CASE Leave(c)
    <3>1. /\ c[1] \in Process /\ c[2] \in Slot /\ c = <<c[1], c[2]>>
          /\ \A d \in Caller : d[1] \in Process /\ d = <<d[1], d[2]>>
      BY CallerParts
    <3>2. /\ tail[c[1]] \in Seq(Slot) /\ Distinct(tail[c[1]]) /\ tail[c[1]] # <<>>
          /\ Head(tail[c[1]]) = c[2]
      BY <2>11, <3>1, QueuedNotEmpty DEF Leave, QueueOrder
    <3>3. /\ tail' = [tail EXCEPT ![c[1]] = Tail(tail[c[1]])]
          /\ pc'[c] \in {"idle", "fetching"} /\ \A d \in Caller \ {c} : pc'[d] = pc[d]
      BY <2>11 DEF Leave
    <3>4. /\ Distinct(Tail(tail[c[1]]))
          /\ \A t : InQueue(Tail(tail[c[1]]), t) <=> t # c[2] /\ InQueue(tail[c[1]], t)
      BY <3>2, TailDequeues
    <3>5. \A p \in Process : Distinct(tail'[p])
      BY <3>1, <3>3, <3>4 DEF QueueOrder
    <3>6. ASSUME NEW d \in Caller
          PROVE  /\ pc'[d] \notin {"idle", "fetching"} <=> InQueue(tail'[d[1]], d[2])
                 /\ pc'[d] \notin {"idle", "fetching", "queued"} => Head(tail'[d[1]]) = d[2]
      <4>1. CASE d = c
        BY <3>1, <3>3, <3>4, <4>1
      <4>2. CASE d # c /\ d[1] = c[1]
        <5>1. d[2] # c[2] /\ pc'[d] = pc[d]
          BY <3>1, <3>3, <4>2
        <5>2. InQueue(tail'[d[1]], d[2]) <=> InQueue(tail[d[1]], d[2])
          BY <3>1, <3>3, <3>4, <4>2, <5>1
        <5>3. pc[d] \in {"idle", "fetching", "queued"}
          BY <3>2, <4>2, <5>1 DEF QueueOrder
        <5> QED
          BY <5>1, <5>2, <5>3 DEF QueueOrder
      <4>3. CASE d[1] # c[1]
        BY <3>1, <3>3, <4>3 DEF QueueOrder
      <4> QED
        BY <4>1, <4>2, <4>3
    <3> QED
      BY <3>5, <3>6 DEF QueueOrder
  <2>12. CASE ReadResultBody(c)
    BY <2>12 DEF ReadResultBody, QueueOrder
  <2> QED
    BY <1>2, <2>1, <2>2, <2>3, <2>4, <2>5, <2>6, <2>7, <2>8, <2>9, <2>10, <2>11, <2>12 DEF Step
<1>3. ASSUME NEW c \in Caller, StepFails(c) PROVE QueueOrder'
  <2>1. CASE LockFails(c)
    BY <2>1 DEF LockFails, QueueOrder
  <2>2. CASE LoadFails(c)
    BY <2>2 DEF LoadFails, Decided, QueueOrder
  <2>3. CASE WriteFails(c)
    BY <2>3 DEF WriteFails, Decided, QueueOrder
  <2>4. CASE ReadResultBodyFails(c)
    BY <2>4 DEF ReadResultBodyFails, QueueOrder
  <2> QED
    BY <1>3, <2>1, <2>2, <2>3, <2>4 DEF StepFails
<1>4. ASSUME NEW p \in Process, Crash(p) PROVE QueueOrder'
  <2>1. Stopped({p})
    BY <1>4 DEF Crash
  <2> QED
    BY <2>1, StoppedQueues DEF QueueOrder
<1>5. CASE PowerLoss
  <2>1. Stopped(Process)
    BY <1>5 DEF PowerLoss
  <2> QED
    BY <2>1, StoppedQueues DEF QueueOrder
<1>6. CASE UNCHANGED vars
  BY <1>6 DEF vars, QueueOrder
<1> QED
  BY <1>1, <1>2, <1>3, <1>4, <1>5, <1>6 DEF Next

LEMMA StoreInitially == Init => StoreIInv
<1> SUFFICES ASSUME Init PROVE StoreIInv
  OBVIOUS
<1> USE DEF Init
<1>1. record \in Record /\ ~HasResult(record) /\ syncedRecord = record /\ record.seq \in Nat
  <2>1. record \in Record /\ ~HasResult(record)
    BY NoRecordTyped, RunningTyped DEF HasResult
  <2> QED
    BY <2>1, SeqTyped
<1>2. StoreTypeOK
  <2>1. \A p \in Process : <<>> \in Seq(Slot)
    BY EmptySeq
  <2>2. acked \in [seq : Nat, result : Result \cup {None}, joined : Result \cup {None}]
    BY SMT
  <2> QED
    BY <1>1, <2>1, <2>2, NoRecordTyped, RepliesTyped DEF StoreTypeOK
<1>3. LockHeld
  BY NoneIsNoCaller DEF LockHeld, Inside, Caller
<1>4. WriterPrepared /\ WriterPublished /\ RepliesSynced /\ FetchedStays
  BY DEF WriterPrepared, WriterPublished, RepliesSynced, FetchedStays
<1>5. BodyKept /\ SyncedBefore
  BY <1>1 DEF BodyKept, SyncedBefore
<1>6. FetchedBodyIsAccepted
  BY ReplyParts DEF FetchedBodyIsAccepted
<1>7. WrittenIsDurable /\ SyncedAtRest /\ JoinsHold /\ JoinedIsDurable
  BY <1>1, SMT DEF WrittenIsDurable, SyncedAtRest, JoinsHold, JoinedIsDurable
<1>8. QueueOrder
  <2>1. Distinct(<<>>) /\ \A s : ~InQueue(<<>>, s)
    BY EmptySeq, QueuedNotEmpty, SMT DEF Distinct
  <2> QED
    BY <2>1, CallerParts DEF QueueOrder
<1> QED
  BY <1>2, <1>3, <1>4, <1>5, <1>6, <1>7, <1>8 DEF StoreIInv

LEMMA StoreIInvKept == StoreIInv /\ [Next]_vars => StoreIInv'
  BY StoreNextTyped, LockHeldKept, WriterPreparedKept, WriterPublishedKept, BodyKeptKept,
     SyncedBeforeKept, RepliesSyncedKept, FetchedStaysKept, FetchedBodyKept,
     WrittenIsDurableKept, SyncedAtRestKept, JoinsKept, QueueOrderKept DEF StoreIInv

-----------------------------------------------------------------------------
(* What the store promises.                                                *)

\* The store's inductive invariant holds through failures, crashes and power losses.
THEOREM StoreInvariant == Spec => []StoreIInv
  BY StoreInitially, StoreIInvKept, PTL DEF Spec

\* Types hold, whatever calls fail and whatever stops between two of their steps.
THEOREM StoreTypeCorrect == Spec => []StoreTypeOK
  BY StoreInvariant, PTL DEF StoreIInv

\* An acceptance on record has its exact body beside it, visible and synced alike.
THEOREM BodyMatchesRecordHolds == Spec => []BodyMatchesRecord
<1>1. StoreIInv => BodyMatchesRecord
  BY DEF StoreIInv, BodyKept, SyncedBefore, BodyMatchesRecord
<1> QED
  BY <1>1, StoreInvariant, PTL

\* What a caller was told is written by its own call survives the failures of
\* others, crashes and power losses; what it was told is accepted by a join is on
\* record until a power loss, and survives that too if no call failed and no
\* process died.
THEOREM AckedIsDurableHolds == Spec => []AckedIsDurable
<1>1. StoreIInv => AckedIsDurable
  BY DEF StoreIInv, AckedIsDurable
<1> QED
  BY <1>1, StoreInvariant, PTL

\* A body read beside the lock is the body of the acceptance read before it.
THEOREM FetchedBodyIsAcceptedHolds == Spec => []FetchedBodyIsAccepted
  BY StoreInvariant, PTL DEF StoreIInv

\* A queued call waits behind a call of its process that is still under way, and
\* the lock is held by a call that will release it.
THEOREM QueuesMoveHolds == Spec => []QueuesMove
<1>1. ASSUME StoreIInv PROVE QueuesMove
  <2> USE <1>1 DEF StoreIInv, StoreTypeOK
  <2>1. ASSUME NEW c \in Caller, pc[c] = "queued"
        PROVE  /\ InQueue(tail[c[1]], c[2])
               /\ pc[<<c[1], Head(tail[c[1]])>>] \notin {"idle", "fetching"}
    <3>1. c[1] \in Process /\ tail[c[1]] \in Seq(Slot) /\ InQueue(tail[c[1]], c[2])
      BY <2>1, CallerParts DEF QueueOrder
    <3>2. Head(tail[c[1]]) \in Slot /\ InQueue(tail[c[1]], Head(tail[c[1]]))
      BY <3>1, HeadIsQueued
    <3>3. <<c[1], Head(tail[c[1]])>> \in Caller
      BY <3>1, <3>2 DEF Caller
    <3> QED
      BY <3>1, <3>2, <3>3 DEF QueueOrder
  <2>2. holder # None => Inside(holder)
    BY DEF LockHeld
  <2> QED
    BY <2>1, <2>2 DEF QueuesMove, InQueue
<1> QED
  BY <1>1, StoreInvariant, PTL

LEMMA RecordGrows ==
  ASSUME StoreIInv, [Next]_vars
  PROVE  GrowStep \/ UNCHANGED vars
<1> USE DEF StoreIInv, StoreTypeOK, Goto, Answer, Fault, files, control, mishaps
<1>1. ASSUME NEW c \in Caller, Invoke(c) PROVE record' = record
  BY <1>1 DEF Invoke
<1>2. ASSUME NEW c \in Caller, Step(c), ~WriteRecord(c) PROVE record' = record
  BY <1>2 DEF Step, Lock, LoadToAppend, JoinAcceptance, LoadToAccept, LoadToFetch,
              WriteBody, SyncBody, SyncRecord, Unlock, Leave, ReadResultBody
<1>3. ASSUME NEW c \in Caller, WriteRecord(c) PROVE GrowStep
  <2>1. record' = view[c] /\ pc[c] = "writing"
    BY <1>3 DEF WriteRecord
  <2>2. CASE call[c].kind = "append"
    BY <2>1, <2>2, CallTyped DEF WriterPrepared, GrowStep
  <2>3. CASE call[c].kind = "accept"
    BY <2>1, <2>3 DEF WriterPrepared, GrowStep
  <2> QED
    BY <2>1, <2>2, <2>3 DEF WriterPrepared
<1>4. ASSUME NEW c \in Caller, StepFails(c) PROVE record' = record
  BY <1>4 DEF StepFails, LockFails, LoadFails, WriteFails, ReadResultBodyFails
<1>5. ASSUME NEW p \in Process, Crash(p) PROVE record' = record
  BY <1>5 DEF Crash
<1>6. CASE PowerLoss
  <2>1. powerLosses \in Nat /\ powerLosses' = powerLosses + 1
    BY <1>6 DEF PowerLoss
  <2>2. powerLosses' # powerLosses
    BY <2>1, SMT
  <2> QED
    BY <1>6, <2>2 DEF PowerLoss, GrowStep
<1> QED
  BY <1>1, <1>2, <1>3, <1>4, <1>5, <1>6 DEF Next, GrowStep

\* No update is lost: a write adds one legal event to the record it replaces, and
\* only a power loss takes back what was not synced.
THEOREM RecordOnlyGrowsHolds == Spec => RecordOnlyGrows
<1>1. StoreIInv /\ [Next]_vars => [GrowStep]_vars
  BY RecordGrows
<1> QED
  BY <1>1, StoreInvariant, PTL DEF Spec, RecordOnlyGrows

-----------------------------------------------------------------------------
(* Type correctness.                                                       *)

LEMMA LockInitTyped == LockInit => LockTypeOK
  BY SMT DEF LockInit, LockTypeOK, Steps

LEMMA AttemptTyped ==
  ASSUME LockTypeOK, NEW p \in Process, Attempt(p)
  PROVE  LockTypeOK'
<1> USE DEF LockTypeOK, Steps, GoesTo, secretFiles, lockMishaps
<1>1. CASE ReadSecret(p)
  BY <1>1 DEF ReadSecret
<1>2. CASE CreateSecret(p)
  BY <1>2 DEF CreateSecret
<1>3. CASE SyncSecret(p)
  BY <1>3 DEF SyncSecret
<1>4. CASE RereadSecret(p)
  BY <1>4 DEF RereadSecret
<1>5. CASE Bind(p)
  BY <1>5 DEF Bind
<1>6. CASE Finish(p)
  BY <1>6 DEF Finish
<1>7. CASE Close(p)
  BY <1>7 DEF Close
<1> QED
  BY <1>1, <1>2, <1>3, <1>4, <1>5, <1>6, <1>7 DEF Attempt

LEMMA LockNextTyped ==
  ASSUME LockTypeOK, [LockNext]_lockVars
  PROVE  LockTypeOK'
<1> USE DEF LockTypeOK, Steps, GoesTo, secretFiles, lockMishaps
<1>1. ASSUME NEW p \in Process, Begin(p) PROVE LockTypeOK'
  BY <1>1 DEF Begin
<1>2. ASSUME NEW p \in Process, AttemptFails(p) PROVE LockTypeOK'
  BY <1>2, SMT DEF AttemptFails
<1>3. ASSUME NEW p \in Process, ProcessDies(p) PROVE LockTypeOK'
  BY <1>3, SMT DEF ProcessDies
<1>4. CASE HostLosesPower
  BY <1>4, SMT DEF HostLosesPower
<1>5. CASE UNCHANGED lockVars
  BY <1>5 DEF lockVars
<1> QED
  BY <1>1, <1>2, <1>3, <1>4, <1>5, AttemptTyped DEF LockNext

\* Types hold whatever fails, dies or loses power.
THEOREM LockTypeCorrect == LockSpec => []LockTypeOK
  BY LockInitTyped, LockNextTyped, PTL DEF LockSpec

-----------------------------------------------------------------------------
(* The inductive invariant.                                                *)

LEMMA SecretAgreedKept ==
  ASSUME LockIInv, [LockNext]_lockVars
  PROVE  SecretAgreed'
<1> USE DEF LockIInv, LockTypeOK, SecretAgreed, GoesTo, secretFiles, lockMishaps
<1>1. ASSUME NEW p \in Process, Begin(p) PROVE SecretAgreed'
  BY <1>1 DEF Begin
<1>2. ASSUME NEW p \in Process, Attempt(p) PROVE SecretAgreed'
  <2>1. CASE ReadSecret(p)
    BY <2>1 DEF ReadSecret
  <2>2. CASE CreateSecret(p)
    BY <2>2 DEF CreateSecret
  <2>3. CASE SyncSecret(p)
    BY <2>3 DEF SyncSecret
  <2>4. CASE RereadSecret(p)
    BY <2>4 DEF RereadSecret
  <2>5. CASE Bind(p)
    BY <2>5 DEF Bind
  <2>6. CASE Finish(p)
    BY <2>6 DEF Finish
  <2>7. CASE Close(p)
    BY <2>7 DEF Close
  <2> QED
    BY <1>2, <2>1, <2>2, <2>3, <2>4, <2>5, <2>6, <2>7 DEF Attempt
<1>3. ASSUME NEW p \in Process, AttemptFails(p) PROVE SecretAgreed'
  BY <1>3 DEF AttemptFails
<1>4. ASSUME NEW p \in Process, ProcessDies(p) PROVE SecretAgreed'
  BY <1>4 DEF ProcessDies
<1>5. CASE HostLosesPower
  BY <1>5 DEF HostLosesPower
<1>6. CASE UNCHANGED lockVars
  BY <1>6 DEF lockVars
<1> QED
  BY <1>1, <1>2, <1>3, <1>4, <1>5, <1>6 DEF LockNext

\* Two processes inside would both listen alone on the same name.
LEMMA InsideAlone ==
  ASSUME LockIInv, NEW p \in Insiders, NEW q \in Insiders
  PROVE  p = q
  BY DEF LockIInv, SecretAgreed, InsideListens, Insiders

LEMMA InsideListensKept ==
  ASSUME LockIInv, [LockNext]_lockVars
  PROVE  InsideListens'
<1> USE DEF LockIInv, LockTypeOK, SecretAgreed, InsideListens, Insiders, GoesTo, secretFiles, lockMishaps
<1>1. ASSUME NEW p \in Process, Begin(p) PROVE InsideListens'
  BY <1>1 DEF Begin
<1>2. ASSUME NEW p \in Process, Attempt(p) PROVE InsideListens'
  <2>1. CASE ReadSecret(p)
    BY <2>1 DEF ReadSecret
  <2>2. CASE CreateSecret(p)
    BY <2>2 DEF CreateSecret
  <2>3. CASE SyncSecret(p)
    BY <2>3 DEF SyncSecret
  <2>4. CASE RereadSecret(p)
    BY <2>4 DEF RereadSecret
  <2>5. CASE Bind(p)
    BY <2>5 DEF Bind
  <2>6. CASE Finish(p)
    BY <2>6 DEF Finish
  <2>7. CASE Close(p)
    BY <2>7, InsideAlone DEF Close
  <2> QED
    BY <1>2, <2>1, <2>2, <2>3, <2>4, <2>5, <2>6, <2>7 DEF Attempt
<1>3. ASSUME NEW p \in Process, AttemptFails(p) PROVE InsideListens'
  BY <1>3 DEF AttemptFails
<1>4. ASSUME NEW p \in Process, ProcessDies(p) PROVE InsideListens'
  BY <1>4 DEF ProcessDies
<1>5. CASE HostLosesPower
  BY <1>5 DEF HostLosesPower
<1>6. CASE UNCHANGED lockVars
  BY <1>6 DEF lockVars
<1> QED
  BY <1>1, <1>2, <1>3, <1>4, <1>5, <1>6 DEF LockNext

\* Every process inside listens alone on the name all processes read.
THEOREM LockInvariant == LockSpec => []LockIInv
<1>1. LockInit => LockIInv
  BY LockInitTyped, SMT DEF LockInit, LockIInv, SecretAgreed, InsideListens, Insiders
<1>2. LockIInv /\ [LockNext]_lockVars => LockIInv'
  BY LockNextTyped, SecretAgreedKept, InsideListensKept DEF LockIInv
<1> QED
  BY <1>1, <1>2, PTL DEF LockSpec

\* All processes agree on the name of the lock.
THEOREM SecretIsAgreed == LockSpec => []SecretAgreed
<1>1. LockIInv => SecretAgreed
  BY DEF LockIInv
<1> QED
  BY <1>1, LockInvariant, PTL

-----------------------------------------------------------------------------
(* The lock implements the mutex.                                          *)

LEMMA MutexStep ==
  ASSUME LockIInv, [LockNext]_lockVars
  PROVE  [Mutex!EnterAlone \/ Mutex!Leave]_Insiders
<1> USE DEF GoesTo, secretFiles, lockMishaps
<1> DEFINE Mutual == [Mutex!EnterAlone \/ Mutex!Leave]_Insiders
<1>1. ASSUME Insiders' = Insiders PROVE Mutual
  BY <1>1
<1>2. ASSUME NEW p \in Process, at[p] \in {"inside", "closing"},
             Insiders' = Insiders \ {p}
      PROVE  Mutual
  <2>1. Insiders = {p}
    BY <1>2, InsideAlone DEF Insiders
  <2> QED
    BY <1>2, <2>1 DEF Mutex!Leave
<1>3. ASSUME NEW p \in Process, at[p] \notin {"inside", "closing"}, NEW step \in Steps,
             step \notin {"inside", "closing"}, GoesTo(p, step)
      PROVE  Insiders' = Insiders
  BY <1>3 DEF LockIInv, LockTypeOK, Insiders
<1>4. ASSUME NEW p \in Process, Begin(p) PROVE Mutual
  BY <1>1, <1>3, <1>4 DEF Begin, Steps
<1>5. ASSUME NEW p \in Process, Attempt(p) PROVE Mutual
  <2>1. CASE ReadSecret(p)
    BY <1>1, <1>3, <2>1 DEF ReadSecret, Steps
  <2>2. CASE CreateSecret(p)
    BY <1>1, <1>3, <2>2 DEF CreateSecret, Steps
  <2>3. CASE SyncSecret(p)
    BY <1>1, <1>3, <2>3 DEF SyncSecret, Steps
  <2>4. CASE RereadSecret(p)
    BY <1>1, <1>3, <2>4 DEF RereadSecret, Steps
  <2>5. CASE Bind(p)
    <3>1. Insiders = {}
      BY <2>5 DEF Bind, LockIInv, SecretAgreed, InsideListens, Insiders
    <3>2. Insiders' = {p}
      BY <2>5, <3>1 DEF Bind, Insiders, LockIInv, LockTypeOK
    <3> QED
      BY <3>1, <3>2 DEF Mutex!EnterAlone
  <2>6. CASE Finish(p)
    BY <1>1, <2>6 DEF Finish, Insiders, LockIInv, LockTypeOK
  <2>7. CASE Close(p)
    <3>1. Insiders' = Insiders \ {p}
      BY <2>7 DEF Close, Insiders, LockIInv, LockTypeOK
    <3> QED
      BY <1>2, <2>7, <3>1 DEF Close
  <2> QED
    BY <1>5, <2>1, <2>2, <2>3, <2>4, <2>5, <2>6, <2>7 DEF Attempt
<1>6. ASSUME NEW p \in Process, AttemptFails(p) PROVE Mutual
  BY <1>1, <1>3, <1>6 DEF AttemptFails, Steps
<1>7. ASSUME NEW p \in Process, ProcessDies(p) PROVE Mutual
  <2>1. Insiders' = Insiders \ {p}
    BY <1>7 DEF ProcessDies, Insiders, LockIInv, LockTypeOK
  <2>2. CASE p \in Insiders
    BY <1>2, <2>1, <2>2 DEF Insiders
  <2>3. CASE p \notin Insiders
    BY <1>1, <2>1, <2>3
  <2> QED
    BY <2>2, <2>3
<1>8. CASE HostLosesPower
  <2>1. Insiders' = {}
    BY <1>8 DEF HostLosesPower, Insiders
  <2> QED
    BY <2>1 DEF Mutex!Leave
<1>9. CASE UNCHANGED lockVars
  BY <1>1, <1>9 DEF lockVars, Insiders
<1> QED
  BY <1>4, <1>5, <1>6, <1>7, <1>8, <1>9 DEF LockNext

\* A process enters the lock only when nobody is inside: with or without a
\* secret file at first, and through failures, crashes and power losses.
THEOREM LockImplementsMutex == LockSpec => ImplementsMutex
<1>1. LockInit => Mutex!MutexInit
  BY DEF LockInit, Insiders, Mutex!MutexInit
<1>2. LockIInv /\ [LockNext]_lockVars => [Mutex!EnterAlone \/ Mutex!Leave]_Insiders
  BY MutexStep
<1> QED
  BY <1>1, <1>2, LockInvariant, PTL DEF LockSpec, ImplementsMutex, Mutex!MutexSpec

=============================================================================
