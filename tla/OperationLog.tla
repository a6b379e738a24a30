-------------------------- MODULE OperationLog --------------------------
(***************************************************************************)
(* One durable Operation, and any sequence of events the reducer admits.   *)
(* Nothing is assumed about who appends an event or when: the foreground   *)
(* runtime, a background owner and a recovering runtime all write the same *)
(* record, and each of them may be wrong about the state it saw last.      *)
(* What holds here holds for every caller of EventStore.advance.           *)
(***************************************************************************)
EXTENDS OperationReducer

CONSTANTS
  MaxStateSeq,     \* bound: events of one Operation
  MaxGeneration,   \* bound: delivery generations tried
  MaxEpoch         \* bound: cancellation epochs tried

ASSUME LogBoundsAreNatural ==
  MaxStateSeq \in Nat /\ MaxGeneration \in Nat /\ MaxEpoch \in Nat

VARIABLES
  op,         \* the Operation the record replays to
  stateSeq    \* the sequence number of its last event

logVars == <<op, stateSeq>>

Generation == 1..MaxGeneration
Epoch      == 1..MaxEpoch

Instruction ==
  [dispatcherId : Dispatcher, workerProcessInstanceId : Worker,
   deliveryGeneration : Generation]

\* appendEvent: an event that reduceOperation refuses leaves the record alone,
\* and a final Operation takes cleanup events only.
AppendCleanup(legal, next) ==
  /\ stateSeq < MaxStateSeq
  /\ legal
  /\ op' = next
  /\ stateSeq' = stateSeq + 1

AppendEvent(legal, next) ==
  /\ ~Terminal(op)
  /\ AppendCleanup(legal, next)

-----------------------------------------------------------------------------
(* Start of the worker and delivery of its start instruction.              *)

PresentationOwned ==
  \E w \in Workspace : AppendEvent(CanOwnPresentation(op), OwnPresentation(op, w))

OperationStarting == AppendEvent(CanStart(op), Start(op))

WorkerLaunched == AppendEvent(CanLaunchWorker(op), LaunchWorker(op))

WorkerIdentified ==
  \E p \in Worker, pane \in Workspace :
    AppendEvent(CanIdentifyWorker(op, pane), IdentifyWorker(op, p))

StartDeliveryAuthorityAcquired ==
  \E i \in Instruction :
    AppendEvent(CanAcquireAuthority(op, i), AcquireAuthority(op, i))

StartDeliveryAuthorityRevoked ==
  \E d \in Dispatcher, g \in Generation :
    AppendEvent(CanRevokeAuthority(op, d, g), RevokeAuthority(op, d, g))

StartDeliveryGenerationConfirmed ==
  \E d \in Dispatcher, g \in Generation, s \in AcceptanceStates,
     i \in Instruction \cup {None} :
    AppendEvent(CanConfirmGeneration(op, d, g, s, i), ConfirmGeneration(op, s))

StartDeliveryEntered ==
  \E i \in Instruction : AppendEvent(CanEnterDelivery(op, i), EnterDelivery(op, i))

StartInstructionDispatched ==
  \E i \in Instruction : AppendEvent(CanDispatchStart(op, i), DispatchStart(op, i))

StartInstructionAccepted ==
  \E i \in Instruction : AppendEvent(CanAcceptStart(op, i), AcceptStart(op, i))

StartInstructionAcknowledged ==
  \E i \in Instruction :
    AppendEvent(CanAcknowledgeStart(op, i), AcknowledgeStart(op, i))

-----------------------------------------------------------------------------
(* Result, settlement and cancellation.                                    *)

ResultAccepted ==
  \E r \in Result : AppendEvent(CanAcceptResult(op), AcceptResult(op, r))

WorkerStopConfirmed == AppendEvent(CanConfirmWorkerStop(op), ConfirmWorkerStop(op))

AgentSettled == AppendEvent(CanSettleAgent(op), SettleAgent(op))

OperationCompleted == AppendEvent(CanComplete(op), Complete(op))

OperationFailed == AppendEvent(CanFail(op), Fail(op))

CancellationRequested ==
  \E n \in Epoch :
    AppendEvent(CanRequestCancellation(op, n), RequestCancellation(op, n))

CancelDispatched ==
  \E n \in Epoch : AppendEvent(OfCancellation(op, n), DispatchCancel(op))

CancelAcknowledged ==
  \E n \in Epoch : AppendEvent(OfCancellation(op, n), AcknowledgeCancel(op))

OperationCancelled == \E n \in Epoch : AppendEvent(CanCancel(op, n), Cancel(op))

UnknownReasons == {"cancel-unproven", "start-acceptance-unknown", "liveness-unproven"}

OperationUnknown ==
  \E r \in UnknownReasons, n \in Epoch :
    AppendEvent(CanGiveUp(op, r, n), GiveUp(op))

-----------------------------------------------------------------------------
(* Cleanup of the presentation.                                            *)

PresentationCleanupStarted ==
  \E id \in CleanupId, w \in Workspace :
    AppendCleanup(CanStartCleanup(op, w), StartCleanup(op, id, w))

PresentationCleanupCompleted ==
  \E id \in CleanupId, w \in Workspace :
    AppendCleanup(CanFinishCleanup(op, id, w), FinishCleanup(op, "completed"))

PresentationCleanupUnconfirmed ==
  \E id \in CleanupId, w \in Workspace :
    AppendCleanup(CanFinishCleanup(op, id, w), FinishCleanup(op, "unconfirmed"))

-----------------------------------------------------------------------------

LogInit == op = Requested /\ stateSeq = 1

StartSteps ==
  \/ PresentationOwned
  \/ OperationStarting
  \/ WorkerLaunched
  \/ WorkerIdentified
  \/ StartDeliveryAuthorityAcquired
  \/ StartDeliveryAuthorityRevoked
  \/ StartDeliveryGenerationConfirmed
  \/ StartDeliveryEntered
  \/ StartInstructionDispatched
  \/ StartInstructionAccepted
  \/ StartInstructionAcknowledged

SettlementSteps ==
  \/ ResultAccepted
  \/ WorkerStopConfirmed
  \/ AgentSettled
  \/ OperationCompleted
  \/ OperationFailed
  \/ CancellationRequested
  \/ CancelDispatched
  \/ CancelAcknowledged
  \/ OperationCancelled
  \/ OperationUnknown

CleanupSteps ==
  \/ PresentationCleanupStarted
  \/ PresentationCleanupCompleted
  \/ PresentationCleanupUnconfirmed

LogNext == StartSteps \/ SettlementSteps \/ CleanupSteps

LogSpec == LogInit /\ [][LogNext]_logVars

-----------------------------------------------------------------------------
(* Properties.                                                             *)

\* The record always replays to an Operation of the declared shape
\* (model.ts, interface Operation).
TypeOK == op \in Operation /\ stateSeq \in Nat \ {0}

\* What each state of the start presupposes, and which worker its evidence names.
StartPresupposes ==
  /\ Starting(op) \/ op.workerLaunched => op.presentation # None
  /\ op.state = "queued" => ~op.workerLaunched
  /\ op.workerIdentity # None => op.workerLaunched
  /\ op.state = "starting" => op.startInstructionAcknowledgement = None
  /\ op.state = "cancelling" => op.cancellationEpoch > 0
  /\ \A i \in {op.startDeliveryAuthority, op.startDeliveryEntry,
               op.startInstructionDelivery, op.startInstructionAcceptance} :
       i # None => i.workerProcessInstanceId = op.workerIdentity /\ op.workerIdentity # None

\* The dispatcher and generation an instruction or a handoff names.
Names(i, dispatcher, generation) ==
  i.dispatcherId = dispatcher /\ i.deliveryGeneration = generation

\* The authority is the one the last handoff revoked, or its successor once the
\* worker answered that it had not accepted; no handoff looks further ahead
\* than the generation after the authority's.
HandoffsFollowAuthority ==
  /\ HasHandoff(op) =>
       LET last == LastHandoff(op) IN
       /\ op.startDeliveryAuthority # None
       /\ \/ Names(op.startDeliveryAuthority, last.previousDispatcherId,
                   last.previousDeliveryGeneration)
          \/ /\ last.acceptanceState = "not_accepted"
             /\ Names(op.startDeliveryAuthority, last.successorDispatcherId,
                      last.deliveryGeneration)
  /\ \A k \in DOMAIN op.startDeliveryHandoffs :
       op.startDeliveryHandoffs[k].deliveryGeneration <=
         op.startDeliveryAuthority.deliveryGeneration + 1

NoLaterThan(i, j) ==
  i # None => /\ j # None
              /\ i.deliveryGeneration <= j.deliveryGeneration
              /\ i.deliveryGeneration = j.deliveryGeneration => i = j

\* Evidence of the start delivery never overtakes the evidence it rests on: an
\* entry is of the authority's generation or an older one, a dispatch of the
\* entry's, an acceptance of a dispatched or entered instruction, and within
\* one generation all of them are the same instruction.  The acknowledged
\* instruction is the accepted one.
StartEvidenceOrdered ==
  /\ NoLaterThan(op.startDeliveryEntry, op.startDeliveryAuthority)
  /\ NoLaterThan(op.startInstructionDelivery, op.startDeliveryEntry)
  /\ NoLaterThan(op.startInstructionAcceptance, op.startDeliveryEntry)
  /\ op.startInstructionAcknowledgement # None =>
       op.startInstructionAcknowledgement = op.startInstructionAcceptance

\* Handing the delivery over moves forward: only the last handoff can be
\* waiting for its worker, no handoff names an older generation than the one
\* before it, each hands over to the generation after the one it revokes, and
\* while one is waiting the authority is still the one it revoked.
HandoffsOrdered ==
  LET h == op.startDeliveryHandoffs
      Known(k) == h[k].acceptanceState # "pending"
  IN /\ \A k \in DOMAIN h : k < Len(h) => Known(k)
     /\ \A j, k \in DOMAIN h : j < k => h[j].deliveryGeneration <= h[k].deliveryGeneration
     /\ \A k \in DOMAIN h : h[k].deliveryGeneration = h[k].previousDeliveryGeneration + 1
     /\ HandoffPending(op) =>
          /\ op.startDeliveryAuthority.dispatcherId = LastHandoff(op).previousDispatcherId
          /\ op.startDeliveryAuthority.deliveryGeneration =
               LastHandoff(op).previousDeliveryGeneration

\* A result, a settled agent run and a completion all belong to a worker that
\* acknowledged its start instruction in the pane the Operation owns; and a
\* completed Operation has its result and its worker's stop.
OutcomeJustified ==
  /\ \/ op.result # None
     \/ op.agentRunEvidence
     \/ op.state \in {"running", "completed"}
     => /\ op.startInstructionAcknowledgement # None
        /\ op.workerLaunched
        /\ op.presentation # None
        /\ op.startInstructionAcknowledgement.workerProcessInstanceId = op.workerIdentity
  /\ op.state = "completed" => op.result # None /\ op.workerStopConfirmed
  /\ op.state = "cancelled" => op.workerStopConfirmed /\ op.cancellationEpoch > 0

\* A workspace is only ever closed when it is the owned one and its worker is
\* known to have stopped, after success or confirmed cancellation.
CleanupJustified ==
  op.presentationCleanup # None =>
    /\ PresentationCleanupEligible(op)
    /\ op.presentationCleanup.workspaceId = op.presentation

\* The inductive invariant: all of the above hold together.
IInv ==
  /\ TypeOK
  /\ StartPresupposes
  /\ HandoffsFollowAuthority
  /\ StartEvidenceOrdered
  /\ HandoffsOrdered
  /\ OutcomeJustified
  /\ CleanupJustified

FinalStep ==
  Terminal(op) =>
    /\ op' = [op EXCEPT !.presentationCleanup = op'.presentationCleanup]
    /\ op.presentationCleanup # None =>
         /\ op.presentationCleanup.state = "pending"
         /\ op'.presentationCleanup =
              [op.presentationCleanup EXCEPT !.state = op'.presentationCleanup.state]
         /\ op'.presentationCleanup.state \in {"completed", "unconfirmed"}

\* A final state, and all evidence recorded with it, is final: what may still
\* change is the outcome of the workspace cleanup, once.
FinalIsFinal == [][FinalStep]_logVars

EvidenceStep ==
  /\ op.presentation # None => op'.presentation = op.presentation
  /\ op.workerIdentity # None => op'.workerIdentity = op.workerIdentity
  /\ op.result # None => op'.result = op.result
  /\ op.startInstructionAcknowledgement # None =>
       op'.startInstructionAcknowledgement = op.startInstructionAcknowledgement
  /\ op.workerStopConfirmed => op'.workerStopConfirmed
  /\ \A k \in DOMAIN op.startDeliveryHandoffs :
       /\ k \in DOMAIN op'.startDeliveryHandoffs
       /\ op.startDeliveryHandoffs[k].acceptanceState # "pending" =>
            op'.startDeliveryHandoffs[k] = op.startDeliveryHandoffs[k]
  /\ NoLaterThan(op.startDeliveryAuthority, op'.startDeliveryAuthority)

\* Recorded evidence is never rewritten: a presentation, a worker, a result or
\* an acknowledgement is recorded once, a confirmed stop is not withdrawn, a
\* confirmed handoff keeps its answer and authority never returns to an older
\* generation.
EvidenceKept == [][EvidenceStep]_logVars

CancellationStep ==
  op.state \in {"cancelling", "cancelled"} =>
    /\ op'.result = op.result
    /\ op'.state \in {"cancelling", "cancelled", "unknown"}
    /\ op'.cancellationEpoch = op.cancellationEpoch

\* Once a cancellation is requested the Operation can neither accept a result
\* nor end as completed or failed, whatever the worker still reports.
CancellationExcludesOutcome == [][CancellationStep]_logVars

\* The life cycle a caller sees is the one of OperationLifecycle.
Lifecycle ==
  INSTANCE OperationLifecycle WITH
    phase    <- IF op.state \in OpenStates THEN "open" ELSE op.state,
    accepted <- op.result # None,
    stopped  <- op.workerStopConfirmed

\* The record implements the promise made to callers: every event is a step of
\* the abstract life cycle or invisible in it.
ImplementsLifecycle == Lifecycle!LifecycleSpec

=============================================================================
