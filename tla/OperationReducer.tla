------------------------ MODULE OperationReducer ------------------------
(***************************************************************************)
(* reduceOperation, the transition function every durable record goes      *)
(* through.  An Operation is the fold of its events: the event store       *)
(* replays a record through this function before each append and refuses   *)
(* the append when the function throws a TransitionError.  An arm of its   *)
(* switch is a pair here: CanX is FALSE where the arm throws, and X is the *)
(* Operation the arm returns.                                              *)
(*                                                                         *)
(* Abstractions.  Timestamps are replaced by the fact that they are there. *)
(* A presentation is its workspace; a worker is its process instance, and  *)
(* the pane it runs in is named after the workspace.  An instruction whose *)
(* receipt digest differs from the digest of the task scope is refused by  *)
(* the code and is not enumerated here.  A Result is an acceptance that    *)
(* is consistent with the Operation's byte limit.  stateSeq is kept by the  *)
(* module that appends, since every arm adds one to it.                    *)
(***************************************************************************)
EXTENDS Naturals, Sequences

CONSTANTS
  Workspace,    \* presentations an Operation may own
  Worker,       \* worker process instances
  Dispatcher,   \* dispatcher identities, one per runtime generation
  Result,       \* contents of a consistent result acceptance
  CleanupId,    \* identities of a cleanup attempt
  None          \* the field is undefined

ASSUME NoneIsNoValue ==
  None \notin Workspace \cup Worker \cup Dispatcher \cup Result \cup CleanupId

-----------------------------------------------------------------------------
(* The durable state of one Operation.                                     *)

OpenStates     == {"queued", "starting", "running"}
TerminalStates == {"completed", "failed", "cancelled", "unknown"}
States         == OpenStates \cup {"cancelling"} \cup TerminalStates

AcceptanceStates == {"not_accepted", "accepted", "unknown"}

StartInstruction ==
  [dispatcherId : Dispatcher, workerProcessInstanceId : Worker,
   deliveryGeneration : Nat \ {0}]

\* acceptanceState is "pending" until the worker has confirmed the generation.
Handoff ==
  [previousDispatcherId : Dispatcher, previousDeliveryGeneration : Nat \ {0},
   successorDispatcherId : Dispatcher, deliveryGeneration : Nat \ {0},
   acceptanceState : AcceptanceStates \cup {"pending"}]

Cleanup ==
  [cleanupId : CleanupId, workspaceId : Workspace,
   state : {"pending", "completed", "unconfirmed"}]

ASSUME NoneIsNoRecord == None \notin StartInstruction \cup Cleanup

Operation ==
  [state                           : States,
   presentation                    : Workspace \cup {None},
   workerLaunched                  : BOOLEAN,
   workerIdentity                  : Worker \cup {None},
   startDeliveryAuthority          : StartInstruction \cup {None},
   startDeliveryEntry              : StartInstruction \cup {None},
   startInstructionDelivery        : StartInstruction \cup {None},
   startInstructionAcceptance      : StartInstruction \cup {None},
   startInstructionAcknowledgement : StartInstruction \cup {None},
   startDeliveryHandoffs           : Seq(Handoff),
   result                          : Result \cup {None},
   workerStopConfirmed             : BOOLEAN,
   agentRunEvidence                : BOOLEAN,
   cancellationEpoch               : Nat,
   presentationCleanup             : Cleanup \cup {None}]

\* The Operation an operation_requested event creates.
Requested ==
  [state                           |-> "queued",
   presentation                    |-> None,
   workerLaunched                  |-> FALSE,
   workerIdentity                  |-> None,
   startDeliveryAuthority          |-> None,
   startDeliveryEntry              |-> None,
   startInstructionDelivery        |-> None,
   startInstructionAcceptance      |-> None,
   startInstructionAcknowledgement |-> None,
   startDeliveryHandoffs           |-> <<>>,
   result                          |-> None,
   workerStopConfirmed             |-> FALSE,
   agentRunEvidence                |-> FALSE,
   cancellationEpoch               |-> 0,
   presentationCleanup             |-> None]

-----------------------------------------------------------------------------
(* Predicates the arms of the reducer share.                               *)

Terminal(o) == o.state \in TerminalStates

PresentationCleanupEligible(o) ==
  /\ o.workerStopConfirmed
  /\ \/ o.state = "completed" /\ o.result # None
     \/ o.state = "cancelled"

Starting(o) == o.state \in {"starting", "running"}

ValidStartInstructionReference(o, i) ==
  /\ o.workerIdentity # None
  /\ i.workerProcessInstanceId = o.workerIdentity
  /\ i.deliveryGeneration >= 1

HasHandoff(o)  == o.startDeliveryHandoffs # <<>>
LastHandoff(o) == o.startDeliveryHandoffs[Len(o.startDeliveryHandoffs)]

HandoffPending(o) ==
  HasHandoff(o) /\ LastHandoff(o).acceptanceState = "pending"

\* The last handoff names this dispatcher and this generation.
LastHandoffNames(o, dispatcher, generation) ==
  /\ HasHandoff(o)
  /\ LastHandoff(o).successorDispatcherId = dispatcher
  /\ LastHandoff(o).deliveryGeneration = generation

OfGeneration(i, generation) == i # None /\ i.deliveryGeneration = generation

-----------------------------------------------------------------------------
(* What each event requires of the Operation it is appended to.            *)

CanOwnPresentation(o) == o.state = "queued" /\ o.presentation = None

CanStart(o) == o.state = "queued" /\ o.presentation # None

CanLaunchWorker(o) == o.state = "starting" /\ ~o.workerLaunched

\* Mutant: a second identity replaces the recorded one.
CanIdentifyWorkerAgain(o, pane) ==
  /\ Starting(o)
  /\ o.workerLaunched
  /\ o.presentation # None
  /\ pane = o.presentation

CanIdentifyWorker(o, pane) ==
  /\ Starting(o)
  /\ o.workerLaunched
  /\ o.workerIdentity = None
  /\ o.presentation # None
  /\ pane = o.presentation

\* Mutant: takes the delivery over before the worker has answered.
CanAcquireAuthorityUnanswered(o, i) ==
  /\ Starting(o)
  /\ o.workerLaunched
  /\ o.startDeliveryAuthority # None =>
       LastHandoffNames(o, i.dispatcherId, i.deliveryGeneration)
  /\ ValidStartInstructionReference(o, i)

CanAcquireAuthority(o, i) ==
  /\ Starting(o)
  /\ o.workerLaunched
  /\ o.startDeliveryAuthority # None =>
       /\ LastHandoffNames(o, i.dispatcherId, i.deliveryGeneration)
       /\ LastHandoff(o).acceptanceState = "not_accepted"
  /\ ValidStartInstructionReference(o, i)

ResumesHandoff(o, successor, generation) ==
  HandoffPending(o) /\ LastHandoffNames(o, successor, generation)

\* Mutant: revokes although the previous handoff is still waiting.
CanRevokeAuthorityTwice(o, successor, generation) ==
  /\ Starting(o)
  /\ o.startDeliveryAuthority # None
  /\ successor # o.startDeliveryAuthority.dispatcherId
  /\ generation = o.startDeliveryAuthority.deliveryGeneration + 1

CanRevokeAuthority(o, successor, generation) ==
  /\ Starting(o)
  /\ o.startDeliveryAuthority # None
  /\ successor # o.startDeliveryAuthority.dispatcherId
  /\ generation = o.startDeliveryAuthority.deliveryGeneration + 1
  /\ HandoffPending(o) => ResumesHandoff(o, successor, generation)

CanConfirmGeneration(o, dispatcher, generation, acceptanceState, acceptedInstruction) ==
  /\ Starting(o)
  /\ HandoffPending(o)
  /\ LastHandoffNames(o, dispatcher, generation)
  /\ acceptanceState = "accepted" <=> acceptedInstruction # None
  /\ acceptedInstruction # None =>
       ValidStartInstructionReference(o, acceptedInstruction)

\* Mutant: enters an instruction without asking whose authority it is.
CanEnterDeliveryOfAnyone(o, i) ==
  /\ o.state = "starting"
  /\ o.startDeliveryAuthority # None
  /\ ~OfGeneration(o.startDeliveryEntry, i.deliveryGeneration)

CanEnterDelivery(o, i) ==
  /\ o.state = "starting"
  /\ o.startDeliveryAuthority # None
  /\ o.startDeliveryAuthority = i
  /\ ~OfGeneration(o.startDeliveryEntry, i.deliveryGeneration)

CanDispatchStart(o, i) ==
  /\ o.state = "starting"
  /\ o.startDeliveryEntry # None
  /\ o.startDeliveryEntry = i
  /\ ~OfGeneration(o.startInstructionDelivery, i.deliveryGeneration)

\* current.startInstructionDelivery ?? current.startDeliveryEntry
DeliveredInstruction(o) ==
  IF o.startInstructionDelivery # None
    THEN o.startInstructionDelivery
    ELSE o.startDeliveryEntry

CanAcceptStart(o, i) ==
  /\ o.state = "starting"
  /\ DeliveredInstruction(o) # None
  /\ DeliveredInstruction(o) = i
  /\ ~OfGeneration(o.startInstructionAcceptance, i.deliveryGeneration)

CanAcknowledgeStart(o, i) ==
  /\ o.state = "starting"
  /\ o.startInstructionAcceptance # None
  /\ o.startInstructionAcceptance = i
  /\ ~OfGeneration(o.startInstructionAcknowledgement, i.deliveryGeneration)

CanAcceptResult(o) == o.state = "running" /\ o.result = None

CanConfirmWorkerStop(o) ==
  o.workerLaunched /\ Starting(o) /\ ~o.workerStopConfirmed

CanSettleAgent(o) == o.state = "running" /\ ~o.agentRunEvidence

\* Mutant: completes while the worker may still run.
CanCompleteBeforeStop(o) == o.state = "running" /\ o.result # None

CanComplete(o) ==
  o.state = "running" /\ o.result # None /\ o.workerStopConfirmed

CanFail(o) == Starting(o)

CanRequestCancellation(o, epoch) ==
  o.state \in OpenStates /\ epoch > o.cancellationEpoch

OfCancellation(o, epoch) ==
  o.state = "cancelling" /\ epoch = o.cancellationEpoch

\* Mutant: confirms a cancellation without the worker's stop.
CanCancelBeforeStop(o, epoch) == OfCancellation(o, epoch)

CanCancel(o, epoch) == OfCancellation(o, epoch) /\ o.workerStopConfirmed

CanGiveUp(o, reason, epoch) ==
  IF reason = "cancel-unproven"
    THEN OfCancellation(o, epoch)
    ELSE o.state \in OpenStates

CanStartCleanup(o, workspace) ==
  /\ PresentationCleanupEligible(o)
  /\ o.presentation # None
  /\ o.presentation = workspace
  /\ o.presentationCleanup = None

\* Mutant: finishes a cleanup whose outcome is recorded.
CanFinishCleanupAgain(o, id, workspace) ==
  /\ PresentationCleanupEligible(o)
  /\ o.presentationCleanup # None
  /\ o.presentationCleanup.cleanupId = id
  /\ o.presentationCleanup.workspaceId = workspace

CanFinishCleanup(o, id, workspace) ==
  /\ PresentationCleanupEligible(o)
  /\ o.presentationCleanup # None
  /\ o.presentationCleanup.state = "pending"
  /\ o.presentationCleanup.cleanupId = id
  /\ o.presentationCleanup.workspaceId = workspace

-----------------------------------------------------------------------------
(* The Operation each event leaves behind.                                 *)

OwnPresentation(o, workspace) ==
  [o EXCEPT !.presentation = workspace]

Start(o) == [o EXCEPT !.state = "starting"]

LaunchWorker(o) == [o EXCEPT !.workerLaunched = TRUE]

IdentifyWorker(o, worker) ==
  [o EXCEPT !.workerIdentity = worker]

AcquireAuthority(o, i) ==
  [o EXCEPT !.startDeliveryAuthority = i]

\* A revocation that resumes a pending handoff records nothing new.
AppendHandoff(o, successor, generation) ==
  IF ResumesHandoff(o, successor, generation)
    THEN o.startDeliveryHandoffs
    ELSE Append(o.startDeliveryHandoffs,
           [previousDispatcherId       |-> o.startDeliveryAuthority.dispatcherId,
            previousDeliveryGeneration |-> o.startDeliveryAuthority.deliveryGeneration,
            successorDispatcherId      |-> successor,
            deliveryGeneration         |-> generation,
            acceptanceState            |-> "pending"])

RevokeAuthority(o, successor, generation) ==
  [o EXCEPT !.startDeliveryHandoffs = AppendHandoff(o, successor, generation)]

AnswerLastHandoff(o, acceptanceState) ==
  [o.startDeliveryHandoffs EXCEPT ![Len(o.startDeliveryHandoffs)] =
     [@ EXCEPT !.acceptanceState = acceptanceState]]

ConfirmGeneration(o, acceptanceState) ==
  [o EXCEPT !.startDeliveryHandoffs = AnswerLastHandoff(o, acceptanceState)]

EnterDelivery(o, i) == [o EXCEPT !.startDeliveryEntry = i]

DispatchStart(o, i) == [o EXCEPT !.startInstructionDelivery = i]

AcceptStart(o, i) == [o EXCEPT !.startInstructionAcceptance = i]

AcknowledgeStart(o, i) ==
  [o EXCEPT !.startInstructionAcknowledgement = i, !.state = "running"]

AcceptResult(o, result) == [o EXCEPT !.result = result]

ConfirmWorkerStop(o) == [o EXCEPT !.workerStopConfirmed = TRUE]

SettleAgent(o) == [o EXCEPT !.agentRunEvidence = TRUE]

Complete(o) == [o EXCEPT !.state = "completed"]

Fail(o) == [o EXCEPT !.state = "failed"]

RequestCancellation(o, epoch) ==
  [o EXCEPT !.state = "cancelling", !.cancellationEpoch = epoch]

DispatchCancel(o) == o

AcknowledgeCancel(o) == [o EXCEPT !.workerStopConfirmed = TRUE]

Cancel(o) == [o EXCEPT !.state = "cancelled"]

GiveUp(o) == [o EXCEPT !.state = "unknown"]

StartCleanup(o, id, workspace) ==
  [o EXCEPT !.presentationCleanup =
              [cleanupId |-> id, workspaceId |-> workspace, state |-> "pending"]]

FinishCleanup(o, outcome) ==
  [o EXCEPT !.presentationCleanup = [@ EXCEPT !.state = outcome]]

=============================================================================
