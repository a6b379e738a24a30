---------------------- MODULE OperationReducerProofs ----------------------
(* Lemmas about the arms of the reducer, for every value of its constants: *)
(* the record, the event store and others rest on them.                    *)
EXTENDS OperationReducer, SequenceTheorems, TLAPS

-----------------------------------------------------------------------------
(* Each arm of the reducer returns a well-formed Operation.                *)

LEMMA RequestedTyped == Requested \in Operation
  BY SMT DEF Requested, Operation, States, OpenStates

LEMMA WithState ==
  ASSUME NEW o \in Operation, NEW s \in States
  PROVE  [o EXCEPT !.state = s] \in Operation
  BY SMT DEF Operation

LEMMA WithAcknowledgement ==
  ASSUME NEW o \in Operation, NEW i \in StartInstruction
  PROVE  [o EXCEPT !.startInstructionAcknowledgement = i] \in Operation
  BY SMT DEF Operation

LEMMA WithEpoch ==
  ASSUME NEW o \in Operation, NEW n \in Nat
  PROVE  [o EXCEPT !.cancellationEpoch = n] \in Operation
  BY SMT DEF Operation

LEMMA StateArmsTyped ==
  ASSUME NEW o \in Operation
  PROVE  /\ Start(o) \in Operation
         /\ Complete(o) \in Operation
         /\ Fail(o) \in Operation
         /\ Cancel(o) \in Operation
         /\ GiveUp(o) \in Operation
  BY WithState
  DEF Start, Complete, Fail, Cancel, GiveUp, States, OpenStates, TerminalStates

LEMMA FlagArmsTyped ==
  ASSUME NEW o \in Operation
  PROVE  /\ LaunchWorker(o) \in Operation
         /\ ConfirmWorkerStop(o) \in Operation
         /\ AcknowledgeCancel(o) \in Operation
         /\ SettleAgent(o) \in Operation
         /\ DispatchCancel(o) \in Operation
<1>1. LaunchWorker(o) \in Operation
  BY Zenon DEF LaunchWorker, Operation
<1>2. ConfirmWorkerStop(o) \in Operation
  BY Zenon DEF ConfirmWorkerStop, Operation
<1>3. SettleAgent(o) \in Operation
  BY Zenon DEF SettleAgent, Operation
<1> QED
  BY <1>1, <1>2, <1>3 DEF DispatchCancel, ConfirmWorkerStop, AcknowledgeCancel

LEMMA ValueArmsTyped ==
  ASSUME NEW o \in Operation
  PROVE  /\ \A w \in Workspace : OwnPresentation(o, w) \in Operation
         /\ \A w \in Worker : IdentifyWorker(o, w) \in Operation
         /\ \A r \in Result : AcceptResult(o, r) \in Operation
<1>1. ASSUME NEW w \in Workspace PROVE OwnPresentation(o, w) \in Operation
  BY SMT DEF OwnPresentation, Operation
<1>2. ASSUME NEW w \in Worker PROVE IdentifyWorker(o, w) \in Operation
  BY SMT DEF IdentifyWorker, Operation
<1>3. ASSUME NEW r \in Result PROVE AcceptResult(o, r) \in Operation
  BY SMT DEF AcceptResult, Operation
<1> QED
  BY <1>1, <1>2, <1>3

LEMMA InstructionArmsTyped ==
  ASSUME NEW o \in Operation, NEW i \in StartInstruction
  PROVE  /\ AcquireAuthority(o, i) \in Operation
         /\ EnterDelivery(o, i) \in Operation
         /\ DispatchStart(o, i) \in Operation
         /\ AcceptStart(o, i) \in Operation
         /\ AcknowledgeStart(o, i) \in Operation
<1>1. AcquireAuthority(o, i) \in Operation
  BY SMT DEF AcquireAuthority, Operation
<1>2. EnterDelivery(o, i) \in Operation
  BY SMT DEF EnterDelivery, Operation
<1>3. DispatchStart(o, i) \in Operation
  BY SMT DEF DispatchStart, Operation
<1>4. AcceptStart(o, i) \in Operation
  BY SMT DEF AcceptStart, Operation
<1>5. AcknowledgeStart(o, i) \in Operation
  <2> DEFINE p == [o EXCEPT !.startInstructionAcknowledgement = i]
  <2>1. AcknowledgeStart(o, i) = [p EXCEPT !.state = "running"]
    BY SMT DEF AcknowledgeStart, Operation
  <2>2. p \in Operation
    BY WithAcknowledgement
  <2>3. "running" \in States
    BY DEF States, OpenStates
  <2> HIDE DEF p
  <2> QED
    BY <2>1, <2>2, <2>3, WithState
<1> QED
  BY <1>1, <1>2, <1>3, <1>4, <1>5

LEMMA RequestCancellationTyped ==
  ASSUME NEW o \in Operation, NEW n \in Nat
  PROVE  RequestCancellation(o, n) \in Operation
<1> DEFINE p == [o EXCEPT !.state = "cancelling"]
<1>1. RequestCancellation(o, n) = [p EXCEPT !.cancellationEpoch = n]
  BY SMT DEF RequestCancellation, Operation
<1>2. p \in Operation
  BY WithState DEF States
<1> HIDE DEF p
<1> QED
  BY <1>1, <1>2, WithEpoch

\* Arms other than that of result_accepted leave the result alone.
LEMMA OtherFieldsKeepResult ==
  ASSUME NEW o \in Operation, NEW field, field # "result", NEW v
  PROVE  [o EXCEPT ![field] = v].result = o.result
  BY SMT DEF Operation

LEMMA ArmsKeepResult ==
  ASSUME NEW o \in Operation
  PROVE  /\ Start(o).result = o.result
         /\ LaunchWorker(o).result = o.result
         /\ ConfirmWorkerStop(o).result = o.result
         /\ SettleAgent(o).result = o.result
         /\ \A i \in StartInstruction : AcknowledgeStart(o, i).result = o.result
<1>1. Start(o).result = o.result
  BY OtherFieldsKeepResult DEF Start
<1>2. LaunchWorker(o).result = o.result
  BY OtherFieldsKeepResult DEF LaunchWorker
<1>3. ConfirmWorkerStop(o).result = o.result
  BY OtherFieldsKeepResult DEF ConfirmWorkerStop
<1>4. SettleAgent(o).result = o.result
  BY OtherFieldsKeepResult DEF SettleAgent
<1>5. ASSUME NEW i \in StartInstruction PROVE AcknowledgeStart(o, i).result = o.result
  <2> DEFINE p == [o EXCEPT !.startInstructionAcknowledgement = i]
  <2>1. AcknowledgeStart(o, i) = [p EXCEPT !.state = "running"]
    BY SMT DEF AcknowledgeStart, Operation
  <2>2. p \in Operation /\ p.result = o.result
    BY WithAcknowledgement, OtherFieldsKeepResult
  <2> HIDE DEF p
  <2> QED
    BY <2>1, <2>2, OtherFieldsKeepResult
<1> QED
  BY <1>1, <1>2, <1>3, <1>4, <1>5

LEMMA CleanupArmsTyped ==
  ASSUME NEW o \in Operation
  PROVE  /\ \A id \in CleanupId, w \in Workspace : StartCleanup(o, id, w) \in Operation
         /\ o.presentationCleanup # None =>
              \A s \in {"completed", "unconfirmed"} : FinishCleanup(o, s) \in Operation
<1>1. ASSUME NEW id \in CleanupId, NEW w \in Workspace
      PROVE  StartCleanup(o, id, w) \in Operation
  <2>1. [cleanupId |-> id, workspaceId |-> w, state |-> "pending"] \in Cleanup
    BY DEF Cleanup
  <2> QED
    BY <2>1, SMT DEF StartCleanup, Operation
<1>2. ASSUME o.presentationCleanup # None, NEW s \in {"completed", "unconfirmed"}
      PROVE  FinishCleanup(o, s) \in Operation
  <2>1. o.presentationCleanup \in Cleanup
    BY <1>2, SMT DEF Operation
  <2>2. [o.presentationCleanup EXCEPT !.state = s] \in Cleanup
    BY <2>1, SMT DEF Cleanup
  <2> QED
    BY <2>2, SMT DEF FinishCleanup, Operation
<1> QED
  BY <1>1, <1>2

\* Appending or answering a handoff keeps the earlier ones as they were.
LEMMA AnswerKeepsHandoffs ==
  ASSUME NEW o \in Operation, HasHandoff(o), NEW s \in AcceptanceStates
  PROVE  LET h == o.startDeliveryHandoffs
             n == AnswerLastHandoff(o, s)
         IN /\ n \in Seq(Handoff)
            /\ Len(n) = Len(h) /\ Len(h) \in Nat \ {0}
            /\ \A k \in 1..Len(h) : k # Len(h) => n[k] = h[k]
            /\ n[Len(h)] = [h[Len(h)] EXCEPT !.acceptanceState = s]
            /\ h[Len(h)] \in Handoff
<1> DEFINE h == o.startDeliveryHandoffs
<1>1. h \in Seq(Handoff) /\ h # <<>>
  BY SMT DEF HasHandoff, Operation
<1>2. Len(h) \in 1..Len(h) /\ Len(h) \in Nat \ {0}
  BY <1>1, SMT
<1>3. h[Len(h)] \in Handoff
  BY <1>1, <1>2, SMT
<1>4. [h[Len(h)] EXCEPT !.acceptanceState = s] \in Handoff
  BY <1>3, SMT DEF Handoff
<1> QED
  BY <1>1, <1>2, <1>3, <1>4, ExceptSeq DEF AnswerLastHandoff

LEMMA ConfirmGenerationTyped ==
  ASSUME NEW o \in Operation, HasHandoff(o), NEW s \in AcceptanceStates
  PROVE  ConfirmGeneration(o, s) \in Operation
<1>1. AnswerLastHandoff(o, s) \in Seq(Handoff)
  BY AnswerKeepsHandoffs
<1> QED
  BY <1>1, SMT DEF ConfirmGeneration, Operation

LEMMA AppendKeepsHandoffs ==
  ASSUME NEW o \in Operation, NEW d \in Dispatcher, NEW g \in Nat \ {0},
         o.startDeliveryAuthority \in StartInstruction,
         ~ResumesHandoff(o, d, g)
  PROVE  LET h == o.startDeliveryHandoffs
             n == AppendHandoff(o, d, g)
         IN /\ h \in Seq(Handoff) /\ Len(h) \in Nat
            /\ n \in Seq(Handoff)
            /\ Len(n) = Len(h) + 1
            /\ \A k \in 1..Len(h) : n[k] = h[k]
            /\ n[Len(h) + 1] =
                 [previousDispatcherId       |-> o.startDeliveryAuthority.dispatcherId,
                  previousDeliveryGeneration |-> o.startDeliveryAuthority.deliveryGeneration,
                  successorDispatcherId      |-> d,
                  deliveryGeneration         |-> g,
                  acceptanceState            |-> "pending"]
<1> DEFINE h == o.startDeliveryHandoffs
           new == [previousDispatcherId       |-> o.startDeliveryAuthority.dispatcherId,
                   previousDeliveryGeneration |-> o.startDeliveryAuthority.deliveryGeneration,
                   successorDispatcherId      |-> d,
                   deliveryGeneration         |-> g,
                   acceptanceState            |-> "pending"]
<1>1. h \in Seq(Handoff) /\ Len(h) \in Nat
  BY SMT DEF Operation
<1>2. new \in Handoff
  BY SMT DEF Handoff, StartInstruction
<1>3. AppendHandoff(o, d, g) = Append(h, new)
  BY DEF AppendHandoff
<1> HIDE DEF new
<1>4. /\ Append(h, new) \in Seq(Handoff)
      /\ Len(Append(h, new)) = Len(h) + 1
      /\ \A k \in 1..Len(h) : Append(h, new)[k] = h[k]
      /\ Append(h, new)[Len(h) + 1] = new
  BY <1>1, <1>2, AppendProperties
<1> QED
  BY <1>1, <1>3, <1>4 DEF new

LEMMA RevokeAuthorityTyped ==
  ASSUME NEW o \in Operation, NEW d \in Dispatcher, NEW g \in Nat \ {0},
         o.startDeliveryAuthority \in StartInstruction
  PROVE  RevokeAuthority(o, d, g) \in Operation
<1>1. AppendHandoff(o, d, g) \in Seq(Handoff)
  <2>1. CASE ResumesHandoff(o, d, g)
    BY <2>1, SMT DEF AppendHandoff, Operation
  <2>2. CASE ~ResumesHandoff(o, d, g)
    BY <2>2, AppendKeepsHandoffs
  <2> QED
    BY <2>1, <2>2
<1> QED
  BY <1>1, SMT DEF RevokeAuthority, Operation

=============================================================================
