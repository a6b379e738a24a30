---------------------------- MODULE Runtime ----------------------------
(***************************************************************************)
(* makeRuntime for one Operation: its execution, a caller's cancellation,  *)
(* and the recovery that picks up what an earlier Runtime, or a failed     *)
(* function of this one, has left undone.                                  *)
(*                                                                         *)
(* A caller cancels at most once while a Runtime lives: a second call with *)
(* the same options is given the promise of the first.                     *)
(***************************************************************************)
EXTENDS WorkerRun

-----------------------------------------------------------------------------
(* Steps that several functions share.                                     *)

Epoch(t) == seen[t].cancellationEpoch

OperationCompleted(t) ==
  /\ at[t] = "complete"
  /\ Write(t, CanComplete(op), Complete(op), SettlePlace(t, Complete(op)))
  /\ Records

OperationUnknown(t) ==
  LET reason == IF seen[t].state = "cancelling" THEN "cancel-unproven"
                                                ELSE "liveness-unproven"
  IN
  /\ at[t] = "giveUp"
  /\ Write(t, CanGiveUp(op, reason, Epoch(t)), GiveUp(op),
           SettlePlace(t, GiveUp(op)))
  /\ Records

\* The stop is asked for as soon as it is on record.
CancelDispatched(t) ==
  /\ at[t] = "dispatchCancel"
  /\ Write(t, OfCancellation(op, Epoch(t)), DispatchCancel(op), "awaitStop")
  /\ memory' = IF at'[t] = "awaitStop"
                 THEN [memory EXCEPT !.requested = @ \/ memory.worker]
                 ELSE memory
  /\ UNCHANGED <<run, reply, world, crashes>>

\* The worker's stop is proved, or is not proved in time.
AwaitStop(t) ==
  /\ at[t] = "awaitStop"
  /\ \/ /\ memory.worker
        /\ StopProcess(TRUE)
        /\ memory' = [memory EXCEPT !.cancelEvidence = TRUE]
        /\ Goto(t, "acknowledgeCancel")
     \/ /\ Goto(t, "giveUp")
        /\ UNCHANGED <<memory, process>>
  /\ UNCHANGED <<op, seen, run, answer, sent, began, workspace, faults, rest>>

CancelAcknowledged(t) ==
  /\ at[t] = "acknowledgeCancel"
  /\ Write(t, OfCancellation(op, Epoch(t)), AcknowledgeCancel(op), "confirmCancel")
  /\ Records

OperationCancelled(t) ==
  /\ at[t] = "confirmCancel"
  /\ Write(t, CanCancel(op, Epoch(t)), Cancel(op), SettlePlace(t, Cancel(op)))
  /\ Records

CancellationStep(t) ==
  \/ CancelDispatched(t)
  \/ AwaitStop(t)
  \/ CancelAcknowledged(t)
  \/ OperationCancelled(t)

-----------------------------------------------------------------------------
(* cancel.                                                                 *)

\* The call, up to what it finds on record; only the epoch matters of that.
CallCancel ==
  /\ at["cancel"] = "idle"
  /\ memory.handle
  /\ reply = "none"
  /\ reply' = "pending"
  /\ \/ /\ seen' = [seen EXCEPT !["cancel"] =
                      [Requested EXCEPT !.cancellationEpoch = op.cancellationEpoch]]
        /\ Goto("cancel", "request")
        /\ UNCHANGED <<answer, faults>>
     \/ Fault /\ Throw("cancel")
  /\ UNCHANGED <<op, memory, run, world, crashes>>

CancellationRequested ==
  LET epoch == Epoch("cancel") + 1 IN
  /\ at["cancel"] = "request"
  /\ Write("cancel", CanRequestCancellation(op, epoch), RequestCancellation(op, epoch),
           "dispatchCancel")
  /\ Records

\* Mutants: one of the two is forgotten.
FinalIsLeftToRecovery(o)      == Terminal(o)
CancellingIsLeftToRecovery(o) == o.state = "cancelling"

\* An Operation left without a decision, or final, is left to a recovery.
LeftToRecovery(o) == o.state = "cancelling" \/ Terminal(o)

CancelCaught ==
  /\ at["cancel"] = "caught"
  /\ \/ /\ memory' = IF LeftToRecovery(op) THEN Deferred(memory) ELSE memory
        /\ UNCHANGED faults
     \/ Fault /\ UNCHANGED memory
  /\ reply' = "error"
  /\ seen' = [seen EXCEPT !["cancel"] = None]
  /\ Goto("cancel", "idle")
  /\ UNCHANGED <<op, run, answer, world, crashes>>

-----------------------------------------------------------------------------
(* recover: first the Operations without an end, then the workspaces that  *)
(* are still to be closed.                                                 *)

\* listRecoverableOperations, and the records of this Runtime that ask for it.
Recoverable == op # None /\ (~Terminal(op) \/ memory.recoverable)

RecoveryDue == ~memory.workersRecovered \/ ~memory.cleanupsRecovered

Recover ==
  /\ at["recoverWorkers"] = "idle"
  /\ RecoveryDue
  /\ IF memory.workersRecovered
       THEN Goto("recoverWorkers", "cleanups") /\ UNCHANGED <<seen, memory, faults>>
       ELSE \/ /\ Recoverable
               /\ memory' = [memory EXCEPT !.workersRecovered = TRUE]
               /\ seen' = [seen EXCEPT !["recoverWorkers"] = op]
               /\ Goto("recoverWorkers", "recover")
               /\ UNCHANGED faults
            \/ /\ ~Recoverable
               /\ memory' = [memory EXCEPT !.workersRecovered = TRUE]
               /\ Goto("recoverWorkers", AfterWorkers)
               /\ UNCHANGED <<seen, faults>>
            \/ Fault /\ UNCHANGED <<at, seen, memory>>
  /\ UNCHANGED <<op, run, answer, reply, world, crashes>>

\* Mutant: takes up an Operation that is being executed.
NeverBusy(m) == FALSE

\* An Operation that a function of this Runtime still works on is left alone.
Busy(m) == m.record /\ ~m.recoverable

\* The worker may only be asked to come back when the record tells who it is.
Rejoinable(o) == o.workerIdentity # None /\ o.startDeliveryAuthority # None

Retained(o) == o.state = "cancelling" /\ memory.worker

TakenUp(o) ==
  [memory EXCEPT !.record = TRUE, !.handle = @ \/ ~Terminal(o), !.recoverable = FALSE]

Recovering == [FreshRun EXCEPT !.recovering = TRUE]

\* The place where the recovery itself goes on with an Operation.
SettlingPlace(o) ==
  IF Terminal(o) THEN SettlePlace("recoverWorkers", o)
  ELSE IF o.state = "cancelling" /\ o.workerStopConfirmed THEN "confirmCancel"
  ELSE IF o.state = "running" /\ o.result # None /\ o.workerStopConfirmed THEN "complete"
  ELSE IF o.state # "cancelling" /\ memory.observedOutcome # NoOutcome THEN "reexecute"
  ELSE IF ~Retained(o) /\ ~Rejoinable(o) THEN "giveUp"
  ELSE "rejoin"

\* recoverWorkers is done with the Operation, and t goes on with it.
HandsOver(t, place) ==
  /\ at' = [at EXCEPT !["recoverWorkers"] = AfterWorkers, ![t] = place]
  /\ seen' = [seen EXCEPT !["recoverWorkers"] = None]

LeaveAlone ==
  /\ Busy(memory)
  /\ HandsOver("execute", at["execute"])
  /\ UNCHANGED <<memory, run, process>>

SettleItself(o) ==
  /\ SettlingPlace(o) \notin {"reexecute", "rejoin"}
  /\ memory' = TakenUp(o)
  /\ Goto("recoverWorkers", SettlingPlace(o))
  /\ UNCHANGED <<seen, run, process>>

Reexecute(o) ==
  /\ SettlingPlace(o) = "reexecute"
  /\ at["execute"] = "idle"
  /\ memory' = TakenUp(o)
  /\ run' = Recovering
  /\ HandsOver("execute", "observed")
  /\ UNCHANGED process

\* A recovered worker is a new object on the worker of the record; what was
\* sent to it can be told from the record.
RecoveredWorker(o) ==
  [TakenUp(o) EXCEPT !.worker = TRUE, !.known = TRUE, !.requested = FALSE]

RejoinWorker(o) ==
  /\ SettlingPlace(o) = "rejoin"
  /\ o.state # "cancelling"
  /\ at["execute"] = "idle"
  /\ memory' = RecoveredWorker(o)
  /\ run' = [Recovering EXCEPT
               !.restored = IF o.startInstructionDelivery # None
                              THEN o.startInstructionDelivery
                              ELSE o.startDeliveryAuthority]
  /\ HandsOver("execute", "rejoin")
  /\ UNCHANGED process

\* What recovery listed is stale: the Operation was decided, or is being
\* cancelled, while its first run winds up.  The store refuses every hook of the
\* second run, and settleObserved leaves such an Operation to others; what
\* remains is that the run may stop the worker.
SecondRun(o) ==
  LET rejoins == SettlingPlace(o) = "rejoin" IN
  /\ SettlingPlace(o) = "reexecute" \/ (rejoins /\ o.state # "cancelling")
  /\ at["execute"] # "idle"
  /\ memory' = IF rejoins THEN RecoveredWorker(o) ELSE TakenUp(o)
  /\ process' \in {process} \cup (IF rejoins THEN {"stopped"} ELSE {})
  /\ HandsOver("execute", at["execute"])
  /\ UNCHANGED run

RecoverCancellation(o, t) ==
  /\ SettlingPlace(o) = "rejoin"
  /\ o.state = "cancelling"
  /\ at[t] = "idle"
  /\ memory' = IF Retained(o) THEN TakenUp(o) ELSE RecoveredWorker(o)
  /\ at' = [at EXCEPT !["recoverWorkers"] = AfterWorkers,
                      ![t] = IF memory.cancelEvidence THEN "acknowledgeCancel"
                                                      ELSE "dispatchCancel"]
  /\ seen' = [seen EXCEPT !["recoverWorkers"] = None, ![t] = o]
  /\ UNCHANGED <<run, process>>

RecoverOperation ==
  LET o == seen["recoverWorkers"] IN
  /\ at["recoverWorkers"] = "recover"
  /\ \/ LeaveAlone
     \/ /\ ~Busy(memory)
        /\ \/ SettleItself(o)
           \/ Reexecute(o)
           \/ RejoinWorker(o)
           \/ SecondRun(o)
           \/ \E t \in CancellationRecovery : RecoverCancellation(o, t)
  /\ UNCHANGED <<op, answer, reply, sent, began, workspace, faults, crashes>>

RecoverWorkersCaught ==
  /\ at["recoverWorkers"] = "caught"
  /\ memory' = [memory EXCEPT !.recoverable = TRUE, !.workersRecovered = FALSE]
  /\ seen' = [seen EXCEPT !["recoverWorkers"] = None]
  /\ Goto("recoverWorkers", "idle")
  /\ UNCHANGED <<op, run, answer, reply, world, faults, crashes>>

RecoverCancellationCaught(t) ==
  /\ at[t] = "caught"
  /\ answer' = Answered("error")
  /\ memory' = Deferred(memory)
  /\ seen' = [seen EXCEPT ![t] = None]
  /\ Goto(t, "idle")
  /\ UNCHANGED <<op, run, reply, world, faults, crashes>>

\* listPendingPresentationCleanups.
CleanupListed ==
  /\ op # None
  /\ op.presentation # None
  /\ \/ op.presentationCleanup # None /\ op.presentationCleanup.state = "pending"
     \/ op.presentationCleanup = None /\ PresentationCleanupEligible(op)

RecoverCleanups ==
  /\ at["recoverWorkers"] = "cleanups"
  /\ LET cleans == CleanupListed /\ ~Busy(memory) IN
     \/ /\ cleans
        /\ memory' = [memory EXCEPT !.cleanupsRecovered = TRUE]
        /\ seen' = [seen EXCEPT !["recoverCleanups"] = op]
        /\ at' = [at EXCEPT !["recoverWorkers"] = "cleaning",
                            !["recoverCleanups"] = SettlePlace("recoverCleanups", op)]
        /\ UNCHANGED faults
     \/ /\ ~cleans
        /\ memory' = [memory EXCEPT !.cleanupsRecovered = TRUE]
        /\ Goto("recoverWorkers", "idle")
        /\ UNCHANGED <<seen, faults>>
     \/ /\ Fault
        /\ Goto("recoverWorkers", "idle")
        /\ UNCHANGED <<seen, memory>>
  /\ UNCHANGED <<op, run, answer, reply, world, crashes>>

CleanupsRecovered ==
  /\ at["recoverCleanups"] \in {"cleaned", "caught"}
  /\ memory' = IF at["recoverCleanups"] = "caught" THEN Deferred(memory) ELSE memory
  /\ seen' = [seen EXCEPT !["recoverCleanups"] = None]
  /\ at' = [at EXCEPT !["recoverCleanups"] = "idle", !["recoverWorkers"] = "idle"]
  /\ UNCHANGED <<op, run, answer, reply, world, faults, crashes>>

-----------------------------------------------------------------------------
(* What happens around the Runtime.                                        *)

\* A failed call of another Operation makes a recovery due for all of them.
AnotherDefersRecovery ==
  /\ Fault
  /\ memory' = [memory EXCEPT !.workersRecovered = FALSE]
  /\ UNCHANGED <<op, at, seen, run, answer, reply, world, crashes>>

\* A worker that dies of its own accord counts as a failure.
ProcessExits ==
  /\ Fault
  /\ process = "running"
  /\ process' = "stopped"
  /\ UNCHANGED <<op, at, seen, memory, run, answer, reply, sent, began, workspace, crashes>>

Nowhere == [t \in Thread |-> "idle"]
Nothing == [t \in Thread |-> None]

\* The Runtime's process dies and another one takes its place.
Crash ==
  /\ crashes > 0
  /\ crashes' = crashes - 1
  /\ at' = Nowhere
  /\ seen' = Nothing
  /\ memory' = FreshMemory
  /\ run' = FreshRun
  /\ answer' = "pending"
  /\ reply' = "none"
  /\ UNCHANGED <<op, world, faults>>

-----------------------------------------------------------------------------

Init ==
  /\ op = None
  /\ at = Nowhere
  /\ seen = Nothing
  /\ memory = [FreshMemory EXCEPT !.workersRecovered = TRUE, !.cleanupsRecovered = TRUE]
  /\ run = FreshRun
  /\ answer = "pending"
  /\ reply = "none"
  /\ process = "absent"
  /\ sent = None
  /\ began = None
  /\ workspace = "absent"
  /\ faults \in 0..MaxFaults
  /\ crashes \in 0..MaxCrashes
  /\ faults + crashes = MaxTroubles

\* The steps of execute that only the Runtime and its store take part in, or
\* that a deadline ends.
ExecuteStep ==
  \/ CreatePresentation \/ OwnCreatedPresentation
  \/ OperationStarting \/ StartWorker \/ WorkerLaunched
  \/ WaitForIdentification \/ WorkerIdentified \/ StartDeliveryAuthorityAcquired
  \/ Rejoin \/ Succeed \/ StartDeliveryAuthorityRevoked
  \/ StartDeliveryGenerationConfirmed \/ StartAcceptanceUnknown
  \/ CollectAcceptance \/ CollectAcknowledgement \/ ReacquireAuthority
  \/ CheckCancellation \/ StartDeliveryEntered \/ DispatchBegin
  \/ StartInstructionDispatched \/ StartInstructionAccepted \/ StartInstructionAcknowledged
  \/ OfferResult \/ ConfirmSuccessfulExit
  \/ StopUncertain \/ StopSession
  \/ ConfirmObservedExit \/ WorkerStopConfirmed \/ JudgeObserved
  \/ AgentSettled \/ OperationFailed \/ LivenessUnproven
  \/ OperationCompleted("execute") \/ SettlementStep("execute") \/ ExecuteCaught

\* The steps of execute that wait for the worker.
WorkerStep ==
  \/ RequestDeliveryGenerationUpdate
  \/ AwaitAcceptance \/ AwaitAcknowledgement \/ AwaitResult

CancelStep ==
  \/ CancellationRequested
  \/ CancellationStep("cancel") \/ OperationUnknown("cancel")
  \/ SettlementStep("cancel") \/ CancelCaught

RecoverCancellationStep(t) ==
  \/ CancellationStep(t) \/ OperationUnknown(t)
  \/ SettlementStep(t) \/ RecoverCancellationCaught(t)

RecoveryStep ==
  \/ Recover \/ RecoverOperation \/ RecoverWorkersCaught
  \/ OperationCompleted("recoverWorkers") \/ OperationCancelled("recoverWorkers")
  \/ OperationUnknown("recoverWorkers") \/ SettlementStep("recoverWorkers")
  \/ RecoverCleanups \/ SettlementStep("recoverCleanups") \/ CleanupsRecovered

Next ==
  \/ CreateOperation \/ CallCancel
  \/ ExecuteStep \/ WorkerStep
  \/ CancelStep \/ RecoveryStep
  \/ \E t \in CancellationRecovery : RecoverCancellationStep(t)
  \/ WorkerTakesUp \/ ProcessExits \/ AnotherDefersRecovery \/ Crash

\* The event loop runs every function whose await is over, and the timer of a
\* due recovery fires.  Nothing is assumed of the worker or of the callers.
Fairness ==
  /\ WF_vars(ExecuteStep)
  /\ WF_vars(CancelStep)
  /\ \A t \in CancellationRecovery : WF_vars(RecoverCancellationStep(t))
  /\ WF_vars(RecoveryStep)

Spec == Init /\ [][Next]_vars /\ Fairness

-----------------------------------------------------------------------------
(* Properties.                                                             *)

Places ==
  {"idle", "caught", "present", "own", "start", "launch", "identify", "rejoin",
   "succeed", "announce", "check", "send", "awaitAcceptance", "awaitAcknowledgement",
   "work", "offer", "exit", "stopSession", "stopUncertain", "observed", "confirmExit",
   "judge", "settleAgent", "fail", "doubt", "complete", "request",
   "dispatchCancel", "awaitStop", "acknowledgeCancel", "confirmCancel", "giveUp",
   "recover", "cleanups", "cleaning", "cleaned"}
  \cup SettlePlaces \cup HookPlaces

RuntimeTypeOK ==
  /\ op \in Operation \cup {None}
  /\ at \in [Thread -> Places]
  /\ seen \in [Thread -> Operation \cup {None}]
  /\ memory \in
       [record : BOOLEAN, handle : BOOLEAN, worker : BOOLEAN, requested : BOOLEAN,
        known : BOOLEAN, observedOutcome : [state : OutcomeStates, exit : BOOLEAN],
        recoverable : BOOLEAN, cancelEvidence : BOOLEAN,
        workersRecovered : BOOLEAN, cleanupsRecovered : BOOLEAN]
  /\ run \in
       [recovering : BOOLEAN, caught : BOOLEAN,
        instruction : StartInstruction \cup {None},
        restored : StartInstruction \cup {None},
        acceptance : Answers \cup {None}]
  /\ answer \in {"pending", "error"} \cup TerminalStates
  /\ reply \in {"none", "pending", "error"} \cup TerminalStates
  /\ process \in {"absent", "running", "stopped"}
  /\ sent \in StartInstruction \cup {None}
  /\ began \in StartInstruction \cup {None}
  /\ workspace \in {"absent", "open", "closed"}
  /\ faults \in 0..MaxFaults
  /\ crashes \in 0..MaxCrashes

\* A recorded stop is true: no path records worker_stop_confirmed or
\* cancel_acknowledged while the worker's process may still run.
StopIsTrue ==
  op # None /\ op.workerStopConfirmed => process # "running"

\* Pions closes a workspace only after the worker in it has stopped and the
\* cleanup is on record, so that a crash during the close leaves a trace.
CloseAfterStop ==
  workspace = "closed" =>
    /\ process # "running"
    /\ op.state \in {"completed", "cancelled"}
    /\ op.presentationCleanup # None

\* What callers were told is what the record says, whichever function told
\* them and however many of them settled the Operation.
RepliesMatchRecord ==
  /\ answer \in TerminalStates => op.state = answer
  /\ reply \in TerminalStates => op.state = reply

\* While a run of the worker is under way and nobody has decided or cancelled
\* the Operation, recovery leaves it alone: it neither gives it up nor starts a
\* second run, nor makes the worker forget that its stop was asked for.
SingleRun ==
  [][ /\ at["recoverWorkers"] = "recover" /\ at'["recoverWorkers"] # "recover"
      /\ at["execute"] # "idle"
      /\ op.state \in OpenStates
      /\ crashes' = crashes
      => UNCHANGED <<memory, run, at["execute"]>> ]_vars

\* A start instruction is sent only to a worker that has accepted none, also
\* when another Runtime sent one before it died.
NoSecondStart == at["execute"] = "send" => began = None

Final == op # None /\ Terminal(op)

\* The worker could not say whether it had accepted its start, and the record is
\* final by that (giveUpStart).
StartUnknown ==
  /\ Final /\ op.state = "unknown" /\ op.cancellationEpoch = 0
  /\ HasHandoff(op) /\ LastHandoff(op).acceptanceState = "unknown"

\* Whoever holds a handle of a final Operation is told how it ended, unless a run
\* has made it final because the start is not known to have happened: that run
\* takes itself for the one that others have settled, and tells nobody.
FinalIsAnswered ==
  memory.handle /\ Final /\ ~StartUnknown ~> answer # "pending" \/ ~memory.handle

\* What the owner of a background Operation and its callers rely on, the unknown
\* start included: every final Operation is answered.
EveryFinalIsAnswered ==
  memory.handle /\ Final ~> answer # "pending" \/ ~memory.handle

\* A requested cancellation is decided in the end.
CancellingIsDecided ==
  op # None /\ op.state = "cancelling" ~> Final

=============================================================================
