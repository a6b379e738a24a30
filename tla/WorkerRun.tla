--------------------------- MODULE WorkerRun ---------------------------
(***************************************************************************)
(* createOperation and execute: the creation of an Operation, the run of   *)
(* its worker with the hooks that record it, and the settlement of what    *)
(* the run observed.  A recovering run rejoins the worker of an earlier    *)
(* Runtime and hands its start delivery over to itself first.              *)
(*                                                                         *)
(* A worker that waits may answer, fail to answer in time or lose its      *)
(* connection at any moment; none of that counts as a fault.               *)
(***************************************************************************)
EXTENDS Settlement

rest == <<reply, crashes>>

-----------------------------------------------------------------------------
(* createOperation.                                                        *)

CreateOperation ==
  /\ at["execute"] = "idle"
  /\ op = None
  /\ memory.workersRecovered /\ memory.cleanupsRecovered
  /\ at["recoverWorkers"] = "idle"
  /\ \/ /\ op' = Requested
        /\ memory' = [memory EXCEPT !.record = TRUE]
        /\ Goto("execute", "present")
        /\ UNCHANGED faults
     \/ /\ Fault
        /\ op' \in {None, Requested}
        /\ UNCHANGED <<at, memory>>
  /\ UNCHANGED <<seen, run, answer, world, rest>>

CreatePresentation ==
  /\ at["execute"] = "present"
  /\ \/ /\ workspace' = "open"
        /\ Goto("execute", "own")
        /\ UNCHANGED faults
     \/ /\ Fault
        /\ workspace' \in {"absent", "open"}
        /\ Goto("execute", "idle")
  /\ UNCHANGED <<op, seen, memory, run, answer, process, sent, began, rest>>

\* A presentation that cannot be recorded is rolled back, as far as possible.
OwnCreatedPresentation ==
  LET can  == CanOwnPresentation(op)
      next == OwnPresentation(op, TheWorkspace)
  IN
  /\ at["execute"] = "own"
  /\ \/ /\ Recorded(can, next)
        /\ memory' = [memory EXCEPT !.handle = TRUE, !.worker = TRUE]
        /\ Goto("execute", "start")
        /\ UNCHANGED workspace
     \/ /\ NotRecorded(can, next)
        /\ memory' = [memory EXCEPT !.record = FALSE]
        /\ Goto("execute", "idle")
        /\ workspace' \in {"open", "absent"}
  /\ UNCHANGED <<seen, run, answer, process, sent, began, rest>>

-----------------------------------------------------------------------------
(* What a run may do at every stage.                                       *)

Observe(outcome) ==
  /\ memory' = [memory EXCEPT !.observedOutcome = outcome]
  /\ Goto("execute", "observed")

\* A hook records one event of the run.
Hook(place, can, next, then) ==
  /\ at["execute"] = place
  /\ \/ Recorded(can, next) /\ Goto("execute", then) /\ UNCHANGED <<seen, answer>>
     \/ NotRecorded(can, next) /\ Throw("execute")
  /\ UNCHANGED <<memory, run, world, rest>>

\* Mutant: a signal that was sent counts as a stop.
StopProcessUnobserved(proved) ==
  /\ proved => memory.known
  /\ UNCHANGED process

\* The stop of the worker's process: only a process that can be named can be
\* proved to have stopped.
StopProcess(proved) ==
  /\ proved => memory.known
  /\ process' = IF proved THEN "stopped" ELSE process

\* stopRecoveredWorker and stopAfterUncertainStart.
StopOutcome(proved) ==
  IF proved THEN Outcome("failed", TRUE) ELSE Outcome("liveness-unproven", FALSE)

StopAndObserve ==
  /\ \E proved \in BOOLEAN : StopProcess(proved) /\ Observe(StopOutcome(proved))
  /\ UNCHANGED <<op, seen, run, answer, sent, began, workspace, faults, rest>>

\* The run ends with an outcome, or has to stop the worker first.
Ends(outcomes) ==
  /\ \E o \in outcomes : Observe(o)
  /\ UNCHANGED <<op, seen, run, answer, world, faults, rest>>

Proceeds(then) ==
  /\ Goto("execute", then)
  /\ UNCHANGED <<op, seen, memory, run, answer, world, faults, rest>>

Failed   == {Outcome("failed", FALSE)}
Unproven == {Outcome("liveness-unproven", FALSE)}

StopUncertain == at["execute"] = "stopUncertain" /\ StopAndObserve

\* cancelSession after a failed hook; the error goes on to execute.
StopSession ==
  /\ at["execute"] = "stopSession"
  /\ \E proved \in BOOLEAN : StopProcess(proved)
  /\ Goto("execute", "caught")
  /\ UNCHANGED <<op, seen, memory, run, answer, sent, began, workspace, faults, rest>>

-----------------------------------------------------------------------------
(* A fresh run.                                                            *)

OperationStarting ==
  /\ at["execute"] = "start"
  /\ \/ Recorded(CanStart(op), Start(op)) /\ Goto("execute", "launch") /\ UNCHANGED <<seen, answer>>
     \/ NotRecorded(CanStart(op), Start(op)) /\ Throw("execute")
  /\ UNCHANGED <<memory, run, world, rest>>

\* startWorker: the command that starts Pi may fail and leave a Pi running.
StartWorker ==
  /\ at["execute"] = "launch"
  /\ process' \in {"absent", "running"}
  /\ \/ /\ process' = "running"
        /\ ~memory.requested
        /\ Goto("execute", "launched")
        /\ UNCHANGED memory
     \/ \E o \in Failed : Observe(o)
  /\ UNCHANGED <<op, seen, run, answer, sent, began, workspace, faults, rest>>

WorkerLaunched == Hook("launched", CanLaunchWorker(op), LaunchWorker(op), "identify")

WaitForIdentification ==
  /\ at["execute"] = "identify"
  /\ \/ /\ process = "running"
        /\ memory' = [memory EXCEPT !.known = TRUE]
        /\ Goto("execute", "identified")
        /\ UNCHANGED <<op, seen, run, answer, world, faults, rest>>
     \/ Ends(Failed \cup Unproven)

WorkerIdentified ==
  Hook("identified", CanIdentifyWorker(op, op.presentation),
       IdentifyWorker(op, TheWorker), "acquire")

StartDeliveryAuthorityAcquired ==
  LET i == InstructionOf(1) IN
  /\ at["execute"] = "acquire"
  /\ \/ /\ Recorded(CanAcquireAuthority(op, i), AcquireAuthority(op, i))
        /\ run' = [run EXCEPT !.instruction = i]
        /\ Goto("execute", "check")
        /\ UNCHANGED <<seen, answer>>
     \/ NotRecorded(CanAcquireAuthority(op, i), AcquireAuthority(op, i)) /\ Throw("execute") /\ UNCHANGED run
  /\ UNCHANGED <<memory, world, rest>>

-----------------------------------------------------------------------------
(* A recovering run.                                                       *)

\* recoverWorker and the worker's return; a worker that does not come back in
\* time is stopped.
Rejoin ==
  /\ at["execute"] = "rejoin"
  /\ \/ memory.requested /\ Ends(Failed)
     \/ process = "running" /\ (Proceeds("succeed") \/ Ends(Failed))
     \/ StopAndObserve
     \/ /\ Fault
        /\ Throw("execute")
        /\ UNCHANGED <<op, memory, run, world, rest>>

\* Bound: dispatchers there are.
Succeed ==
  /\ at["execute"] = "succeed"
  /\ \/ /\ op.workerIdentity # None /\ op.startDeliveryAuthority # None
        /\ SuccessorOf(op).dispatcherId \in Dispatcher
        /\ run' = [run EXCEPT !.instruction = SuccessorOf(op)]
        /\ Goto("execute", "revoke")
        /\ UNCHANGED <<seen, answer, faults>>
     \/ Fault /\ Throw("execute") /\ UNCHANGED run
  /\ UNCHANGED <<op, memory, world, rest>>

StartDeliveryAuthorityRevoked ==
  LET d == run.instruction.dispatcherId
      g == run.instruction.deliveryGeneration
  IN Hook("revoke", CanRevokeAuthority(op, d, g), RevokeAuthority(op, d, g), "announce")

\* What the worker says of its start.  An accepted instruction other than the
\* restored one breaks the protocol.
AnswersGeneration(a) ==
  /\ process = "running"
  /\ a = "accepted" => began # None /\ began = run.restored
  /\ a = "not_accepted" => began = None
  /\ run' = [run EXCEPT !.acceptance = a]
  /\ Goto("execute", "confirmGeneration")
  /\ UNCHANGED <<op, seen, memory, answer, process, began, workspace, faults, rest>>

\* Mutant: the worker still takes up what an older generation has sent.
RequestGenerationUpdateOnly ==
  /\ at["execute"] = "announce"
  /\ \/ \E a \in Answers : AnswersGeneration(a) /\ UNCHANGED sent
     \/ Proceeds("stopUncertain")

\* From its answer on the worker refuses what an older generation has sent.
RequestDeliveryGenerationUpdate ==
  /\ at["execute"] = "announce"
  /\ \/ \E a \in Answers : AnswersGeneration(a) /\ sent' = None
     \/ Proceeds("stopUncertain")

AfterConfirmation ==
  CASE run.acceptance = "unknown"  -> "giveUpStart"
    [] run.acceptance = "accepted" -> "collectAcceptance"
    [] OTHER                       -> "reacquire"

StartDeliveryGenerationConfirmed ==
  LET i    == run.instruction
      said == IF run.acceptance = "accepted" THEN began ELSE None
  IN Hook("confirmGeneration",
          CanConfirmGeneration(op, i.dispatcherId, i.deliveryGeneration, run.acceptance, said),
          ConfirmGeneration(op, run.acceptance), AfterConfirmation)

\* The abort that follows is no persistence error: the worker is stopped.
StartAcceptanceUnknown ==
  Hook("giveUpStart", CanGiveUp(op, "start-acceptance-unknown", 0), GiveUp(op),
       "stopUncertain")

CollectAcceptance ==
  /\ at["execute"] = "collectAcceptance"
  /\ IF op.startInstructionAcceptance = None
       THEN Hook("collectAcceptance", CanAcceptStart(op, began), AcceptStart(op, began),
                 "collectAcknowledgement")
       ELSE Proceeds("collectAcknowledgement")

CollectAcknowledgement ==
  /\ at["execute"] = "collectAcknowledgement"
  /\ IF op.startInstructionAcknowledgement = None
       THEN Hook("collectAcknowledgement", CanAcknowledgeStart(op, began),
                 AcknowledgeStart(op, began), "check")
       ELSE Proceeds("check")

ReacquireAuthority ==
  LET i == run.instruction IN
  Hook("reacquire", CanAcquireAuthority(op, i), AcquireAuthority(op, i), "check")

-----------------------------------------------------------------------------
(* The start instruction and the result.                                   *)

CheckCancellation ==
  /\ at["execute"] = "check"
  /\ IF memory.requested THEN Ends(Failed)
     ELSE Proceeds(IF run.acceptance = "accepted" THEN "work" ELSE "enter")

StartDeliveryEntered ==
  Hook("enter", CanEnterDelivery(op, run.instruction),
       EnterDelivery(op, run.instruction), "send")

\* dispatchBegin.
DispatchBegin ==
  /\ at["execute"] = "send"
  /\ \/ /\ process = "running"
        /\ sent' = run.instruction
        /\ Goto("execute", "dispatch")
        /\ UNCHANGED <<op, seen, memory, run, answer, process, began, workspace, faults, rest>>
     \/ Proceeds("stopUncertain")

\* The worker accepts the first instruction that reaches it (receive: begin);
\* WorkerSession has the frames and the acceptance store of it.
WorkerTakesUp ==
  /\ process = "running" /\ sent # None /\ began = None
  /\ began' = sent
  /\ sent' = None
  /\ UNCHANGED <<op, at, seen, memory, run, answer, process, workspace, faults, rest>>

StartInstructionDispatched ==
  Hook("dispatch", CanDispatchStart(op, run.instruction),
       DispatchStart(op, run.instruction), "awaitAcceptance")

AwaitAcceptance ==
  /\ at["execute"] = "awaitAcceptance"
  /\ \/ process = "running" /\ began = run.instruction /\ Proceeds("accepted")
     \/ Proceeds("stopUncertain")

StartInstructionAccepted ==
  Hook("accepted", CanAcceptStart(op, run.instruction),
       AcceptStart(op, run.instruction), "awaitAcknowledgement")

AwaitAcknowledgement ==
  /\ at["execute"] = "awaitAcknowledgement"
  /\ \/ process = "running" /\ Proceeds("acknowledged")
     \/ Proceeds("stopUncertain")

StartInstructionAcknowledged ==
  Hook("acknowledged", CanAcknowledgeStart(op, run.instruction),
       AcknowledgeStart(op, run.instruction), "work")

AwaitResult ==
  /\ at["execute"] = "work"
  /\ \/ began # None /\ process = "running" /\ Proceeds("offer")
     \/ began # None /\ process = "running" /\ Ends({Outcome("agent_failed", FALSE)})
     \/ memory.requested /\ Ends(Failed)
     \/ Ends(Unproven)
     \/ Proceeds("stopUncertain")

\* acceptResult: a result already on record is accepted again.
OfferResult ==
  LET can  == CanAcceptResult(op)
      next == AcceptResult(op, TheResult)
  IN
  /\ at["execute"] = "offer"
  /\ IF memory.requested THEN Ends(Failed)
     ELSE IF op.result # None THEN Proceeds("exit")
     ELSE /\ \/ Recorded(can, next) /\ Goto("execute", "exit") /\ UNCHANGED memory
             \/ NotRecorded(can, next) /\ \E o \in Failed : Observe(o)
          /\ UNCHANGED <<seen, run, answer, world, rest>>

\* The worker exits once its result is acknowledged.
ConfirmSuccessfulExit ==
  /\ at["execute"] = "exit"
  /\ \/ /\ StopProcess(TRUE)
        /\ Observe(Outcome("result_acknowledged", ~memory.requested))
        /\ UNCHANGED <<op, seen, run, answer, sent, began, workspace, faults, rest>>
     \/ Ends(Unproven)

-----------------------------------------------------------------------------
(* settleObserved and the errors of execute.                               *)

ConfirmObservedExit ==
  /\ at["execute"] = "observed"
  /\ Read("execute",
       IF /\ memory.observedOutcome.exit
          /\ ~Terminal(op) /\ op.state # "cancelling" /\ ~op.workerStopConfirmed
         THEN "confirmExit" ELSE "judge")
  /\ Records

WorkerStopConfirmed ==
  /\ at["execute"] = "confirmExit"
  /\ Write("execute", CanConfirmWorkerStop(op), ConfirmWorkerStop(op), "judge")
  /\ Records

\* The event that decides an Operation, as settleObserved sees it.
Verdict(o) ==
  LET state == memory.observedOutcome.state IN
  IF o.result # None /\ o.workerStopConfirmed THEN "complete"
  ELSE IF state = "liveness-unproven" THEN "doubt"
  ELSE IF state # "result_acknowledged" THEN "fail"
  ELSE IF o.workerStopConfirmed THEN "complete"
  ELSE "doubt"

\* The run of the agent is recorded first when the outcome tells of one.
SettlesAgent(o) ==
  LET state == memory.observedOutcome.state IN
  /\ ~o.agentRunEvidence
  /\ \/ state = "result_acknowledged"
     \/ state = "agent_failed" /\ Verdict(o) = "fail"

\* Whoever decided the Operation, or is about to cancel it, settles it.
LeftToOthers ==
  /\ Terminal(op) \/ op.state = "cancelling"
  /\ Goto("execute", "idle")
  /\ seen' = [seen EXCEPT !["execute"] = None]
  /\ run' = FreshRun
  /\ UNCHANGED <<op, answer, faults>>

JudgeObserved ==
  /\ at["execute"] = "judge"
  /\ \/ LeftToOthers
     \/ /\ ~Terminal(op) /\ op.state # "cancelling"
        /\ Read("execute", IF SettlesAgent(op) THEN "settleAgent" ELSE Verdict(op))
        /\ UNCHANGED run
  /\ UNCHANGED <<memory, reply, world, crashes>>

AgentSettled ==
  /\ at["execute"] = "settleAgent"
  /\ Write("execute", CanSettleAgent(op), SettleAgent(op), Verdict(seen["execute"]))
  /\ Records

OperationFailed ==
  /\ at["execute"] = "fail"
  /\ Write("execute", CanFail(op), Fail(op), SettlePlace("execute", Fail(op)))
  /\ Records

LivenessUnproven ==
  /\ at["execute"] = "doubt"
  /\ Write("execute", CanGiveUp(op, "liveness-unproven", 0), GiveUp(op),
           SettlePlace("execute", GiveUp(op)))
  /\ Records

\* Errors are looked at once; the second error of a settlement is left to a
\* recovery, as is every error of an Operation that is not being cancelled.
ExecuteCaught ==
  /\ at["execute"] = "caught"
  /\ \/ /\ ~run.caught
        /\ Terminal(op)
        /\ seen' = [seen EXCEPT !["execute"] = op]
        /\ run' = [run EXCEPT !.caught = TRUE]
        /\ Goto("execute", SettlePlace("execute", op))
        /\ UNCHANGED <<memory, answer, faults>>
     \/ /\ \/ run.caught /\ UNCHANGED faults
           \/ ~run.caught /\ ~Terminal(op) /\ UNCHANGED faults
           \/ ~run.caught /\ Fault
        /\ answer' = Answered("error")
        /\ memory' = IF /\ op.state = "cancelling" /\ ~run.recovering
                        /\ faults' = faults
                       THEN memory ELSE Deferred(memory)
        /\ seen' = [seen EXCEPT !["execute"] = None]
        /\ Goto("execute", "idle")
        /\ run' = FreshRun
  /\ UNCHANGED <<op, reply, world, crashes>>

=============================================================================
