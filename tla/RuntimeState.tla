------------------------- MODULE RuntimeState -------------------------
(***************************************************************************)
(* What the Runtime of one Operation shares among its asynchronous         *)
(* functions: the durable record, the OperationRecord in memory, the       *)
(* promises callers wait for and the worker's process and workspace.       *)
(*                                                                         *)
(* A function is a thread and `at' is where it stands; between two awaits  *)
(* it runs alone, so that a step is one await with what follows it.  A     *)
(* store call may fail: `faults' counts the failures that may still come.  *)
(* A failed write may be on disk all the same, since the record is renamed *)
(* before its directory is synced.                                         *)
(*                                                                         *)
(* Abstractions.  The worker and the workspace of the Operation are the    *)
(* only ones; a dispatcher is named after the generation it delivers.      *)
(* The timer of a deferred recovery is replaced by the fact that one is    *)
(* due.  Projection to Herdr's labels changes nothing here.                *)
(***************************************************************************)
EXTENDS StartDelivery

CONSTANTS
  MaxFaults,     \* bound: store and Herdr calls that fail
  MaxCrashes,    \* bound: times the Runtime's process dies
  MaxTroubles,   \* bound: failures and deaths together
  Answers        \* what a recovered worker may say of its start instruction

ASSUME RuntimeBoundsAreNatural ==
  MaxFaults \in Nat /\ MaxCrashes \in Nat /\ MaxTroubles \in Nat
ASSUME AnswersAreAcceptances == Answers \subseteq AcceptanceStates
ASSUME OneOfEach ==
  Workspace # {} /\ Worker # {} /\ Result # {} /\ CleanupId # {} /\ 1 \in Dispatcher
ASSUME NoneIsNoOperation == None \notin Operation

VARIABLES
  op,          \* the durable Operation, None before it is created
  at,          \* where each function of the Runtime stands
  seen,        \* the Operation a function was last given by the store
  memory,      \* the OperationRecord and the flags of the Runtime
  run,         \* locals of the worker's run
  answer,      \* what the promise of result() was settled with
  reply,       \* what the promise of cancel() was settled with
  process,     \* the worker's process
  sent,        \* a start instruction on its way to the worker
  began,       \* the start instruction the worker has accepted
  workspace,   \* the workspace in Herdr
  faults,      \* failures that may still come
  crashes      \* deaths of the Runtime that may still come

world == <<process, sent, began, workspace>>
vars  == <<op, at, seen, memory, run, answer, reply, world, faults, crashes>>

\* Two calls of recoverCancellation may be under way at once: a caller's cancel
\* that is refused while the first one runs defers another recovery.
CancellationRecovery == {"recoverCancellation", "recoverCancellationAgain"}

Thread == {"execute", "cancel", "recoverWorkers", "recoverCleanups"} \cup CancellationRecovery

TheWorkspace == CHOOSE w \in Workspace : TRUE
TheCleanup   == CHOOSE c \in CleanupId : TRUE

OutcomeStates ==
  {"none", "failed", "agent_failed", "liveness-unproven", "result_acknowledged"}

\* WorkerRunOutcome; all failures that name no agent are one.
Outcome(state, exit) == [state |-> state, exit |-> exit]
NoOutcome == Outcome("none", FALSE)

\* known: the VisibleWorker can name the worker's process.
FreshMemory ==
  [record |-> FALSE, handle |-> FALSE, worker |-> FALSE, requested |-> FALSE,
   known |-> FALSE, observedOutcome |-> NoOutcome, recoverable |-> FALSE,
   cancelEvidence |-> FALSE, workersRecovered |-> FALSE, cleanupsRecovered |-> FALSE]

FreshRun ==
  [recovering |-> FALSE, caught |-> FALSE, instruction |-> None, restored |-> None,
   acceptance |-> None]

-----------------------------------------------------------------------------
(* Moving on, and failing.                                                 *)

Goto(t, place) == at' = [at EXCEPT ![t] = place]

\* The first settlement of a promise wins.
Answered(kind) == IF answer = "pending" THEN kind ELSE answer

SettlePlaces ==
  {"startCleanup", "inspect", "close", "recordClose", "unconfirm",
   "readResult", "answer"}

HookPlaces ==
  {"launched", "identified", "acquire", "enter", "dispatch", "accepted", "acknowledged",
   "succeed", "revoke", "confirmGeneration", "giveUpStart", "collectAcceptance",
   "collectAcknowledgement", "reacquire"}

\* startDeliveryEntered: begin may have been sent by this run.
EnteredPlaces == {"dispatch", "accepted", "acknowledged"}

\* Where an error takes a function.  A hook that fails ends the run of the
\* worker, which is stopped first unless nothing can have been started.
Handler(t) ==
  IF t # "execute" \/ at[t] \notin HookPlaces THEN "caught"
  ELSE IF at[t] \in EnteredPlaces THEN "stopSession"
  ELSE IF run.recovering THEN "stopUncertain"
  ELSE "caught"

\* settleTerminal rejects the result before it passes an error on.
Throw(t) ==
  /\ Goto(t, Handler(t))
  /\ answer' = IF at[t] \in SettlePlaces /\ t # "recoverCleanups"
                 THEN Answered("error") ELSE answer
  /\ seen' = [seen EXCEPT ![t] = None]

Fault == faults > 0 /\ faults' = faults - 1

\* EventStore.advance: the event is recorded, or refused, or the write fails.
Recorded(can, next) == can /\ op' = next /\ UNCHANGED faults

NotRecorded(can, next) ==
  \/ ~can /\ UNCHANGED <<op, faults>>
  \/ Fault /\ op' \in {op} \cup (IF can THEN {next} ELSE {})

\* What a step leaves alone that only reads or records an event.
Records == UNCHANGED <<memory, run, reply, world, crashes>>

\* A write whose result the function goes on with.
Write(t, can, next, place) ==
  \/ /\ Recorded(can, next)
     /\ seen' = [seen EXCEPT ![t] = next]
     /\ Goto(t, place)
     /\ UNCHANGED answer
  \/ NotRecorded(can, next) /\ Throw(t)

\* A read, and where it leads.
Read(t, place) ==
  /\ \/ /\ seen' = [seen EXCEPT ![t] = op]
        /\ Goto(t, place)
        /\ UNCHANGED <<answer, faults>>
     \/ Fault /\ Throw(t)
  /\ UNCHANGED op

\* deferRecovery: the Operation is looked at again when the timer fires.
Deferred(m) ==
  [m EXCEPT !.record = TRUE, !.recoverable = TRUE, !.workersRecovered = FALSE]

\* recover goes on with the cleanups unless an earlier pass is done with them.
AfterWorkers == IF memory.cleanupsRecovered THEN "idle" ELSE "cleanups"

=============================================================================
