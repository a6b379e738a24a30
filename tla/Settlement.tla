-------------------------- MODULE Settlement --------------------------
(***************************************************************************)
(* settleTerminal and performCleanup: a final Operation is answered to its *)
(* caller after the workspace of a stopped worker was closed.  Several     *)
(* functions of the Runtime run them, each on the Operation it has seen.   *)
(***************************************************************************)
EXTENDS RuntimeState

\* directResponseAvailable: the caller still gets the result when the record
\* of the cleanup cannot be written.
DirectResponse(t) == t # "recoverCleanups" /\ seen[t].state = "completed"

AfterCleanup(t, o) ==
  IF t = "recoverCleanups" THEN "cleaned"
  ELSE IF o.state = "completed" THEN "readResult"
  ELSE "answer"

\* Where the settlement of an Operation begins.
SettlePlace(t, o) ==
  IF ~PresentationCleanupEligible(o) \/ o.presentation = None THEN AfterCleanup(t, o)
  ELSE IF o.presentationCleanup = None THEN "startCleanup"
  ELSE IF o.presentationCleanup.state = "pending" THEN "inspect"
  ELSE AfterCleanup(t, o)

\* A cleanup event that cannot be recorded is left to a later recovery and
\* keeps no caller from its result.
CleanupWrite(t, can, next, place) ==
  \/ /\ Recorded(can, next)
     /\ seen' = [seen EXCEPT ![t] = next]
     /\ Goto(t, place)
     /\ UNCHANGED <<memory, answer>>
  \/ /\ NotRecorded(can, next)
     /\ IF DirectResponse(t)
          THEN /\ memory' = [Deferred(memory) EXCEPT !.cleanupsRecovered = FALSE]
               /\ Goto(t, AfterCleanup(t, seen[t]))
               /\ UNCHANGED <<seen, answer>>
          ELSE Throw(t) /\ UNCHANGED memory

\* Mutant: closes the workspace before the cleanup is on record.
StartPresentationCleanupLater(t) ==
  /\ at[t] = "startCleanup"
  /\ Goto(t, "inspect")
  /\ UNCHANGED <<op, seen, memory, run, answer, reply, world, faults, crashes>>

StartPresentationCleanup(t) ==
  /\ at[t] = "startCleanup"
  /\ LET w == seen[t].presentation IN
     CleanupWrite(t, CanStartCleanup(op, w), StartCleanup(op, TheCleanup, w), "inspect")
  /\ UNCHANGED <<run, reply, world, crashes>>

InspectOwnedWorkspace(t) ==
  /\ at[t] = "inspect"
  /\ \/ workspace = "open" /\ Goto(t, "close") /\ UNCHANGED faults
     \/ workspace # "open" /\ Goto(t, "unconfirm") /\ UNCHANGED faults
     \/ Fault /\ Goto(t, "unconfirm")
  /\ UNCHANGED <<op, seen, memory, run, answer, reply, world, crashes>>

CloseOwnedWorkspace(t) ==
  /\ at[t] = "close"
  /\ \/ /\ workspace = "open"
        /\ workspace' = "closed"
        /\ Goto(t, "recordClose")
        /\ UNCHANGED faults
     \/ /\ workspace # "open"
        /\ Goto(t, "unconfirm")
        /\ UNCHANGED <<workspace, faults>>
     \/ /\ Fault
        /\ workspace' \in {workspace, "closed"}
        /\ Goto(t, "unconfirm")
  /\ UNCHANGED <<op, seen, memory, run, answer, reply, process, sent, began, crashes>>

RecordCleanup(t, place, outcome) ==
  /\ at[t] = place
  /\ CleanupWrite(t, CanFinishCleanup(op, TheCleanup, seen[t].presentation),
                  FinishCleanup(op, outcome), AfterCleanup(t, seen[t]))
  /\ UNCHANGED <<run, reply, world, crashes>>

\* What the function does once the result is settled.
Returned(t) == IF t = "recoverWorkers" THEN AfterWorkers ELSE "idle"

Settled(t, kind) ==
  /\ answer' = Answered(kind)
  /\ reply' = IF t = "cancel" THEN seen[t].state ELSE reply
  /\ seen' = [seen EXCEPT ![t] = None]
  /\ run' = IF t = "execute" THEN FreshRun ELSE run
  /\ Goto(t, Returned(t))

\* Mutant: whoever settles tells the caller that its result is there.
ResolveTerminal(t) ==
  /\ at[t] \in {"readResult", "answer"}
  /\ Settled(t, "completed")
  /\ UNCHANGED <<op, memory, world, faults, crashes>>

\* The result is read back and resolved; any other final state rejects.
AnswerTerminal(t) ==
  /\ \/ at[t] = "readResult" /\ Settled(t, "completed") /\ UNCHANGED faults
     \/ at[t] = "readResult" /\ Fault /\ Throw(t) /\ UNCHANGED <<reply, run>>
     \/ at[t] = "answer" /\ Settled(t, seen[t].state) /\ UNCHANGED faults
  /\ UNCHANGED <<op, memory, world, crashes>>

SettlementStep(t) ==
  \/ StartPresentationCleanup(t)
  \/ InspectOwnedWorkspace(t)
  \/ CloseOwnedWorkspace(t)
  \/ RecordCleanup(t, "recordClose", "completed")
  \/ RecordCleanup(t, "unconfirm", "unconfirmed")
  \/ AnswerTerminal(t)

=============================================================================
