---------------------------- MODULE SessionStop ----------------------------
(***************************************************************************)
(* One session of a VisibleWorker and those who want its worker gone:      *)
(* cancellations, the run when its start is uncertain or its recovery      *)
(* fails, and the run that watches the exit of a worker it has             *)
(* acknowledged.  Each answers with a proof that the worker has stopped,   *)
(* or with nothing.                                                        *)
(*                                                                         *)
(* The session object outlives its place in the map: an attempt that holds *)
(* it goes on when it is closed.  Deadlines pass at any time.  What the    *)
(* protocol says is in module WorkerSession, and here only whether a       *)
(* cancellation can still be asked for and has been acknowledged.          *)
(***************************************************************************)
EXTENDS ProcessControl

CONSTANTS
  Run,    \* the attempt that is the run of the session; others are cancellations
  Kinds   \* [Attempt -> what it may do]

ASSUME RunIsAttempt == Run \in Attempt
ASSUME KindsAreModelled ==
  /\ Kinds \in [Attempt -> SUBSET {"cancel", "success", "recover"}]
  /\ \A a \in Attempt \ {Run} : Kinds[a] = {"cancel"}

VARIABLES
  stopping,   \* the attempts that share a termination of the worker
  session,    \* the Session
  stored,     \* the Operation on record has the identity of the worker
  known,      \* lastKnownIdentities has it
  requested   \* WorkerCancellation.requested

host == <<session, stored, known, requested>>
vars == <<system, harmed, try, stopping, host>>

-----------------------------------------------------------------------------
(* Helpers.                                                                *)

Closed == session' = [session EXCEPT !.state = "closed"]

\* Earlier captures are kept, and followed by what is new, in the order of the list.
Merges(old, new) ==
  IF old = None THEN {new}
  ELSE {old \o rest : rest \in
         {list \in Lists(Range(new) \ Range(old)) :
            \A i, j \in DOMAIN list : i < j =>
              \E k, l \in DOMAIN new : k < l /\ new[k] = list[i] /\ new[l] = list[j]}}

\* What the worker's stop is followed by: confirmDescendantsStopped, of the list
\* at hand.
ListAtHand(t) == IF t.own THEN t.covers ELSE session.captured

Confirmed(t) ==
  CASE t.kind = "recover" \/ ListAtHand(t) = <<>> -> [t EXCEPT !.at = "clear", !.covers = <<>>]
    [] t.kind # "recover" /\ ListAtHand(t) = None -> [t EXCEPT !.at = "unproven"]
    [] OTHER -> [t EXCEPT !.at = "watch", !.covers = ListAtHand(t)]

Confirm(a) == try' = [try EXCEPT ![a] = Confirmed(@)]

-----------------------------------------------------------------------------
(* terminateProcess: attempts that stop the worker at once share one        *)
(* termination, and its outcome.                                           *)

JoinStop(a) ==
  /\ try[a].at = "stop" /\ stopping # {}
  /\ stopping' = stopping \cup {a}
  /\ Goto(a, "joined")
  /\ UNCHANGED <<system, harmed, host>>

StartStop(a) ==
  /\ try[a].at = "stop" /\ stopping = {}
  /\ \E state \in ProcessState :
       /\ Observes(Root, state)
       /\ CASE state = "stopped"      -> Confirm(a) /\ UNCHANGED stopping
            [] state = "unverifiable" -> Goto(a, "unproven") /\ UNCHANGED stopping
            [] state = "running"      -> Goto(a, "kill") /\ stopping' = {a}
  /\ UNCHANGED <<system, harmed, host>>

\* What the worker is found to be is told to all who share the termination.
EndStop(state) ==
  /\ try' = [a \in Attempt |->
               IF a \notin stopping THEN try[a]
               ELSE IF state = "stopped" THEN Confirmed(try[a])
               ELSE [try[a] EXCEPT !.at = "unproven"]]
  /\ stopping' = {}

\* The signal goes to whoever has the number by then.  If it is refused, or nobody
\* has it, the worker is observed once more.
SignalWorker(a) ==
  /\ try[a].at = "kill"
  /\ \/ /\ table[WorkerPid].up
        /\ Signals(WorkerPid)
        /\ Goto(a, "joined")
        /\ UNCHANGED stopping
     \/ /\ \E state \in ProcessState : Observes(Root, state) /\ EndStop(state)
        /\ UNCHANGED harmed
  /\ UNCHANGED <<system, host>>

\* waitForStop: the worker stops in time, or not.
WorkerStops ==
  /\ stopping # {} /\ \A a \in stopping : try[a].at = "joined"
  /\ \E state \in ProcessState : Observes(Root, state) /\ EndStop(state)
  /\ UNCHANGED <<system, harmed, host>>

-----------------------------------------------------------------------------
(* The worker's side of the socket.                                        *)

Connect ==
  /\ session.state = "listening"
  /\ session' = [session EXCEPT !.state = "up"]
  /\ UNCHANGED <<system, harmed, try, stopping, stored, known, requested>>

Identify ==
  /\ session.state = "up" /\ ~session.identity
  /\ session' = [session EXCEPT !.identity = TRUE]
  /\ known' = TRUE
  /\ UNCHANGED <<system, harmed, try, stopping, stored, requested>>

AcknowledgeCancel ==
  /\ session.state = "up" /\ session.protocol = "cancelling" /\ ~session.acked
  /\ session' = [session EXCEPT !.acked = TRUE]
  /\ UNCHANGED <<system, harmed, try, stopping, stored, known, requested>>

\* The socket ends, or the session is rejected for what came over it.
Disconnect ==
  /\ session.state = "up"
  /\ Closed
  /\ UNCHANGED <<system, harmed, try, stopping, stored, known, requested>>

Peer == Connect \/ Identify \/ AcknowledgeCancel \/ Disconnect

-----------------------------------------------------------------------------
(* cancelSession.                                                          *)

\* The session is not in the map, or has no socket and is rejected.
CancelWithoutSession(a) ==
  /\ session.state # "up"
  /\ Closed
  /\ try' = [try EXCEPT ![a].own = TRUE,
                        ![a].at = IF known \/ stored THEN "look" ELSE "unproven"]

CancelWithSession(a) ==
  /\ session.state = "up"
  /\ try' = [try EXCEPT ![a] = IF session.identity THEN StartScan(@, "request")
                               ELSE [@ EXCEPT !.at = "request"]]
  /\ UNCHANGED session

CancelSession(a) ==
  /\ try[a].at = "idle" /\ "cancel" \in Kinds[a]
  /\ CancelWithoutSession(a) \/ CancelWithSession(a)
  /\ requested' = (requested \/ a # Run)
  /\ UNCHANGED <<system, harmed, stopping, stored, known>>

\* The worker is looked at by its identity alone.
Look(a) ==
  /\ try[a].at = "look"
  /\ \E state \in ProcessState :
       /\ Observes(Root, state)
       /\ try' = [try EXCEPT ![a] =
                    CASE state = "unverifiable" -> [@ EXCEPT !.at = "unproven"]
                      [] state = "stopped" -> [@ EXCEPT !.at = "clear", !.covers = <<>>]
                      [] state = "running" -> IF @.kind = "recover" THEN [@ EXCEPT !.at = "stop"]
                                              ELSE StartScan(@, "stop")]
  /\ UNCHANGED <<system, harmed, stopping, host>>

ScanEnds(a) ==
  /\ try[a].at \in {"found", "lost"}
  /\ IF try[a].own
       THEN /\ try' = [try EXCEPT ![a] =
                 IF @.at = "lost" THEN [@ EXCEPT !.at = "unproven"]
                 ELSE [@ EXCEPT !.at = try[a].next, !.covers = try[a].found,
                                !.found = <<>>]]
            /\ UNCHANGED session
       ELSE /\ try' = [try EXCEPT ![a].at = try[a].next, ![a].found = <<>>]
            /\ IF try[a].at = "lost" THEN UNCHANGED session
               ELSE \E merged \in Merges(session.captured, try[a].found) :
                      session' = [session EXCEPT !.captured = merged]
  /\ UNCHANGED <<system, harmed, stopping, stored, known, requested>>

\* Only the session's captures have a deadline.
ScanTimesOut(a) ==
  /\ try[a].at \in Scanning /\ ~try[a].own
  /\ try' = [try EXCEPT ![a] = [EndScan(@, @.next) EXCEPT !.found = <<>>]]
  /\ UNCHANGED <<system, harmed, stopping, host>>

Request(a) ==
  /\ try[a].at = "request" /\ session.identity /\ session.protocol = "open"
  /\ \/ /\ session.state = "up"
        /\ session' = [session EXCEPT !.protocol = "cancelling"]
        /\ try' = [try EXCEPT ![a] = StartScan([@ EXCEPT !.ends = TRUE], "acknowledged")]
     \/ /\ session' = [session EXCEPT !.protocol = "unsent"]
        /\ try' = [try EXCEPT ![a] = StartScan(@, "observe")]
  /\ UNCHANGED <<system, harmed, stopping, stored, known, requested>>

\* There is nothing to ask the worker any more, or not yet.
RequestIsRefused(a) ==
  /\ try[a].at = "request" /\ (~session.identity \/ session.protocol # "open")
  /\ CASE session.exit # "none" -> Goto(a, "exit") /\ UNCHANGED session
       [] session.exit = "none" /\ ~session.identity -> Goto(a, "unproven") /\ Closed
       [] session.exit = "none" /\ session.identity ->
            try' = [try EXCEPT ![a].at = "observe", ![a].ends = TRUE] /\ UNCHANGED session
  /\ UNCHANGED <<system, harmed, stopping, stored, known, requested>>

\* The run watches the exit already: its finding is waited for.
AwaitExit(a) ==
  /\ try[a].at = "exit"
  /\ \/ session.exit = "stopped" /\ Confirm(a)
     \/ session.exit = "unconfirmed" /\ Goto(a, "observe")
     \/ session.exit = "watched" /\ Goto(a, "unproven")
  /\ UNCHANGED <<system, harmed, stopping, host>>

Observe(a) ==
  /\ try[a].at = "observe"
  /\ \E state \in ProcessState :
       /\ Observes(Root, state)
       /\ \/ state = "stopped" /\ Confirm(a)
          \/ state = "running" /\ Goto(a, "stop")
          \/ Goto(a, "unproven")
  /\ UNCHANGED <<system, harmed, stopping, host>>

\* The acknowledgement comes in time, or there is just time to stop the worker.
AwaitAcknowledgement(a) ==
  /\ try[a].at = "acknowledged"
  /\ \/ session.acked /\ Goto(a, "leaving")
     \/ ~session.acked /\ (Goto(a, "stop") \/ Goto(a, "unproven"))
  /\ UNCHANGED <<system, harmed, stopping, host>>

\* A worker that has acknowledged leaves by itself, or is stopped.
AwaitLeave(a) ==
  /\ try[a].at = "leaving"
  /\ \E state \in ProcessState :
       /\ Observes(Root, state)
       /\ \/ state = "stopped" /\ Confirm(a)
          \/ state = "running" /\ Goto(a, "stop")
          \/ state # "stopped" /\ Goto(a, "unproven")
  /\ UNCHANGED <<system, harmed, stopping, host>>

\* Mutant: descendants that cannot be observed count as stopped.
WatchLoosely(a) ==
  /\ try[a].at = "watch"
  /\ \E outcome \in ProcessState :
       /\ Round(try[a].covers, outcome)
       /\ \/ outcome # "running" /\ Goto(a, "clear")
          \/ outcome = "running" /\ try[a].kind = "cancel"
             /\ try' = [try EXCEPT ![a].at = "sweep", ![a].victims = try[a].covers]
          \/ outcome = "running" /\ Goto(a, "unproven")
  /\ UNCHANGED <<system, harmed, stopping, host>>

\* The first wait for the descendants.  The run leaves them alone.
Watch(a) ==
  /\ try[a].at = "watch"
  /\ \E outcome \in ProcessState :
       /\ Round(try[a].covers, outcome)
       /\ \/ outcome = "stopped" /\ Goto(a, "clear")
          \/ outcome = "running" /\ try[a].kind = "cancel"
             /\ try' = [try EXCEPT ![a].at = "sweep", ![a].victims = try[a].covers]
          \/ outcome # "stopped" /\ Goto(a, "unproven")
  /\ UNCHANGED <<system, harmed, stopping, host>>

Finish(a) ==
  /\ try[a].at \in {"clear", "unproven"}
  /\ LET proof == try[a].at = "clear" IN
     /\ try' = [try EXCEPT ![a] =
                  [Idle EXCEPT !.at = "done", !.kind = try[a].kind,
                               !.answer = IF proof THEN "worker-stop" ELSE None,
                               !.covers = IF proof THEN try[a].covers ELSE None]]
     /\ known' = (known /\ ~(proof /\ try[a].own))
     /\ session' = [session EXCEPT
          !.state = IF try[a].ends \/ a = Run THEN "closed" ELSE @,
          !.exit = IF try[a].kind # "success" THEN @
                   ELSE IF proof THEN "stopped" ELSE "unconfirmed"]
  /\ UNCHANGED <<system, harmed, stopping, stored, requested>>

Cancel(a) ==
  \/ Look(a) \/ ScanEnds(a) \/ ScanTimesOut(a)
  \/ Request(a) \/ RequestIsRefused(a) \/ AwaitExit(a) \/ Observe(a)
  \/ AwaitAcknowledgement(a) \/ AwaitLeave(a)
  \/ JoinStop(a) \/ StartStop(a) \/ SignalWorker(a) \/ Watch(a) \/ Finish(a)

-----------------------------------------------------------------------------
(* The run.                                                                *)

RunReceives ==
  /\ try[Run].at = "idle" /\ "success" \in Kinds[Run]
  /\ session.state = "up" /\ session.identity /\ session.protocol = "open"
  /\ session' = [session EXCEPT !.protocol = "done"]
  /\ Goto(Run, "accept")
  /\ UNCHANGED <<system, harmed, stopping, stored, known, requested>>

\* The result is accepted: the descendants are listed before the worker is told.
RunAccepts ==
  /\ try[Run].at = "accept" /\ ~requested
  /\ try' = [try EXCEPT ![Run] = StartScan([@ EXCEPT !.kind = "success"], "acknowledge")]
  /\ UNCHANGED <<system, harmed, stopping, host>>

RunAcknowledges ==
  /\ try[Run].at = "acknowledge"
  /\ \/ /\ session.state = "up"
        /\ session' = [session EXCEPT !.exit = "watched"]
        /\ Goto(Run, "exiting")
     \/ /\ Closed
        /\ try' = [try EXCEPT ![Run] = [Idle EXCEPT !.at = "done"]]
  /\ UNCHANGED <<system, harmed, stopping, stored, known, requested>>

RunWatchesExit ==
  /\ try[Run].at = "exiting"
  /\ \E state \in ProcessState :
       /\ Observes(Root, state)
       /\ IF state = "stopped" THEN Confirm(Run) ELSE Goto(Run, "unproven")
  /\ UNCHANGED <<system, harmed, stopping, host>>

\* recoverWorker fails, or the worker does not come back to it.
RunStopsRecovered ==
  /\ try[Run].at = "idle" /\ "recover" \in Kinds[Run]
  /\ stored /\ ~session.identity
  /\ try' = [try EXCEPT ![Run].at = "look", ![Run].kind = "recover"]
  /\ UNCHANGED <<system, harmed, stopping, host>>

\* It fails, or finds itself cancelled.
RunEnds ==
  /\ try[Run].at \in {"idle", "accept"}
  /\ Goto(Run, "done")
  /\ Closed
  /\ UNCHANGED <<system, harmed, stopping, stored, known, requested>>

RunSteps == RunAccepts \/ RunAcknowledges \/ RunWatchesExit \/ RunEnds

-----------------------------------------------------------------------------

Init ==
  /\ StartsWithChain
  /\ harmed = {}
  /\ try = [a \in Attempt |-> Idle]
  /\ stopping = {}
  /\ births = 0
  /\ session = [state |-> "listening", identity |-> FALSE, protocol |-> "open",
                acked |-> FALSE, captured |-> None, exit |-> "none"]
  /\ stored \in BOOLEAN
  /\ known = FALSE /\ requested = FALSE

Next ==
  \/ System /\ UNCHANGED <<stopping, host>>
  \/ Peer
  \/ \E a \in Attempt : (Control(a) /\ UNCHANGED <<stopping, host>>) \/ CancelSession(a) \/ Cancel(a)
  \/ WorkerStops
  \/ RunReceives \/ RunStopsRecovered \/ RunSteps

Spec == Init /\ [][Next]_vars

-----------------------------------------------------------------------------
(* Properties.                                                             *)

\* Whoever answers worker-stop has seen the worker gone, and every descendant
\* it was to wait for, although their numbers may have other processes by then
\* (visible-worker.ts:908-1096, worker-process-control.ts:103-136, 186-258).
StopProofIsTrue ==
  \A a \in Attempt : try[a].answer = "worker-stop" => Gone(Root) /\ AllGone(try[a].covers)

\* Outside the worker's family a SIGTERM reaches at most those who took a number
\* over in a gap, between its listing and the read of its token or between the
\* observation of its process and the signal, and what these have forked: whoever
\* took one over at any other time is left alone
\* (worker-process-control.ts:138-184, 208-243).  It is not so that nobody else is
\* signalled: in the gaps the code has the number alone.
OnlyTakersAreHarmed == harmed \subseteq takers

\* A cancellation is unknown unless the descendants that were captured are seen
\* to have stopped (docs/adr/0029-load-configured-pi-extensions-into-workers.md:13),
\* also those captured before the acknowledgement of a result.  Not so: the list is
\* gone with the session (visible-worker.ts:913-940).
CapturedAreStopped ==
  \A a \in Attempt :
    /\ try[a].kind = "cancel" /\ try[a].answer = "worker-stop"
    /\ session.exit # "none" /\ session.captured # None
    => AllGone(session.captured)

=============================================================================
