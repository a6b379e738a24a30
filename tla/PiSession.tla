--------------------------- MODULE PiSession ---------------------------
(***************************************************************************)
(* The Pi extension in one session and one trusted repository: what the    *)
(* session owns (RuntimeOwnership, OperationLifetime), its start, its      *)
(* delegations and its shutdown.  There is one event loop, so a step is    *)
(* what happens between two awaits.                                        *)
(*                                                                         *)
(* A Runtime is seen from the session: its recovery, the Operations it     *)
(* drives, and close().  How it drives one is the subject of Runtime.      *)
(***************************************************************************)
EXTENDS Naturals, FiniteSets

CONSTANTS
  Call,        \* executions of the tool pions_delegate
  Tool,        \* tool calls: Pi may execute one again under its identifier
  Sessions,    \* which tool calls are executed: assignments of tool calls to executions
  Config,      \* settings, each of which gets a Runtime of its own
  Boot,        \* the Runtime that the start of the session makes
  Old,         \* open Operations that an earlier session left behind
  None,
  MaxFaults    \* calls of the store, of Herdr or of the file system that fail

ASSUME PiSessionAssumption ==
  /\ Sessions \subseteq [Call -> Tool]
  /\ Tool \cap Old = {} /\ Boot \notin Config /\ None \notin Config \cup {Boot}
  /\ MaxFaults \in Nat

VARIABLES
  toolOf,      \* the tool call of each execution
  shutdown,    \* how far session_shutdown has got
  start,       \* where session_start stands
  at,          \* where each execution stands
  prepared,    \* the Runtime that the preparation of a tool call acquired
  spawns,      \* the spawn of each tool call
  owner,       \* recoveryOwners: the Runtime that recovers the repository
  runtime,     \* the known Runtimes
  driving,     \* which Runtime drives which Operation
  deferred,    \* which Runtime is to recover which of its records again
  answered,    \* which Runtime has settled result() of which Operation
  open,        \* Operations open in the store
  tracked,     \* Operations whose handle is active in OperationLifetime
  cancel,      \* the one cancellation of each handle
  faults

calls == <<toolOf, shutdown, start, at, prepared, spawns, owner>>
work  == <<driving, deferred, answered, open, tracked, cancel>>
vars  == <<calls, runtime, work, faults>>

Known   == DOMAIN runtime
closing == shutdown # "open"

\* Its recovery begins when a Runtime is made.
NewRuntime ==
  [recovery |-> TRUE, recovered |-> TRUE, failed |-> FALSE, lists |-> 0,
   due |-> FALSE, close |-> "open"]

\* A delegation makes the Operation of its tool call; its handle comes from the
\* Runtime that spawned it, the handle of a recovered one from the owner.
Handle(o) == IF o \in Tool THEN prepared[o] ELSE owner

Init ==
  /\ toolOf \in Sessions
  /\ shutdown = "open" /\ start = "idle"
  /\ at = [e \in Call |-> "idle"]
  /\ prepared = [k \in Tool |-> None]
  /\ spawns = [k \in Tool |-> "none"]
  /\ owner = None
  /\ runtime = [r \in {} |-> NewRuntime]
  /\ driving = {} /\ deferred = {} /\ answered = {}
  /\ open = Old
  /\ tracked = {}
  /\ cancel = [o \in Tool \cup Old |-> "none"]
  /\ faults = 0

Fault   == faults < MaxFaults /\ faults' = faults + 1
NoFault == UNCHANGED faults

-----------------------------------------------------------------------------
(* A Runtime.                                                              *)

\* recover(): shares the one under way, or begins one unless all is recovered.
\* What awaits it goes on when none is under way, and fails with the last one.
Recover(rts, r) ==
  IF rts[r].recovery \/ rts[r].recovered
    THEN rts
    ELSE [rts EXCEPT ![r].recovery = TRUE, ![r].recovered = TRUE, ![r].failed = FALSE]

\* deferRecovery: no timer is set once the Runtime closes.
Defer(r) ==
  runtime' = [runtime EXCEPT ![r].recovered = FALSE, ![r].due = (@ \/ runtime[r].close = "open")]

Cancelling(r, o) == Handle(o) = r /\ cancel[o] \in {"asked", "awaited"}

\* Operations with a record in a Runtime that its recovery leaves alone.
Recorded(r, o) ==
  /\ <<r, o>> \notin deferred
  /\ \/ <<r, o>> \in driving \cup answered
     \/ Cancelling(r, o)
     \/ o \in Tool /\ prepared[o] = r /\ spawns[o] \in {"creating", "kept"}

\* Mutant: every Runtime recovers the repository.
ListingOfAll(r) ==
  {o \in Tool \cup Old : \/ <<r, o>> \in deferred
                         \/ o \in open /\ ~Recorded(r, o)}

\* Only the owner of the recovery lists the store; every Runtime returns to the
\* records it deferred.
Listing(r) ==
  {o \in Tool \cup Old : \/ <<r, o>> \in deferred
                         \/ r = owner /\ o \in open /\ ~Recorded(r, o)}

\* Anything awaiting a recovery goes on before a timer starts the next one.
Awaited(r) ==
  \/ start = "recovering" /\ owner = r
  \/ \E e \in Call : LET k == toolOf[e] IN
       \/ at[e] = "ownerReady" /\ owner = r
       \/ at[e] \in {"ownReady", "spawning"} /\ prepared[k] = r
  \/ runtime[r].close = "recovering"

RecoveryDue(r) ==
  /\ runtime[r].due /\ ~runtime[r].recovery /\ ~Awaited(r)
  /\ runtime' = Recover([runtime EXCEPT ![r].due = FALSE], r)
  /\ UNCHANGED <<calls, work, faults>>

\* Records whose time has not come stay deferred, but not in a Runtime that closes.
Recovers(r) ==
  /\ runtime[r].recovery
  /\ \E later \in SUBSET {o \in Listing(r) : <<r, o>> \in deferred} :
       /\ later # {} => runtime[r].due /\ runtime[r].close = "open"
       /\ LET now == Listing(r) \ later IN
          /\ driving'  = driving \cup {<<r, o>> : o \in now \cap open}
          /\ answered' = answered \cup {<<r, o>> : o \in now \ open}
          /\ tracked'  = {o \in tracked : Handle(o) # r \/ o \notin now \ open}
          /\ deferred' = deferred \ {<<r, o>> : o \in now}
       /\ runtime' = [runtime EXCEPT
            ![r].recovery = FALSE,
            ![r].recovered = @ /\ later = {},
            ![r].lists = IF r = owner /\ @ < 2 THEN @ + 1 ELSE @]
  /\ UNCHANGED <<calls, open, cancel, faults>>

RecoveryFails(r) ==
  /\ runtime[r].recovery
  /\ r = owner \/ Listing(r) # {}
  /\ Fault
  /\ runtime' = [runtime EXCEPT
       ![r].recovery = FALSE, ![r].recovered = FALSE, ![r].failed = TRUE,
       ![r].due = (@ \/ runtime[r].close = "open")]
  /\ UNCHANGED <<calls, work>>

Answer(r, o) ==
  /\ answered' = answered \cup {<<r, o>>}
  /\ tracked'  = IF Handle(o) = r THEN tracked \ {o} ELSE tracked

\* The run of an Operation is over, and on record.
Ends(r, o) ==
  /\ <<r, o>> \in driving
  /\ driving' = driving \ {<<r, o>>}
  /\ open' = open \ {o}
  /\ Answer(r, o)
  /\ UNCHANGED <<calls, runtime, deferred, cancel, faults>>

\* The run cannot be recorded.  While its cancellation is on record, the run
\* leaves the rest to the cancellation.
EndFails(r, o) ==
  /\ <<r, o>> \in driving /\ o \in open
  /\ Fault
  /\ driving' = driving \ {<<r, o>>}
  /\ Answer(r, o)
  /\ \/ deferred' = deferred \cup {<<r, o>>} /\ Defer(r)
     \/ Cancelling(r, o) /\ o \in Tool /\ UNCHANGED <<deferred, runtime>>
  /\ UNCHANGED <<calls, open, cancel>>

\* The cancellation of an Operation decides it, ...
CancelEnds(o) ==
  /\ Cancelling(Handle(o), o) /\ o \in open
  /\ open' = open \ {o}
  /\ cancel' = [cancel EXCEPT ![o] = "done"]
  /\ Answer(Handle(o), o)
  /\ UNCHANGED <<calls, runtime, driving, deferred, faults>>

\* ... comes after its end, ...
CancelIsLate(o) ==
  /\ Cancelling(Handle(o), o) /\ o \notin open
  /\ cancel' = [cancel EXCEPT ![o] = "failed"]
  /\ deferred' = deferred \cup {<<Handle(o), o>>}
  /\ Defer(Handle(o))
  /\ UNCHANGED <<calls, driving, answered, open, tracked, faults>>

\* ... or cannot be recorded: the request itself, or what follows it.
CancelFails(o) ==
  /\ Cancelling(Handle(o), o) /\ o \in open
  /\ Fault
  /\ cancel' = [cancel EXCEPT ![o] = "failed"]
  /\ \/ <<Handle(o), o>> \in driving /\ UNCHANGED <<deferred, runtime>>
     \/ deferred' = deferred \cup {<<Handle(o), o>>} /\ Defer(Handle(o))
  /\ UNCHANGED <<calls, driving, answered, open, tracked>>

-----------------------------------------------------------------------------
(* session_start                                                           *)

\* Pi starts a session before it takes a prompt.  In a project it does not trust, or
\* outside Herdr, nothing is done.
SessionStart ==
  /\ start = "idle" /\ ~closing /\ \A e \in Call : at[e] = "idle"
  /\ start' = "resolving"
  /\ UNCHANGED <<toolOf, shutdown, at, prepared, spawns, owner, runtime, work, faults>>

\* Whichever Runtime comes first owns the recovery of the repository.
StartRecovers ==
  /\ start = "resolving" /\ ~closing
  /\ start' = "recovering"
  /\ IF owner = None
       THEN /\ owner' = Boot
            /\ runtime' = [r \in Known \cup {Boot} |-> IF r = Boot THEN NewRuntime ELSE runtime[r]]
       ELSE /\ runtime' = Recover(runtime, owner)
            /\ UNCHANGED owner
  /\ UNCHANGED <<toolOf, shutdown, at, prepared, spawns, work, faults>>

\* The recovered Operations are tracked like those of delegations.
StartTracks ==
  /\ start = "recovering" /\ ~runtime[owner].recovery /\ ~runtime[owner].failed
  /\ ~closing
  /\ start' = "backgrounds"
  /\ tracked' = tracked \cup {o \in Old : <<owner, o>> \in (driving \cup deferred) \ answered}
  /\ UNCHANGED <<toolOf, shutdown, at, prepared, spawns, owner, runtime, driving, deferred, answered,
                 open, cancel, faults>>

StartEnds ==
  /\ \/ start = "backgrounds"
     \/ start = "resolving" /\ closing
     \/ start = "recovering" /\ ~runtime[owner].recovery /\ (runtime[owner].failed \/ closing)
  /\ start' = "ended"
  /\ UNCHANGED <<toolOf, shutdown, at, prepared, spawns, owner, runtime, work, faults>>

-----------------------------------------------------------------------------
(* pions_delegate                                                          *)

Goto(E, place) == at' = [e \in Call |-> IF e \in E THEN place ELSE at[e]]

\* Executions of a tool call that stand at some place.
Standing(k, places) == {e \in Call : toolOf[e] = k /\ at[e] \in places}

Preparing(k) == Standing(k, {"configuring", "ownerReady", "ownReady"}) # {}

Execute(e) ==
  /\ at[e] = "idle" /\ ~closing
  /\ Goto({e}, "resolving")
  /\ UNCHANGED <<toolOf, shutdown, start, prepared, spawns, owner, runtime, work, faults>>

\* forCall: the executions of a tool call share one preparation.  spawn: its Runtime
\* spawns it once, and keeps a failure as well.
Prepare(e) ==
  LET k == toolOf[e] IN
  /\ at[e] = "resolving"
  /\ Goto({e}, IF closing                             THEN "ended"
               ELSE IF Preparing(k)                   THEN "joining"
               ELSE IF prepared[k] = None             THEN "configuring"
               ELSE IF spawns[k] \in {"failed", "kept"} THEN "ended"
               ELSE IF spawns[k] = "made"             THEN "waiting"
               ELSE "sharing")
  /\ UNCHANGED <<toolOf, shutdown, start, prepared, spawns, owner, runtime, work, faults>>

\* A preparation that fails is forgotten, and fails for whoever shares it.
PreparationFails(e) ==
  /\ Goto(Standing(toolOf[e], {"joining"}) \cup {e}, "ended")
  /\ prepared' = [prepared EXCEPT ![toolOf[e]] = None]
  /\ UNCHANGED <<toolOf, shutdown, start, spawns, owner, runtime, work>>

\* acquire: only the first Runtime is made with its recovery enabled.
Acquire(e, c) ==
  /\ at[e] = "configuring" /\ ~closing
  /\ owner' = IF owner = None THEN c ELSE owner
  /\ runtime' = LET made == [r \in Known \cup {c} |-> IF r \in Known THEN runtime[r] ELSE NewRuntime]
                IN  Recover(made, owner')
  /\ prepared' = [prepared EXCEPT ![toolOf[e]] = c]
  /\ Goto({e}, "ownerReady")
  /\ UNCHANGED <<toolOf, shutdown, start, spawns, work, faults>>

\* The settings are not usable, or the prompt cannot be written.
AcquireFails(e) ==
  /\ at[e] = "configuring"
  /\ IF closing THEN NoFault ELSE Fault
  /\ PreparationFails(e)

\* readyForCall: the repository is recovered before the Runtime of the call is.
OwnerIsReady(e) ==
  /\ at[e] = "ownerReady" /\ ~runtime[owner].recovery /\ ~runtime[owner].failed
  /\ Goto({e}, "ownReady")
  /\ runtime' = IF prepared[toolOf[e]] = owner THEN runtime
                                               ELSE Recover(runtime, prepared[toolOf[e]])
  /\ UNCHANGED <<toolOf, shutdown, start, prepared, spawns, owner, work, faults>>

\* All who share the preparation spawn at once; the first begins.
OwnIsReady(e) ==
  LET k   == toolOf[e]
      own == runtime[prepared[k]]
  IN
  /\ at[e] = "ownReady" /\ ~own.recovery /\ ~own.failed /\ ~closing
  /\ at' = [f \in Call |-> IF f = e THEN "spawning"
                           ELSE IF f \in Standing(k, {"joining"}) THEN "sharing" ELSE at[f]]
  /\ spawns' = [spawns EXCEPT ![k] = "pending"]
  /\ runtime' = Recover(runtime, prepared[k])
  /\ UNCHANGED <<toolOf, shutdown, start, prepared, owner, work, faults>>

ReadyFails(e) ==
  /\ \/ at[e] = "ownerReady" /\ ~runtime[owner].recovery /\ runtime[owner].failed
     \/ LET own == runtime[prepared[toolOf[e]]] IN
        at[e] = "ownReady" /\ ~own.recovery /\ (own.failed \/ closing)
  /\ NoFault
  /\ PreparationFails(e)

\* Mutant: only the execution that began a spawn hears of its end.
SpawnedAlone(k, outcome, place) ==
  /\ spawns' = [spawns EXCEPT ![k] = outcome]
  /\ Goto(Standing(k, {"spawning"}), place)
  /\ UNCHANGED <<toolOf, shutdown, start, prepared, owner, runtime>>

\* How a spawn ends for all who await it.
Spawned(k, outcome, place) ==
  /\ spawns' = [spawns EXCEPT ![k] = outcome]
  /\ Goto(Standing(k, {"spawning", "sharing"}), place)
  /\ UNCHANGED <<toolOf, shutdown, start, prepared, owner, runtime>>

\* store.create
Create(e) ==
  LET k == toolOf[e] IN
  /\ at[e] = "spawning" /\ spawns[k] = "pending"
  /\ ~runtime[prepared[k]].recovery /\ ~runtime[prepared[k]].failed
  /\ spawns' = [spawns EXCEPT ![k] = "creating"]
  /\ open' = open \cup {k}
  /\ UNCHANGED <<toolOf, shutdown, start, at, prepared, owner, runtime, driving, deferred, answered,
                 tracked, cancel, faults>>

\* Its Herdr workspace is there and on record: the Operation is executed and tracked.
Track(e) ==
  LET k == toolOf[e] IN
  /\ at[e] = "spawning" /\ spawns[k] = "creating"
  /\ Spawned(k, "made", "waiting")
  /\ driving' = driving \cup {<<prepared[k], k>>}
  /\ tracked' = tracked \cup {k}
  /\ UNCHANGED <<deferred, answered, open, cancel, faults>>

\* A call before or after store.create fails, and the record of the Operation is
\* kept or not.  Its entry in the store is not undone.
SpawnFails(e) ==
  LET k == toolOf[e] IN
  /\ at[e] = "spawning"
  /\ \/ /\ spawns[k] = "pending" /\ ~runtime[prepared[k]].recovery
        /\ IF runtime[prepared[k]].failed THEN NoFault ELSE Fault
        /\ Spawned(k, "failed", "ended")
     \/ /\ spawns[k] = "creating"
        /\ Fault
        /\ \E outcome \in {"failed", "kept"} : Spawned(k, outcome, "ended")
  /\ UNCHANGED work

\* awaitOperation: an interruption asks for the one cancellation of the handle.
Interrupt(e) ==
  LET k == toolOf[e] IN
  /\ at[e] = "waiting" /\ <<Handle(k), k>> \notin answered
  /\ Goto({e}, "interrupted")
  /\ cancel' = [cancel EXCEPT ![k] = IF @ = "none" THEN "asked" ELSE @]
  /\ UNCHANGED <<toolOf, shutdown, start, prepared, spawns, owner, runtime, driving, deferred, answered,
                 open, tracked, faults>>

Return(e) ==
  LET k == toolOf[e] IN
  /\ \/ at[e] = "waiting" /\ <<Handle(k), k>> \in answered
     \/ at[e] = "interrupted" /\ cancel[k] \in {"done", "failed"}
  /\ Goto({e}, "ended")
  /\ UNCHANGED <<toolOf, shutdown, start, prepared, spawns, owner, runtime, work, faults>>

-----------------------------------------------------------------------------
(* session_shutdown                                                        *)

Admitted ==
  \/ start \in {"resolving", "recovering", "backgrounds"}
  \/ \E e \in Call : at[e] \notin {"idle", "waiting", "interrupted", "ended"}

StopAdmissions ==
  /\ shutdown = "open"
  /\ shutdown' = "admissions"
  /\ UNCHANGED <<toolOf, start, at, prepared, spawns, owner, runtime, work, faults>>

\* Mutant: the cancellations do not wait for what was admitted.
CancelAllAtOnce ==
  /\ shutdown = "admissions"
  /\ shutdown' = "cancelling"
  /\ cancel' = [o \in DOMAIN cancel |->
       IF o \in tracked /\ cancel[o] \in {"none", "asked"} THEN "awaited" ELSE cancel[o]]
  /\ UNCHANGED <<toolOf, start, at, prepared, spawns, owner, runtime, driving, deferred, answered,
                 open, tracked, faults>>

\* Once what was admitted is over, all tracked handles are cancelled, ...
CancelAll ==
  /\ shutdown = "admissions" /\ ~Admitted
  /\ shutdown' = "cancelling"
  /\ cancel' = [o \in DOMAIN cancel |->
       IF o \in tracked /\ cancel[o] \in {"none", "asked"} THEN "awaited" ELSE cancel[o]]
  /\ UNCHANGED <<toolOf, start, at, prepared, spawns, owner, runtime, driving, deferred, answered,
                 open, tracked, faults>>

\* ... and once that is classified, all Runtimes close.
CloseAll ==
  /\ shutdown = "cancelling" /\ \A o \in DOMAIN cancel : cancel[o] # "awaited"
  /\ shutdown' = "closing"
  /\ runtime' = [r \in Known |-> [runtime[r] EXCEPT !.close = "draining", !.due = FALSE]]
  /\ UNCHANGED <<toolOf, start, at, prepared, spawns, owner, work, faults>>

InFlight(r) == \E o \in Tool \cup Old : <<r, o>> \in driving \/ Cancelling(r, o)

CloseTo(r, place) ==
  /\ runtime' = [runtime EXCEPT ![r].close = place]
  /\ UNCHANGED <<calls, work, faults>>

\* The spawns and the recovery under way come first.
Drained(r) ==
  /\ runtime[r].close = "draining" /\ ~runtime[r].recovery
  /\ \A k \in Tool : prepared[k] = r => spawns[k] \notin {"pending", "creating"}
  /\ CloseTo(r, "looping")

CloseRecovers(r) ==
  /\ runtime[r].close = "looping" /\ ~runtime[r].recovered
  /\ runtime' = Recover([runtime EXCEPT ![r].close = "recovering"], r)
  /\ UNCHANGED <<calls, work, faults>>

CloseRecovered(r) ==
  /\ runtime[r].close = "recovering" /\ ~runtime[r].recovery
  /\ CloseTo(r, IF runtime[r].failed THEN "failed" ELSE "tried")

\* One recovery is attempted, no second one.
CloseFails(r) ==
  /\ runtime[r].close = "tried" /\ ~runtime[r].recovered
  /\ CloseTo(r, "failed")

CloseReturns(r) ==
  /\ runtime[r].close \in {"looping", "tried"} /\ runtime[r].recovered /\ ~InFlight(r)
  /\ CloseTo(r, "closed")

ShutdownReturns ==
  /\ shutdown = "closing"
  /\ \A r \in Known : runtime[r].close \in {"closed", "failed"}
  /\ shutdown' = "ended"
  /\ UNCHANGED <<toolOf, start, at, prepared, spawns, owner, runtime, work, faults>>

-----------------------------------------------------------------------------

\* What is under way goes on; a worker ends, and a cancellation is decided.
Goes ==
  \/ \E r \in Known :
       \/ RecoveryDue(r) \/ Recovers(r)
       \/ Drained(r) \/ CloseRecovers(r) \/ CloseRecovered(r) \/ CloseFails(r) \/ CloseReturns(r)
       \/ \E o \in Tool \cup Old : Ends(r, o)
  \/ \E o \in Tool \cup Old : CancelEnds(o) \/ CancelIsLate(o)
  \/ StartRecovers \/ StartTracks \/ StartEnds
  \/ \E e \in Call :
       \/ Prepare(e) \/ (\E c \in Config : Acquire(e, c)) \/ (closing /\ AcquireFails(e))
       \/ OwnerIsReady(e) \/ OwnIsReady(e) \/ ReadyFails(e)
       \/ Create(e) \/ Track(e) \/ Return(e)
       \/ SpawnFails(e) /\ NoFault
  \/ CancelAll \/ CloseAll \/ ShutdownReturns

\* What Pi, the user and the environment do.
Happens ==
  \/ \E r \in Known : RecoveryFails(r) \/ \E o \in Tool \cup Old : EndFails(r, o)
  \/ \E o \in Tool \cup Old : CancelFails(o)
  \/ SessionStart \/ StopAdmissions
  \/ \E e \in Call : Execute(e) \/ AcquireFails(e) \/ SpawnFails(e) \/ Interrupt(e)

Next == Goes \/ Happens

Spec == Init /\ [][Next]_vars

-----------------------------------------------------------------------------
(* Properties.                                                             *)

\* A shutdown that has ended leaves nothing behind: nothing that was admitted is
\* under way, no handle is tracked whose cancellation was not tried, and a closed
\* Runtime drives, cancels and recovers nothing.  When all have closed, no
\* Operation of the repository is open but one whose spawn failed halfway.
QuietAfterShutdown ==
  shutdown = "ended" =>
    /\ ~Admitted
    /\ \A o \in tracked : cancel[o] = "failed"
    /\ \A r \in Known : ~runtime[r].due
    /\ \A r \in Known : runtime[r].close = "closed" => ~InFlight(r) /\ ~runtime[r].recovery
    /\ Known # {} /\ (\A r \in Known : runtime[r].close = "closed")
         => \A o \in open : o \in Tool /\ spawns[o] \in {"failed", "kept"}

\* No Operation is driven by two Runtimes of the session, as long as the owner of
\* the recovery has had to list the store only once.
OneDriver ==
  (owner # None => runtime[owner].lists < 2) =>
    \A o \in Tool \cup Old : Cardinality({r \in Known : <<r, o>> \in driving}) <= 1

\* A shutdown is never stuck: until it ends, some step of what it waits for can be
\* made without anybody's help.
ShutdownGoesOn == closing /\ shutdown # "ended" => ENABLED Goes

=============================================================================
