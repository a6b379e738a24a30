------------------------- MODULE WorkerSession -------------------------
(***************************************************************************)
(* One worker and the Runtimes that drive it, one after the other: the run *)
(* of visible-worker.ts on one side, the bridge of the worker extension    *)
(* with its durable acceptance on the other, and the socket between them.  *)
(*                                                                         *)
(* A session of the host admits one connection and ends with it; the       *)
(* worker connects again until it is done.  Bytes written before an end    *)
(* are read before the end is seen, unless the reader has written to the   *)
(* closed socket.  A chunk of several frames is read frame by frame: the   *)
(* bridge acts when the chunk is read.                                     *)
(*                                                                         *)
(* `op' is the durable Operation from the launch of the worker on.  Its    *)
(* store does not fail here; it refuses what the reducer refuses.  A stop  *)
(* of the process is one step.                                             *)
(***************************************************************************)
EXTENDS WorkerPeers

CONSTANTS
  MaxFaults,     \* bound: failures of the worker's files and of the host's deadlines
  MaxCrashes,    \* bound: deaths of the Runtime
  MaxCancels     \* bound: cancellations by a caller

ASSUME SessionBoundsAreNatural ==
  MaxFaults \in Nat /\ MaxCrashes \in Nat /\ MaxCancels \in Nat

\* There are a workspace, a worker, a result and a dispatcher for every Runtime.
ASSUME OneOfEach ==
  /\ Workspace # {} /\ Worker # {} /\ Result # {}
  /\ 1 .. MaxCrashes + 1 \subseteq Dispatcher

VARIABLES
  op,         \* the durable Operation
  run,        \* the run of the host: its place and its locals
  host,       \* the HostProtocolPeer of the session
  heard,      \* what the promises of the session are resolved with
  worker,     \* the WorkerProtocolPeer of the connection
  bridge,     \* the PiWorkerBridge and the agent it drives
  reception,  \* what the bridge has read of a chunk
  stored,     \* the files of the acceptance store
  socket,     \* the connection, and the frames on their way
  process,    \* the worker's process
  budget,     \* faults, deaths and cancellations that may still come
  mishap      \* history: something out of the ordinary has happened

hostSide   == <<op, run, host, heard>>
workerSide == <<worker, bridge, reception, stored>>
vars == <<hostSide, workerSide, socket, process, budget, mishap>>

-----------------------------------------------------------------------------
(* The socket.  `state' is "up", or tells which end has closed it; an end  *)
(* that wrote to a closed socket may lose what it has not read ("broken"). *)

NoSocket == [state |-> "none", toHost |-> <<>>, toWorker |-> <<>>]

HostCloses ==
  IF socket.state = "up" THEN [socket EXCEPT !.state = "host", !.toHost = <<>>]
  ELSE IF socket.state = "worker" THEN NoSocket ELSE socket

WorkerCloses(s) ==
  CASE s.state = "up"     -> [s EXCEPT !.state = "worker", !.toWorker = <<>>]
    [] s.state = "worker" -> s
    [] OTHER              -> NoSocket

WrittenToHost(frames) ==
  IF frames = <<>> THEN socket ELSE
  CASE socket.state = "up"   -> [socket EXCEPT !.toHost = @ \o frames]
    [] socket.state = "host" -> [socket EXCEPT !.state = "broken"]
    [] OTHER                 -> socket

-----------------------------------------------------------------------------
(* What the host hears.                                                    *)

\* connected: the session has had its connection; open: it is not closed.
FreshHeard ==
  [open |-> TRUE, connected |-> FALSE, completed |-> FALSE, cancelled |-> FALSE,
   started |-> "pending", generation |-> "pending", said |-> None,
   acceptance |-> "pending", acknowledgement |-> "pending", reception |-> "pending"]

NoSession == [FreshHeard EXCEPT !.open = FALSE]

\* A promise is resolved once.
First(old, new) == IF old = "pending" THEN new ELSE old

\* acceptConnection: what an event of the peer resolves.
HeardEvent(s, e) ==
  CASE e.type = "started"        -> [s EXCEPT !.started = First(@, "identified")]
    [] e.type = "begin_accepted" -> [s EXCEPT !.acceptance = First(@, "accepted")]
    [] e.type = "begin_ack"      -> [s EXCEPT !.acknowledgement = First(@, "acknowledged")]
    [] e.type = "begin_rejected" -> [s EXCEPT !.acceptance      = First(@, "rejected"),
                                              !.acknowledgement = First(@, "rejected")]
    [] e.type = "generation_updated" ->
         [s EXCEPT !.generation = First(@, e.acceptance), !.said = e.instruction]
    [] e.type = "cancelled" -> [s EXCEPT !.completed = TRUE, !.cancelled = TRUE]
    [] e.type = "failed"    -> [s EXCEPT !.completed = TRUE, !.reception = First(@, "agent_failed")]
    [] e.type = "done"      -> [s EXCEPT !.completed = TRUE, !.reception = First(@, "result")]
    [] OTHER -> s

\* classifyDisconnect (outcome "lost") and reject (outcome "rejected"), and the
\* closing of the session.
HeardEnd(s, outcome) ==
  LET closed == [s EXCEPT !.open = FALSE] IN
  IF s.completed THEN closed
  ELSE [closed EXCEPT !.completed = TRUE,
                      !.started         = First(@, outcome),
                      !.generation      = First(@, outcome),
                      !.acceptance      = First(@, outcome),
                      !.acknowledgement = First(@, outcome),
                      !.reception       = First(@, outcome)]

HostReceives ==
  LET f == Head(socket.toHost) IN
  /\ heard.open /\ socket.state \in {"up", "worker"} /\ socket.toHost # <<>>
  /\ \/ /\ HostAdmits(host, f)
        /\ host' = HostAfter(host, f)
        /\ heard' = HeardEvent(heard, f.event)
        /\ socket' = [socket EXCEPT !.toHost = Tail(@)]
     \/ /\ ~HostAdmits(host, f)
        /\ host' = [host EXCEPT !.state = "failed"]
        /\ heard' = HeardEnd(heard, "rejected")
        /\ socket' = HostCloses
  /\ UNCHANGED <<op, run, workerSide, process, budget, mishap>>

HostSeesEnd ==
  /\ heard.open /\ socket.state = "worker" /\ socket.toHost = <<>>
  /\ heard' = HeardEnd(heard, "lost")
  /\ socket' = NoSocket
  /\ UNCHANGED <<op, run, host, workerSide, process, budget, mishap>>

-----------------------------------------------------------------------------
(* The bridge: connection.                                                 *)

NoReception ==
  [active |-> FALSE, start |-> None, observed |-> None, update |-> None, cancel |-> FALSE]

Fault == budget.faults > 0 /\ budget' = [budget EXCEPT !.faults = @ - 1] /\ mishap' = TRUE
NoFault == UNCHANGED <<budget, mishap>>

ConnectToHost ==
  /\ process = "running" /\ ~bridge.stopped
  /\ socket.state = "none"
  /\ heard.open /\ ~heard.connected
  /\ socket' = [NoSocket EXCEPT !.state = "up"]
  /\ heard' = [heard EXCEPT !.connected = TRUE]
  /\ worker' = FreshWorker
  /\ reception' = NoReception
  /\ UNCHANGED <<op, run, host, bridge, stored, process, budget, mishap>>

\* hello and started.
Identify ==
  LET hello   == Plain("hello")
      started == Plain("started")
      w       == AfterSend(worker, hello)
  IN
  /\ process = "running" /\ worker.state = "new" /\ socket.state # "none"
  /\ worker' = AfterSend(w, started)
  /\ socket' = WrittenToHost(FramesOf(worker, hello) \o FramesOf(w, started))
  /\ UNCHANGED <<hostSide, bridge, reception, stored, process, budget, mishap>>

WorkerSeesEnd ==
  /\ ~reception.active
  /\ socket.state = "broken" \/ (socket.state = "host" /\ socket.toWorker = <<>>)
  /\ socket' = NoSocket
  /\ UNCHANGED <<hostSide, workerSide, process, budget, mishap>>

-----------------------------------------------------------------------------
(* The bridge: reception of a chunk.                                       *)

NextEvent == Head(socket.toWorker).event

InSequence == Head(socket.toWorker).seq = worker.last + 1

Counted == [worker EXCEPT !.last = @ + 1]

\* receive reads the next frame.  When it throws, what was read of the chunk is
\* dropped and the socket closed.
Receive(type, admitted, next, told) ==
  /\ process = "running"
  /\ socket.state \in {"up", "host", "broken"} /\ socket.toWorker # <<>>
  /\ NextEvent.type = type
  /\ \/ /\ admitted
        /\ worker' = next
        /\ reception' = [told EXCEPT !.active = TRUE]
        /\ socket' = [socket EXCEPT !.toWorker = Tail(@)]
     \/ /\ ~admitted
        /\ worker' = [worker EXCEPT !.state = "failed"]
        /\ reception' = NoReception
        /\ socket' = WorkerCloses(socket)
  /\ UNCHANGED <<hostSide, bridge, process>>

\* What the files of the acceptance store do during a frame.
Disks ==
  {"works", "authorityUnreadable", "acceptanceUnreadable", "authorityRefused",
   "acceptanceRefused", "acceptanceTorn"}

DiskWorks(disk) == IF disk = "works" THEN NoFault ELSE Fault

Load(disk) ==
  Loaded(~stored.torn /\ disk # "acceptanceUnreadable", stored.acceptance)

\* Mutant: answers without looking at what became of the save.
BeginStatusUnsaved(w, i, disk) ==
  LET load  == Load(disk)
      known == Restored(w, load).accepted
  IN
  IF disk = "authorityUnreadable"                THEN "acceptance_unknown"
  ELSE IF i.workerProcessInstanceId # TheWorker  THEN "worker_mismatch"
  ELSE IF Stale(w, i)                            THEN "stale_generation"
  ELSE IF known # None                           THEN IF known = i THEN "duplicate" ELSE "conflict"
  ELSE IF ~load.known                            THEN "acceptance_unknown"
  ELSE IF w.state # "ready"                      THEN "violation"
  ELSE "accepted"

\* The status of a received begin.
BeginStatus(w, i, disk) ==
  LET load  == Load(disk)
      known == Restored(w, load).accepted
  IN
  IF disk = "authorityUnreadable"                THEN "acceptance_unknown"
  ELSE IF i.workerProcessInstanceId # TheWorker  THEN "worker_mismatch"
  ELSE IF Stale(w, i)                            THEN "stale_generation"
  ELSE IF known # None                           THEN IF known = i THEN "duplicate" ELSE "conflict"
  ELSE IF ~load.known                            THEN "acceptance_unknown"
  ELSE IF w.state # "ready"                      THEN "violation"
  ELSE IF w.dispatcher = None /\ disk = "authorityRefused"  THEN "acceptance_unknown"
  ELSE IF disk \in {"acceptanceRefused", "acceptanceTorn"}  THEN "acceptance_unknown"
  ELSE "accepted"

\* The store after a begin: the authority is saved before the acceptance.
StoredByBegin(w, i, disk) ==
  LET claims == /\ BeginStatus(w, i, "works") = "accepted"
                /\ disk \notin {"authorityUnreadable", "acceptanceUnreadable"}
                /\ w.dispatcher = None => disk # "authorityRefused"
      first  == claims /\ w.dispatcher = None
  IN
  [authority  |-> IF first THEN [generation |-> w.generation, dispatcher |-> i.dispatcherId]
                           ELSE stored.authority,
   acceptance |-> IF claims /\ disk \notin {"acceptanceRefused", "acceptanceTorn"}
                    THEN i ELSE stored.acceptance,
   torn       |-> stored.torn \/ (claims /\ disk = "acceptanceTorn")]

AfterBegin(w, i, disk) ==
  LET status == BeginStatus(w, i, disk) IN
  CASE status = "accepted" -> [w EXCEPT !.accepted = i, !.dispatcher = i.dispatcherId, !.state = "running"]
    [] disk = "authorityUnreadable" \/ status \in {"worker_mismatch", "stale_generation"} -> w
    [] OTHER -> Restored(w, Load(disk))

ReceiveBegin(disk) ==
  LET i      == NextEvent.instruction
      w      == IF disk = "authorityUnreadable" THEN Counted
                                                ELSE WithAuthority(Counted, stored.authority)
      status == BeginStatus(w, i, disk)
  IN
  /\ Receive("begin", InSequence /\ status # "violation", AfterBegin(w, i, disk),
             [reception EXCEPT !.start = [status |-> status, instruction |-> i]])
  /\ stored' = IF InSequence THEN StoredByBegin(w, i, disk) ELSE stored
  /\ DiskWorks(disk)

ReceiveObservation ==
  LET next == Restored(Counted, Load("works")) IN
  /\ Receive("begin_acceptance_observed",
             InSequence /\ next.accepted = NextEvent.instruction, next,
             [reception EXCEPT !.observed = NextEvent.instruction])
  /\ UNCHANGED stored
  /\ NoFault

\* The authority that governs an update is on disk before it is answered.
AdmitsUpdate(e, disk) ==
  LET a == stored.authority IN
  /\ InSequence /\ worker.state \in {"ready", "running"}
  /\ disk # "authorityUnreadable"
  /\ \/ e.generation = a.generation /\ e.dispatcher = a.dispatcher
     \/ e.generation > a.generation /\ disk # "authorityRefused"

ReceiveUpdate(disk) ==
  LET e        == NextEvent
      admitted == AdmitsUpdate(e, disk)
      proposed == [generation |-> e.generation, dispatcher |-> e.dispatcher]
      next     == WithAuthority(Restored(Counted, Load(disk)), proposed)
  IN
  /\ Receive("delivery_generation_update", admitted, next,
             [reception EXCEPT !.update =
                [generation  |-> e.generation,
                 acceptance  |-> AcceptanceState(worker, Load(disk)),
                 instruction |-> next.accepted]])
  /\ stored' = IF admitted THEN [stored EXCEPT !.authority = proposed] ELSE stored
  /\ DiskWorks(disk)

ReceiveCancel ==
  /\ Receive("cancel", InSequence /\ MayCancel(worker, NextEvent),
             [Counted EXCEPT !.state = "cancelling"], [reception EXCEPT !.cancel = TRUE])
  /\ UNCHANGED stored
  /\ NoFault

ReceiveAcknowledgement ==
  LET proof == NextEvent.proof IN
  /\ Receive("ack", AdmitsAcknowledgement(worker, proof),
             [worker EXCEPT !.acknowledgementPending = FALSE, !.acknowledged = proof],
             reception)
  /\ UNCHANGED stored
  /\ NoFault

-----------------------------------------------------------------------------
(* The bridge: what it does with a chunk.  A turn of the bridge is a       *)
(* record of its peer, itself, the frames it has written and whether a     *)
(* send has thrown.                                                        *)

Turn(w) == [peer |-> w, bridge |-> bridge, frames |-> <<>>, thrown |-> FALSE]

Send(t, e) ==
  IF t.thrown THEN t
  ELSE IF CanSend(t.peer, e)
    THEN [t EXCEPT !.peer = AfterSend(@, e), !.frames = @ \o FramesOf(t.peer, e)]
    ELSE [t EXCEPT !.thrown = TRUE]

\* shutdown: the socket is ended and Pi is told to exit once it is.
Stopped(t) ==
  IF t.thrown THEN t ELSE [t EXCEPT !.bridge.stopped = TRUE, !.bridge.shutdown = TRUE]

Settle(t) ==
  LET c == [t EXCEPT !.bridge.completionSent = TRUE] IN
  IF t.thrown \/ t.bridge.completionSent THEN t
  ELSE IF t.bridge.cancelled
    THEN Stopped(Send([c EXCEPT !.bridge.stopped = TRUE], Plain("cancelled")))
  ELSE IF t.bridge.final = "result"
    THEN Send(Send(c, [type |-> "result", result |-> TheResult]), Plain("done"))
    ELSE Send(c, Plain("failed"))

UpdateAnswer(u) ==
  [type |-> "generation_updated", generation |-> u.generation,
   acceptance |-> u.acceptance, instruction |-> u.instruction]

\* Mutant: answers, and leaves it at the completion sent before.
AnswerUpdateOnly(t) ==
  IF reception.update = None THEN t ELSE Send(t, UpdateAnswer(reception.update))

\* A recovering host is sent the completion again.
AnswerUpdate(t) ==
  LET u == reception.update
      s == Send(t, UpdateAnswer(u))
  IN
  IF u = None THEN t
  ELSE IF ~s.thrown /\ u.acceptance = "accepted" /\ s.bridge.completionSent
    THEN Settle([s EXCEPT !.bridge.completionSent = FALSE])
    ELSE s

\* A run that has begun is aborted: the agent settles on its own.
AnswerCancel(t) ==
  LET c == [t EXCEPT !.bridge.cancelled = TRUE] IN
  IF t.thrown \/ ~reception.cancel \/ t.bridge.cancelled THEN t
  ELSE IF t.bridge.began THEN c ELSE Settle(c)

AnswerBegin(t) ==
  LET r == reception.start IN
  IF r = None THEN t
  ELSE IF r.status \in {"accepted", "duplicate"}
    THEN Send(t, About("begin_accepted", r.instruction))
    ELSE Send(t, About("begin_rejected", r.instruction))

AnswerObservation(t) ==
  IF reception.observed = None THEN t
  ELSE Send(t, About("begin_ack", reception.observed))

\* Mutant: begins whatever the begin was answered.
BeginRunAnyway(t) ==
  IF ~t.thrown /\ reception.start # None /\ ~t.bridge.cancelled /\ ~t.bridge.began
    THEN [t EXCEPT !.bridge.began = TRUE, !.bridge.agent = "reading"]
    ELSE t

BeginRun(t) ==
  IF /\ ~t.thrown /\ reception.start # None /\ reception.start.status = "accepted"
     /\ ~t.bridge.cancelled /\ ~t.bridge.began
    THEN [t EXCEPT !.bridge.began = TRUE, !.bridge.agent = "reading"]
    ELSE t

\* The turn is over: what was written is on its way.
TurnEnds(t, closes) ==
  LET written == WrittenToHost(t.frames) IN
  /\ worker' = t.peer
  /\ bridge' = t.bridge
  /\ socket' = IF closes \/ t.bridge.shutdown THEN WorkerCloses(written) ELSE written
  /\ reception' = NoReception
  /\ UNCHANGED <<hostSide, stored, process>>

ReceiveControl ==
  LET t == BeginRun(AnswerObservation(AnswerBegin(AnswerCancel(AnswerUpdate(
             Turn(AfterReception(worker)))))))
  IN
  /\ process = "running" /\ reception.active
  /\ TurnEnds(IF AcknowledgementsComplete(worker) THEN Stopped(t) ELSE t, t.thrown)
  /\ NoFault

-----------------------------------------------------------------------------
(* The agent.                                                              *)

\* begin has thrown.
FailRun(t) ==
  IF t.bridge.completionSent THEN t
  ELSE Send([t EXCEPT !.bridge.completionSent = TRUE], Plain("failed"))

\* begin: the prompt is read from its file and given to the agent.
PromptRead ==
  /\ process = "running" /\ ~reception.active /\ bridge.agent = "reading"
  /\ \/ /\ bridge.cancelled
        /\ TurnEnds(Settle([Turn(worker) EXCEPT !.bridge.agent = "settled"]), FALSE)
        /\ NoFault
     \/ /\ ~bridge.cancelled
        /\ TurnEnds([Turn(worker) EXCEPT !.bridge.agent = "running", !.bridge.prompts = @ + 1], FALSE)
        /\ NoFault
     \/ /\ TurnEnds(FailRun([Turn(worker) EXCEPT !.bridge.agent = "settled"]), FALSE)
        /\ Fault

\* The host's run is between begin and the acknowledgement of the start.
StartUnderWay ==
  run.at \in {"dispatch", "awaitAcceptance", "accepted", "observe", "awaitAcknowledgement"}

\* agent_settled: a send that throws does not close the socket.
AgentSettles ==
  /\ process = "running" /\ ~reception.active /\ bridge.agent = "running"
  /\ \E final \in {"result", "error"} :
       TurnEnds(Settle([Turn(worker) EXCEPT !.bridge.agent = "settled", !.bridge.final = final]), FALSE)
  /\ mishap' = (mishap \/ StartUnderWay)
  /\ UNCHANGED budget

\* Pi exits once it is told to.
PiExits ==
  /\ process = "running" /\ bridge.shutdown
  /\ process' = "exited"
  /\ UNCHANGED <<hostSide, workerSide, socket, budget, mishap>>

-----------------------------------------------------------------------------
(* The run of the host.                                                    *)

rest == <<workerSide, process, budget, mishap>>

Proceeds(place) == run' = [run EXCEPT !.at = place]

\* The session is closed when its run ends.
RunEnds ==
  /\ Proceeds("ended")
  /\ heard' = [heard EXCEPT !.open = FALSE]
  /\ socket' = HostCloses

\* A hook of the Runtime records an event, or is refused.  What began the start
\* delivery, or rejoined a worker, is stopped.
Hook(place, can, next, then) ==
  /\ run.at = place
  /\ \/ /\ can
        /\ op' = next
        /\ Proceeds(then)
        /\ UNCHANGED <<heard, socket>>
     \/ /\ ~can
        /\ UNCHANGED op
        /\ IF run.recovering \/ run.at \in {"dispatch", "accepted", "acknowledged"}
             THEN Proceeds("stop") /\ UNCHANGED <<heard, socket>>
             ELSE RunEnds
  /\ UNCHANGED <<host, rest>>

\* The run waits for a promise of the session.
Await(place, promise, wanted, then) ==
  /\ run.at = place /\ promise # "pending"
  /\ Proceeds(IF promise = wanted THEN then ELSE "stop")
  /\ UNCHANGED <<op, host, heard, socket, rest>>

\* The run writes a frame; a call the peer refuses and a write that fails throw.
Writes(place, can, event, next, then) ==
  /\ run.at = place
  /\ \/ /\ can /\ heard.open /\ socket.state = "up"
        /\ host' = next
        /\ socket' = [socket EXCEPT !.toWorker = Append(@, Frame(host, event))]
        /\ Proceeds(then)
     \/ /\ ~(can /\ heard.open /\ socket.state = "up")
        /\ Proceeds("stop")
        /\ UNCHANGED <<host, socket>>
  /\ UNCHANGED <<op, heard, rest>>

WaitForIdentification ==
  /\ run.at = "identify"
  /\ \/ /\ heard.started = "identified"
        /\ Proceeds("identified")
        /\ UNCHANGED <<op, host, heard, socket, rest>>
     \/ /\ \/ heard.started \in {"lost", "rejected"} /\ NoFault
           \/ heard.started = "pending" /\ process # "running" /\ NoFault
           \/ heard.started = "pending" /\ process = "running" /\ Fault
        /\ IF run.recovering THEN Proceeds("stop") /\ UNCHANGED <<heard, socket>> ELSE RunEnds
        /\ UNCHANGED <<op, host, workerSide, process>>

WorkerIdentified ==
  IF run.recovering
    THEN /\ run.at = "identified"
         /\ run' = [run EXCEPT !.at = "revoke", !.instruction = SuccessorOf(op)]
         /\ UNCHANGED <<op, host, heard, socket, rest>>
    ELSE Hook("identified", CanIdentifyWorker(op, op.presentation),
              IdentifyWorker(op, TheWorker), "acquire")

StartDeliveryAuthorityAcquired ==
  Hook("acquire", CanAcquireAuthority(op, run.instruction),
       AcquireAuthority(op, run.instruction), "check")

StartDeliveryAuthorityRevoked ==
  LET i == run.instruction IN
  Hook("revoke", CanRevokeAuthority(op, i.dispatcherId, i.deliveryGeneration),
       RevokeAuthority(op, i.dispatcherId, i.deliveryGeneration), "announce")

RequestDeliveryGenerationUpdate ==
  LET i == run.instruction IN
  Writes("announce", CanUpdateGeneration(host, i.deliveryGeneration),
         [type |-> "delivery_generation_update",
          generation |-> i.deliveryGeneration, dispatcher |-> i.dispatcherId],
         UpdateGeneration(host, i.deliveryGeneration), "awaitGeneration")

CompleteDispatcherHandoff ==
  /\ run.at = "awaitGeneration" /\ heard.generation # "pending"
  /\ \/ /\ heard.generation \in AcceptanceStates /\ CanCompleteHandoff(host)
        /\ host' = CompleteHandoff(host, run.instruction.dispatcherId)
        /\ Proceeds("confirm")
     \/ /\ ~(heard.generation \in AcceptanceStates /\ CanCompleteHandoff(host))
        /\ Proceeds("stop")
        /\ UNCHANGED host
  /\ UNCHANGED <<op, heard, socket, rest>>

StartDeliveryGenerationConfirmed ==
  LET i == run.instruction IN
  Hook("confirm",
       CanConfirmGeneration(op, i.dispatcherId, i.deliveryGeneration, heard.generation, heard.said),
       ConfirmGeneration(op, heard.generation),
       CASE heard.generation = "unknown"  -> "giveUp"
         [] heard.generation = "accepted" -> "collectAcceptance"
         [] OTHER                         -> "acquire")

StartAcceptanceUnknown ==
  Hook("giveUp", CanGiveUp(op, "start-acceptance-unknown", 0), GiveUp(op), "stop")

\* A recovered run records what it was told and has no record of.
CollectAcceptance ==
  LET known == op.startInstructionAcceptance # None IN
  Hook("collectAcceptance", known \/ CanAcceptStart(op, heard.said),
       IF known THEN op ELSE AcceptStart(op, heard.said), "collectAcknowledgement")

CollectAcknowledgement ==
  LET known == op.startInstructionAcknowledgement # None IN
  Hook("collectAcknowledgement", known \/ CanAcknowledgeStart(op, heard.said),
       IF known THEN op ELSE AcknowledgeStart(op, heard.said), "check")

\* A cancellation under way keeps the session open until it is decided.
CheckCancellation ==
  /\ run.at = "check"
  /\ \/ /\ run.cancel = "no"
        /\ Proceeds(IF heard.generation = "accepted" THEN "work" ELSE "enter")
        /\ UNCHANGED <<heard, socket>>
     \/ run.cancel # "no" /\ heard.reception # "pending" /\ RunEnds
  /\ UNCHANGED <<op, host, rest>>

StartDeliveryEntered ==
  Hook("enter", CanEnterDelivery(op, run.instruction), EnterDelivery(op, run.instruction), "send")

DispatchBegin ==
  Writes("send", CanBegin(host, run.instruction), About("begin", run.instruction),
         Begin(host, run.instruction), "dispatch")

StartInstructionDispatched ==
  Hook("dispatch", CanDispatchStart(op, run.instruction),
       DispatchStart(op, run.instruction), "awaitAcceptance")

AwaitAcceptance == Await("awaitAcceptance", heard.acceptance, "accepted", "accepted")

StartInstructionAccepted ==
  Hook("accepted", CanAcceptStart(op, run.instruction), AcceptStart(op, run.instruction), "observe")

SendStartAcceptanceObservation ==
  Writes("observe", CanObserveAcceptance(host, run.instruction),
         About("begin_acceptance_observed", run.instruction),
         ObserveAcceptance(host), "awaitAcknowledgement")

AwaitAcknowledgement ==
  Await("awaitAcknowledgement", heard.acknowledgement, "acknowledged", "acknowledged")

StartInstructionAcknowledged ==
  Hook("acknowledged", CanAcknowledgeStart(op, run.instruction),
       AcknowledgeStart(op, run.instruction), "work")

AwaitReception ==
  /\ run.at = "work" /\ heard.reception # "pending"
  /\ CASE heard.reception = "result"   -> Proceeds("offer") /\ UNCHANGED <<heard, socket>>
       [] heard.reception = "rejected" -> Proceeds("stop")  /\ UNCHANGED <<heard, socket>>
       [] OTHER                        -> RunEnds
  /\ UNCHANGED <<op, host, rest>>

\* Mutant: acknowledges a result that the record refuses.
OfferResultAnyway ==
  /\ run.at = "offer"
  /\ op' = IF CanAcceptResult(op) THEN AcceptResult(op, TheResult) ELSE op
  /\ Proceeds("acknowledge")
  /\ UNCHANGED <<host, heard, socket, rest>>

\* acceptResult: a result already on record is accepted again.
OfferResult ==
  /\ run.at = "offer"
  /\ \/ /\ run.cancel = "no" /\ (op.result # None \/ CanAcceptResult(op))
        /\ op' = IF op.result # None THEN op ELSE AcceptResult(op, TheResult)
        /\ Proceeds("acknowledge")
        /\ UNCHANGED <<heard, socket>>
     \/ /\ run.cancel # "no" \/ ~(op.result # None \/ CanAcceptResult(op))
        /\ UNCHANGED op
        /\ RunEnds
  /\ UNCHANGED <<host, rest>>

\* sendAcknowledgement; the run then waits for the worker's exit.
SendAcknowledgement ==
  /\ run.at = "acknowledge"
  /\ \/ /\ CanAcknowledgeResult(host, TheResult) /\ heard.open /\ socket.state = "up"
        /\ host' = AcknowledgeResult(host, TheResult)
        /\ socket' = [socket EXCEPT !.toWorker =
                        Append(@, Frame(host, [type |-> "ack", proof |-> TheResult]))]
        /\ Proceeds("exit")
        /\ UNCHANGED heard
     \/ /\ ~(CanAcknowledgeResult(host, TheResult) /\ heard.open /\ socket.state = "up")
        /\ RunEnds
        /\ UNCHANGED host
  /\ UNCHANGED <<op, rest>>

ConfirmSuccessfulExit ==
  /\ run.at = "exit"
  /\ \/ process # "running" /\ NoFault
     \/ process = "running" /\ Fault
  /\ RunEnds
  /\ UNCHANGED <<op, host, workerSide, process>>

-----------------------------------------------------------------------------
(* Cancellation, stop, death and recovery.                                 *)

Cancelled ==
  /\ budget.cancels > 0
  /\ run.at \notin {"down", "ended"} /\ run.cancel = "no"
  /\ CanRequestCancellation(op, 1)
  /\ op' = RequestCancellation(op, 1)
  /\ run' = [run EXCEPT !.cancel = "requested"]
  /\ budget' = [budget EXCEPT !.cancels = @ - 1]
  /\ mishap' = TRUE
  /\ UNCHANGED <<host, heard, workerSide, socket, process>>

\* cancelSession asks the worker first, when there is a session to ask it in.
RequestCancellationOfWorker ==
  /\ run.cancel = "requested" \/ (run.at = "stop" /\ run.cancel = "no")
  /\ run' = [run EXCEPT !.cancel = "asked"]
  /\ \/ /\ CanRequestCancel(host) /\ heard.open /\ socket.state = "up"
        /\ host' = RequestCancel(host)
        /\ socket' = [socket EXCEPT !.toWorker = Append(@, Frame(host, CancelEvent(host)))]
     \/ /\ ~(CanRequestCancel(host) /\ heard.open /\ socket.state = "up")
        /\ UNCHANGED <<host, socket>>
  /\ UNCHANGED <<op, heard, rest>>

\* The worker's answer or a deadline ends the session: the process is stopped,
\* or its stop cannot be proved.
StopProcess ==
  /\ run.cancel = "asked"
  /\ run' = [run EXCEPT !.at = "ended", !.cancel = "done"]
  /\ heard' = [heard EXCEPT !.open = FALSE]
  /\ \/ process' = "stopped" /\ socket' = NoSocket
     \/ process' = process /\ socket' = HostCloses
  /\ UNCHANGED <<op, host, workerSide, budget, mishap>>

RuntimeDies ==
  /\ budget.crashes > 0
  /\ run.at \notin {"down", "ended"}
  /\ budget' = [budget EXCEPT !.crashes = @ - 1]
  /\ run' = [at |-> "down", recovering |-> FALSE, instruction |-> None, cancel |-> "no"]
  /\ host' = FreshHost
  /\ heard' = NoSession
  /\ socket' = HostCloses
  /\ UNCHANGED <<op, workerSide, process, mishap>>

\* What a recovered session starts from.
Previous(o) ==
  IF o.startInstructionDelivery # None THEN o.startInstructionDelivery
                                       ELSE o.startDeliveryAuthority

\* recoverWorker, for an Operation whose worker can be rejoined; any other
\* worker is stopped or left alone.
RuntimeRecovers ==
  /\ run.at = "down"
  /\ \/ /\ op.startDeliveryAuthority # None /\ Starting(op)
        /\ run' = [run EXCEPT !.at = "identify", !.recovering = TRUE]
        /\ host' = RestoredHost(Previous(op))
        /\ heard' = FreshHeard
        /\ UNCHANGED process
     \/ /\ ~(op.startDeliveryAuthority # None /\ Starting(op))
        /\ run' = [run EXCEPT !.at = "ended"]
        /\ process' \in {process, "stopped"}
        /\ UNCHANGED <<host, heard>>
  /\ UNCHANGED <<op, workerSide, socket, budget, mishap>>

WorkerDies ==
  /\ process = "running"
  /\ Fault
  /\ process' = "exited"
  /\ socket' = WorkerCloses(socket)
  /\ UNCHANGED <<hostSide, workerSide>>

-----------------------------------------------------------------------------
(* The specification.                                                      *)

\* From the launch of the worker on.
Init ==
  /\ op = [Requested EXCEPT !.state = "starting", !.workerLaunched = TRUE,
                            !.presentation = CHOOSE w \in Workspace : TRUE]
  /\ run = [at |-> "identify", recovering |-> FALSE, instruction |-> InstructionOf(1),
            cancel |-> "no"]
  /\ host = FreshHost
  /\ heard = FreshHeard
  /\ worker = FreshWorker
  /\ bridge = [agent |-> "idle", prompts |-> 0, final |-> "none", began |-> FALSE,
               cancelled |-> FALSE, completionSent |-> FALSE, stopped |-> FALSE,
               shutdown |-> FALSE]
  /\ reception = NoReception
  /\ stored = [acceptance |-> None, torn |-> FALSE,
               authority |-> [generation |-> 1, dispatcher |-> None]]
  /\ socket = NoSocket
  /\ process = "running"
  /\ budget = [faults |-> MaxFaults, crashes |-> MaxCrashes, cancels |-> MaxCancels]
  /\ mishap = FALSE

HostStep ==
  \/ HostReceives \/ HostSeesEnd
  \/ WaitForIdentification \/ WorkerIdentified \/ StartDeliveryAuthorityAcquired
  \/ StartDeliveryAuthorityRevoked \/ RequestDeliveryGenerationUpdate
  \/ CompleteDispatcherHandoff \/ StartDeliveryGenerationConfirmed
  \/ StartAcceptanceUnknown \/ CollectAcceptance \/ CollectAcknowledgement
  \/ CheckCancellation \/ StartDeliveryEntered \/ DispatchBegin
  \/ StartInstructionDispatched \/ AwaitAcceptance \/ StartInstructionAccepted
  \/ SendStartAcceptanceObservation \/ AwaitAcknowledgement
  \/ StartInstructionAcknowledged \/ AwaitReception \/ OfferResult
  \/ SendAcknowledgement \/ ConfirmSuccessfulExit
  \/ RequestCancellationOfWorker \/ StopProcess \/ RuntimeRecovers

WorkerReceives ==
  \/ \E disk \in Disks : ReceiveBegin(disk) \/ ReceiveUpdate(disk)
  \/ ReceiveObservation \/ ReceiveCancel \/ ReceiveAcknowledgement

WorkerStep ==
  \/ ConnectToHost \/ Identify \/ WorkerSeesEnd
  \/ WorkerReceives \/ ReceiveControl
  \/ PromptRead \/ AgentSettles \/ PiExits

Next == HostStep \/ WorkerStep \/ Cancelled \/ RuntimeDies \/ WorkerDies

\* Both event loops go on.  Nothing makes a fault happen, a process die or a
\* caller cancel; a Runtime is started again, and an agent settles.
Fairness ==
  WF_vars(HostStep /\ UNCHANGED budget) /\ WF_vars(WorkerStep /\ UNCHANGED budget)

Spec == Init /\ [][Next]_vars /\ Fairness

-----------------------------------------------------------------------------
(* Properties.                                                             *)

Faithful(i)  == i # None => stored.acceptance = i

Places ==
  {"identify", "identified", "acquire", "revoke", "announce", "awaitGeneration", "confirm",
   "giveUp", "collectAcceptance", "collectAcknowledgement", "check", "enter", "send",
   "dispatch", "awaitAcceptance", "accepted", "observe", "awaitAcknowledgement",
   "acknowledged", "work", "offer", "acknowledge", "exit", "stop", "ended", "down"}

Runs ==
  [at : Places, recovering : BOOLEAN, instruction : StartInstruction \cup {None},
   cancel : {"no", "requested", "asked", "done"}]

Hearings ==
  [open : BOOLEAN, connected : BOOLEAN, completed : BOOLEAN, cancelled : BOOLEAN,
   started         : {"pending", "identified", "lost", "rejected"},
   generation      : AcceptanceStates \cup {"pending", "lost", "rejected"},
   said            : StartInstruction \cup {None},
   acceptance      : {"pending", "accepted", "lost", "rejected"},
   acknowledgement : {"pending", "acknowledged", "lost", "rejected"},
   reception       : {"pending", "result", "agent_failed", "lost", "rejected"}]

Bridges ==
  [agent : {"idle", "reading", "running", "settled"}, prompts : Nat,
   final : {"none", "result", "error"}, began : BOOLEAN, cancelled : BOOLEAN,
   completionSent : BOOLEAN, stopped : BOOLEAN, shutdown : BOOLEAN]

Statuses ==
  {"accepted", "duplicate", "conflict", "stale_generation", "worker_mismatch",
   "acceptance_unknown", "violation"}

Receptions ==
  [active : BOOLEAN, cancel : BOOLEAN,
   start    : {None} \cup [status : Statuses, instruction : StartInstruction],
   observed : {None} \cup StartInstruction,
   update   : {None} \cup [generation : Nat \ {0}, acceptance : AcceptanceStates,
                          instruction : StartInstruction \cup {None}]]

\* An undefined field is neither a result under way nor what has been read of a chunk.
ASSUME NoneIsNoReception ==
  None \notin [digest : Result, chunks : Seq(Result)]
        \cup [status : Statuses, instruction : StartInstruction]
        \cup [generation : Nat \ {0}, acceptance : AcceptanceStates,
              instruction : StartInstruction \cup {None}]

Stores ==
  [acceptance : StartInstruction \cup {None}, torn : BOOLEAN,
   authority  : [generation : Nat \ {0}, dispatcher : Dispatcher \cup {None}]]

Sockets ==
  [state : {"none", "up", "host", "worker", "broken"},
   toHost : Seq(ToHost), toWorker : Seq(ToWorker)]

\* The types of the state.
SessionTypeOK ==
  /\ op \in Operation
  /\ run \in Runs
  /\ host \in HostProtocolPeers
  /\ heard \in Hearings
  /\ worker \in WorkerProtocolPeers
  /\ bridge \in Bridges
  /\ reception \in Receptions
  /\ stored \in Stores
  /\ socket \in Sockets
  /\ process \in {"running", "exited", "stopped"}
  /\ budget \in [faults : Nat, crashes : 0 .. MaxCrashes, cancels : Nat]
  /\ mishap \in BOOLEAN

\* Whatever the worker says it has accepted is on its disk and is never another
\* instruction: in the host's peer, in its record, in the worker's memory and in
\* every frame under way.
AcceptanceIsStored ==
  /\ Faithful(host.accepted) /\ Faithful(heard.said)
  /\ Faithful(op.startInstructionAcceptance) /\ Faithful(worker.accepted)
  /\ \A n \in 1 .. Len(socket.toHost) :
       socket.toHost[n].event.type \in {"begin_accepted", "begin_ack"} =>
         Faithful(socket.toHost[n].event.instruction)

\* A prompt is given to the agent at most once over all connections and Runtimes,
\* and only for a stored acceptance.
StartsOnce ==
  bridge.prompts # 0 => bridge.prompts = 1 /\ stored.acceptance # None

\* A worker that told a successor it had accepted nothing never takes up what an
\* older dispatcher has sent.
RefusedStaysRefused ==
  \A n \in DOMAIN op.startDeliveryHandoffs :
    LET handoff == op.startDeliveryHandoffs[n] IN
    handoff.acceptanceState = "not_accepted" /\ stored.acceptance # None =>
      stored.acceptance.deliveryGeneration >= handoff.deliveryGeneration

\* A worker leaves because its result was acknowledged only when the result is on
\* record.
AcknowledgedIsRecorded ==
  worker.state = "acknowledged" /\ worker.acknowledged # None => op.result # None

\* Deaths of the Runtime alone never make the peers disagree: neither sees a
\* violation, and no worker that still runs is stopped for want of certainty.
PeersAgree ==
  ~mishap => /\ host.state # "failed" /\ worker.state # "failed"
             /\ run.at = "stop" => process # "running"

\* A result the agent has produced is recorded, over deaths of the Runtime.
ResultIsRecorded ==
  (bridge.agent = "settled" /\ bridge.final = "result") ~> (op.result # None \/ mishap)

\* The generations that are on record as not accepted.
RecordedRefusals ==
  LET refusals == {n \in DOMAIN op.startDeliveryHandoffs :
                     op.startDeliveryHandoffs[n].acceptanceState = "not_accepted"}
  IN {op.startDeliveryHandoffs[n].deliveryGeneration : n \in refusals}

Delivery ==
  INSTANCE SingleStart WITH
    governing <- stored.authority.generation,
    taken     <- stored.acceptance,
    prompts   <- bridge.prompts,
    recorded  <- op.startInstructionAcceptance,
    refused   <- RecordedRefusals

\* Successive Runtimes, the bridge and its acceptance store deliver a start as
\* SingleStart promises, whatever fails, dies or is lost on the way: taken up once
\* under the generation that governs, prompted once, recorded as taken up, and no
\* generation is recorded as refused that an older start could still precede.
ImplementsSingleStart == Delivery!StartSpec

\* Every run ends, whatever happens, once the agent has settled.
RunEndsAtLast == (bridge.agent = "settled") ~> (run.at = "ended")

=============================================================================
