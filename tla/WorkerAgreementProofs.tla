----------------------- MODULE WorkerAgreementProofs -----------------------
(* Theorems about WorkerSession before any mishap, for every value of its  *)
(* constants: over any number of deaths of the Runtime, the two peers of a *)
(* connection agree on every frame until a call fails, somebody cancels or *)
(* an agent settles while its start is under way.                          *)
EXTENDS WorkerSessionProofs

-----------------------------------------------------------------------------
(* A conversation without mishaps.  The host's sequence number tells how   *)
(* far it is: a recovering host hands over first, then come the begin and  *)
(* the observation of its acceptance, and every frame is answered before   *)
(* the next one is sent.                                                   *)

Preceding == IF run.recovering THEN 1 ELSE 0

\* The host has the answer to what it has sent last.
Answered == host.last > host.seq

HandedOver == run.recovering /\ (host.seq > 2 \/ (host.seq = 2 /\ Answered))

\* The host has begun, or has been told of the acceptance of an earlier begin.
Working ==
  host.seq = Preceding + 3 \/ (run.recovering /\ host.seq = 2 /\ heard.generation = "accepted")

Begins == {f \in Carried(socket.toWorker) : f.event.type = "begin"}

\* A begin has been sent, and is on its way or accepted.
Sent == stored.acceptance # None \/ Begins # {}

\* The record is open, and names what it began by generations.
CalmRecord ==
  /\ op.state \in {"starting", "running"} /\ op.workerLaunched
  /\ op.state = "running" <=> op.startInstructionAcknowledgement # None
  /\ op.startInstructionAcknowledgement # None => op.startInstructionAcceptance # None
  /\ op.startDeliveryAuthority # None =>
       /\ op.startDeliveryAuthority = InstructionOf(op.startDeliveryAuthority.deliveryGeneration)
       /\ op.workerIdentity = TheWorker
  /\ op.startDeliveryEntry # None =>
       /\ op.startDeliveryAuthority # None
       /\ op.startDeliveryEntry.deliveryGeneration <= op.startDeliveryAuthority.deliveryGeneration
  /\ op.startInstructionDelivery # None =>
       /\ op.startInstructionDelivery = op.startDeliveryAuthority
       /\ op.startDeliveryEntry = op.startDeliveryAuthority
  /\ HasHandoff(op) =>
       /\ op.startDeliveryAuthority # None
       /\ LastHandoff(op).successorDispatcherId = LastHandoff(op).deliveryGeneration
  /\ HandoffPending(op) =>
       LastHandoff(op).deliveryGeneration = op.startDeliveryAuthority.deliveryGeneration + 1

\* What was begun stays the instruction on record.
Recorded(i) == op.startDeliveryAuthority = i /\ op.startDeliveryEntry = i

BegunIsRecorded ==
  /\ stored.acceptance # None => Recorded(stored.acceptance)
  /\ \A f \in Begins : Recorded(f.event.instruction)
  /\ op.startInstructionDelivery # None => run.at = "ended" \/ Sent

\* A host that has yet to send its begin knows that nothing was accepted.
NothingBegun ==
  /\ heard.open /\ host.seq = Preceding + 1
  /\ run.recovering => heard.generation = "not_accepted"
  => stored.acceptance = None

\* The files of the worker.
CalmStore ==
  /\ ~stored.torn
  /\ stored.authority.dispatcher \in {None, stored.authority.generation}
  /\ stored.authority.dispatcher = None => stored.authority.generation = 1
  /\ IF op.startDeliveryAuthority = None THEN stored.authority.generation = 1
     ELSE stored.authority.generation <= op.startDeliveryAuthority.deliveryGeneration + 1
  /\ ~run.recovering /\ run.at \notin {"down", "ended"} => stored.authority.generation = 1

\* The worker's end, whatever has become of the connection.
CalmWorker ==
  /\ ~bridge.cancelled /\ (bridge.shutdown => bridge.stopped)
  /\ worker.state \in {"new", "ready", "running", "done", "acknowledged"}
  /\ worker.state \in {"new", "ready"} => worker.accepted = None
  /\ worker.state \in {"new", "ready", "running"} => ~worker.acknowledgementPending
  /\ worker.state \in {"running", "done"} => worker.accepted # None

\* At most one frame is on its way to the worker, and the worker admits it.
Fits(f) ==
  LET e == f.event IN
  /\ e.type # "cancel"
  /\ e.type # "ack" => f.seq = worker.last + 1
  /\ e.type = "begin" =>
       /\ worker.state = "ready" /\ stored.acceptance = None
       /\ e.instruction = InstructionOf(stored.authority.generation)
       /\ socket.state \in {"up", "host"}
  /\ e.type = "begin_acceptance_observed" => worker.accepted = e.instruction
  /\ e.type = "delivery_generation_update" =>
       /\ worker.state = "ready" /\ e.dispatcher = e.generation
       /\ e.generation >= stored.authority.generation /\ e.generation > 1
       /\ op.startDeliveryAuthority # None
       /\ e.generation <= op.startDeliveryAuthority.deliveryGeneration + 1
  /\ e.type = "ack" => worker.state = "done" /\ worker.acknowledgementPending

CalmFrames ==
  /\ Len(socket.toWorker) <= 1
  /\ \A f \in Carried(socket.toWorker) : Fits(f)
  /\ socket.state \in {"none", "worker"} => socket.toWorker = <<>>
  /\ socket.state = "worker" => socket.toHost = <<>>

\* What the worker has read of a chunk is one frame.
ReadBegin ==
  /\ reception.start # None /\ reception.observed = None /\ reception.update = None
  /\ reception.start.status = "accepted"
  /\ worker.state = "running" /\ worker.accepted = reception.start.instruction

ReadObservation ==
  /\ reception.start = None /\ reception.observed # None /\ reception.update = None
  /\ worker.accepted = reception.observed

ReadUpdate ==
  /\ reception.start = None /\ reception.observed = None /\ reception.update # None
  /\ reception.update.generation = worker.generation /\ reception.update.generation > 1
  /\ reception.update.instruction = worker.accepted /\ worker.accepted = stored.acceptance
  /\ worker.state = IF worker.accepted = None THEN "ready" ELSE "running"
  /\ reception.update.acceptance = IF worker.accepted = None THEN "not_accepted" ELSE "accepted"

ReadAcknowledgement ==
  /\ reception.start = None /\ reception.observed = None /\ reception.update = None
  /\ worker.state = "done" /\ ~worker.acknowledgementPending

CalmReception ==
  /\ ~reception.cancel
  /\ ~reception.active => reception = NoReception
  /\ reception.active =>
       /\ socket.toWorker = <<>>
       /\ ReadBegin \/ ReadObservation \/ ReadUpdate \/ ReadAcknowledgement

\* A worker that leaves has been acknowledged, and joins no session.
CalmLeaving ==
  /\ bridge.stopped =>
       /\ socket.state \in {"none", "worker"} /\ ~reception.active
       /\ run.at \in {"exit", "ended", "down"} \/ ~heard.connected
  /\ process # "running" => bridge.stopped \/ run.at = "ended"
  /\ socket.state = "worker" => bridge.stopped

\* The session of the run.
CalmSession ==
  /\ run.at \notin {"exit", "ended", "down"} => heard.open
  /\ run.at \in {"ended", "down"} => ~heard.open
  /\ run.at \notin {"identify", "exit", "ended", "down", "stop"} => heard.connected
  /\ heard.open /\ heard.connected /\ run.at # "exit" => socket.state = "up"
  /\ run.at = "exit" => socket.state \notin {"host", "broken"}
  /\ heard.open /\ ~heard.connected => host.last = 0
  /\ heard.open /\ host.acknowledged # None => run.at = "exit"
  /\ run.cancel # "no" => run.at \in {"stop", "ended"}
  /\ run.at = "stop" => process # "running" /\ ~heard.connected

\* The places of the run.
Succeeding ==
  run.recovering /\ run.instruction = InstructionOf(op.startDeliveryAuthority.deliveryGeneration + 1)

\* The host may begin the instruction of its run.
MayBegin ==
  /\ host.seq = Preceding + 1 /\ Answered
  /\ host.dispatcher \in {None, run.instruction.dispatcherId} /\ host.instruction = None
  /\ run.recovering => heard.generation = "not_accepted"

AtIdentify ==
  host.seq = 1 /\ (~run.recovering => op.startDeliveryAuthority = None)

AtIdentified == AtIdentify /\ Answered

AtRevoke == Succeeding /\ host.seq = 1 /\ Answered

AtAnnounce == AtRevoke /\ HandoffPending(op)

AtAwaitGeneration == Succeeding /\ host.seq = 2 /\ HandoffPending(op)

AtConfirm ==
  /\ AtAwaitGeneration /\ Answered
  /\ heard.generation = "not_accepted" => MayBegin

AtCollectAcceptance ==
  run.recovering /\ host.seq = 2 /\ Answered /\ heard.generation = "accepted"

AtCollectAcknowledgement == AtCollectAcceptance /\ op.startInstructionAcceptance # None

AtAcquire ==
  /\ MayBegin
  /\ IF run.recovering
       THEN /\ Succeeding
            /\ LastHandoffNames(op, run.instruction.dispatcherId, run.instruction.deliveryGeneration)
            /\ LastHandoff(op).acceptanceState = "not_accepted"
       ELSE op.startDeliveryAuthority = None

AtEnter ==
  /\ MayBegin /\ op.startDeliveryAuthority = run.instruction
  /\ op.startDeliveryEntry # None =>
       op.startDeliveryEntry.deliveryGeneration < run.instruction.deliveryGeneration

AtCheck == IF heard.generation = "accepted" THEN AtCollectAcceptance ELSE AtEnter

EntryIs(i) ==
  /\ op.startDeliveryAuthority = i /\ op.startDeliveryEntry = i
  /\ op.startInstructionAcceptance = None

AtSend == MayBegin /\ EntryIs(run.instruction) /\ op.startInstructionDelivery = None

AtDispatch ==
  host.seq = Preceding + 2 /\ EntryIs(run.instruction) /\ op.startInstructionDelivery = None

AtAwaitAcceptance ==
  /\ host.seq = Preceding + 2 /\ EntryIs(run.instruction)
  /\ op.startInstructionDelivery = run.instruction

AtAccepted == AtAwaitAcceptance /\ Answered

AcceptanceIs(i) ==
  op.startInstructionAcceptance = i /\ op.startInstructionAcknowledgement = None

AtObserve == host.seq = Preceding + 2 /\ Answered /\ AcceptanceIs(run.instruction)

AtAwaitAcknowledgement == host.seq = Preceding + 3 /\ AcceptanceIs(run.instruction)

AtAcknowledged == AtAwaitAcknowledgement /\ Answered

AtWork == Working /\ Answered

AtOffer == AtWork /\ heard.reception = "result"

AtExit == heard.open => AtOffer

PlaceHolds ==
  /\ ~run.recovering /\ run.at \notin {"down", "ended"} => run.instruction = InstructionOf(1)
  /\ run.at = "identify" => AtIdentify
  /\ run.at = "stop" => host.seq = 1
  /\ run.at = "identified" => AtIdentified
  /\ run.at = "revoke" => AtRevoke
  /\ run.at = "announce" => AtAnnounce
  /\ run.at = "awaitGeneration" => AtAwaitGeneration
  /\ run.at = "confirm" => AtConfirm
  /\ run.at # "giveUp"
  /\ run.at = "collectAcceptance" => AtCollectAcceptance
  /\ run.at = "collectAcknowledgement" => AtCollectAcknowledgement
  /\ run.at = "acquire" => AtAcquire
  /\ run.at = "check" => AtCheck
  /\ run.at = "enter" => AtEnter
  /\ run.at = "send" => AtSend
  /\ run.at = "dispatch" => AtDispatch
  /\ run.at = "awaitAcceptance" => AtAwaitAcceptance
  /\ run.at = "accepted" => AtAccepted
  /\ run.at = "observe" => AtObserve
  /\ run.at = "awaitAcknowledgement" => AtAwaitAcknowledgement
  /\ run.at = "acknowledged" => AtAcknowledged
  /\ run.at = "work" => AtWork
  /\ run.at \in {"offer", "acknowledge"} => AtOffer
  /\ run.at = "exit" => AtExit

\* The host's peer, by the number of frames it has sent and read.
HostTurn ==
  /\ host.seq \in 1 .. Preceding + 3
  /\ host.seq > 1 => host.last >= host.seq
  /\ host.last <= host.seq + 5
  /\ host.last > host.seq + 1 => Working
  /\ heard.started = IF host.last < 2 THEN "pending" ELSE "identified"
  /\ host.state =
       IF host.last = 0 THEN "awaiting_hello" ELSE IF host.last = 1 THEN "awaiting_started"
       ELSE IF heard.completed THEN "done"
       ELSE IF host.seq > Preceding + 1 \/ heard.generation = "accepted" THEN "receiving_results"
       ELSE "awaiting_begin"

HostHandover ==
  /\ host.pending =
       IF run.recovering /\ host.seq = 2 /\ ~Answered THEN run.instruction.deliveryGeneration ELSE 0
  /\ HandedOver =>
       /\ host.confirmed = run.instruction.deliveryGeneration
       /\ heard.generation \in {"accepted", "not_accepted"} /\ host.answer = heard.generation
       /\ heard.generation = "accepted" <=> heard.said # None
  /\ ~HandedOver => heard.generation = "pending"
  /\ run.recovering /\ ~HandedOver =>
       /\ host.instruction = op.startDeliveryAuthority
       /\ host.confirmed = op.startDeliveryAuthority.deliveryGeneration
  /\ ~run.recovering /\ host.seq = 1 => host.instruction = None /\ host.dispatcher = None

HostBegin ==
  LET accepted == host.seq = Preceding + 3 \/ (host.seq = Preceding + 2 /\ Answered) IN
  /\ host.seq > Preceding + 1 => host.instruction = run.instruction
  /\ host.accepted = IF accepted THEN run.instruction ELSE None
  /\ heard.acceptance = IF accepted THEN "accepted" ELSE "pending"
  /\ host.observations = IF host.seq = Preceding + 2 /\ Answered THEN 1 ELSE 0
  /\ host.acknowledgements = IF host.seq = Preceding + 3 /\ ~Answered THEN 1 ELSE 0
  /\ heard.acknowledgement =
       IF host.seq = Preceding + 3 /\ Answered THEN "acknowledged" ELSE "pending"

HostResult ==
  /\ host.current =
       IF host.last = host.seq + 2 /\ ~heard.completed THEN [digest |-> TheResult, chunks |-> <<>>]
       ELSE IF host.last = host.seq + 3 THEN [digest |-> TheResult, chunks |-> <<TheResult>>]
       ELSE None
  /\ host.received = IF host.last > host.seq + 3 THEN TheResult ELSE None
  /\ host.acknowledgementPending <=> (host.last > host.seq + 3 /\ host.acknowledged = None)
  /\ host.acknowledged # None => host.last = host.seq + 5
  /\ heard.completed => host.last \in {host.seq + 2, host.seq + 5}
  /\ host.last = host.seq + 5 => heard.completed
  /\ heard.reception = IF ~heard.completed THEN "pending"
                       ELSE IF host.last = host.seq + 5 THEN "result" ELSE "agent_failed"

CalmHost ==
  /\ host.state # "failed"
  /\ heard.open => HostTurn /\ HostHandover /\ HostBegin /\ HostResult

\* The answer to the frame the host has sent last; a session starts with "started".
IsAnswer(e) ==
  IF host.seq = 1 THEN e = Plain("started")
  ELSE IF host.seq = Preceding + 1
    THEN /\ e.type = "generation_updated" /\ e.generation = run.instruction.deliveryGeneration
         /\ e.instruction = stored.acceptance
         /\ e.acceptance = IF stored.acceptance = None THEN "not_accepted" ELSE "accepted"
  ELSE IF host.seq = Preceding + 2 THEN e = About("begin_accepted", run.instruction)
  ELSE e = About("begin_ack", run.instruction)

\* The frames to the host, by their numbers.
Expected(f) ==
  LET e == f.event IN
  /\ f.seq = 1 => e = Plain("hello")
  /\ f.seq > 1 /\ f.seq = host.seq + 1 => IsAnswer(e)
  /\ f.seq = host.seq + 2 =>
       e = IF worker.seq = host.seq + 3 THEN Plain("failed")
                                        ELSE [type |-> "result_begin", digest |-> TheResult]
  /\ f.seq = host.seq + 3 => e = [type |-> "result_chunk", payload |-> TheResult]
  /\ f.seq = host.seq + 4 => e = [type |-> "result_commit", digest |-> TheResult]
  /\ f.seq = host.seq + 5 => e = Plain("done")

\* What the host has sent last.
HostFrame ==
  LET i == run.instruction IN
  IF host.seq = Preceding + 1
    THEN [type |-> "delivery_generation_update",
          generation |-> i.deliveryGeneration, dispatcher |-> i.dispatcherId]
  ELSE IF host.seq = Preceding + 2 THEN About("begin", i)
  ELSE About("begin_acceptance_observed", i)

Busy == reception.active \/ socket.toWorker # <<>>

\* The conversation over an open connection.
WorkerTurn ==
  /\ worker.seq = host.last + Len(socket.toHost) + 1
  /\ worker.state \in {"new", "ready", "running", "done"}
  /\ worker.state = "new" => worker = FreshWorker /\ host.seq = 1 /\ ~Busy
  /\ worker.state \in {"ready", "running"} =>
       /\ host.seq = worker.last + (IF socket.toWorker = <<>> THEN 1 ELSE 2)
       /\ worker.seq = host.seq + (IF Busy THEN 1 ELSE 2)
  /\ worker.state = "ready" => worker.last <= Preceding
  /\ worker.state = "running" => worker.last > 0
  /\ worker.state = "done" =>
       /\ host.seq = Preceding + 3 \/ (run.recovering /\ host.seq = 2)
       /\ worker.seq \in {host.seq + 3, host.seq + 6}
       /\ worker.acknowledgementPending => worker.seq = host.seq + 6
       /\ worker.seq = host.seq + 6 => worker.acknowledgementPending \/ host.acknowledged # None
       /\ Busy => host.acknowledged # None
       /\ heard.completed /\ host.last = host.seq + 2 => worker.seq = host.seq + 3

Conversation ==
  /\ WorkerTurn
  /\ \A n \in 1 .. Len(socket.toHost) :
       socket.toHost[n].seq = host.last + n /\ Expected(socket.toHost[n])
  /\ \A f \in Carried(socket.toWorker) :
       IF worker.state = "done" THEN f.event.type = "ack" ELSE f.event = HostFrame
  /\ run.recovering /\ worker.last > 0 =>
       stored.authority.generation = run.instruction.deliveryGeneration
  /\ reception.update # None =>
       host.seq = Preceding + 1 /\ reception.update.generation = run.instruction.deliveryGeneration
  /\ reception.start # None =>
       host.seq = Preceding + 2 /\ reception.start.instruction = run.instruction
  /\ reception.observed # None =>
       host.seq = Preceding + 3 /\ reception.observed = run.instruction /\ worker.state = "running"

Calm ==
  /\ CalmRecord /\ BegunIsRecorded /\ NothingBegun /\ CalmStore /\ CalmWorker /\ CalmFrames
  /\ CalmReception /\ CalmLeaving /\ CalmSession /\ PlaceHolds /\ CalmHost
  /\ socket.state = "up" => Conversation

CalmIInv == ~mishap => Calm

LEMMA CalmTypes ==
  ASSUME SessionIInv
  PROVE  /\ run.at \in Places /\ run.recovering \in BOOLEAN
         /\ run.instruction \in StartInstruction \cup {None}
         /\ host.seq \in Nat /\ host.last \in Nat
         /\ host.dispatcher \in Dispatcher \cup {None}
         /\ host.instruction \in StartInstruction \cup {None}
         /\ op \in Operation
         /\ op.startDeliveryAuthority \in StartInstruction \cup {None}
         /\ heard.open \in BOOLEAN /\ heard.connected \in BOOLEAN /\ heard.completed \in BOOLEAN
         /\ stored.authority.generation \in Nat \ {0}
         /\ stored.acceptance \in StartInstruction \cup {None}
         /\ worker.seq \in Nat /\ worker.last \in Nat
         /\ worker.accepted \in StartInstruction \cup {None}
<1>1. /\ run \in Runs /\ host \in HostProtocolPeers /\ op \in Operation /\ heard \in Hearings
      /\ stored \in Stores /\ worker \in WorkerProtocolPeers
  BY DEF SessionIInv, SessionTypeOK
<1>2. /\ run.at \in Places /\ run.recovering \in BOOLEAN
      /\ run.instruction \in StartInstruction \cup {None}
  BY <1>1 DEF Runs
<1>3. /\ host.seq \in Nat /\ host.last \in Nat
      /\ host.dispatcher \in Dispatcher \cup {None}
      /\ host.instruction \in StartInstruction \cup {None}
  BY <1>1 DEF HostProtocolPeers
<1>4. op.startDeliveryAuthority \in StartInstruction \cup {None}
  BY <1>1 DEF Operation
<1>5. heard.open \in BOOLEAN /\ heard.connected \in BOOLEAN /\ heard.completed \in BOOLEAN
  BY <1>1 DEF Hearings
<1>6. stored.authority.generation \in Nat \ {0} /\ stored.acceptance \in StartInstruction \cup {None}
  BY <1>1 DEF Stores
<1>7. /\ worker.seq \in Nat /\ worker.last \in Nat
      /\ worker.accepted \in StartInstruction \cup {None}
  BY <1>1 DEF WorkerProtocolPeers
<1> QED
  BY <1>1, <1>2, <1>3, <1>4, <1>5, <1>6, <1>7

LEMMA CalmParts ==
  ASSUME Calm
  PROVE  /\ CalmRecord /\ BegunIsRecorded /\ NothingBegun /\ CalmStore /\ CalmWorker /\ CalmFrames
         /\ CalmReception /\ CalmLeaving /\ CalmSession /\ PlaceHolds /\ CalmHost
         /\ socket.state = "up" => Conversation
  BY DEF Calm

\* Where the run is in a session that is connected.
Outside == {"identify", "exit", "ended", "down", "stop"}

\* The authority on record moves to the instruction of the run.
AuthorityMoves ==
  \/ op'.startDeliveryAuthority = op.startDeliveryAuthority
  \/ /\ op'.startDeliveryAuthority = run.instruction /\ run.instruction # None
     /\ run.recovering => Succeeding /\ HandedOver /\ op.startDeliveryAuthority # None
     /\ ~run.recovering => op.startDeliveryAuthority = None

LEMMA PlaceMovesCalmly ==
  ASSUME SessionIInv, SessionIInv', Calm,
         UNCHANGED <<host, heard, socket, worker, bridge, reception, stored, process>>,
         run'.recovering = run.recovering, run'.instruction = run.instruction,
         run.at \notin {"exit", "ended", "down"},
         \/ /\ run'.at \notin Outside /\ run'.cancel = run.cancel /\ run.at # "stop"
            /\ run.at = "identify" => heard.connected
         \/ run'.at = "stop" /\ process # "running" /\ ~heard.connected,
         AuthorityMoves, CalmRecord', BegunIsRecorded', PlaceHolds'
  PROVE  Calm'
<1>1. /\ NothingBegun /\ CalmStore /\ CalmWorker /\ CalmFrames
      /\ CalmReception /\ CalmLeaving /\ CalmSession /\ CalmHost
      /\ socket.state = "up" => Conversation
  BY CalmParts
<1>2. NothingBegun'
  BY <1>1 DEF NothingBegun, Preceding
<1>3. /\ op.startDeliveryAuthority \in StartInstruction \cup {None}
      /\ op'.startDeliveryAuthority \in StartInstruction \cup {None}
      /\ stored.authority.generation \in Nat \ {0}
  <2>1. op' \in Operation
    BY DEF SessionIInv, SessionTypeOK
  <2> QED
    BY <2>1, CalmTypes DEF Operation
<1>4. /\ op.startDeliveryAuthority # None =>
           /\ op'.startDeliveryAuthority # None
           /\ op.startDeliveryAuthority.deliveryGeneration <= op'.startDeliveryAuthority.deliveryGeneration
      /\ op'.startDeliveryAuthority # None => op'.startDeliveryAuthority.deliveryGeneration \in Nat \ {0}
      /\ op.startDeliveryAuthority # None => op.startDeliveryAuthority.deliveryGeneration \in Nat \ {0}
  BY <1>3, InstructionIsSome DEF AuthorityMoves, Succeeding, InstructionOf
<1>5. CalmStore'
  <2>1. /\ run'.at \notin {"down", "ended"} /\ run.at \notin {"down", "ended"}
    BY DEF Outside
  <2> QED
    BY <1>1, <1>3, <1>4, <2>1 DEF CalmStore, AuthorityMoves
<1>6. CalmWorker'
  BY <1>1 DEF CalmWorker
<1>7. CalmFrames'
  <2>1. socket' = socket /\ worker' = worker /\ stored' = stored
    OBVIOUS
  <2>2. ASSUME NEW f \in Carried(socket.toWorker)
        PROVE  Fits(f)'
    <3>1. Fits(f)
      BY <1>1 DEF CalmFrames
    <3>2. f \in ToWorker
      BY CarriedFrames, SocketFields DEF SessionIInv, SessionTypeOK
    <3>3. f.event.type = "delivery_generation_update" => f.event.generation \in Nat
      BY <3>2, ToWorkerFields
    <3> QED
      BY <2>1, <3>1, <3>3, <1>4 DEF Fits
  <2> QED
    BY <1>1, <2>1, <2>2 DEF CalmFrames, Carried
<1>8. CalmReception'
  BY <1>1 DEF CalmReception, ReadBegin, ReadObservation, ReadUpdate, ReadAcknowledgement
<1>9. CalmLeaving'
  BY <1>1 DEF CalmLeaving, CalmSession, Outside
<1>10. CalmSession'
  BY <1>1 DEF CalmSession, Outside
<1>11. CalmHost'
  <2>1. HostTurn => HostTurn'
    BY DEF HostTurn, Preceding, Working
  <2>2. HostHandover => HostHandover'
    BY DEF HostHandover, HandedOver, Answered, AuthorityMoves
  <2>3. HostBegin => HostBegin'
    BY DEF HostBegin, Preceding, Answered
  <2>4. HostResult => HostResult'
    BY DEF HostResult
  <2> QED
    BY <1>1, <2>1, <2>2, <2>3, <2>4 DEF CalmHost
<1>12. Conversation => Conversation'
  <2>1. WorkerTurn => WorkerTurn'
    BY DEF WorkerTurn, Preceding, Busy
  <2>2. \A f : Expected(f) => Expected(f)'
    BY DEF Expected, IsAnswer, Preceding
  <2>3. HostFrame' = HostFrame
    BY DEF HostFrame, Preceding
  <2> QED
    BY <2>1, <2>2, <2>3 DEF Conversation, Preceding, Carried
<1> QED
  BY <1>1, <1>2, <1>5, <1>6, <1>7, <1>8, <1>9, <1>10, <1>11, <1>12 DEF Calm

LEMMA ClosedSocket ==
  ASSUME socket \in Sockets, CalmFrames, NEW s \in {HostCloses, NoSocket}
  PROVE  /\ s.state \in {"none", "host", "broken"}
         /\ s.state = "none" => s.toWorker = <<>>
         /\ s.state = "host" => socket.state \in {"up", "host"}
         /\ s.state = "broken" => socket.state = "broken"
         /\ s.toWorker \in {<<>>, socket.toWorker}
         /\ s = HostCloses => s.toWorker = socket.toWorker
         /\ socket.state = "none" => s.state = "none"
         /\ socket.state = "worker" => s.state = "none"
<1>1. CASE s = NoSocket /\ s # HostCloses
  BY <1>1 DEF NoSocket
<1>2. CASE s = HostCloses
  <2>1. CASE socket.state = "up"
    <3>1. HostCloses = [[socket EXCEPT !.state = "host"] EXCEPT !.toHost = <<>>]
      BY <2>1 DEF HostCloses
    <3> QED
      BY <1>2, <2>1, <3>1 DEF Sockets
  <2>2. CASE socket.state = "worker"
    BY <1>2, <2>2 DEF HostCloses, NoSocket, CalmFrames
  <2>3. CASE socket.state \in {"none", "host", "broken"}
    BY <1>2, <2>3 DEF HostCloses, CalmFrames
  <2> QED
    BY <2>1, <2>2, <2>3 DEF Sockets
<1> QED
  BY <1>1, <1>2

\* The session is closed, or the Runtime is gone.
LEMMA SessionClosesCalmly ==
  ASSUME SessionIInv, SessionIInv', Calm,
         UNCHANGED <<op, worker, bridge, reception, stored>>,
         ~heard'.open, host'.state # "failed",
         run'.at \in {"exit", "ended", "down"}, run'.cancel # "no" => run'.at = "ended",
         run'.at = "exit" => run' = run /\ socket.state = "worker",
         run'.at # "ended" => run.at # "ended" /\ process' = process /\ socket' = HostCloses,
         socket' \in {HostCloses, NoSocket}
  PROVE  Calm'
<1>1. /\ CalmRecord /\ BegunIsRecorded /\ NothingBegun /\ CalmStore /\ CalmWorker /\ CalmFrames
      /\ CalmReception /\ CalmLeaving /\ CalmSession /\ PlaceHolds /\ CalmHost
  BY CalmParts
<1>2. socket \in Sockets
  BY DEF SessionIInv, SessionTypeOK
<1>3. /\ socket'.state \in {"none", "host", "broken"}
      /\ socket'.state = "none" => socket'.toWorker = <<>>
      /\ socket'.state = "host" => socket.state \in {"up", "host"}
      /\ socket'.state = "broken" => socket.state = "broken"
      /\ socket'.toWorker \in {<<>>, socket.toWorker}
      /\ socket' = HostCloses => socket'.toWorker = socket.toWorker
      /\ socket.state \in {"none", "worker"} => socket'.state = "none"
  BY <1>1, <1>2, ClosedSocket
<1>4. Carried(socket.toWorker)' \subseteq Carried(socket.toWorker)
  BY <1>3 DEF Carried
<1>5. CalmRecord'
  BY <1>1 DEF CalmRecord, HasHandoff, LastHandoff, HandoffPending
<1>6. BegunIsRecorded'
  <2>1. \A f \in Begins' : f \in Begins
    BY <1>4 DEF Begins
  <2>2. socket' = HostCloses => Sent' = Sent
    BY <1>3 DEF Sent, Begins, Carried
  <2> QED
    BY <1>1, <2>1, <2>2 DEF BegunIsRecorded, Recorded
<1>7. NothingBegun'
  BY DEF NothingBegun
<1>8. CalmStore'
  BY <1>1 DEF CalmStore
<1>9. CalmWorker'
  BY <1>1 DEF CalmWorker
<1>10. CalmFrames'
  <2>1. ASSUME NEW f \in Carried(socket.toWorker), socket'.toWorker # <<>>
        PROVE  Fits(f)'
    <3>1. Fits(f) /\ socket'.toWorker = socket.toWorker
      BY <1>1, <1>3, <2>1 DEF CalmFrames
    <3>2. f.event.type = "begin" => socket'.state \in {"up", "host"}
      BY <1>3, <2>1, <3>1 DEF Fits
    <3> QED
      BY <3>1, <3>2 DEF Fits
  <2>2. Len(socket'.toWorker) <= 1
    BY <1>1, <1>3 DEF CalmFrames
  <2>3. \A f \in Carried(socket.toWorker)' : Fits(f)'
    BY <1>3, <1>4, <2>1 DEF Carried
  <2> QED
    BY <1>3, <2>2, <2>3 DEF CalmFrames
<1>11. CalmReception'
  BY <1>1, <1>3 DEF CalmReception, ReadBegin, ReadObservation, ReadUpdate, ReadAcknowledgement
<1>12. CalmLeaving'
  BY <1>1, <1>3 DEF CalmLeaving
<1>13. CalmSession'
  BY <1>3 DEF CalmSession
<1>14. PlaceHolds'
  BY <1>1 DEF PlaceHolds, AtExit
<1>15. CalmHost'
  BY DEF CalmHost
<1> QED
  BY <1>3, <1>5, <1>6, <1>7, <1>8, <1>9, <1>10, <1>11, <1>12, <1>13, <1>14, <1>15 DEF Calm

LEMMA RunEndsCalmly ==
  ASSUME SessionIInv, SessionIInv', Calm, RunEnds,
         UNCHANGED <<op, host, worker, bridge, reception, stored>>
  PROVE  Calm'
<1>1. run'.at = "ended"
  <2>1. run \in Runs
    BY DEF SessionIInv, SessionTypeOK
  <2> QED
    BY <2>1 DEF RunEnds, Proceeds, Runs
<1>2. ~heard'.open
  <2>1. heard \in Hearings
    BY DEF SessionIInv, SessionTypeOK
  <2> QED
    BY <2>1, HeardClosed DEF RunEnds
<1>3. host'.state # "failed"
  BY DEF Calm, CalmHost
<1>4. socket' \in {HostCloses, NoSocket}
  BY DEF RunEnds
<1> QED
  BY <1>1, <1>2, <1>3, <1>4, SessionClosesCalmly

\* What an arm of the reducer leaves alone.
RecordKeeps(o, n, changed) ==
  /\ n.workerLaunched = o.workerLaunched
  /\ "state" \notin changed => n.state = o.state
  /\ "identity" \notin changed => n.workerIdentity = o.workerIdentity
  /\ "authority" \notin changed => n.startDeliveryAuthority = o.startDeliveryAuthority
  /\ "entry" \notin changed => n.startDeliveryEntry = o.startDeliveryEntry
  /\ "delivery" \notin changed => n.startInstructionDelivery = o.startInstructionDelivery
  /\ "acceptance" \notin changed => n.startInstructionAcceptance = o.startInstructionAcceptance
  /\ "acknowledgement" \notin changed =>
       n.startInstructionAcknowledgement = o.startInstructionAcknowledgement
  /\ "handoffs" \notin changed => n.startDeliveryHandoffs = o.startDeliveryHandoffs

LEMMA InstructionArmFields ==
  ASSUME NEW o \in Operation, NEW i
  PROVE  /\ LET n == AcquireAuthority(o, i) IN
            n.startDeliveryAuthority = i /\ RecordKeeps(o, n, {"authority"})
         /\ LET n == EnterDelivery(o, i) IN
            n.startDeliveryEntry = i /\ RecordKeeps(o, n, {"entry"})
         /\ LET n == DispatchStart(o, i) IN
            n.startInstructionDelivery = i /\ RecordKeeps(o, n, {"delivery"})
         /\ LET n == AcceptStart(o, i) IN
            n.startInstructionAcceptance = i /\ RecordKeeps(o, n, {"acceptance"})
<1>1. LET n == AcquireAuthority(o, i) IN
      n.startDeliveryAuthority = i /\ RecordKeeps(o, n, {"authority"})
  BY SMTT(30) DEF Operation, RecordKeeps, AcquireAuthority
<1>2. LET n == EnterDelivery(o, i) IN
      n.startDeliveryEntry = i /\ RecordKeeps(o, n, {"entry"})
  BY SMTT(30) DEF Operation, RecordKeeps, EnterDelivery
<1>3. LET n == DispatchStart(o, i) IN
      n.startInstructionDelivery = i /\ RecordKeeps(o, n, {"delivery"})
  BY SMTT(30) DEF Operation, RecordKeeps, DispatchStart
<1>4. LET n == AcceptStart(o, i) IN
      n.startInstructionAcceptance = i /\ RecordKeeps(o, n, {"acceptance"})
  BY SMTT(30) DEF Operation, RecordKeeps, AcceptStart
<1> QED
  BY <1>1, <1>2, <1>3, <1>4

LEMMA OtherArmFields ==
  ASSUME NEW o \in Operation, NEW v
  PROVE  /\ LET n == IdentifyWorker(o, v) IN
            n.workerIdentity = v /\ RecordKeeps(o, n, {"identity"})
         /\ RecordKeeps(o, AcceptResult(o, v), {})
         /\ LET n == AcknowledgeStart(o, v) IN
            /\ n.startInstructionAcknowledgement = v /\ n.state = "running"
            /\ RecordKeeps(o, n, {"acknowledgement", "state"})
         /\ LET n == [o EXCEPT !.startDeliveryHandoffs = v] IN
            n.startDeliveryHandoffs = v /\ RecordKeeps(o, n, {"handoffs"})
         /\ RecordKeeps(o, o, {})
<1>1. LET n == IdentifyWorker(o, v) IN
      n.workerIdentity = v /\ RecordKeeps(o, n, {"identity"})
  BY SMTT(30) DEF Operation, RecordKeeps, IdentifyWorker
<1>2. RecordKeeps(o, AcceptResult(o, v), {})
  BY SMTT(30) DEF Operation, RecordKeeps, AcceptResult
<1>3. LET n == AcknowledgeStart(o, v) IN
      /\ n.startInstructionAcknowledgement = v /\ n.state = "running"
      /\ RecordKeeps(o, n, {"acknowledgement", "state"})
  BY SMTT(30) DEF Operation, RecordKeeps, AcknowledgeStart
<1>4. LET n == [o EXCEPT !.startDeliveryHandoffs = v] IN
      n.startDeliveryHandoffs = v /\ RecordKeeps(o, n, {"handoffs"})
  BY SMTT(30) DEF Operation, RecordKeeps
<1>5. RecordKeeps(o, o, {})
  BY DEF RecordKeeps
<1> QED
  BY <1>1, <1>2, <1>3, <1>4, <1>5

\* The session of a run that has not ended.
LEMMA SessionIsOpen ==
  ASSUME Calm, run.at \notin {"exit", "ended", "down"}
  PROVE  /\ heard.open /\ HostTurn /\ HostHandover /\ HostBegin /\ HostResult
         /\ run.at # "stop" => run.cancel = "no"
         /\ run.at \notin {"identify", "stop"} =>
              /\ heard.connected /\ socket.state = "up" /\ Conversation
              /\ host.acknowledged = None
  BY CalmParts DEF CalmSession, CalmHost

LEMMA BegunStays ==
  ASSUME BegunIsRecorded, run.at # "ended", UNCHANGED <<socket, stored>>,
         RecordKeeps(op, op', {"identity", "acceptance", "acknowledgement", "state", "handoffs"})
  PROVE  BegunIsRecorded'
  BY DEF BegunIsRecorded, Recorded, RecordKeeps, Sent, Begins, Carried

\* A step to another place without a record.
LEMMA GoesOnCalmly ==
  ASSUME SessionIInv, SessionIInv', Calm,
         UNCHANGED <<op, host, heard, socket, worker, bridge, reception, stored, process>>,
         run'.recovering = run.recovering, run'.instruction = run.instruction,
         run.at \notin {"exit", "ended", "down"},
         \/ /\ run'.at \notin Outside /\ run'.cancel = run.cancel /\ run.at # "stop"
            /\ run.at = "identify" => heard.connected
         \/ run'.at = "stop" /\ process # "running" /\ ~heard.connected,
         PlaceHolds'
  PROVE  Calm'
<1>1. CalmRecord'
  BY CalmParts DEF CalmRecord, HasHandoff, LastHandoff, HandoffPending
<1>2. BegunIsRecorded'
  <2>1. RecordKeeps(op, op', {"identity", "acceptance", "acknowledgement", "state", "handoffs"})
    BY DEF RecordKeeps
  <2> QED
    BY <2>1, CalmParts, BegunStays
<1>3. AuthorityMoves
  BY DEF AuthorityMoves
<1> QED
  BY <1>1, <1>2, <1>3, PlaceMovesCalmly

-----------------------------------------------------------------------------
(* The run goes from place to place.                                       *)

LEMMA WaitForIdentificationCalmly ==
  ASSUME SessionIInv, SessionIInv', Calm, WaitForIdentification, ~mishap'
  PROVE  Calm'
<1>1. /\ run.at = "identify"
      /\ CalmRecord /\ BegunIsRecorded /\ NothingBegun /\ CalmStore /\ CalmWorker /\ CalmFrames
      /\ CalmReception /\ CalmLeaving /\ CalmSession /\ PlaceHolds /\ CalmHost
      /\ socket.state = "up" => Conversation
  BY CalmParts DEF WaitForIdentification
<1>2. heard.open /\ HostTurn /\ run.cancel = "no"
  BY <1>1, SessionIsOpen
<1>3. UNCHANGED <<op, host, worker, bridge, reception, stored, process>>
  BY DEF WaitForIdentification, rest, workerSide
<1>4. host.seq \in Nat /\ host.last \in Nat /\ run.recovering \in BOOLEAN
  BY CalmTypes
<1>5. CASE heard.started = "identified"
  <2>1. Proceeds("identified") /\ UNCHANGED <<heard, socket>>
    BY <1>5 DEF WaitForIdentification
  <2>2. /\ run'.at = "identified" /\ run'.recovering = run.recovering
        /\ run'.instruction = run.instruction /\ run'.cancel = run.cancel
    BY <2>1, Proceeding DEF Places
  <2>3. host.seq = 1 /\ host.last > 1
    <3>1. host.seq = 1
      BY <1>1 DEF PlaceHolds, AtIdentify
    <3> QED
      BY <1>2, <1>4, <1>5, <3>1 DEF HostTurn
  <2>4. heard.connected
    BY <1>1, <1>2, <2>3, CalmTypes DEF CalmSession
  <2>5. PlaceHolds'
    BY <1>1, <1>3, <2>2, <2>3, <1>4 DEF PlaceHolds, AtIdentified, AtIdentify, Answered
  <2> QED
    BY <1>1, <1>3, <2>1, <2>2, <2>4, <2>5, GoesOnCalmly DEF Outside
<1>6. CASE heard.started # "identified"
  <2>1. heard.started = "pending"
    BY <1>2, <1>6 DEF HostTurn
  <2>2. process # "running"
    BY <1>6, <2>1 DEF WaitForIdentification, Fault
  <2>3. bridge.stopped /\ ~heard.connected
    BY <1>1, <2>2, CalmTypes DEF CalmLeaving
  <2>4. CASE run.recovering
    <3>1. Proceeds("stop") /\ UNCHANGED <<heard, socket>>
      BY <1>6, <2>4 DEF WaitForIdentification
    <3>2. run'.at = "stop" /\ run'.recovering = run.recovering /\ run'.instruction = run.instruction
      BY <3>1, Proceeding DEF Places
    <3>3. PlaceHolds'
      BY <1>1, <1>3, <3>2 DEF PlaceHolds, AtIdentify
    <3> QED
      BY <1>1, <1>3, <2>2, <2>3, <3>1, <3>2, <3>3, GoesOnCalmly
  <2>5. CASE ~run.recovering
    BY <1>3, <1>6, <2>5, RunEndsCalmly DEF WaitForIdentification
  <2> QED
    BY <2>4, <2>5
<1> QED
  BY <1>5, <1>6

LEMMA RecordsCalmly ==
  ASSUME SessionIInv, SessionIInv', Calm,
         NEW p \in Places \ Outside, Granted(p),
         run.at \notin {"identify", "exit", "ended", "down", "stop"},
         AuthorityMoves, CalmRecord', BegunIsRecorded', PlaceHolds'
  PROVE  Calm'
<1>1. /\ run'.at = p /\ run'.cancel = run.cancel
      /\ run'.recovering = run.recovering /\ run'.instruction = run.instruction
  BY Proceeding DEF Granted
<1>2. UNCHANGED <<host, heard, socket, worker, bridge, reception, stored, process>>
  BY DEF Granted, rest, workerSide
<1> QED
  BY <1>1, <1>2, PlaceMovesCalmly

\* What a granted hook leaves of the run.
LEMMA GrantedFields ==
  ASSUME SessionIInv, NEW p \in Places, Granted(p)
  PROVE  /\ run'.at = p /\ run'.recovering = run.recovering /\ run'.instruction = run.instruction
         /\ host' = host /\ heard' = heard /\ socket' = socket /\ stored' = stored
         /\ worker' = worker
  BY Proceeding DEF Granted, rest, workerSide

LEMMA FreshWorkerIdentifiedCalmly ==
  ASSUME SessionIInv, SessionIInv', Calm, WorkerIdentified, ~run.recovering
  PROVE  Calm'
<1>1. /\ run.at = "identified"
      /\ \/ op' = IdentifyWorker(op, TheWorker) /\ Granted("acquire")
         \/ UNCHANGED <<op, host, worker, bridge, reception, stored>> /\ RunEnds
  BY DEF WorkerIdentified, Hook, Granted, rest, workerSide
<1>2. CASE op' = IdentifyWorker(op, TheWorker) /\ Granted("acquire")
  <2>1. op'.workerIdentity = TheWorker /\ RecordKeeps(op, op', {"identity"})
    BY <1>2, OtherArmFields, CalmTypes
  <2>2. CalmRecord /\ BegunIsRecorded /\ PlaceHolds
    BY CalmParts
  <2>3. CalmRecord'
    BY <2>1, <2>2 DEF CalmRecord, RecordKeeps, HasHandoff, LastHandoff, HandoffPending
  <2>4. BegunIsRecorded'
    <3>1. RecordKeeps(op, op', {"identity", "acceptance", "acknowledgement", "state", "handoffs"})
      BY <2>1 DEF RecordKeeps
    <3>2. UNCHANGED <<socket, stored>>
      BY <1>2, GrantedFields DEF Places
    <3> QED
      BY <1>1, <2>2, <3>1, <3>2, BegunStays
  <2>5. PlaceHolds'
    <3>1. AtIdentified
      BY <1>1, <2>2 DEF PlaceHolds
    <3>2. HostHandover
      BY <1>1, SessionIsOpen
    <3>3. AtAcquire'
      BY <1>2, <2>1, <3>1, <3>2, GrantedFields
         DEF AtAcquire, MayBegin, AtIdentified, AtIdentify, Preceding, Answered, HostHandover,
             RecordKeeps, Places
    <3> QED
      BY <1>1, <1>2, <2>2, <3>3, GrantedFields DEF PlaceHolds, Places
  <2>6. AuthorityMoves
    BY <2>1 DEF AuthorityMoves, RecordKeeps
  <2> QED
    BY <1>1, <1>2, <2>3, <2>4, <2>5, <2>6, RecordsCalmly DEF Places, Outside
<1> QED
  BY <1>1, <1>2, RunEndsCalmly

LEMMA AnsweredIsQuiet ==
  ASSUME SessionIInv, WorkerTurn, Answered
  PROVE  /\ worker.state # "new"
         /\ worker.state \in {"ready", "running"} =>
              /\ ~Busy /\ socket.toHost = <<>>
              /\ host.seq = worker.last + 1 /\ host.last = host.seq + 1
<1>1. /\ host.seq \in Nat /\ host.last \in Nat /\ worker.seq \in Nat /\ worker.last \in Nat
  BY CalmTypes
<1>2. /\ Len(socket.toHost) \in Nat
      /\ Len(socket.toHost) = 0 => socket.toHost = <<>>
  <2>1. socket.toHost \in Seq(ToHost)
    BY SocketFields DEF SessionIInv, SessionTypeOK
  <2> QED
    BY <2>1
<1>3. worker.state = "new" => worker.seq = 1 /\ host.seq = 1
  BY DEF WorkerTurn, FreshWorker
<1> QED
  BY <1>1, <1>2, <1>3 DEF WorkerTurn, Answered, Busy

LEMMA RecoveringWorkerIdentifiedCalmly ==
  ASSUME SessionIInv, SessionIInv', Calm, WorkerIdentified, run.recovering
  PROVE  Calm'
<1>1. /\ run.at = "identified"
      /\ run' = [run EXCEPT !.at = "revoke", !.instruction = SuccessorOf(op)]
      /\ UNCHANGED <<op, host, heard, socket, worker, bridge, reception, stored, process>>
  BY DEF WorkerIdentified, rest, workerSide
<1>2. /\ CalmRecord /\ BegunIsRecorded /\ NothingBegun /\ CalmStore /\ CalmWorker /\ CalmFrames
      /\ CalmReception /\ CalmLeaving /\ CalmSession /\ PlaceHolds /\ CalmHost
  BY CalmParts
<1>3. /\ heard.open /\ HostTurn /\ HostHandover /\ HostBegin /\ HostResult
      /\ run.cancel = "no" /\ heard.connected /\ socket.state = "up" /\ Conversation
  BY <1>1, SessionIsOpen
<1>4. /\ run'.at = "revoke" /\ run'.recovering /\ run'.instruction = SuccessorOf(op)
      /\ run'.cancel = run.cancel
  <2>1. run \in Runs
    BY DEF SessionIInv, SessionTypeOK
  <2> QED
    BY <1>1, <2>1 DEF Runs
<1>5. host.seq = 1 /\ Answered
  BY <1>1, <1>2 DEF PlaceHolds, AtIdentified, AtIdentify
<1>6. op.startDeliveryAuthority # None
  BY DEF SessionIInv, GenerationsBounded
<1>7. Succeeding'
  <2>1. LET next == op.startDeliveryAuthority.deliveryGeneration + 1 IN
        HandoffPending(op) /\ LastHandoff(op).deliveryGeneration = next =>
          LastHandoff(op).successorDispatcherId = next
    BY <1>2 DEF CalmRecord, HandoffPending
  <2>2. SuccessorOf(op) = InstructionOf(op.startDeliveryAuthority.deliveryGeneration + 1)
    BY <2>1 DEF SuccessorOf, InstructionOf
  <2> QED
    BY <1>1, <1>4, <2>2 DEF Succeeding
<1>8. CalmRecord'
  BY <1>1, <1>2 DEF CalmRecord, HasHandoff, LastHandoff, HandoffPending
<1>9. BegunIsRecorded'
  BY <1>1, <1>2, <1>4 DEF BegunIsRecorded, Recorded, Sent, Begins, Carried
<1>10. NothingBegun' /\ CalmStore' /\ CalmWorker'
  BY <1>1, <1>2, <1>4 DEF NothingBegun, Preceding, CalmStore, CalmWorker
<1>11. CalmFrames'
  <2>1. \A f : Fits(f) => Fits(f)'
    BY <1>1 DEF Fits
  <2> QED
    BY <1>1, <1>2, <2>1 DEF CalmFrames, Carried
<1>12. CalmReception'
  BY <1>1, <1>2 DEF CalmReception, ReadBegin, ReadObservation, ReadUpdate, ReadAcknowledgement
<1>13. CalmLeaving' /\ CalmSession'
  BY <1>1, <1>2, <1>3, <1>4 DEF CalmLeaving, CalmSession
<1>14. PlaceHolds'
  <2>1. AtRevoke'
    BY <1>1, <1>5, <1>7 DEF AtRevoke, Answered
  <2> QED
    BY <1>4, <2>1 DEF PlaceHolds
<1>15. CalmHost'
  <2>1. HostTurn'
    BY <1>1, <1>3, <1>4 DEF HostTurn, Preceding, Working
  <2>2. HostHandover'
    BY <1>1, <1>3, <1>4, <1>5 DEF HostHandover, HandedOver, Answered
  <2>3. HostBegin'
    BY <1>1, <1>3, <1>4, <1>5, CalmTypes DEF HostBegin, Preceding, Answered
  <2>4. HostResult'
    BY <1>1, <1>3 DEF HostResult
  <2> QED
    BY <1>1, <1>2, <2>1, <2>2, <2>3, <2>4 DEF CalmHost
<1>16. Conversation'
  <2>1. WorkerTurn
    BY <1>3 DEF Conversation
  <2>2. WorkerTurn'
    BY <1>1, <1>4, <2>1 DEF WorkerTurn, Preceding, Busy
  <2>3. worker.state \in {"ready", "running"}
    BY <1>5, <2>1, AnsweredIsQuiet DEF WorkerTurn, Preceding
  <2>4. ~Busy /\ socket.toHost = <<>> /\ worker.last = 0
    BY <1>5, <2>1, <2>3, AnsweredIsQuiet, CalmTypes
  <2>5. reception.start = None /\ reception.observed = None /\ reception.update = None
    BY <1>2, <2>4 DEF Busy, CalmReception, NoReception
  <2> QED
    BY <1>1, <2>2, <2>4, <2>5 DEF Conversation, Carried, Busy
<1> QED
  BY <1>8, <1>9, <1>10, <1>11, <1>12, <1>13, <1>14, <1>15, <1>16 DEF Calm

LEMMA NoBeginAnswered ==
  ASSUME SessionIInv, Conversation, Answered
  PROVE  Begins = {}
<1>1. WorkerTurn
  BY DEF Conversation
<1>2. ASSUME NEW f \in Carried(socket.toWorker), f.event.type = "begin" PROVE FALSE
  <2>1. worker.state = "done" \/ ~Busy
    BY <1>1, AnsweredIsQuiet DEF WorkerTurn
  <2>2. worker.state # "done" => socket.toWorker = <<>>
    BY <2>1 DEF Busy
  <2>3. worker.state = "done" => f.event.type = "ack"
    BY DEF Conversation
  <2> QED
    BY <1>2, <2>2, <2>3 DEF Carried
<1> QED
  BY <1>2 DEF Begins

LEMMA StartDeliveryAuthorityAcquiredCalmly ==
  ASSUME SessionIInv, SessionIInv', Calm, StartDeliveryAuthorityAcquired
  PROVE  Calm'
<1> DEFINE i == run.instruction
<1>1. /\ run.at = "acquire"
      /\ \/ op' = AcquireAuthority(op, i) /\ Granted("check") /\ CanAcquireAuthority(op, i)
         \/ /\ UNCHANGED <<op, host, worker, bridge, reception, stored>>
            /\ ~CanAcquireAuthority(op, i) /\ (run.recovering \/ RunEnds)
  BY DEF StartDeliveryAuthorityAcquired, Hook, Granted, rest, workerSide
<1>2. CalmRecord /\ BegunIsRecorded /\ NothingBegun /\ PlaceHolds
  BY CalmParts
<1>3. AtAcquire /\ heard.open /\ socket.state = "up" /\ Conversation
  BY <1>1, <1>2, SessionIsOpen DEF PlaceHolds
<1>4. i \in StartInstruction /\ i # None
  BY <1>1, InstructionThere
<1>5. stored.acceptance = None
  BY <1>2, <1>3 DEF NothingBegun, AtAcquire, MayBegin
<1>6. ASSUME run.recovering PROVE CanAcquireAuthority(op, i)
  <2>1. /\ op.startDeliveryAuthority # None
        /\ i = InstructionOf(op.startDeliveryAuthority.deliveryGeneration + 1)
    BY <1>3, <1>6 DEF AtAcquire, Succeeding, SessionIInv, GenerationsBounded
  <2>2. ValidStartInstructionReference(op, i)
    BY <1>2, <1>4, <2>1, Chosen, InstructionIsSome
       DEF ValidStartInstructionReference, CalmRecord, InstructionOf
  <2> QED
    BY <1>2, <1>3, <1>6, <2>1, <2>2 DEF CanAcquireAuthority, CalmRecord, AtAcquire, Starting
<1>7. CASE op' = AcquireAuthority(op, i) /\ Granted("check") /\ CanAcquireAuthority(op, i)
  <2>1. op'.startDeliveryAuthority = i /\ RecordKeeps(op, op', {"authority"})
    BY <1>7, InstructionArmFields, CalmTypes
  <2>2. /\ run'.at = "check" /\ run'.recovering = run.recovering /\ run'.instruction = i
        /\ host' = host /\ heard' = heard /\ socket' = socket /\ stored' = stored
    BY <1>7, GrantedFields DEF Places
  <2>3. Begins = {} /\ op.startInstructionDelivery = None
    <3>1. Answered
      BY <1>3 DEF AtAcquire, MayBegin
    <3>2. Begins = {}
      BY <1>3, <3>1, NoBeginAnswered
    <3> QED
      BY <1>1, <1>2, <1>5, <3>2 DEF BegunIsRecorded, Sent
  <2>4. AuthorityMoves /\ (run.recovering => op.startDeliveryAuthority # None)
    <3>1. run.recovering => HandedOver /\ op.startDeliveryAuthority # None
      BY <1>3 DEF AtAcquire, MayBegin, HandedOver, Preceding, SessionIInv, GenerationsBounded
    <3> QED
      BY <1>3, <1>4, <2>1, <3>1 DEF AuthorityMoves, AtAcquire
  <2>5. /\ i = InstructionOf(i.deliveryGeneration) /\ i.deliveryGeneration \in Nat
        /\ op.startDeliveryAuthority # None =>
             op.startDeliveryAuthority.deliveryGeneration + 1 = i.deliveryGeneration
    <3>1. i = InstructionOf(1) \/ i = InstructionOf(op.startDeliveryAuthority.deliveryGeneration + 1)
      BY <1>1, <1>2, <1>3 DEF PlaceHolds, AtAcquire, Succeeding
    <3>2. op.startDeliveryAuthority # None =>
            i = InstructionOf(op.startDeliveryAuthority.deliveryGeneration + 1)
      BY <1>3 DEF AtAcquire, Succeeding
    <3> QED
      BY <1>4, <3>1, <3>2, InstructionIsSome DEF InstructionOf
  <2>6. op.startDeliveryEntry # None =>
          op.startDeliveryEntry.deliveryGeneration < i.deliveryGeneration
    <3>1. op.startDeliveryEntry \in StartInstruction \cup {None}
      BY CalmTypes DEF Operation
    <3>2. op.startDeliveryAuthority # None => op.startDeliveryAuthority.deliveryGeneration \in Nat
      BY CalmTypes, InstructionIsSome
    <3> QED
      BY <1>2, <2>5, <3>1, <3>2, InstructionIsSome DEF CalmRecord
  <2>7. CalmRecord'
    <3>1. op.workerIdentity = TheWorker
      <4>1. i.workerProcessInstanceId = TheWorker
        BY <2>5 DEF InstructionOf
      <4> QED
        BY <1>7, <4>1 DEF CanAcquireAuthority, ValidStartInstructionReference
    <3>2. ~HandoffPending(op)
      BY <1>2, <1>3 DEF AtAcquire, CalmRecord, HandoffPending
    <3>3. /\ HasHandoff(op') <=> HasHandoff(op)
          /\ LastHandoff(op') = LastHandoff(op) /\ ~HandoffPending(op')
      BY <2>1, <3>2 DEF RecordKeeps, HasHandoff, LastHandoff, HandoffPending
    <3>4. /\ op'.state = op.state /\ op'.workerLaunched = op.workerLaunched
          /\ op'.startInstructionAcknowledgement = op.startInstructionAcknowledgement
          /\ op'.startInstructionAcceptance = op.startInstructionAcceptance
          /\ op'.workerIdentity = TheWorker /\ op'.startInstructionDelivery = None
          /\ op'.startDeliveryEntry = op.startDeliveryEntry
      BY <2>1, <2>3, <3>1 DEF RecordKeeps
    <3>5. op'.startDeliveryEntry # None =>
            op'.startDeliveryEntry.deliveryGeneration <= op'.startDeliveryAuthority.deliveryGeneration
      <4>1. op.startDeliveryEntry \in StartInstruction \cup {None}
        BY CalmTypes DEF Operation
      <4> QED
        BY <2>1, <2>5, <2>6, <3>4, <4>1, InstructionIsSome
    <3> QED
      BY <1>2, <1>4, <2>1, <2>5, <3>3, <3>4, <3>5 DEF CalmRecord
  <2>8. BegunIsRecorded'
    BY <1>5, <2>1, <2>2, <2>3 DEF BegunIsRecorded, RecordKeeps, Begins, Carried
  <2>9. PlaceHolds'
    <3>1. heard.generation # "accepted"
      BY <1>3, SessionIsOpen, <1>1 DEF AtAcquire, MayBegin, HostHandover, HandedOver
    <3>2. AtEnter'
      BY <1>3, <2>1, <2>2, <2>6
         DEF AtAcquire, AtEnter, MayBegin, Preceding, Answered, RecordKeeps
    <3> QED
      BY <1>1, <1>2, <2>2, <3>1, <3>2 DEF PlaceHolds, AtCheck
  <2> QED
    BY <1>1, <1>7, <2>4, <2>7, <2>8, <2>9, RecordsCalmly DEF Places, Outside
<1> QED
  BY <1>1, <1>6, <1>7, RunEndsCalmly

\* A record that leaves authority, entry and delivery alone.
LEMMA AddsCalmly ==
  ASSUME SessionIInv, SessionIInv', Calm,
         NEW p \in Places \ Outside, Granted(p),
         run.at \notin {"identify", "exit", "ended", "down", "stop"},
         RecordKeeps(op, op', {"identity", "acceptance", "acknowledgement", "state", "handoffs"}),
         CalmRecord', PlaceHolds'
  PROVE  Calm'
<1>1. BegunIsRecorded'
  <2>1. UNCHANGED <<socket, stored>>
    BY GrantedFields
  <2> QED
    BY <2>1, CalmParts, BegunStays
<1>2. AuthorityMoves
  BY DEF AuthorityMoves, RecordKeeps
<1> QED
  BY <1>1, <1>2, RecordsCalmly

\* The last of the handoffs after an arm of the reducer.
LEMMA HandoffsOf ==
  ASSUME NEW o \in Operation, NEW n, NEW h, n.startDeliveryHandoffs = h
  PROVE  /\ HasHandoff(n) <=> h # <<>>
         /\ LastHandoff(n) = h[Len(h)]
         /\ HandoffPending(n) <=> (h # <<>> /\ h[Len(h)].acceptanceState = "pending")
  BY DEF HasHandoff, LastHandoff, HandoffPending

LEMMA StartDeliveryAuthorityRevokedCalmly ==
  ASSUME SessionIInv, SessionIInv', Calm, StartDeliveryAuthorityRevoked
  PROVE  Calm'
<1> DEFINE i == run.instruction
           d == i.dispatcherId
           g == i.deliveryGeneration
           v == AppendHandoff(op, d, g)
<1>1. /\ run.at = "revoke"
      /\ \/ op' = RevokeAuthority(op, d, g) /\ Granted("announce")
         \/ ~CanRevokeAuthority(op, d, g)
  BY DEF StartDeliveryAuthorityRevoked, Hook, Granted
<1>2. CalmRecord /\ PlaceHolds
  BY CalmParts
<1>3. AtRevoke /\ op.startDeliveryAuthority # None
  BY <1>1, <1>2 DEF PlaceHolds, AtRevoke, Succeeding, SessionIInv, GenerationsBounded
<1>4. i \in StartInstruction /\ d \in Dispatcher /\ g \in Nat \ {0}
  BY <1>1, InstructionThere
<1>5. /\ g = op.startDeliveryAuthority.deliveryGeneration + 1 /\ d = g
      /\ op.startDeliveryAuthority.dispatcherId = op.startDeliveryAuthority.deliveryGeneration
      /\ op.startDeliveryAuthority \in StartInstruction
  BY <1>2, <1>3, CalmTypes DEF AtRevoke, Succeeding, InstructionOf, CalmRecord
<1>6. CanRevokeAuthority(op, d, g)
  <2>1. d # op.startDeliveryAuthority.dispatcherId
    BY <1>5, InstructionIsSome
  <2> QED
    BY <1>2, <1>3, <1>5, <2>1
       DEF CanRevokeAuthority, Starting, CalmRecord, ResumesHandoff, LastHandoffNames, HandoffPending
<1>7. op' = RevokeAuthority(op, d, g) /\ Granted("announce")
  BY <1>1, <1>6
<1>8. op'.startDeliveryHandoffs = v /\ RecordKeeps(op, op', {"handoffs"})
  BY <1>7, OtherArmFields, CalmTypes DEF RevokeAuthority
<1>9. v # <<>> /\ v[Len(v)].successorDispatcherId = g /\ v[Len(v)].deliveryGeneration = g
      /\ v[Len(v)].acceptanceState = "pending"
  <2>1. CASE ResumesHandoff(op, d, g)
    BY <1>5, <2>1 DEF ResumesHandoff, HandoffPending, LastHandoffNames, HasHandoff, LastHandoff,
                      AppendHandoff
  <2>2. CASE ~ResumesHandoff(op, d, g)
    <3>1. /\ v \in Seq(Handoff) /\ Len(v) = Len(op.startDeliveryHandoffs) + 1
          /\ Len(op.startDeliveryHandoffs) \in Nat
          /\ v[Len(op.startDeliveryHandoffs) + 1] =
                 [previousDispatcherId       |-> op.startDeliveryAuthority.dispatcherId,
                  previousDeliveryGeneration |-> op.startDeliveryAuthority.deliveryGeneration,
                  successorDispatcherId      |-> d,
                  deliveryGeneration         |-> g,
                  acceptanceState            |-> "pending"]
      BY <1>4, <1>5, <2>2, CalmTypes, AppendKeepsHandoffs
    <3>2. v # <<>>
      BY <3>1
    <3> QED
      BY <1>5, <3>1, <3>2
  <2> QED
    BY <2>1, <2>2
<1> HIDE DEF v
<1>10. /\ HasHandoff(op') /\ LastHandoff(op').successorDispatcherId = g
       /\ LastHandoff(op').deliveryGeneration = g /\ HandoffPending(op')
  BY <1>8, <1>9, CalmTypes, HandoffsOf
<1>11. CalmRecord'
  BY <1>2, <1>3, <1>5, <1>8, <1>10 DEF CalmRecord, RecordKeeps
<1>12. PlaceHolds'
  <2>1. /\ run'.at = "announce" /\ run'.recovering = run.recovering
        /\ run'.instruction = i /\ host' = host
    BY <1>7, GrantedFields DEF Places
  <2>2. AtAnnounce'
    BY <1>3, <1>8, <1>10, <2>1 DEF AtAnnounce, AtRevoke, Succeeding, Answered, RecordKeeps
  <2> QED
    BY <1>1, <1>2, <2>1, <2>2 DEF PlaceHolds
<1>13. RecordKeeps(op, op', {"identity", "acceptance", "acknowledgement", "state", "handoffs"})
  BY <1>8 DEF RecordKeeps
<1> QED
  BY <1>1, <1>7, <1>11, <1>12, <1>13, AddsCalmly DEF Places, Outside

LEMMA StartDeliveryGenerationConfirmedCalmly ==
  ASSUME SessionIInv, SessionIInv', Calm, StartDeliveryGenerationConfirmed
  PROVE  Calm'
<1> DEFINE i == run.instruction
           d == i.dispatcherId
           g == i.deliveryGeneration
           s == heard.generation
           v == AnswerLastHandoff(op, s)
           p == IF s = "accepted" THEN "collectAcceptance" ELSE "acquire"
<1>1. CalmRecord /\ BegunIsRecorded /\ PlaceHolds
  BY CalmParts
<1>2. run.at = "confirm" /\ AtConfirm /\ HostHandover /\ HandedOver
  <2>1. run.at = "confirm"
    BY DEF StartDeliveryGenerationConfirmed, Hook
  <2>2. AtConfirm
    BY <1>1, <2>1 DEF PlaceHolds
  <2> QED
    BY <2>1, <2>2, SessionIsOpen DEF AtConfirm, AtAwaitGeneration, HandedOver, Succeeding
<1>3. s \in {"accepted", "not_accepted"} /\ (s = "accepted" <=> heard.said # None)
  BY <1>2 DEF HostHandover
<1>4. i \in StartInstruction /\ g \in Nat \ {0}
  BY <1>2, InstructionThere
<1>5. /\ op.startDeliveryAuthority # None
      /\ g = op.startDeliveryAuthority.deliveryGeneration + 1 /\ d = g
      /\ HandoffPending(op) /\ LastHandoff(op).deliveryGeneration = g
      /\ LastHandoff(op).successorDispatcherId = g
  BY <1>1, <1>2 DEF AtConfirm, AtAwaitGeneration, Succeeding, InstructionOf, CalmRecord,
                    HandoffPending, SessionIInv, GenerationsBounded
<1>6. heard.said # None => ValidStartInstructionReference(op, heard.said)
  <2>1. ASSUME heard.said # None
        PROVE  heard.said = op.startDeliveryAuthority
    BY <1>1, <2>1 DEF SessionIInv, HostFaithful, Faithful, BegunIsRecorded, Recorded
  <2>2. op.startDeliveryAuthority.workerProcessInstanceId = TheWorker
    BY <1>1, <1>5 DEF CalmRecord, InstructionOf
  <2>3. op.startDeliveryAuthority.deliveryGeneration \in Nat \ {0}
    BY <1>5, CalmTypes, InstructionIsSome
  <2> QED
    BY <1>1, <1>5, <2>1, <2>2, <2>3, Chosen DEF ValidStartInstructionReference, CalmRecord
<1>7. CanConfirmGeneration(op, d, g, s, heard.said)
  BY <1>1, <1>3, <1>5, <1>6
     DEF CanConfirmGeneration, Starting, CalmRecord, LastHandoffNames, HandoffPending
<1>8. op' = ConfirmGeneration(op, s) /\ Granted(p)
  BY <1>3, <1>7 DEF StartDeliveryGenerationConfirmed, Hook, Granted
<1>9. op'.startDeliveryHandoffs = v /\ RecordKeeps(op, op', {"handoffs"})
  BY <1>8, OtherArmFields, CalmTypes DEF ConfirmGeneration
<1>10. v # <<>> /\ v[Len(v)].successorDispatcherId = g /\ v[Len(v)].deliveryGeneration = g
       /\ v[Len(v)].acceptanceState = s
  <2> DEFINE h == op.startDeliveryHandoffs
  <2>1. /\ v \in Seq(Handoff) /\ Len(v) = Len(h) /\ Len(h) \in Nat \ {0}
        /\ v[Len(h)] = [h[Len(h)] EXCEPT !.acceptanceState = s]
        /\ h[Len(h)] \in Handoff
    BY <1>3, <1>5, CalmTypes, AnswerKeepsHandoffs DEF HandoffPending, AcceptanceStates
  <2>2. v # <<>>
    BY <2>1
  <2>3. h[Len(h)].deliveryGeneration = g /\ h[Len(h)].successorDispatcherId = g
    BY <1>5 DEF LastHandoff
  <2> HIDE DEF v, h
  <2> QED
    BY <2>1, <2>2, <2>3 DEF Handoff
<1> HIDE DEF v
<1>11. /\ HasHandoff(op') /\ LastHandoff(op').successorDispatcherId = g
       /\ LastHandoff(op').deliveryGeneration = g /\ ~HandoffPending(op')
       /\ LastHandoff(op').acceptanceState = s
  BY <1>3, <1>9, <1>10, CalmTypes, HandoffsOf
<1>12. CalmRecord'
  BY <1>1, <1>5, <1>9, <1>11 DEF CalmRecord, RecordKeeps
<1>13. PlaceHolds'
  <2>1. /\ run'.at = p /\ run'.recovering = run.recovering
        /\ run'.instruction = i /\ host' = host /\ heard' = heard
    BY <1>8, GrantedFields DEF Places
  <2>2. CASE s = "accepted"
    <3>1. AtCollectAcceptance'
      BY <1>2, <2>1, <2>2
         DEF AtCollectAcceptance, AtConfirm, AtAwaitGeneration, Succeeding, Answered
    <3> QED
      BY <1>1, <1>2, <2>1, <2>2, <3>1 DEF PlaceHolds
  <2>3. CASE s = "not_accepted"
    <3>1. MayBegin' /\ Succeeding'
      BY <1>2, <1>9, <2>1, <2>3
         DEF AtConfirm, AtAwaitGeneration, Succeeding, MayBegin, Answered, Preceding, RecordKeeps
    <3>2. AtAcquire'
      BY <1>2, <1>5, <1>11, <2>1, <2>3, <3>1 DEF AtAcquire, LastHandoffNames, Succeeding
    <3> QED
      BY <1>1, <1>2, <2>1, <2>3, <3>2 DEF PlaceHolds
  <2> QED
    BY <1>3, <2>2, <2>3
<1>14. RecordKeeps(op, op', {"identity", "acceptance", "acknowledgement", "state", "handoffs"})
  BY <1>9 DEF RecordKeeps
<1> QED
  BY <1>2, <1>8, <1>12, <1>13, <1>14, AddsCalmly DEF Places, Outside

LEMMA CollectAcceptanceCalmly ==
  ASSUME SessionIInv, SessionIInv', Calm, CollectAcceptance
  PROVE  Calm'
<1> DEFINE known == op.startInstructionAcceptance # None
           i == heard.said
<1>1. CalmRecord /\ BegunIsRecorded /\ PlaceHolds
  BY CalmParts
<1>2. /\ run.at = "collectAcceptance" /\ AtCollectAcceptance
      /\ HostHandover /\ HandedOver
  <2>1. run.at = "collectAcceptance"
    BY DEF CollectAcceptance, Hook
  <2>2. AtCollectAcceptance
    BY <1>1, <2>1 DEF PlaceHolds
  <2> QED
    BY <2>1, <2>2, SessionIsOpen DEF AtCollectAcceptance, HandedOver
<1>3. /\ i # None /\ Recorded(i)
  BY <1>1, <1>2 DEF HostHandover, AtCollectAcceptance, SessionIInv, HostFaithful, Faithful,
                    BegunIsRecorded
<1>4. known \/ CanAcceptStart(op, i)
  BY <1>1, <1>3 DEF CanAcceptStart, CalmRecord, DeliveredInstruction, Recorded, OfGeneration
<1>5. /\ op' = IF known THEN op ELSE AcceptStart(op, i)
      /\ Granted("collectAcknowledgement")
  BY <1>4 DEF CollectAcceptance, Hook, Granted
<1>6. op'.startInstructionAcceptance # None /\ RecordKeeps(op, op', {"acceptance"})
  BY <1>3, <1>5, CalmTypes, InstructionArmFields DEF RecordKeeps
<1>7. CalmRecord'
  BY <1>1, <1>6 DEF CalmRecord, RecordKeeps, HasHandoff, LastHandoff, HandoffPending
<1>8. PlaceHolds'
  <2>1. /\ run'.at = "collectAcknowledgement" /\ run'.recovering = run.recovering
        /\ run'.instruction = run.instruction /\ host' = host /\ heard' = heard
    BY <1>5, GrantedFields DEF Places
  <2>2. AtCollectAcknowledgement'
    BY <1>2, <1>6, <2>1 DEF AtCollectAcknowledgement, AtCollectAcceptance, Answered
  <2> QED
    BY <1>1, <1>2, <2>1, <2>2 DEF PlaceHolds
<1>9. RecordKeeps(op, op', {"identity", "acceptance", "acknowledgement", "state", "handoffs"})
  BY <1>6 DEF RecordKeeps
<1> QED
  BY <1>2, <1>5, <1>7, <1>8, <1>9, AddsCalmly DEF Places, Outside

LEMMA CollectAcknowledgementCalmly ==
  ASSUME SessionIInv, SessionIInv', Calm, CollectAcknowledgement
  PROVE  Calm'
<1> DEFINE known == op.startInstructionAcknowledgement # None
           i == heard.said
<1>1. CalmRecord /\ BegunIsRecorded /\ PlaceHolds
  BY CalmParts
<1>2. /\ run.at = "collectAcknowledgement" /\ AtCollectAcknowledgement /\ AtCollectAcceptance
      /\ HostHandover /\ HandedOver
  <2>1. run.at = "collectAcknowledgement"
    BY DEF CollectAcknowledgement, Hook
  <2>2. AtCollectAcknowledgement
    BY <1>1, <2>1 DEF PlaceHolds
  <2> QED
    BY <2>1, <2>2, SessionIsOpen DEF AtCollectAcknowledgement, AtCollectAcceptance, HandedOver
<1>3. i # None /\ op.startInstructionAcceptance = i
  BY <1>2 DEF HostHandover, AtCollectAcceptance, AtCollectAcknowledgement, SessionIInv,
              HostFaithful, Faithful
<1>4. known \/ CanAcknowledgeStart(op, i)
  BY <1>1, <1>3 DEF CanAcknowledgeStart, CalmRecord, OfGeneration
<1>5. /\ op' = IF known THEN op ELSE AcknowledgeStart(op, i)
      /\ Granted("check")
  BY <1>4 DEF CollectAcknowledgement, Hook, Granted
<1>6. /\ op'.startInstructionAcknowledgement # None /\ op'.state = "running"
      /\ RecordKeeps(op, op', {"acknowledgement", "state"})
  <2>1. CASE known
    BY <1>1, <1>5, <2>1 DEF RecordKeeps, CalmRecord
  <2>2. CASE ~known
    BY <1>3, <1>5, <2>2, CalmTypes, OtherArmFields
  <2> QED
    BY <2>1, <2>2
<1>7. CalmRecord'
  BY <1>1, <1>3, <1>6 DEF CalmRecord, RecordKeeps, HasHandoff, LastHandoff, HandoffPending
<1>8. PlaceHolds'
  <2>1. /\ run'.at = "check" /\ run'.recovering = run.recovering
        /\ run'.instruction = run.instruction /\ host' = host /\ heard' = heard
    BY <1>5, GrantedFields DEF Places
  <2>2. AtCheck'
    BY <1>2, <2>1 DEF AtCheck, AtCollectAcceptance, Answered
  <2> QED
    BY <1>1, <1>2, <2>1, <2>2 DEF PlaceHolds
<1>9. RecordKeeps(op, op', {"identity", "acceptance", "acknowledgement", "state", "handoffs"})
  BY <1>6 DEF RecordKeeps
<1> QED
  BY <1>2, <1>5, <1>7, <1>8, <1>9, AddsCalmly DEF Places, Outside

LEMMA CheckCancellationCalmly ==
  ASSUME SessionIInv, SessionIInv', Calm, CheckCancellation
  PROVE  Calm'
<1> DEFINE p == IF heard.generation = "accepted" THEN "work" ELSE "enter"
<1>1. PlaceHolds
  BY CalmParts
<1>2. run.at = "check" /\ AtCheck /\ run.cancel = "no"
  BY <1>1, SessionIsOpen DEF CheckCancellation, PlaceHolds
<1>3. Proceeds(p) /\ UNCHANGED <<op, host, heard, socket, worker, bridge, reception, stored, process>>
  BY <1>2 DEF CheckCancellation, rest, workerSide
<1>4. /\ run'.at = p /\ run'.cancel = run.cancel
      /\ run'.recovering = run.recovering /\ run'.instruction = run.instruction
  BY <1>3, Proceeding DEF Places
<1>5. PlaceHolds'
  <2>1. CASE heard.generation = "accepted"
    <3>1. AtWork'
      BY <1>2, <1>3, <1>4, <2>1 DEF AtCheck, AtCollectAcceptance, AtWork, Working, Answered
    <3> QED
      BY <1>1, <1>2, <1>4, <2>1, <3>1 DEF PlaceHolds
  <2>2. CASE heard.generation # "accepted"
    <3>1. AtEnter'
      BY <1>2, <1>3, <1>4, <2>2 DEF AtCheck, AtEnter, MayBegin, Preceding, Answered
    <3> QED
      BY <1>1, <1>2, <1>4, <2>2, <3>1 DEF PlaceHolds
  <2> QED
    BY <2>1, <2>2
<1> QED
  BY <1>2, <1>3, <1>4, <1>5, GoesOnCalmly DEF Outside

\* Before its begin a host knows of no acceptance.
LEMMA BeforeBegin ==
  ASSUME SessionIInv, Calm, run.at \in {"acquire", "check", "enter", "send"}, MayBegin
  PROVE  /\ stored.acceptance = None /\ Begins = {}
         /\ op.startInstructionAcceptance = None /\ op.startInstructionAcknowledgement = None
         /\ op.startInstructionDelivery = None /\ op.state = "starting"
<1>1. heard.open /\ Conversation
  BY SessionIsOpen
<1>2. CalmRecord /\ BegunIsRecorded /\ NothingBegun
  BY CalmParts
<1>3. stored.acceptance = None
  BY <1>1, <1>2 DEF NothingBegun, MayBegin
<1>4. Begins = {}
  BY <1>1, NoBeginAnswered DEF MayBegin
<1>5. op.startInstructionAcceptance = None
  BY <1>3 DEF SessionIInv, HostFaithful, Faithful
<1> QED
  BY <1>2, <1>3, <1>4, <1>5 DEF CalmRecord, BegunIsRecorded, Sent

LEMMA StartDeliveryEnteredCalmly ==
  ASSUME SessionIInv, SessionIInv', Calm, StartDeliveryEntered
  PROVE  Calm'
<1> DEFINE i == run.instruction
<1>1. CalmRecord /\ BegunIsRecorded /\ PlaceHolds
  BY CalmParts
<1>2. run.at = "enter" /\ AtEnter
  BY <1>1 DEF StartDeliveryEntered, Hook, PlaceHolds
<1>3. /\ stored.acceptance = None /\ Begins = {}
      /\ op.startInstructionAcceptance = None /\ op.startInstructionAcknowledgement = None
      /\ op.startInstructionDelivery = None /\ op.state = "starting"
  BY <1>2, BeforeBegin DEF AtEnter
<1>4. i \in StartInstruction /\ i # None /\ i.deliveryGeneration \in Nat
  BY <1>2, InstructionThere
<1>5. ~OfGeneration(op.startDeliveryEntry, i.deliveryGeneration)
  <2>1. op.startDeliveryEntry \in StartInstruction \cup {None}
    BY CalmTypes DEF Operation
  <2> QED
    BY <1>2, <1>4, <2>1, InstructionIsSome DEF AtEnter, OfGeneration
<1>6. CanEnterDelivery(op, i)
  BY <1>2, <1>3, <1>4, <1>5 DEF CanEnterDelivery, AtEnter
<1>7. op' = EnterDelivery(op, i) /\ Granted("send")
  BY <1>6 DEF StartDeliveryEntered, Hook, Granted
<1>8. op'.startDeliveryEntry = i /\ RecordKeeps(op, op', {"entry"})
  BY <1>7, InstructionArmFields, CalmTypes
<1>9. /\ run'.at = "send" /\ run'.recovering = run.recovering
      /\ run'.instruction = i /\ host' = host /\ heard' = heard
      /\ socket' = socket /\ stored' = stored
  BY <1>7, GrantedFields DEF Places
<1>10. op.startDeliveryAuthority = i
  BY <1>2 DEF AtEnter
<1>11. CalmRecord'
  BY <1>1, <1>3, <1>4, <1>8, <1>10 DEF CalmRecord, RecordKeeps, HasHandoff, LastHandoff, HandoffPending
<1>12. BegunIsRecorded'
  BY <1>3, <1>8, <1>9 DEF BegunIsRecorded, RecordKeeps, Begins, Carried
<1>13. PlaceHolds'
  <2>1. AtSend'
    BY <1>2, <1>3, <1>8, <1>9, <1>10
       DEF AtSend, AtEnter, MayBegin, EntryIs, Preceding, Answered, RecordKeeps
  <2> QED
    BY <1>1, <1>2, <1>9, <2>1 DEF PlaceHolds
<1>14. AuthorityMoves
  BY <1>8 DEF AuthorityMoves, RecordKeeps
<1> QED
  BY <1>2, <1>7, <1>11, <1>12, <1>13, <1>14, RecordsCalmly DEF Places, Outside

\* Once the host has begun, the begin is on its way or accepted.
LEMMA BegunIsSent ==
  ASSUME SessionIInv, Calm, socket.state = "up", host.seq > Preceding + 1
  PROVE  Sent
<1>1. CalmWorker /\ CalmFrames /\ Conversation
  BY CalmParts
<1>2. /\ host.seq \in Nat /\ worker.last \in Nat /\ Preceding \in {0, 1}
  BY CalmTypes DEF Preceding
<1>3. WorkerTurn
  BY <1>1 DEF Conversation
<1>4. CASE worker.state = "new"
  BY <1>2, <1>3, <1>4 DEF WorkerTurn
<1>5. CASE worker.state \in {"running", "done"}
  BY <1>1, <1>5 DEF CalmWorker, SessionIInv, WorkerFaithful, Faithful, Sent
<1>6. CASE worker.state = "ready"
  <2>1. socket.toWorker # <<>> /\ host.seq = Preceding + 2
    BY <1>2, <1>3, <1>6 DEF WorkerTurn
  <2>2. socket.toWorker \in Seq(ToWorker)
    BY SocketFields DEF SessionIInv, SessionTypeOK
  <2>3. PICK f \in Carried(socket.toWorker) : TRUE
    BY <2>1, <2>2, CarriedFrames
  <2>4. f.event = HostFrame
    BY <1>1, <1>6 DEF Conversation
  <2>5. f.event.type = "begin"
    BY <1>2, <2>1, <2>4 DEF HostFrame, About
  <2> QED
    BY <2>5 DEF Sent, Begins
<1> QED
  BY <1>3, <1>4, <1>5, <1>6 DEF WorkerTurn

LEMMA StartInstructionDispatchedCalmly ==
  ASSUME SessionIInv, SessionIInv', Calm, StartInstructionDispatched
  PROVE  Calm'
<1> DEFINE i == run.instruction
<1>1. CalmRecord /\ BegunIsRecorded /\ PlaceHolds
  BY CalmParts
<1>2. run.at = "dispatch" /\ AtDispatch
  BY <1>1 DEF StartInstructionDispatched, Hook, PlaceHolds
<1>3. /\ op.startDeliveryAuthority = i /\ op.startDeliveryEntry = i
      /\ op.startInstructionAcceptance = None /\ op.startInstructionDelivery = None
      /\ op.startInstructionAcknowledgement = None /\ op.state = "starting"
  BY <1>1, <1>2 DEF AtDispatch, EntryIs, CalmRecord
<1>4. i \in StartInstruction /\ i # None
  BY <1>2, InstructionThere
<1>5. CanDispatchStart(op, i)
  BY <1>3, <1>4 DEF CanDispatchStart, OfGeneration
<1>6. op' = DispatchStart(op, i) /\ Granted("awaitAcceptance")
  BY <1>5 DEF StartInstructionDispatched, Hook, Granted
<1>7. op'.startInstructionDelivery = i /\ RecordKeeps(op, op', {"delivery"})
  BY <1>6, InstructionArmFields, CalmTypes
<1>8. /\ run'.at = "awaitAcceptance" /\ run'.recovering = run.recovering
      /\ run'.instruction = i /\ host' = host /\ heard' = heard
      /\ socket' = socket /\ stored' = stored
  BY <1>6, GrantedFields DEF Places
<1>9. Sent
  <2>1. socket.state = "up"
    BY <1>2, SessionIsOpen
  <2>2. host.seq > Preceding + 1
    BY <1>2, CalmTypes DEF AtDispatch, Preceding
  <2> QED
    BY <2>1, <2>2, BegunIsSent
<1>10. CalmRecord'
  BY <1>1, <1>3, <1>4, <1>7 DEF CalmRecord, RecordKeeps, HasHandoff, LastHandoff, HandoffPending
<1>11. BegunIsRecorded'
  BY <1>1, <1>7, <1>8, <1>9 DEF BegunIsRecorded, Recorded, RecordKeeps, Sent, Begins, Carried
<1>12. PlaceHolds'
  <2>1. AtAwaitAcceptance'
    BY <1>2, <1>3, <1>7, <1>8 DEF AtAwaitAcceptance, AtDispatch, EntryIs, Preceding, RecordKeeps
  <2> QED
    BY <1>1, <1>2, <1>8, <2>1 DEF PlaceHolds
<1>13. AuthorityMoves
  BY <1>7 DEF AuthorityMoves, RecordKeeps
<1> QED
  BY <1>2, <1>6, <1>10, <1>11, <1>12, <1>13, RecordsCalmly DEF Places, Outside

LEMMA AwaitAcceptanceCalmly ==
  ASSUME SessionIInv, SessionIInv', Calm, AwaitAcceptance
  PROVE  Calm'
<1>1. PlaceHolds
  BY CalmParts
<1>2. run.at = "awaitAcceptance" /\ AtAwaitAcceptance /\ HostBegin /\ run.cancel = "no"
  BY <1>1, SessionIsOpen DEF AwaitAcceptance, Await, PlaceHolds
<1>3. heard.acceptance = "accepted" /\ Answered
  BY <1>2, CalmTypes DEF AwaitAcceptance, Await, HostBegin, AtAwaitAcceptance, Preceding
<1>4. /\ Proceeds("accepted")
      /\ UNCHANGED <<op, host, heard, socket, worker, bridge, reception, stored, process>>
  BY <1>3 DEF AwaitAcceptance, Await, rest, workerSide
<1>5. /\ run'.at = "accepted" /\ run'.cancel = run.cancel
      /\ run'.recovering = run.recovering /\ run'.instruction = run.instruction
  BY <1>4, Proceeding DEF Places
<1>6. PlaceHolds'
  <2>1. AtAccepted'
    BY <1>2, <1>3, <1>4, <1>5 DEF AtAccepted, AtAwaitAcceptance, EntryIs, Preceding, Answered
  <2> QED
    BY <1>1, <1>2, <1>5, <2>1 DEF PlaceHolds
<1> QED
  BY <1>2, <1>4, <1>5, <1>6, GoesOnCalmly DEF Outside

LEMMA StartInstructionAcceptedCalmly ==
  ASSUME SessionIInv, SessionIInv', Calm, StartInstructionAccepted
  PROVE  Calm'
<1> DEFINE i == run.instruction
<1>1. CalmRecord /\ BegunIsRecorded /\ PlaceHolds
  BY CalmParts
<1>2. run.at = "accepted" /\ AtAccepted
  BY <1>1 DEF StartInstructionAccepted, Hook, PlaceHolds
<1>3. i \in StartInstruction /\ i # None
  BY <1>2, InstructionThere
<1>4. /\ op.startInstructionDelivery = i
      /\ op.startInstructionAcceptance = None
      /\ op.startInstructionAcknowledgement = None /\ op.state = "starting"
  BY <1>1, <1>2 DEF AtAccepted, AtAwaitAcceptance, EntryIs, CalmRecord
<1>5. CanAcceptStart(op, i)
  BY <1>3, <1>4 DEF CanAcceptStart, DeliveredInstruction, OfGeneration
<1>6. op' = AcceptStart(op, i) /\ Granted("observe")
  BY <1>5 DEF StartInstructionAccepted, Hook, Granted
<1>7. op'.startInstructionAcceptance = i /\ RecordKeeps(op, op', {"acceptance"})
  BY <1>6, InstructionArmFields, CalmTypes
<1>8. /\ run'.at = "observe" /\ run'.recovering = run.recovering
      /\ run'.instruction = i /\ host' = host
  BY <1>6, GrantedFields DEF Places
<1>9. CalmRecord'
  BY <1>1, <1>3, <1>7 DEF CalmRecord, RecordKeeps, HasHandoff, LastHandoff, HandoffPending
<1>10. PlaceHolds'
  <2>1. AtObserve'
    BY <1>2, <1>4, <1>7, <1>8
       DEF AtObserve, AtAccepted, AtAwaitAcceptance, AcceptanceIs, Preceding, Answered, RecordKeeps
  <2> QED
    BY <1>1, <1>2, <1>8, <2>1 DEF PlaceHolds
<1>11. RecordKeeps(op, op', {"identity", "acceptance", "acknowledgement", "state", "handoffs"})
  BY <1>7 DEF RecordKeeps
<1> QED
  BY <1>2, <1>6, <1>9, <1>10, <1>11, AddsCalmly DEF Places, Outside

LEMMA AwaitAcknowledgementCalmly ==
  ASSUME SessionIInv, SessionIInv', Calm, AwaitAcknowledgement
  PROVE  Calm'
<1>1. PlaceHolds
  BY CalmParts
<1>2. run.at = "awaitAcknowledgement" /\ AtAwaitAcknowledgement /\ HostBegin /\ run.cancel = "no"
  BY <1>1, SessionIsOpen DEF AwaitAcknowledgement, Await, PlaceHolds
<1>3. heard.acknowledgement = "acknowledged" /\ Answered
  BY <1>2, CalmTypes DEF AwaitAcknowledgement, Await, HostBegin, AtAwaitAcknowledgement, Preceding
<1>4. /\ Proceeds("acknowledged")
      /\ UNCHANGED <<op, host, heard, socket, worker, bridge, reception, stored, process>>
  BY <1>3 DEF AwaitAcknowledgement, Await, rest, workerSide
<1>5. /\ run'.at = "acknowledged" /\ run'.cancel = run.cancel
      /\ run'.recovering = run.recovering /\ run'.instruction = run.instruction
  BY <1>4, Proceeding DEF Places
<1>6. PlaceHolds'
  <2>1. AtAcknowledged'
    BY <1>2, <1>3, <1>4, <1>5
       DEF AtAcknowledged, AtAwaitAcknowledgement, AcceptanceIs, Preceding, Answered
  <2> QED
    BY <1>1, <1>2, <1>5, <2>1 DEF PlaceHolds
<1> QED
  BY <1>2, <1>4, <1>5, <1>6, GoesOnCalmly DEF Outside

LEMMA StartInstructionAcknowledgedCalmly ==
  ASSUME SessionIInv, SessionIInv', Calm, StartInstructionAcknowledged
  PROVE  Calm'
<1> DEFINE i == run.instruction
<1>1. CalmRecord /\ BegunIsRecorded /\ PlaceHolds
  BY CalmParts
<1>2. run.at = "acknowledged" /\ AtAcknowledged
  BY <1>1 DEF StartInstructionAcknowledged, Hook, PlaceHolds
<1>3. i \in StartInstruction /\ i # None
  BY <1>2, InstructionThere
<1>4. /\ op.startInstructionAcceptance = i
      /\ op.startInstructionAcknowledgement = None /\ op.state = "starting"
  BY <1>1, <1>2 DEF AtAcknowledged, AtAwaitAcknowledgement, AcceptanceIs, CalmRecord
<1>5. CanAcknowledgeStart(op, i)
  BY <1>3, <1>4 DEF CanAcknowledgeStart, OfGeneration
<1>6. op' = AcknowledgeStart(op, i) /\ Granted("work")
  BY <1>5 DEF StartInstructionAcknowledged, Hook, Granted
<1>7. /\ op'.startInstructionAcknowledgement = i /\ op'.state = "running"
      /\ RecordKeeps(op, op', {"acknowledgement", "state"})
  BY <1>6, OtherArmFields, CalmTypes
<1>8. /\ run'.at = "work" /\ run'.recovering = run.recovering
      /\ run'.instruction = i /\ host' = host /\ heard' = heard
  BY <1>6, GrantedFields DEF Places
<1>9. CalmRecord'
  BY <1>1, <1>3, <1>4, <1>7 DEF CalmRecord, RecordKeeps, HasHandoff, LastHandoff, HandoffPending
<1>10. PlaceHolds'
  <2>1. AtWork'
    BY <1>2, <1>8 DEF AtWork, Working, AtAcknowledged, AtAwaitAcknowledgement, Preceding, Answered
  <2> QED
    BY <1>1, <1>2, <1>8, <2>1 DEF PlaceHolds
<1>11. RecordKeeps(op, op', {"identity", "acceptance", "acknowledgement", "state", "handoffs"})
  BY <1>7 DEF RecordKeeps
<1> QED
  BY <1>2, <1>6, <1>9, <1>10, <1>11, AddsCalmly DEF Places, Outside

LEMMA AwaitReceptionCalmly ==
  ASSUME SessionIInv, SessionIInv', Calm, AwaitReception
  PROVE  Calm'
<1>1. PlaceHolds
  BY CalmParts
<1>2. run.at = "work" /\ AtWork /\ HostResult /\ run.cancel = "no"
  BY <1>1, SessionIsOpen DEF AwaitReception, PlaceHolds
<1>3. UNCHANGED <<op, host, worker, bridge, reception, stored, process>>
  BY DEF AwaitReception, rest, workerSide
<1>4. heard.reception \in {"result", "agent_failed"}
  BY <1>2 DEF AwaitReception, HostResult
<1>5. CASE heard.reception = "result"
  <2>1. Proceeds("offer") /\ UNCHANGED <<heard, socket>>
    BY <1>5 DEF AwaitReception
  <2>2. /\ run'.at = "offer" /\ run'.cancel = run.cancel
        /\ run'.recovering = run.recovering /\ run'.instruction = run.instruction
    BY <2>1, Proceeding DEF Places
  <2>3. PlaceHolds'
    <3>1. AtOffer'
      BY <1>2, <1>3, <1>5, <2>1, <2>2 DEF AtOffer, AtWork, Working, Preceding, Answered
    <3> QED
      BY <1>1, <1>2, <2>2, <3>1 DEF PlaceHolds
  <2> QED
    BY <1>2, <1>3, <2>1, <2>2, <2>3, GoesOnCalmly DEF Outside
<1>6. CASE heard.reception = "agent_failed"
  BY <1>3, <1>6, RunEndsCalmly DEF AwaitReception
<1> QED
  BY <1>4, <1>5, <1>6

LEMMA OfferResultCalmly ==
  ASSUME SessionIInv, SessionIInv', Calm, OfferResult
  PROVE  Calm'
<1>1. CalmRecord /\ PlaceHolds
  BY CalmParts
<1>2. run.at = "offer" /\ AtOffer
  BY <1>1 DEF OfferResult, PlaceHolds
<1>3. UNCHANGED <<host, worker, bridge, reception, stored, process>>
  BY DEF OfferResult, rest, workerSide
<1>4. CASE op' = op /\ RunEnds
  BY <1>3, <1>4, RunEndsCalmly
<1>5. CASE op' \in {op, AcceptResult(op, TheResult)} /\ Granted("acknowledge")
  <2>1. RecordKeeps(op, op', {})
    <3>1. op \in Operation
      BY CalmTypes
    <3>2. RecordKeeps(op, op, {}) /\ RecordKeeps(op, AcceptResult(op, TheResult), {})
      BY <3>1, OtherArmFields
    <3> QED
      BY <1>5, <3>2
  <2>2. /\ run'.at = "acknowledge" /\ run'.recovering = run.recovering
        /\ run'.instruction = run.instruction /\ host' = host /\ heard' = heard
    BY <1>5, GrantedFields DEF Places
  <2>3. CalmRecord'
    BY <1>1, <2>1 DEF CalmRecord, RecordKeeps, HasHandoff, LastHandoff, HandoffPending
  <2>4. PlaceHolds'
    <3>1. AtOffer'
      BY <1>2, <2>2 DEF AtOffer, AtWork, Working, Preceding, Answered
    <3> QED
      BY <1>1, <1>2, <2>2, <3>1 DEF PlaceHolds
  <2>5. RecordKeeps(op, op', {"identity", "acceptance", "acknowledgement", "state", "handoffs"})
    BY <2>1 DEF RecordKeeps
  <2> QED
    BY <1>2, <1>5, <2>3, <2>4, <2>5, AddsCalmly DEF Places, Outside
<1> QED
  BY <1>4, <1>5 DEF OfferResult, Granted

\* What a call or a frame leaves alone of the host's peer.
HostKeeps(h, n, changed) ==
  /\ "state" \notin changed => n.state = h.state
  /\ "last" \notin changed => n.last = h.last
  /\ "seq" \notin changed => n.seq = h.seq
  /\ "instruction" \notin changed => n.instruction = h.instruction
  /\ "accepted" \notin changed => n.accepted = h.accepted
  /\ "observations" \notin changed => n.observations = h.observations
  /\ "acknowledgements" \notin changed => n.acknowledgements = h.acknowledgements
  /\ "dispatcher" \notin changed => n.dispatcher = h.dispatcher
  /\ "pending" \notin changed => n.pending = h.pending
  /\ "confirmed" \notin changed => n.confirmed = h.confirmed
  /\ "answer" \notin changed => n.answer = h.answer
  /\ "result" \notin changed => /\ n.current = h.current /\ n.received = h.received
                                /\ n.acknowledgementPending = h.acknowledgementPending
                                /\ n.acknowledged = h.acknowledged

LEMMA WriteFields ==
  ASSUME NEW h \in HostProtocolPeers
  PROVE  /\ \A g : LET n == UpdateGeneration(h, g) IN
              n.seq = h.seq + 1 /\ n.pending = g /\ HostKeeps(h, n, {"seq", "pending"})
         /\ \A i : LET n == Begin(h, i) IN
              /\ n.seq = h.seq + 1 /\ n.instruction = i /\ n.state = "receiving_results"
              /\ HostKeeps(h, n, {"seq", "instruction", "state", "dispatcher"})
         /\ LET n == ObserveAcceptance(h) IN
              /\ n.seq = h.seq + 1 /\ n.observations = h.observations - 1
              /\ n.acknowledgements = h.acknowledgements + 1
              /\ HostKeeps(h, n, {"seq", "observations", "acknowledgements"})
<1> DEFINE m == Numbered(h, 1)
<1>1. /\ m \in HostProtocolPeers /\ m.seq = h.seq + 1 /\ HostKeeps(h, m, {"seq"})
  BY SMTT(30) DEF HostProtocolPeers, Numbered, HostKeeps
<1> HIDE DEF m
<1>2. ASSUME NEW g
      PROVE  LET n == UpdateGeneration(h, g) IN
             n.seq = h.seq + 1 /\ n.pending = g /\ HostKeeps(h, n, {"seq", "pending"})
  <2>1. UpdateGeneration(h, g) = [m EXCEPT !.pending = g]
    BY DEF UpdateGeneration, m
  <2> QED
    BY <1>1, <2>1, SMTT(30) DEF HostProtocolPeers, HostKeeps
<1>3. ASSUME NEW i
      PROVE  LET n == Begin(h, i) IN
             /\ n.seq = h.seq + 1 /\ n.instruction = i /\ n.state = "receiving_results"
             /\ HostKeeps(h, n, {"seq", "instruction", "state", "dispatcher"})
  <2> DEFINE d == IF m.dispatcher = None THEN i.dispatcherId ELSE m.dispatcher
             a == [m EXCEPT !.dispatcher = d]
             b == [a EXCEPT !.instruction = i]
  <2>1. Begin(h, i) = [b EXCEPT !.state = "receiving_results"]
    BY DEF Begin, m
  <2> HIDE DEF d
  <2>2. DOMAIN m = DOMAIN h /\ DOMAIN a = DOMAIN m /\ DOMAIN b = DOMAIN m
    BY <1>1 DEF HostProtocolPeers
  <2>3. HostKeeps(m, a, {"dispatcher"})
    BY <1>1, SMTT(30) DEF HostProtocolPeers, HostKeeps
  <2>4. b.instruction = i /\ HostKeeps(a, b, {"instruction"})
    BY <1>1, SMTT(30) DEF HostProtocolPeers, HostKeeps
  <2>5. LET n == [b EXCEPT !.state = "receiving_results"] IN
        n.state = "receiving_results" /\ HostKeeps(b, n, {"state"})
    BY <1>1, SMTT(30) DEF HostProtocolPeers, HostKeeps
  <2> HIDE DEF a, b
  <2> QED
    BY <1>1, <2>1, <2>3, <2>4, <2>5 DEF HostKeeps
<1>4. LET n == ObserveAcceptance(h) IN
      /\ n.seq = h.seq + 1 /\ n.observations = h.observations - 1
      /\ n.acknowledgements = h.acknowledgements + 1
      /\ HostKeeps(h, n, {"seq", "observations", "acknowledgements"})
  <2> DEFINE a == [m EXCEPT !.observations = @ - 1]
  <2>1. ObserveAcceptance(h) = [a EXCEPT !.acknowledgements = @ + 1]
    BY DEF ObserveAcceptance, m
  <2>2. a.observations = h.observations - 1 /\ HostKeeps(m, a, {"observations"})
    BY <1>1, SMTT(30) DEF HostProtocolPeers, HostKeeps
  <2>3. LET n == [a EXCEPT !.acknowledgements = @ + 1] IN
        n.acknowledgements = a.acknowledgements + 1 /\ HostKeeps(a, n, {"acknowledgements"})
    BY <1>1, SMTT(30) DEF HostProtocolPeers, HostKeeps
  <2> HIDE DEF a
  <2> QED
    BY <1>1, <2>1, <2>2, <2>3 DEF HostKeeps
<1> QED
  BY <1>2, <1>3, <1>4

LEMMA OneFrame ==
  ASSUME socket \in Sockets, socket.toWorker = <<>>, NEW f,
         socket' = [socket EXCEPT !.toWorker = Append(@, f)]
  PROVE  /\ socket'.state = socket.state /\ socket'.toHost = socket.toHost
         /\ socket'.toWorker = <<f>> /\ Len(socket'.toWorker) = 1 /\ socket'.toWorker # <<>>
         /\ Carried(socket.toWorker)' = {f}
<1>1. /\ socket'.state = socket.state /\ socket'.toHost = socket.toHost
      /\ socket'.toWorker = Append(<<>>, f)
  BY DEF Sockets
<1>2. Append(<<>>, f) = <<f>> /\ Len(<<f>>) = 1 /\ <<f>> # <<>>
  OBVIOUS
<1>3. Carried(<<f>>) = {f}
  BY DEF Carried
<1> QED
  BY <1>1, <1>2, <1>3 DEF Carried

\* The host writes its next frame to a worker that has answered the last one.
LEMMA WritesCalmly ==
  ASSUME SessionIInv, SessionIInv', Calm,
         NEW p \in Places \ Outside, Proceeds(p), run.at \notin Outside,
         UNCHANGED <<op, heard, worker, bridge, reception, stored, process>>,
         Answered, worker.state \in {"ready", "running"},
         NEW f, socket' = [socket EXCEPT !.toWorker = Append(@, f)],
         f.event = HostFrame', Fits(f)',
         f.event.type = "begin" => Recorded(f.event.instruction),
         host'.seq = host.seq + 1, host'.last = host.last,
         host'.acknowledged = host.acknowledged,
         NothingBegun', PlaceHolds', CalmHost'
  PROVE  Calm'
<1>1. /\ CalmRecord /\ BegunIsRecorded /\ CalmStore /\ CalmWorker
      /\ CalmReception /\ CalmLeaving /\ CalmSession
  BY CalmParts
<1>2. /\ heard.open /\ heard.connected /\ socket.state = "up" /\ Conversation
      /\ host.acknowledged = None /\ run.cancel = "no"
  BY SessionIsOpen DEF Outside
<1>3. /\ run'.at = p /\ run'.cancel = run.cancel
      /\ run'.recovering = run.recovering /\ run'.instruction = run.instruction
  BY Proceeding
<1>4. WorkerTurn
  BY <1>2 DEF Conversation
<1>5. /\ ~Busy /\ socket.toHost = <<>> /\ socket.toWorker = <<>>
      /\ host.seq = worker.last + 1 /\ host.last = host.seq + 1
  BY <1>4, AnsweredIsQuiet DEF Busy
<1>6. /\ socket'.state = "up" /\ socket'.toHost = <<>> /\ Len(socket'.toHost) = 0
      /\ socket'.toWorker = <<f>> /\ Len(socket'.toWorker) = 1 /\ socket'.toWorker # <<>>
      /\ Carried(socket.toWorker)' = {f}
  <2>1. socket \in Sockets
    BY DEF SessionIInv, SessionTypeOK
  <2>2. Len(<<>>) = 0
    OBVIOUS
  <2> QED
    BY <1>2, <1>5, <2>1, <2>2, OneFrame
<1>7. reception = NoReception /\ ~reception.active
  BY <1>1, <1>5 DEF Busy, CalmReception
<1>8. CalmRecord'
  BY <1>1 DEF CalmRecord, HasHandoff, LastHandoff, HandoffPending
<1>9. BegunIsRecorded'
  <2>1. Begins = {}
    BY <1>5 DEF Begins, Carried
  <2>2. \A b \in Begins' : b = f /\ f.event.type = "begin"
    BY <1>6 DEF Begins
  <2> QED
    BY <1>1, <2>1, <2>2, <1>3 DEF BegunIsRecorded, Recorded, Sent, Outside
<1>10. CalmStore' /\ CalmWorker'
  BY <1>1, <1>3 DEF CalmStore, CalmWorker, Outside
<1>11. CalmFrames'
  BY <1>6 DEF CalmFrames
<1>12. CalmReception'
  BY <1>7, <1>1 DEF CalmReception
<1>13. CalmLeaving' /\ CalmSession'
  BY <1>1, <1>2, <1>3, <1>6 DEF CalmLeaving, CalmSession, Outside
<1>14. Conversation'
  <2>1. /\ host.seq \in Nat /\ host.last \in Nat /\ worker.seq \in Nat /\ worker.last \in Nat
    BY CalmTypes
  <2>2. worker.seq = host.last + 1 /\ (worker.state = "ready" => worker.last <= Preceding)
        /\ (worker.state = "running" => worker.last > 0)
    BY <1>4, <1>5, <2>1 DEF WorkerTurn
  <2>3. WorkerTurn'
    BY <1>3, <1>5, <1>6, <2>1, <2>2 DEF WorkerTurn, Busy, Preceding
  <2>4. reception.start = None /\ reception.observed = None /\ reception.update = None
    BY <1>7 DEF NoReception
  <2>5. \A n \in 1 .. Len(socket'.toHost) : FALSE
    BY <1>6
  <2>6. run.recovering /\ worker.last > 0 =>
          stored.authority.generation = run.instruction.deliveryGeneration
    BY <1>2 DEF Conversation
  <2> QED
    BY <1>3, <1>6, <2>3, <2>4, <2>5, <2>6 DEF Conversation
<1> QED
  BY <1>8, <1>9, <1>10, <1>11, <1>12, <1>13, <1>14 DEF Calm

\* The worker that a host may write to has answered it and awaits more.
LEMMA AnsweredWorkerWaits ==
  ASSUME SessionIInv, Calm, run.at \notin Outside, Answered,
         host.seq # Preceding + 3, run.recovering /\ host.seq = 2 => stored.acceptance = None
  PROVE  /\ worker.state = IF host.seq = Preceding + 2 THEN "running" ELSE worker.state
         /\ worker.state = IF host.seq = 1 \/ stored.acceptance = None THEN "ready" ELSE worker.state
         /\ worker.state \in {"ready", "running"}
         /\ host.seq = worker.last + 1 /\ host.last = host.seq + 1 /\ ~heard.completed
<1>1. /\ Conversation /\ HostTurn /\ HostResult /\ CalmWorker
  BY SessionIsOpen, CalmParts DEF Outside
<1>2. WorkerTurn
  BY <1>1 DEF Conversation
<1>3. stored.acceptance = None => worker.accepted = None
  BY DEF SessionIInv, WorkerFaithful, Faithful
<1>4. worker.state \in {"ready", "running"}
  BY <1>1, <1>2, <1>3, AnsweredIsQuiet DEF WorkerTurn, CalmWorker
<1>5. host.seq = worker.last + 1 /\ host.last = host.seq + 1
  BY <1>2, <1>4, AnsweredIsQuiet
<1>6. ~heard.completed
  BY <1>1, <1>5, CalmTypes DEF HostResult
<1>7. /\ host.seq = Preceding + 2 => worker.state # "ready"
      /\ host.seq = 1 => worker.state # "running"
      /\ stored.acceptance = None => worker.state # "running"
  BY <1>1, <1>2, <1>3, <1>5, CalmTypes DEF WorkerTurn, CalmWorker, Preceding
<1> QED
  BY <1>4, <1>5, <1>6, <1>7

LEMMA RequestDeliveryGenerationUpdateCalmly ==
  ASSUME SessionIInv, SessionIInv', Calm, RequestDeliveryGenerationUpdate
  PROVE  Calm'
<1> DEFINE i == run.instruction
           g == i.deliveryGeneration
           e == [type |-> "delivery_generation_update", generation |-> g,
                 dispatcher |-> i.dispatcherId]
<1>0. PICK f : f = Frame(host, e)
  OBVIOUS
<1>1. CalmRecord /\ CalmStore /\ PlaceHolds
  BY CalmParts
<1>2. run.at = "announce" /\ AtAnnounce /\ Succeeding /\ host.seq = 1 /\ Answered /\ run.recovering
  BY <1>1 DEF RequestDeliveryGenerationUpdate, Writes, PlaceHolds, AtAnnounce, AtRevoke, Succeeding
<1>3. /\ heard.open /\ socket.state = "up" /\ HostTurn /\ HostHandover /\ HostBegin /\ HostResult
  BY <1>2, SessionIsOpen
<1>4. op.startDeliveryAuthority # None
  BY <1>2 DEF SessionIInv, GenerationsBounded
<1>5. /\ op.startDeliveryAuthority.deliveryGeneration \in Nat \ {0}
      /\ g = op.startDeliveryAuthority.deliveryGeneration + 1 /\ i.dispatcherId = g
  BY <1>2, <1>4, CalmTypes, InstructionIsSome DEF Succeeding, InstructionOf
<1>6. /\ worker.state = "ready" /\ host.seq = worker.last + 1 /\ host.last = host.seq + 1
      /\ ~heard.completed
  BY <1>2, AnsweredWorkerWaits DEF Preceding, Outside
<1>7. CanUpdateGeneration(host, g)
  BY <1>2, <1>3, <1>5 DEF CanUpdateGeneration, HostHandover, HandedOver
<1>8. /\ host' = UpdateGeneration(host, g) /\ Proceeds("awaitGeneration")
      /\ socket' = [socket EXCEPT !.toWorker = Append(@, f)]
      /\ UNCHANGED <<op, heard, worker, bridge, reception, stored, process>>
  BY <1>0, <1>3, <1>7 DEF RequestDeliveryGenerationUpdate, Writes, rest, workerSide
<1>9. /\ run'.at = "awaitGeneration" /\ run'.cancel = run.cancel
      /\ run'.recovering = run.recovering /\ run'.instruction = i
  BY <1>8, Proceeding DEF Places
<1>10. host'.seq = host.seq + 1 /\ host'.pending = g /\ HostKeeps(host, host', {"seq", "pending"})
  BY <1>8, WriteFields DEF SessionIInv, SessionTypeOK
<1>11. f.seq = host.seq /\ f.event = e
  BY <1>0 DEF Frame
<1>12. f.event = HostFrame'
  BY <1>2, <1>9, <1>10, <1>11 DEF HostFrame, Preceding
<1>13. Fits(f)'
  <2>1. /\ stored.authority.generation \in Nat /\ stored.authority.generation <= g
    BY <1>1, <1>4, <1>5, CalmTypes DEF CalmStore
  <2>2. e.type = "delivery_generation_update" /\ e.generation = g /\ e.dispatcher = g
    BY <1>5
  <2>3. /\ worker'.state = "ready" /\ worker'.last = worker.last
        /\ stored'.authority.generation <= g
        /\ op'.startDeliveryAuthority # None
        /\ g <= op'.startDeliveryAuthority.deliveryGeneration + 1
    BY <1>4, <1>5, <1>6, <1>8, <2>1
  <2> HIDE DEF e
  <2> QED
    BY <1>5, <1>6, <1>11, <2>1, <2>2, <2>3 DEF Fits
<1>14. NothingBegun'
  BY <1>2, <1>3, <1>8, <1>9 DEF NothingBegun, HostHandover, HandedOver
<1>15. PlaceHolds'
  <2>1. AtAwaitGeneration'
    BY <1>2, <1>8, <1>9, <1>10
       DEF AtAwaitGeneration, AtAnnounce, Succeeding, HandoffPending, HasHandoff, LastHandoff
  <2> QED
    BY <1>1, <1>2, <1>9, <2>1 DEF PlaceHolds
<1>16. CalmHost'
  <2>1. host.state = "awaiting_begin"
    BY <1>2, <1>3, <1>6 DEF HostTurn, HostHandover, HandedOver, Preceding
  <2>2. HostTurn'
    BY <1>2, <1>3, <1>6, <1>8, <1>9, <1>10, <2>1
       DEF HostTurn, HostKeeps, Preceding, HostHandover, HandedOver
  <2>3. HostHandover'
    BY <1>2, <1>3, <1>6, <1>8, <1>9, <1>10 DEF HostHandover, HostKeeps, HandedOver, Answered
  <2>4. HostBegin'
    BY <1>2, <1>3, <1>6, <1>8, <1>9, <1>10 DEF HostBegin, HostKeeps, Preceding, Answered
  <2>5. HostResult'
    BY <1>2, <1>3, <1>6, <1>8, <1>9, <1>10 DEF HostResult, HostKeeps
  <2> QED
    BY <1>10, <2>1, <2>2, <2>3, <2>4, <2>5 DEF CalmHost, HostKeeps
<1>17. f.event.type # "begin"
  BY <1>11
<1> HIDE DEF e
<1> QED
  BY <1>2, <1>6, <1>8, <1>10, <1>12, <1>13, <1>14, <1>15, <1>16, <1>17, WritesCalmly
     DEF Places, Outside, HostKeeps

LEMMA DispatchBeginCalmly ==
  ASSUME SessionIInv, SessionIInv', Calm, DispatchBegin
  PROVE  Calm'
<1> DEFINE i == run.instruction
           e == About("begin", i)
<1>0. PICK f : f = Frame(host, e)
  OBVIOUS
<1>1. CalmRecord /\ CalmStore /\ PlaceHolds /\ NothingBegun
  BY CalmParts
<1>2. run.at = "send" /\ AtSend /\ MayBegin /\ EntryIs(i) /\ Answered /\ host.seq = Preceding + 1
  BY <1>1 DEF DispatchBegin, Writes, PlaceHolds, AtSend, MayBegin
<1>3. /\ heard.open /\ socket.state = "up" /\ HostTurn /\ HostHandover /\ HostBegin /\ HostResult
      /\ Conversation
  BY <1>2, SessionIsOpen
<1>4. i \in StartInstruction /\ i # None
  BY <1>2, InstructionThere
<1>5. stored.acceptance = None
  BY <1>1, <1>2, <1>3 DEF NothingBegun, MayBegin
<1>6. /\ worker.state = "ready" /\ host.seq = worker.last + 1 /\ host.last = host.seq + 1
      /\ ~heard.completed
  BY <1>2, <1>5, AnsweredWorkerWaits, CalmTypes DEF Preceding, Outside
<1>7. CanBegin(host, i)
  BY <1>2, <1>3, <1>6, CalmTypes DEF CanBegin, MayBegin, HostTurn, Preceding
<1>8. /\ host' = Begin(host, i) /\ Proceeds("dispatch")
      /\ socket' = [socket EXCEPT !.toWorker = Append(@, f)]
      /\ UNCHANGED <<op, heard, worker, bridge, reception, stored, process>>
  BY <1>0, <1>3, <1>7 DEF DispatchBegin, Writes, rest, workerSide
<1>9. /\ run'.at = "dispatch" /\ run'.cancel = run.cancel
      /\ run'.recovering = run.recovering /\ run'.instruction = i
  BY <1>8, Proceeding DEF Places
<1>10. /\ host'.seq = host.seq + 1 /\ host'.instruction = i /\ host'.state = "receiving_results"
       /\ HostKeeps(host, host', {"seq", "instruction", "state", "dispatcher"})
  BY <1>8, WriteFields DEF SessionIInv, SessionTypeOK
<1>11. f.seq = host.seq /\ f.event = e /\ e.type = "begin" /\ e.instruction = i
  BY <1>0 DEF Frame, About
<1>12. f.event = HostFrame'
  BY <1>2, <1>9, <1>10, <1>11, CalmTypes DEF HostFrame, Preceding
<1>13. Fits(f)'
  <2>1. i = InstructionOf(stored.authority.generation)
    <3>1. CASE run.recovering
      <4>1. worker.last > 0
        BY <1>2, <1>6, <3>1, CalmTypes DEF Preceding
      <4>2. stored.authority.generation = i.deliveryGeneration
        BY <1>3, <3>1, <4>1 DEF Conversation
      <4> QED
        BY <1>1, <1>2, <1>4, <4>2 DEF CalmRecord, EntryIs
    <3>2. CASE ~run.recovering
      BY <1>1, <1>2, <3>2 DEF CalmStore, PlaceHolds
    <3> QED
      BY <3>1, <3>2
  <2>2. /\ worker'.state = "ready" /\ worker'.last = worker.last
        /\ stored'.acceptance = None /\ i = InstructionOf(stored'.authority.generation)
    BY <1>5, <1>6, <1>8, <2>1
  <2>3. socket'.state = "up"
    BY <1>3, <1>8 DEF SessionIInv, SessionTypeOK, Sockets
  <2> HIDE DEF e
  <2> QED
    BY <1>6, <1>11, <2>2, <2>3 DEF Fits
<1>14. NothingBegun'
  BY <1>2, <1>9, <1>10, CalmTypes DEF NothingBegun, Preceding
<1>15. PlaceHolds'
  <2>1. AtDispatch'
    BY <1>2, <1>8, <1>9, <1>10, CalmTypes DEF AtDispatch, AtSend, EntryIs, Preceding
  <2> QED
    BY <1>1, <1>2, <1>9, <2>1 DEF PlaceHolds
<1>16. CalmHost'
  <2>1. HostTurn'
    BY <1>2, <1>3, <1>6, <1>8, <1>9, <1>10, CalmTypes DEF HostTurn, HostKeeps, Preceding
  <2>2. HostHandover'
    BY <1>2, <1>3, <1>6, <1>8, <1>9, <1>10 DEF HostHandover, HostKeeps, HandedOver, Answered, Preceding
  <2>3. HostBegin'
    BY <1>2, <1>3, <1>6, <1>8, <1>9, <1>10, CalmTypes DEF HostBegin, HostKeeps, Preceding, Answered
  <2>4. HostResult'
    BY <1>2, <1>3, <1>6, <1>8, <1>9, <1>10, CalmTypes DEF HostResult, HostKeeps
  <2> QED
    BY <1>10, <2>1, <2>2, <2>3, <2>4 DEF CalmHost
<1>17. Recorded(f.event.instruction)
  BY <1>2, <1>11 DEF Recorded, EntryIs
<1> HIDE DEF e
<1> QED
  BY <1>2, <1>6, <1>8, <1>10, <1>12, <1>13, <1>14, <1>15, <1>16, <1>17, WritesCalmly
     DEF Places, Outside, HostKeeps

LEMMA SendStartAcceptanceObservationCalmly ==
  ASSUME SessionIInv, SessionIInv', Calm, SendStartAcceptanceObservation
  PROVE  Calm'
<1> DEFINE i == run.instruction
           e == About("begin_acceptance_observed", i)
<1>0. PICK f : f = Frame(host, e)
  OBVIOUS
<1>1. CalmRecord /\ CalmStore /\ PlaceHolds
  BY CalmParts
<1>2. run.at = "observe" /\ AtObserve /\ Answered /\ host.seq = Preceding + 2 /\ AcceptanceIs(i)
  BY <1>1 DEF SendStartAcceptanceObservation, Writes, PlaceHolds, AtObserve
<1>3. /\ heard.open /\ socket.state = "up" /\ HostTurn /\ HostHandover /\ HostBegin /\ HostResult
      /\ Conversation
  BY <1>2, SessionIsOpen
<1>4. i \in StartInstruction /\ i # None
  BY <1>2, InstructionThere
<1>5. /\ worker.state = "running" /\ host.seq = worker.last + 1 /\ host.last = host.seq + 1
      /\ ~heard.completed
  BY <1>2, AnsweredWorkerWaits, CalmTypes DEF Preceding, Outside
<1>6. /\ host.accepted = i /\ host.observations = 1 /\ host.acknowledgements = 0
  BY <1>2, <1>3, CalmTypes DEF HostBegin, Preceding
<1>7. CanObserveAcceptance(host, i)
  BY <1>4, <1>6 DEF CanObserveAcceptance
<1>8. /\ host' = ObserveAcceptance(host) /\ Proceeds("awaitAcknowledgement")
      /\ socket' = [socket EXCEPT !.toWorker = Append(@, f)]
      /\ UNCHANGED <<op, heard, worker, bridge, reception, stored, process>>
  BY <1>0, <1>3, <1>7 DEF SendStartAcceptanceObservation, Writes, rest, workerSide
<1>9. /\ run'.at = "awaitAcknowledgement" /\ run'.cancel = run.cancel
      /\ run'.recovering = run.recovering /\ run'.instruction = i
  BY <1>8, Proceeding DEF Places
<1>10. /\ host'.seq = host.seq + 1 /\ host'.observations = 0 /\ host'.acknowledgements = 1
       /\ HostKeeps(host, host', {"seq", "observations", "acknowledgements"})
  BY <1>6, <1>8, WriteFields DEF SessionIInv, SessionTypeOK
<1>11. f.seq = host.seq /\ f.event = e /\ e.type = "begin_acceptance_observed" /\ e.instruction = i
  BY <1>0 DEF Frame, About
<1>12. f.event = HostFrame'
  BY <1>2, <1>9, <1>10, <1>11, CalmTypes DEF HostFrame, Preceding
<1>13. Fits(f)'
  <2>1. worker.accepted = i
    <3>1. worker.accepted # None
      BY <1>5, CalmParts DEF CalmWorker
    <3>2. Faithful(worker.accepted) /\ Faithful(host.accepted)
      BY DEF SessionIInv, WorkerFaithful, HostFaithful
    <3> QED
      BY <1>4, <1>6, <3>1, <3>2 DEF Faithful
  <2>2. worker'.accepted = i /\ worker'.last = worker.last
    BY <1>8, <2>1
  <2> HIDE DEF e
  <2> QED
    BY <1>5, <1>11, <2>2 DEF Fits
<1>14. NothingBegun'
  BY <1>2, <1>9, <1>10, CalmTypes DEF NothingBegun, Preceding
<1>15. PlaceHolds'
  <2>1. AtAwaitAcknowledgement'
    BY <1>2, <1>8, <1>9, <1>10, CalmTypes DEF AtAwaitAcknowledgement, AcceptanceIs, Preceding
  <2> QED
    BY <1>1, <1>2, <1>9, <2>1 DEF PlaceHolds
<1>16. CalmHost'
  <2>1. HostTurn'
    BY <1>2, <1>3, <1>5, <1>8, <1>9, <1>10, CalmTypes DEF HostTurn, HostKeeps, Preceding
  <2>2. HostHandover'
    BY <1>2, <1>3, <1>5, <1>8, <1>9, <1>10, CalmTypes
       DEF HostHandover, HostKeeps, HandedOver, Answered, Preceding
  <2>3. HostBegin'
    BY <1>2, <1>3, <1>5, <1>8, <1>9, <1>10, CalmTypes DEF HostBegin, HostKeeps, Preceding, Answered
  <2>4. HostResult'
    BY <1>2, <1>3, <1>5, <1>8, <1>9, <1>10, CalmTypes DEF HostResult, HostKeeps
  <2>5. host'.state # "failed"
    BY <1>10, CalmParts DEF CalmHost, HostKeeps
  <2> QED
    BY <2>1, <2>2, <2>3, <2>4, <2>5 DEF CalmHost
<1>17. f.event.type # "begin"
  BY <1>11
<1> HIDE DEF e
<1> QED
  BY <1>2, <1>5, <1>8, <1>10, <1>12, <1>13, <1>14, <1>15, <1>16, <1>17, WritesCalmly
     DEF Places, Outside, HostKeeps

LEMMA StartAcceptanceUnknownCalmly ==
  ASSUME Calm, StartAcceptanceUnknown
  PROVE  FALSE
  BY CalmParts DEF StartAcceptanceUnknown, Hook, PlaceHolds

LEMMA ConfirmSuccessfulExitCalmly ==
  ASSUME SessionIInv, SessionIInv', Calm, ConfirmSuccessfulExit
  PROVE  Calm'
<1>1. RunEnds /\ UNCHANGED <<op, host, worker, bridge, reception, stored>>
  BY DEF ConfirmSuccessfulExit, workerSide
<1> QED
  BY <1>1, RunEndsCalmly

LEMMA HostSeesEndCalmly ==
  ASSUME SessionIInv, SessionIInv', Calm, HostSeesEnd
  PROVE  Calm'
<1>1. CalmLeaving /\ CalmSession /\ CalmHost
  BY CalmParts
<1>2. /\ heard.open /\ socket.state = "worker" /\ heard' = HeardEnd(heard, "lost")
      /\ socket' = NoSocket
      /\ UNCHANGED <<op, run, host, worker, bridge, reception, stored, process>>
  BY DEF HostSeesEnd, workerSide
<1>3. heard.connected
  BY <1>2 DEF SessionIInv, ConnectionIsOpen
<1>4. run.at = "exit"
  BY <1>1, <1>2, <1>3 DEF CalmLeaving, CalmSession
<1>5. ~heard'.open
  <2>1. heard \in Hearings
    BY DEF SessionIInv, SessionTypeOK
  <2> QED
    BY <1>2, <2>1, HeardEndTyped
<1>6. socket' = HostCloses
  BY <1>2 DEF HostCloses
<1>7. run.cancel = "no" /\ host.state # "failed"
  BY <1>1, <1>4 DEF CalmSession, CalmHost
<1> QED
  BY <1>2, <1>4, <1>5, <1>6, <1>7, SessionClosesCalmly

LEMMA StopProcessCalmly ==
  ASSUME SessionIInv, SessionIInv', Calm, StopProcess
  PROVE  Calm'
<1>1. /\ run' = [run EXCEPT !.at = "ended", !.cancel = "done"]
      /\ heard' = [heard EXCEPT !.open = FALSE]
      /\ socket' \in {HostCloses, NoSocket}
      /\ UNCHANGED <<op, host, worker, bridge, reception, stored>>
  BY DEF StopProcess, workerSide
<1>2. run'.at = "ended"
  BY <1>1 DEF SessionIInv, SessionTypeOK, Runs
<1>3. ~heard'.open
  BY <1>1, HeardClosed DEF SessionIInv, SessionTypeOK
<1>4. host'.state # "failed"
  BY <1>1, CalmParts DEF CalmHost
<1> QED
  BY <1>1, <1>2, <1>3, <1>4, SessionClosesCalmly

LEMMA RuntimeDiesCalmly ==
  ASSUME SessionIInv, SessionIInv', Calm, RuntimeDies
  PROVE  Calm'
<1>1. /\ run.at # "ended" /\ run'.at = "down" /\ run'.cancel = "no"
      /\ host' = FreshHost /\ heard' = NoSession /\ socket' = HostCloses
      /\ UNCHANGED <<op, worker, bridge, reception, stored, process>>
  BY DEF RuntimeDies, workerSide
<1>2. host'.state # "failed" /\ ~heard'.open
  BY <1>1, NoSessionFields DEF FreshHost
<1> QED
  BY <1>1, <1>2, SessionClosesCalmly

\* The host's peer of a session that begins.
LEMMA FreshSessionFields ==
  ASSUME NEW i
  PROVE  LET h == RestoredHost(i) IN
         /\ h.state = "awaiting_hello" /\ h.last = 0 /\ h.seq = 1
         /\ h.instruction = i /\ h.confirmed = i.deliveryGeneration
         /\ h.accepted = None /\ h.observations = 0 /\ h.acknowledgements = 0 /\ h.pending = 0
         /\ h.answer = None /\ h.current = None /\ h.received = None
         /\ h.acknowledgementPending = FALSE /\ h.acknowledged = None
  BY SMTT(30) DEF RestoredHost, FreshHost

LEMMA RuntimeRecoversCalmly ==
  ASSUME SessionIInv, SessionIInv', Calm, RuntimeRecovers
  PROVE  Calm'
<1>1. /\ CalmRecord /\ BegunIsRecorded /\ NothingBegun /\ CalmStore /\ CalmWorker /\ CalmFrames
      /\ CalmReception /\ CalmLeaving /\ CalmSession /\ PlaceHolds /\ CalmHost
  BY CalmParts
<1>2. /\ run.at = "down" /\ ~heard.open /\ run.cancel = "no"
      /\ socket.state \notin {"up", "worker"}
  BY DEF RuntimeRecovers, SessionIInv, ConnectionIsOpen
<1>3. UNCHANGED <<op, worker, bridge, reception, stored, socket>>
  BY DEF RuntimeRecovers, workerSide
<1>4. CASE /\ op.startDeliveryAuthority # None
           /\ run' = [run EXCEPT !.at = "identify", !.recovering = TRUE]
           /\ host' = RestoredHost(Previous(op))
           /\ heard' = FreshHeard
           /\ UNCHANGED process
  <2>1. run'.at = "identify" /\ run'.recovering /\ run'.cancel = "no"
    BY <1>2, <1>4 DEF SessionIInv, SessionTypeOK, Runs
  <2>2. Previous(op) = op.startDeliveryAuthority
    BY <1>1 DEF Previous, CalmRecord
  <2>3. /\ host'.state = "awaiting_hello" /\ host'.last = 0 /\ host'.seq = 1
        /\ host'.instruction = op.startDeliveryAuthority
        /\ host'.confirmed = op.startDeliveryAuthority.deliveryGeneration
        /\ host'.accepted = None /\ host'.observations = 0 /\ host'.acknowledgements = 0
        /\ host'.pending = 0 /\ host'.current = None /\ host'.received = None
        /\ host'.acknowledgementPending = FALSE /\ host'.acknowledged = None
    BY <1>4, <2>2, FreshSessionFields
  <2>4. /\ heard'.open /\ ~heard'.connected /\ ~heard'.completed /\ heard'.started = "pending"
        /\ heard'.generation = "pending" /\ heard'.acceptance = "pending"
        /\ heard'.acknowledgement = "pending" /\ heard'.reception = "pending"
    BY <1>4 DEF FreshHeard
  <2>5. CalmRecord'
    BY <1>1, <1>3 DEF CalmRecord, HasHandoff, LastHandoff, HandoffPending
  <2>6. BegunIsRecorded'
    BY <1>1, <1>2, <1>3 DEF BegunIsRecorded, Recorded, Sent, Begins, Carried
  <2>7. NothingBegun'
    BY <2>1, <2>3 DEF NothingBegun, Preceding
  <2>8. CalmStore' /\ CalmWorker'
    BY <1>1, <1>3, <2>1 DEF CalmStore, CalmWorker
  <2>9. CalmFrames'
    <3>1. \A f : Fits(f) => Fits(f)'
      BY <1>3 DEF Fits
    <3> QED
      BY <1>1, <1>3, <3>1 DEF CalmFrames, Carried
  <2>10. CalmReception'
    BY <1>1, <1>3 DEF CalmReception, ReadBegin, ReadObservation, ReadUpdate, ReadAcknowledgement
  <2>11. CalmLeaving'
    BY <1>1, <1>2, <1>3, <1>4, <2>1, <2>4 DEF CalmLeaving
  <2>12. CalmSession'
    BY <2>1, <2>3, <2>4 DEF CalmSession
  <2>13. PlaceHolds'
    BY <2>1, <2>3 DEF PlaceHolds, AtIdentify
  <2>14. CalmHost'
    <3>1. HostTurn'
      BY <2>1, <2>3, <2>4 DEF HostTurn, Preceding
    <3>2. HostHandover'
      BY <1>3, <2>1, <2>3, <2>4 DEF HostHandover, HandedOver
    <3>3. HostBegin'
      BY <2>1, <2>3, <2>4 DEF HostBegin, Preceding
    <3>4. HostResult'
      BY <2>1, <2>3, <2>4 DEF HostResult
    <3> QED
      BY <2>3, <3>1, <3>2, <3>3, <3>4 DEF CalmHost
  <2>15. socket'.state # "up"
    BY <1>2, <1>3
  <2> QED
    BY <2>5, <2>6, <2>7, <2>8, <2>9, <2>10, <2>11, <2>12, <2>13, <2>14, <2>15 DEF Calm
<1>5. CASE run' = [run EXCEPT !.at = "ended"] /\ UNCHANGED <<host, heard>>
  <2>1. run'.at = "ended"
    BY <1>5 DEF SessionIInv, SessionTypeOK, Runs
  <2>2. socket' = HostCloses
    BY <1>2, <1>3 DEF HostCloses
  <2> QED
    BY <1>1, <1>2, <1>3, <1>5, <2>1, <2>2, SessionClosesCalmly DEF CalmHost
<1> QED
  BY <1>4, <1>5 DEF RuntimeRecovers

\* Only the run changes, and it stays where it is.
LEMMA RequestCancellationOfWorkerCalmly ==
  ASSUME SessionIInv, SessionIInv', Calm, RequestCancellationOfWorker
  PROVE  Calm'
<1>1. /\ CalmRecord /\ BegunIsRecorded /\ NothingBegun /\ CalmStore /\ CalmWorker /\ CalmFrames
      /\ CalmReception /\ CalmLeaving /\ CalmSession /\ PlaceHolds /\ CalmHost
      /\ socket.state = "up" => Conversation
  BY CalmParts
<1>2. /\ run.at \in {"stop", "ended"} /\ run' = [run EXCEPT !.cancel = "asked"]
      /\ UNCHANGED <<op, heard, worker, bridge, reception, stored, process>>
  BY <1>1 DEF RequestCancellationOfWorker, CalmSession, rest, workerSide
<1>3. UNCHANGED <<host, socket>>
  <2>1. heard.open => run.at = "stop" /\ ~heard.connected /\ host.last = 0
    BY <1>1, <1>2 DEF CalmSession
  <2>2. heard.open => host.state = "awaiting_hello"
    BY <1>1, <2>1 DEF CalmHost, HostTurn
  <2> QED
    BY <2>2 DEF RequestCancellationOfWorker, CanRequestCancel
<1>4. /\ run'.at = run.at /\ run'.recovering = run.recovering
      /\ run'.instruction = run.instruction
  BY <1>2 DEF SessionIInv, SessionTypeOK, Runs
<1>5. CalmRecord' /\ BegunIsRecorded' /\ NothingBegun'
  BY <1>1, <1>2, <1>3, <1>4
     DEF CalmRecord, HasHandoff, LastHandoff, HandoffPending, BegunIsRecorded, Recorded, Sent,
         Begins, Carried, NothingBegun, Preceding
<1>6. CalmStore' /\ CalmWorker' /\ CalmLeaving' /\ CalmSession'
  BY <1>1, <1>2, <1>3, <1>4 DEF CalmStore, CalmWorker, CalmLeaving, CalmSession
<1>7. CalmFrames'
  <2>1. \A f : Fits(f) => Fits(f)'
    BY <1>2, <1>3 DEF Fits
  <2> QED
    BY <1>1, <1>2, <1>3, <2>1 DEF CalmFrames, Carried
<1>8. CalmReception'
  BY <1>1, <1>2, <1>3 DEF CalmReception, ReadBegin, ReadObservation, ReadUpdate, ReadAcknowledgement
<1>9. PlaceHolds'
  BY <1>1, <1>2, <1>3, <1>4 DEF PlaceHolds
<1>10. CalmHost'
  <2>1. HostTurn => HostTurn'
    BY <1>2, <1>3, <1>4 DEF HostTurn, Preceding, Working
  <2>2. HostHandover => HostHandover'
    BY <1>2, <1>3, <1>4 DEF HostHandover, HandedOver, Answered
  <2>3. HostBegin => HostBegin'
    BY <1>2, <1>3, <1>4 DEF HostBegin, Preceding, Answered
  <2>4. HostResult => HostResult'
    BY <1>2, <1>3 DEF HostResult
  <2> QED
    BY <1>1, <1>2, <1>3, <2>1, <2>2, <2>3, <2>4 DEF CalmHost
<1>11. socket'.state # "up"
  <2>1. socket.state # "up"
    BY <1>1, <1>2 DEF CalmSession, SessionIInv, ConnectionIsOpen
  <2> QED
    BY <1>3, <2>1
<1> QED
  BY <1>5, <1>6, <1>7, <1>8, <1>9, <1>10, <1>11 DEF Calm

LEMMA HandoffFields ==
  ASSUME NEW h \in HostProtocolPeers, NEW d
  PROVE  LET n == CompleteHandoff(h, d) IN
         /\ n.dispatcher = d
         /\ HostKeeps(h, n, {"dispatcher", "instruction", "accepted", "state"})
         /\ IF h.answer = "not_accepted"
              THEN n.instruction = None /\ n.accepted = None /\ n.state = "awaiting_begin"
              ELSE n.instruction = h.instruction /\ n.accepted = h.accepted /\ n.state = h.state
<1> DEFINE m == [h EXCEPT !.dispatcher = d]
           a == [m EXCEPT !.instruction = None]
           b == [a EXCEPT !.accepted = None]
           c == [b EXCEPT !.state = "awaiting_begin"]
<1>1. CompleteHandoff(h, d) = IF h.answer = "not_accepted" THEN c ELSE m
  BY DEF CompleteHandoff, HostProtocolPeers
<1>2. m.dispatcher = d /\ HostKeeps(h, m, {"dispatcher"})
  BY SMTT(30) DEF HostProtocolPeers, HostKeeps
<1>3. a.instruction = None /\ HostKeeps(m, a, {"instruction"})
  BY SMTT(30) DEF HostProtocolPeers, HostKeeps
<1>4. b.accepted = None /\ HostKeeps(a, b, {"accepted"})
  BY SMTT(30) DEF HostProtocolPeers, HostKeeps
<1>5. c.state = "awaiting_begin" /\ HostKeeps(b, c, {"state"})
  BY SMTT(30) DEF HostProtocolPeers, HostKeeps
<1> HIDE DEF m, a, b, c
<1> QED
  BY <1>1, <1>2, <1>3, <1>4, <1>5 DEF HostKeeps

LEMMA CompleteDispatcherHandoffCalmly ==
  ASSUME SessionIInv, SessionIInv', Calm, CompleteDispatcherHandoff
  PROVE  Calm'
<1> DEFINE i == run.instruction
<1>1. /\ CalmRecord /\ BegunIsRecorded /\ NothingBegun /\ CalmStore /\ CalmWorker /\ CalmFrames
      /\ CalmReception /\ CalmLeaving /\ CalmSession /\ PlaceHolds
  BY CalmParts
<1>2. /\ run.at = "awaitGeneration" /\ AtAwaitGeneration /\ Succeeding /\ host.seq = 2
      /\ run.recovering /\ heard.generation # "pending"
  BY <1>1 DEF CompleteDispatcherHandoff, PlaceHolds, AtAwaitGeneration, Succeeding
<1>3. /\ heard.open /\ socket.state = "up" /\ HostTurn /\ HostHandover /\ HostBegin /\ HostResult
      /\ Conversation /\ run.cancel = "no" /\ heard.connected
  BY <1>2, SessionIsOpen
<1>4. HandedOver /\ Answered
  BY <1>2, <1>3 DEF HostHandover, HandedOver
<1>5. i \in StartInstruction /\ i # None /\ i.deliveryGeneration \in Nat \ {0}
  BY <1>2, InstructionThere
<1>6. i.deliveryGeneration > 1
  <2>1. op.startDeliveryAuthority # None
    BY <1>2 DEF SessionIInv, GenerationsBounded
  <2>2. op.startDeliveryAuthority.deliveryGeneration \in Nat \ {0}
    BY <2>1, CalmTypes, InstructionIsSome
  <2> QED
    BY <1>2, <2>2 DEF Succeeding, InstructionOf
<1>7. heard.generation \in AcceptanceStates /\ CanCompleteHandoff(host)
  BY <1>2, <1>3, <1>4, <1>6 DEF HostHandover, CanCompleteHandoff, AcceptanceStates
<1>8. /\ host' = CompleteHandoff(host, i.dispatcherId) /\ Proceeds("confirm")
      /\ UNCHANGED <<op, heard, socket, worker, bridge, reception, stored, process>>
  BY <1>7 DEF CompleteDispatcherHandoff, rest, workerSide
<1>9. /\ run'.at = "confirm" /\ run'.cancel = run.cancel
      /\ run'.recovering = run.recovering /\ run'.instruction = run.instruction
  BY <1>8, Proceeding DEF Places
<1>10. /\ host'.dispatcher = i.dispatcherId
       /\ HostKeeps(host, host', {"dispatcher", "instruction", "accepted", "state"})
       /\ IF host.answer = "not_accepted"
            THEN host'.instruction = None /\ host'.accepted = None /\ host'.state = "awaiting_begin"
            ELSE /\ host'.instruction = host.instruction /\ host'.accepted = host.accepted
                 /\ host'.state = host.state
  BY <1>8, HandoffFields DEF SessionIInv, SessionTypeOK
<1>11. /\ host'.seq = host.seq /\ host'.last = host.last
       /\ host'.acknowledged = host.acknowledged
  BY <1>10 DEF HostKeeps
<1>12. CalmRecord' /\ BegunIsRecorded' /\ NothingBegun'
  BY <1>1, <1>2, <1>8, <1>9, <1>11
     DEF CalmRecord, HasHandoff, LastHandoff, HandoffPending, BegunIsRecorded, Recorded, Sent,
         Begins, Carried, NothingBegun, Preceding
<1>13. CalmStore' /\ CalmWorker' /\ CalmLeaving' /\ CalmSession'
  BY <1>1, <1>2, <1>3, <1>8, <1>9, <1>11 DEF CalmStore, CalmWorker, CalmLeaving, CalmSession
<1>14. CalmFrames'
  <2>1. \A f : Fits(f) => Fits(f)'
    BY <1>8 DEF Fits
  <2> QED
    BY <1>1, <1>8, <2>1 DEF CalmFrames, Carried
<1>15. CalmReception'
  BY <1>1, <1>8 DEF CalmReception, ReadBegin, ReadObservation, ReadUpdate, ReadAcknowledgement
<1>16. PlaceHolds'
  <2>1. heard.generation = "not_accepted" => host.answer = "not_accepted"
    BY <1>3, <1>4 DEF HostHandover
  <2>2. AtConfirm'
    BY <1>2, <1>4, <1>8, <1>9, <1>10, <1>11, <2>1
       DEF AtConfirm, AtAwaitGeneration, MayBegin, Succeeding, Answered, Preceding,
           HandoffPending, HasHandoff, LastHandoff
  <2> QED
    BY <1>2, <1>9, <2>2 DEF PlaceHolds
<1>17. CalmHost'
  <2>1. host.answer = heard.generation /\ heard.generation \in {"accepted", "not_accepted"}
    BY <1>3, <1>4 DEF HostHandover
  <2>2. host.answer = "not_accepted" => ~heard.completed /\ host.last \in {3}
    <3>1. ASSUME host.answer = "not_accepted" PROVE ~(host.last > host.seq + 1)
      BY <1>2, <1>3, <2>1, <3>1 DEF HostTurn, Working, Preceding
    <3> QED
      BY <1>2, <1>3, <1>4, <3>1, CalmTypes DEF HostResult, Answered
  <2>3. HostTurn'
    BY <1>2, <1>3, <1>8, <1>9, <1>10, <1>11, <2>1, <2>2 DEF HostTurn, Preceding, Working
  <2>4. HostHandover'
    BY <1>2, <1>3, <1>4, <1>8, <1>9, <1>10 DEF HostHandover, HostKeeps, HandedOver, Answered
  <2>5. HostBegin'
    BY <1>2, <1>3, <1>8, <1>9, <1>10 DEF HostBegin, HostKeeps, Preceding, Answered
  <2>6. HostResult'
    BY <1>3, <1>8, <1>10 DEF HostResult, HostKeeps
  <2>7. host'.state # "failed"
    BY <1>10, CalmParts DEF CalmHost
  <2> QED
    BY <2>3, <2>4, <2>5, <2>6, <2>7 DEF CalmHost
<1>18. Conversation'
  <2>1. WorkerTurn => WorkerTurn'
    BY <1>8, <1>9, <1>11 DEF WorkerTurn, Preceding, Busy
  <2>2. \A f : Expected(f) => Expected(f)'
    BY <1>8, <1>9, <1>11 DEF Expected, IsAnswer, Preceding
  <2>3. HostFrame' = HostFrame
    BY <1>9, <1>11 DEF HostFrame, Preceding
  <2> QED
    BY <1>3, <1>8, <1>9, <1>11, <2>1, <2>2, <2>3 DEF Conversation, Preceding, Carried
<1> QED
  BY <1>12, <1>13, <1>14, <1>15, <1>16, <1>17, <1>18 DEF Calm

LEMMA AcknowledgementFields ==
  ASSUME NEW h \in HostProtocolPeers, NEW p
  PROVE  LET n == AcknowledgeResult(h, p) IN
         /\ HostKeeps(h, n, {"result"})
         /\ n.current = h.current /\ n.received = h.received
         /\ n.acknowledgementPending = FALSE /\ n.acknowledged = p
  BY SMTT(30) DEF HostProtocolPeers, HostKeeps, AcknowledgeResult

LEMMA SendAcknowledgementCalmly ==
  ASSUME SessionIInv, SessionIInv', Calm, SendAcknowledgement
  PROVE  Calm'
<1>0. PICK f : f = Frame(host, [type |-> "ack", proof |-> TheResult])
  OBVIOUS
<1>1. /\ CalmRecord /\ BegunIsRecorded /\ NothingBegun /\ CalmStore /\ CalmWorker /\ CalmFrames
      /\ CalmReception /\ CalmLeaving /\ CalmSession /\ PlaceHolds
  BY CalmParts
<1>2. run.at = "acknowledge" /\ AtOffer /\ Working /\ Answered /\ heard.reception = "result"
  BY <1>1 DEF SendAcknowledgement, PlaceHolds, AtOffer, AtWork
<1>3. /\ heard.open /\ socket.state = "up" /\ HostTurn /\ HostHandover /\ HostBegin /\ HostResult
      /\ Conversation /\ run.cancel = "no" /\ heard.connected /\ host.acknowledged = None
  BY <1>2, SessionIsOpen
<1>4. /\ host.seq \in Nat /\ host.last \in Nat /\ worker.seq \in Nat /\ worker.last \in Nat
  BY CalmTypes
<1>5. heard.completed /\ host.last = host.seq + 5 /\ host.state = "done"
      /\ host.acknowledgementPending
  BY <1>2, <1>3, <1>4 DEF HostResult, HostTurn
<1>6. WorkerTurn
  BY <1>3 DEF Conversation
<1>7. Len(socket.toHost) \in Nat /\ (Len(socket.toHost) = 0 => socket.toHost = <<>>)
  <2>1. socket.toHost \in Seq(ToHost)
    BY SocketFields DEF SessionIInv, SessionTypeOK
  <2> QED
    BY <2>1
<1>8. /\ worker.state = "done" /\ Len(socket.toHost) = 0 /\ worker.seq = host.seq + 6
      /\ worker.acknowledgementPending /\ ~Busy
  <2>1. worker.state # "new"
    BY <1>2, <1>4, <1>5, <1>6 DEF WorkerTurn, Answered, FreshWorker
  <2>2. worker.seq = host.seq + 6 + Len(socket.toHost)
    BY <1>4, <1>5, <1>6, <1>7 DEF WorkerTurn
  <2>3. worker.state \notin {"ready", "running"}
    <3> DEFINE n == IF Busy THEN 1 ELSE 2
    <3>1. worker.state \in {"ready", "running"} => worker.seq = host.seq + n
      BY <1>6 DEF WorkerTurn
    <3>2. n \in {1, 2}
      OBVIOUS
    <3> HIDE DEF n
    <3> QED
      BY <1>4, <1>7, <2>2, <3>1, <3>2
  <2>4. worker.state = "done"
    BY <1>6, <2>1, <2>3 DEF WorkerTurn
  <2>5. worker.seq \in {host.seq + 3, host.seq + 6}
    BY <1>6, <2>4 DEF WorkerTurn
  <2>6. worker.seq = host.seq + 6 /\ Len(socket.toHost) = 0
    BY <1>4, <1>7, <2>2, <2>5
  <2> QED
    BY <1>3, <1>6, <2>4, <2>6 DEF WorkerTurn
<1>9. socket.toWorker = <<>> /\ reception = NoReception /\ ~reception.active
  BY <1>1, <1>8 DEF Busy, CalmReception
<1>10. CanAcknowledgeResult(host, TheResult)
  BY <1>5 DEF CanAcknowledgeResult
<1>11. /\ host' = AcknowledgeResult(host, TheResult) /\ Proceeds("exit")
       /\ socket' = [socket EXCEPT !.toWorker = Append(@, f)]
       /\ UNCHANGED <<op, heard, worker, bridge, reception, stored, process>>
  BY <1>0, <1>3, <1>10 DEF SendAcknowledgement, rest, workerSide
<1>12. /\ run'.at = "exit" /\ run'.cancel = run.cancel
       /\ run'.recovering = run.recovering /\ run'.instruction = run.instruction
  BY <1>11, Proceeding DEF Places
<1>13. /\ HostKeeps(host, host', {"result"})
       /\ host'.current = host.current /\ host'.received = host.received
       /\ host'.acknowledgementPending = FALSE /\ host'.acknowledged = TheResult
  BY <1>11, AcknowledgementFields DEF SessionIInv, SessionTypeOK
<1>14. host'.seq = host.seq /\ host'.last = host.last /\ TheResult # None
  BY <1>13, Chosen DEF HostKeeps
<1>15. /\ socket'.state = "up" /\ socket'.toHost = socket.toHost
       /\ Len(socket'.toWorker) = 1 /\ socket'.toWorker # <<>>
       /\ Carried(socket.toWorker)' = {f}
  <2>1. socket \in Sockets
    BY DEF SessionIInv, SessionTypeOK
  <2> QED
    BY <1>3, <1>9, <1>11, <2>1, OneFrame
<1>16. f.event.type = "ack"
  BY <1>0 DEF Frame
<1>17. CalmRecord' /\ NothingBegun'
  BY <1>1, <1>11, <1>12, <1>14
     DEF CalmRecord, HasHandoff, LastHandoff, HandoffPending, NothingBegun, Preceding
<1>18. BegunIsRecorded'
  <2>1. Begins = {} /\ Begins' = {}
    BY <1>9, <1>15, <1>16 DEF Begins, Carried
  <2> QED
    BY <1>1, <1>2, <1>11, <2>1 DEF BegunIsRecorded, Recorded, Sent
<1>19. CalmStore' /\ CalmWorker' /\ CalmLeaving' /\ CalmSession'
  BY <1>1, <1>2, <1>3, <1>11, <1>12, <1>14, <1>15 DEF CalmStore, CalmWorker, CalmLeaving, CalmSession
<1>20. CalmFrames'
  <2>1. Fits(f)'
    BY <1>8, <1>11, <1>16 DEF Fits
  <2> QED
    BY <1>15, <2>1 DEF CalmFrames
<1>21. CalmReception'
  BY <1>9, <1>11, <1>1 DEF CalmReception
<1>22. PlaceHolds'
  <2>1. AtExit'
    BY <1>2, <1>11, <1>12, <1>14 DEF AtExit, AtOffer, AtWork, Working, Answered, Preceding
  <2> QED
    BY <1>1, <1>2, <1>12, <2>1 DEF PlaceHolds
<1>23. CalmHost'
  <2>1. HostTurn'
    BY <1>3, <1>11, <1>12, <1>13 DEF HostTurn, HostKeeps, Preceding, Working
  <2>2. HostHandover'
    BY <1>3, <1>11, <1>12, <1>13 DEF HostHandover, HostKeeps, HandedOver, Answered
  <2>3. HostBegin'
    BY <1>3, <1>11, <1>12, <1>13 DEF HostBegin, HostKeeps, Preceding, Answered
  <2>4. HostResult'
    BY <1>3, <1>5, <1>11, <1>13, <1>14 DEF HostResult
  <2>5. host'.state # "failed"
    BY <1>5, <1>13 DEF HostKeeps
  <2> QED
    BY <2>1, <2>2, <2>3, <2>4, <2>5 DEF CalmHost
<1>24. Conversation'
  <2>1. WorkerTurn'
    BY <1>4, <1>6, <1>8, <1>11, <1>12, <1>13, <1>14, <1>15 DEF WorkerTurn, Preceding
  <2>2. reception.start = None /\ reception.observed = None /\ reception.update = None
    BY <1>9 DEF NoReception
  <2>3. \A n \in 1 .. Len(socket'.toHost) : FALSE
    BY <1>8, <1>15
  <2>4. run.recovering /\ worker.last > 0 =>
          stored.authority.generation = run.instruction.deliveryGeneration
    BY <1>3 DEF Conversation
  <2> QED
    BY <1>8, <1>11, <1>12, <1>15, <1>16, <2>1, <2>2, <2>3, <2>4 DEF Conversation
<1> QED
  BY <1>17, <1>18, <1>19, <1>20, <1>21, <1>22, <1>23, <1>24 DEF Calm

\* What an event leaves alone of what is heard.
HeardKeeps(s, n, changed) ==
  /\ n.open = s.open /\ n.connected = s.connected
  /\ "completed" \notin changed => n.completed = s.completed
  /\ "started" \notin changed => n.started = s.started
  /\ "generation" \notin changed => n.generation = s.generation /\ n.said = s.said
  /\ "acceptance" \notin changed => n.acceptance = s.acceptance
  /\ "acknowledgement" \notin changed => n.acknowledgement = s.acknowledgement
  /\ "reception" \notin changed => n.reception = s.reception

LEMMA HeardFields ==
  ASSUME NEW s \in Hearings, NEW e
  PROVE  LET n == HeardEvent(s, e) IN
         /\ e.type \in {"hello", "result_begin", "result_chunk", "result_commit"} => n = s
         /\ e.type = "started" =>
              HeardKeeps(s, n, {"started"}) /\ n.started = First(s.started, "identified")
         /\ e.type = "generation_updated" =>
              /\ HeardKeeps(s, n, {"generation"}) /\ n.said = e.instruction
              /\ n.generation = First(s.generation, e.acceptance)
         /\ e.type = "begin_accepted" =>
              HeardKeeps(s, n, {"acceptance"}) /\ n.acceptance = First(s.acceptance, "accepted")
         /\ e.type = "begin_ack" =>
              /\ HeardKeeps(s, n, {"acknowledgement"})
              /\ n.acknowledgement = First(s.acknowledgement, "acknowledged")
         /\ e.type = "failed" =>
              /\ HeardKeeps(s, n, {"completed", "reception"}) /\ n.completed
              /\ n.reception = First(s.reception, "agent_failed")
         /\ e.type = "done" =>
              /\ HeardKeeps(s, n, {"completed", "reception"}) /\ n.completed
              /\ n.reception = First(s.reception, "result")
<1> DEFINE n == HeardEvent(s, e)
<1>1. e.type \in {"hello", "result_begin", "result_chunk", "result_commit"} => n = s
  BY DEF HeardEvent
<1>2. ASSUME e.type = "started"
      PROVE  HeardKeeps(s, n, {"started"}) /\ n.started = First(s.started, "identified")
  <2>1. n = [s EXCEPT !.started = First(s.started, "identified")]
    BY <1>2 DEF HeardEvent, Hearings
  <2> QED
    BY <2>1, SMTT(30) DEF Hearings, HeardKeeps
<1>3. ASSUME e.type = "generation_updated"
      PROVE  /\ HeardKeeps(s, n, {"generation"}) /\ n.said = e.instruction
             /\ n.generation = First(s.generation, e.acceptance)
  <2>1. n = [[s EXCEPT !.generation = First(s.generation, e.acceptance)] EXCEPT !.said = e.instruction]
    BY <1>3 DEF HeardEvent, Hearings
  <2> QED
    BY <2>1, SMTT(30) DEF Hearings, HeardKeeps
<1>4. ASSUME e.type = "begin_accepted"
      PROVE  HeardKeeps(s, n, {"acceptance"}) /\ n.acceptance = First(s.acceptance, "accepted")
  <2>1. n = [s EXCEPT !.acceptance = First(s.acceptance, "accepted")]
    BY <1>4 DEF HeardEvent, Hearings
  <2> QED
    BY <2>1, SMTT(30) DEF Hearings, HeardKeeps
<1>5. ASSUME e.type = "begin_ack"
      PROVE  /\ HeardKeeps(s, n, {"acknowledgement"})
             /\ n.acknowledgement = First(s.acknowledgement, "acknowledged")
  <2>1. n = [s EXCEPT !.acknowledgement = First(s.acknowledgement, "acknowledged")]
    BY <1>5 DEF HeardEvent, Hearings
  <2> QED
    BY <2>1, SMTT(30) DEF Hearings, HeardKeeps
<1>6. ASSUME e.type = "failed"
      PROVE  /\ HeardKeeps(s, n, {"completed", "reception"}) /\ n.completed
             /\ n.reception = First(s.reception, "agent_failed")
  <2>1. n = [[s EXCEPT !.completed = TRUE] EXCEPT !.reception = First(s.reception, "agent_failed")]
    BY <1>6 DEF HeardEvent, Hearings
  <2> QED
    BY <2>1, SMTT(30) DEF Hearings, HeardKeeps
<1>7. ASSUME e.type = "done"
      PROVE  /\ HeardKeeps(s, n, {"completed", "reception"}) /\ n.completed
             /\ n.reception = First(s.reception, "result")
  <2>1. n = [[s EXCEPT !.completed = TRUE] EXCEPT !.reception = First(s.reception, "result")]
    BY <1>7 DEF HeardEvent, Hearings
  <2> QED
    BY <2>1, SMTT(30) DEF Hearings, HeardKeeps
<1> QED
  BY <1>1, <1>2, <1>3, <1>4, <1>5, <1>6, <1>7

LEMMA ReadHostFields ==
  ASSUME NEW h \in HostProtocolPeers, NEW f \in ToHost
  PROVE  LET e == f.event
             n == HostAfter(h, f)
         IN
         /\ n.last = f.seq
         /\ e.type = "hello" => n.state = "awaiting_started" /\ HostKeeps(h, n, {"last", "state"})
         /\ e.type = "started" => n.state = "awaiting_begin" /\ HostKeeps(h, n, {"last", "state"})
         /\ e.type \in {"failed", "done"} => n.state = "done" /\ HostKeeps(h, n, {"last", "state"})
         /\ e.type = "begin_accepted" =>
              /\ n.accepted = e.instruction /\ n.observations = h.observations + 1
              /\ HostKeeps(h, n, {"last", "accepted", "observations"})
         /\ e.type = "begin_ack" =>
              /\ n.acknowledgements = h.acknowledgements - 1
              /\ HostKeeps(h, n, {"last", "acknowledgements"})
<1> DEFINE e == f.event
           n == HostAfter(h, f)
           g == [h EXCEPT !.last = f.seq]
<1>1. g.last = f.seq /\ DOMAIN g = DOMAIN h /\ HostKeeps(h, g, {"last"})
  BY SMTT(30) DEF HostProtocolPeers, HostKeeps
<1>2. f.seq \in Nat /\ g \in HostProtocolPeers
  <2>1. f.seq \in Nat
    BY DEF ToHost
  <2> QED
    BY <2>1, SMTT(30) DEF HostProtocolPeers
<1>3. ASSUME NEW v, n = [g EXCEPT !.state = v]
      PROVE  n.state = v /\ HostKeeps(g, n, {"state"})
  <2> HIDE DEF n
  <2> QED
    BY <1>2, <1>3, SMTT(30) DEF HostProtocolPeers, HostKeeps
<1>4. LET m == [[g EXCEPT !.accepted = e.instruction] EXCEPT !.observations = g.observations + 1] IN
      /\ m.accepted = e.instruction /\ m.observations = g.observations + 1
      /\ HostKeeps(g, m, {"accepted", "observations"})
  BY <1>2, SMTT(30) DEF HostProtocolPeers, HostKeeps
<1>5. LET m == [g EXCEPT !.acknowledgements = g.acknowledgements - 1] IN
      /\ m.acknowledgements = g.acknowledgements - 1
      /\ HostKeeps(g, m, {"acknowledgements"})
  BY <1>2, SMTT(30) DEF HostProtocolPeers, HostKeeps
<1>6. /\ e.type = "hello" => n = [g EXCEPT !.state = "awaiting_started"]
      /\ e.type = "started" => n = [g EXCEPT !.state = "awaiting_begin"]
      /\ e.type \in {"failed", "done"} => n = [g EXCEPT !.state = "done"]
  BY DEF HostAfter
<1>7. e.type = "begin_accepted" =>
        n = [[g EXCEPT !.accepted = e.instruction] EXCEPT !.observations = g.observations + 1]
  BY <1>2, SMTT(30) DEF HostAfter, HostProtocolPeers
<1>8. e.type = "begin_ack" => n = [g EXCEPT !.acknowledgements = g.acknowledgements - 1]
  BY <1>2 DEF HostAfter, HostProtocolPeers
<1>9. n.last = f.seq
  BY <1>2, SMTT(30) DEF HostAfter, HostProtocolPeers
<1> HIDE DEF g, n, e
<1>10. e.type = "hello" => n.state = "awaiting_started" /\ HostKeeps(h, n, {"last", "state"})
  BY <1>1, <1>3, <1>6 DEF HostKeeps
<1>11. e.type = "started" => n.state = "awaiting_begin" /\ HostKeeps(h, n, {"last", "state"})
  BY <1>1, <1>3, <1>6 DEF HostKeeps
<1>12. e.type \in {"failed", "done"} => n.state = "done" /\ HostKeeps(h, n, {"last", "state"})
  BY <1>1, <1>3, <1>6 DEF HostKeeps
<1>13. e.type = "begin_accepted" =>
         /\ n.accepted = e.instruction /\ n.observations = h.observations + 1
         /\ HostKeeps(h, n, {"last", "accepted", "observations"})
  BY <1>1, <1>4, <1>7 DEF HostKeeps
<1>14. e.type = "begin_ack" =>
         /\ n.acknowledgements = h.acknowledgements - 1
         /\ HostKeeps(h, n, {"last", "acknowledgements"})
  BY <1>1, <1>5, <1>8 DEF HostKeeps
<1> QED
  BY <1>9, <1>10, <1>11, <1>12, <1>13, <1>14 DEF n, e

LEMMA ReadAnswerFields ==
  ASSUME NEW h \in HostProtocolPeers, NEW f \in ToHost, f.event.type = "generation_updated"
  PROVE  LET e == f.event
             n == HostAfter(h, f)
         IN
         /\ n.last = f.seq /\ n.confirmed = e.generation /\ n.answer = e.acceptance /\ n.pending = 0
         /\ n.state = IF e.acceptance = "accepted" THEN "receiving_results" ELSE h.state
         /\ HostKeeps(h, n, {"last", "confirmed", "answer", "pending", "state"})
<1> DEFINE e == f.event
           a == [h EXCEPT !.last = f.seq]
           b == [a EXCEPT !.confirmed = e.generation]
           c == [b EXCEPT !.answer = e.acceptance]
           d == [c EXCEPT !.pending = 0]
           n == [d EXCEPT !.state = IF e.acceptance = "accepted" THEN "receiving_results" ELSE @]
<1>1. HostAfter(h, f) = n
  BY DEF HostAfter
<1>2. a.last = f.seq /\ HostKeeps(h, a, {"last"})
  BY SMTT(30) DEF HostProtocolPeers, HostKeeps
<1>3. b.confirmed = e.generation /\ HostKeeps(a, b, {"confirmed"})
  BY SMTT(30) DEF HostProtocolPeers, HostKeeps
<1>4. c.answer = e.acceptance /\ HostKeeps(b, c, {"answer"})
  BY SMTT(30) DEF HostProtocolPeers, HostKeeps
<1>5. d.pending = 0 /\ HostKeeps(c, d, {"pending"})
  BY SMTT(30) DEF HostProtocolPeers, HostKeeps
<1>6. /\ n.state = IF e.acceptance = "accepted" THEN "receiving_results" ELSE d.state
      /\ HostKeeps(d, n, {"state"})
  BY SMTT(30) DEF HostProtocolPeers, HostKeeps
<1> HIDE DEF a, b, c, d, n
<1> QED
  BY <1>1, <1>2, <1>3, <1>4, <1>5, <1>6 DEF HostKeeps

LEMMA ReadResultFields ==
  ASSUME NEW h \in HostProtocolPeers, NEW f \in ToHost,
         f.event.type \in {"result_begin", "result_chunk", "result_commit"}
  PROVE  LET e == f.event
             n == HostAfter(h, f)
         IN
         /\ n.last = f.seq /\ n.acknowledged = h.acknowledged /\ HostKeeps(h, n, {"last", "result"})
         /\ e.type = "result_begin" =>
              /\ n.current = [digest |-> e.digest, chunks |-> <<>>] /\ n.received = h.received
              /\ n.acknowledgementPending = h.acknowledgementPending
         /\ e.type = "result_chunk" /\ h.current = [digest |-> TheResult, chunks |-> <<>>] =>
              /\ n.current = [digest |-> TheResult, chunks |-> <<e.payload>>]
              /\ n.received = h.received
              /\ n.acknowledgementPending = h.acknowledgementPending
         /\ e.type = "result_commit" =>
              n.current = None /\ n.received = e.digest /\ n.acknowledgementPending
<1> DEFINE e == f.event
           n == HostAfter(h, f)
           g == [h EXCEPT !.last = f.seq]
<1>1. g.last = f.seq /\ DOMAIN g = DOMAIN h /\ HostKeeps(h, g, {"last"})
  BY SMTT(30) DEF HostProtocolPeers, HostKeeps
<1>2. ASSUME NEW c, n = [g EXCEPT !.current = c]
      PROVE  /\ HostKeeps(g, n, {"result"}) /\ n.current = c /\ n.received = g.received
             /\ n.acknowledgementPending = g.acknowledgementPending
             /\ n.acknowledged = g.acknowledged
  <2> HIDE DEF n
  <2> QED
    BY <1>2, SMTT(30) DEF HostProtocolPeers, HostKeeps
<1>3. e.type = "result_begin" => n = [g EXCEPT !.current = [digest |-> e.digest, chunks |-> <<>>]]
  BY DEF HostAfter
<1>4. e.type = "result_chunk" => n = [g EXCEPT !.current = [g.current EXCEPT !.chunks = Append(@, e.payload)]]
  BY SMTT(30) DEF HostAfter, HostProtocolPeers
<1>5. ASSUME h.current = [digest |-> TheResult, chunks |-> <<>>]
      PROVE  [g.current EXCEPT !.chunks = Append(@, e.payload)]
               = [digest |-> TheResult, chunks |-> <<e.payload>>]
  <2>1. g.current = [digest |-> TheResult, chunks |-> <<>>]
    BY <1>1, <1>5 DEF HostKeeps
  <2>2. Append(<<>>, e.payload) = <<e.payload>>
    OBVIOUS
  <2> HIDE DEF e, g
  <2> QED
    BY <2>1, <2>2
<1>6. e.type = "result_commit" =>
        n = [[[g EXCEPT !.received = e.digest] EXCEPT !.current = None] EXCEPT !.acknowledgementPending = TRUE]
  BY DEF HostAfter
<1>7. LET m == [[[g EXCEPT !.received = e.digest] EXCEPT !.current = None]
                  EXCEPT !.acknowledgementPending = TRUE]
      IN
      /\ HostKeeps(g, m, {"result"}) /\ m.current = None /\ m.received = e.digest
      /\ m.acknowledgementPending = TRUE /\ m.acknowledged = g.acknowledged
  BY SMTT(30) DEF HostProtocolPeers, HostKeeps
<1> HIDE DEF g, n, e
<1>8. CASE e.type = "result_begin"
  <2>1. /\ HostKeeps(g, n, {"result"}) /\ n.current = [digest |-> e.digest, chunks |-> <<>>]
        /\ n.received = g.received /\ n.acknowledgementPending = g.acknowledgementPending
        /\ n.acknowledged = g.acknowledged
    BY <1>2, <1>3, <1>8
  <2>2. n.last = f.seq /\ n.acknowledged = h.acknowledged /\ HostKeeps(h, n, {"last", "result"})
        /\ n.received = h.received /\ n.acknowledgementPending = h.acknowledgementPending
    BY <1>1, <2>1 DEF HostKeeps
  <2> QED
    BY <1>8, <2>1, <2>2 DEF n, e
<1>9. CASE e.type = "result_chunk"
  <2>1. /\ HostKeeps(g, n, {"result"})
        /\ n.current = [g.current EXCEPT !.chunks = Append(@, e.payload)]
        /\ n.received = g.received /\ n.acknowledgementPending = g.acknowledgementPending
        /\ n.acknowledged = g.acknowledged
    BY <1>2, <1>4, <1>9
  <2>2. n.last = f.seq /\ n.acknowledged = h.acknowledged /\ HostKeeps(h, n, {"last", "result"})
        /\ n.received = h.received /\ n.acknowledgementPending = h.acknowledgementPending
    BY <1>1, <2>1 DEF HostKeeps
  <2> QED
    BY <1>5, <1>9, <2>1, <2>2 DEF n, e
<1>10. CASE e.type = "result_commit"
  <2>1. /\ HostKeeps(g, n, {"result"}) /\ n.current = None /\ n.received = e.digest
        /\ n.acknowledgementPending = TRUE /\ n.acknowledged = g.acknowledged
    BY <1>6, <1>7, <1>10
  <2>2. n.last = f.seq /\ n.acknowledged = h.acknowledged /\ HostKeeps(h, n, {"last", "result"})
    BY <1>1, <2>1 DEF HostKeeps
  <2> QED
    BY <1>10, <2>1, <2>2 DEF n, e
<1> QED
  BY <1>8, <1>9, <1>10 DEF e

\* The next frame to the host, and how far the conversation is.
LEMMA NextFrame ==
  ASSUME SessionIInv, Calm, heard.open, socket.state \in {"up", "worker"}, socket.toHost # <<>>,
         NEW f, f = Head(socket.toHost)
  PROVE  /\ socket.state = "up" /\ heard.connected /\ Conversation
         /\ HostTurn /\ HostHandover /\ HostBegin /\ HostResult /\ host.state # "failed"
         /\ f \in ToHost /\ f.seq = host.last + 1 /\ Expected(f)
         /\ \/ host.last = 0 /\ host.seq = 1
            \/ host.last = host.seq
            \/ /\ host.last \in host.seq + 1 .. host.seq + 4
               /\ Working /\ ~heard.completed /\ host.state = "receiving_results"
               /\ host.last > host.seq + 1 => worker.seq # host.seq + 3
<1>1. socket.state = "up" /\ heard.connected
  BY CalmParts DEF CalmFrames, SessionIInv, ConnectionIsOpen
<1>2. Conversation /\ WorkerTurn /\ CalmWorker /\ NothingBegun /\ CalmHost
  BY <1>1, CalmParts DEF Conversation
<1>3. HostTurn /\ HostHandover /\ HostBegin /\ HostResult /\ host.state # "failed"
  BY <1>2 DEF CalmHost
<1>4. /\ host.seq \in Nat /\ host.last \in Nat /\ worker.seq \in Nat /\ worker.last \in Nat
      /\ Preceding \in {0, 1}
  BY CalmTypes DEF Preceding
<1>5. /\ socket.toHost \in Seq(ToHost) /\ Len(socket.toHost) \in Nat \ {0}
      /\ f = socket.toHost[1] /\ f \in ToHost
  <2>1. socket.toHost \in Seq(ToHost)
    BY SocketFields DEF SessionIInv, SessionTypeOK
  <2>2. f \in ToHost
    BY <2>1, CarriedFrames
  <2> QED
    BY <2>1, <2>2
<1>6. f.seq = host.last + 1 /\ Expected(f)
  BY <1>2, <1>5 DEF Conversation
<1>7. worker.seq >= host.last + 2
  BY <1>2, <1>4, <1>5 DEF WorkerTurn
<1>8. worker.state # "new"
  BY <1>2, <1>4, <1>7 DEF WorkerTurn, FreshWorker
<1>9. worker.state \in {"ready", "running"} => host.last <= host.seq
  <2> DEFINE n == IF Busy THEN 1 ELSE 2
  <2>1. worker.state \in {"ready", "running"} => worker.seq = host.seq + n
    BY <1>2 DEF WorkerTurn
  <2>2. n \in {1, 2}
    OBVIOUS
  <2> HIDE DEF n
  <2> QED
    BY <1>4, <1>7, <2>1, <2>2
<1>10. host.last >= host.seq \/ (host.last = 0 /\ host.seq = 1)
  BY <1>3, <1>4 DEF HostTurn
<1>11. ASSUME host.last > host.seq
       PROVE  /\ host.last \in host.seq + 1 .. host.seq + 4
              /\ Working /\ ~heard.completed /\ host.state = "receiving_results"
              /\ host.last > host.seq + 1 => worker.seq # host.seq + 3
  <2>1. worker.state = "done"
    BY <1>2, <1>4, <1>8, <1>9, <1>11 DEF WorkerTurn
  <2>2. /\ host.seq = Preceding + 3 \/ (run.recovering /\ host.seq = 2)
        /\ worker.seq \in {host.seq + 3, host.seq + 6}
        /\ heard.completed /\ host.last = host.seq + 2 => worker.seq = host.seq + 3
    BY <1>2, <2>1 DEF WorkerTurn
  <2>3. host.last <= host.seq + 4
    BY <1>4, <1>7, <2>2
  <2>4. stored.acceptance # None
    BY <1>2, <2>1 DEF CalmWorker, SessionIInv, WorkerFaithful, Faithful
  <2>5. Working
    <3>1. CASE run.recovering /\ host.seq = 2
      <4>1. heard.generation \in {"accepted", "not_accepted"}
        BY <1>3, <1>11, <3>1 DEF HostHandover, HandedOver, Answered
      <4>2. heard.generation # "not_accepted"
        BY <1>2, <2>4, <3>1 DEF NothingBegun, Preceding
      <4> QED
        BY <3>1, <4>1, <4>2 DEF Working
    <3> QED
      BY <2>2, <3>1 DEF Working
  <2>6. host.last > host.seq + 1 => worker.seq # host.seq + 3
    BY <1>4, <1>7
  <2>7. ~heard.completed
    <3>1. heard.completed => host.last \in {host.seq + 2, host.seq + 5}
      BY <1>3 DEF HostResult
    <3>2. host.last = host.seq + 2 => ~heard.completed
      BY <1>4, <2>2, <2>6
    <3>3. host.last # host.seq + 5
      BY <1>4, <2>3
    <3> QED
      BY <3>1, <3>2, <3>3
  <2>8. host.last >= 2 /\ (host.seq > Preceding + 1 \/ heard.generation = "accepted")
    BY <1>3, <1>4, <1>11, <2>5 DEF Working, HostTurn
  <2> QED
    BY <1>3, <1>4, <1>11, <2>3, <2>5, <2>6, <2>7, <2>8 DEF HostTurn
<1> QED
  BY <1>1, <1>2, <1>3, <1>4, <1>5, <1>6, <1>10, <1>11

\* The host reads a frame it expects.
LEMMA HearsCalmly ==
  ASSUME SessionIInv, SessionIInv', Calm,
         UNCHANGED <<op, run, worker, bridge, reception, stored, process>>,
         heard.open, socket.state = "up", socket.toHost # <<>>,
         socket' = [socket EXCEPT !.toHost = Tail(@)],
         host'.last = host.last + 1, host'.seq = host.seq, host'.acknowledged = host.acknowledged,
         host'.dispatcher = host.dispatcher, host'.instruction = host.instruction,
         heard'.open, heard'.connected = heard.connected,
         Answered => heard'.generation = heard.generation,
         heard.generation = "accepted" => heard'.generation = "accepted",
         heard.reception = "result" => heard'.reception = "result",
         heard'.completed /\ host'.last = host.seq + 2 => worker.seq = host.seq + 3,
         NothingBegun', CalmHost'
  PROVE  Calm'
<1>1. /\ CalmRecord /\ BegunIsRecorded /\ CalmStore /\ CalmWorker /\ CalmFrames
      /\ CalmReception /\ CalmLeaving /\ CalmSession /\ PlaceHolds /\ Conversation
  BY CalmParts
<1>2. /\ host.seq \in Nat /\ host.last \in Nat /\ worker.seq \in Nat /\ worker.last \in Nat
      /\ Preceding \in {0, 1} /\ heard.connected
  BY CalmTypes DEF Preceding, SessionIInv, ConnectionIsOpen
<1>3. /\ socket.toHost \in Seq(ToHost)
      /\ socket'.state = "up" /\ socket'.toWorker = socket.toWorker
      /\ socket'.toHost = Tail(socket.toHost)
  <2>1. socket \in Sockets
    BY DEF SessionIInv, SessionTypeOK
  <2> QED
    BY <2>1, SocketFields DEF Sockets
<1>4. /\ Len(socket.toHost) \in Nat \ {0} /\ Len(socket'.toHost) = Len(socket.toHost) - 1
      /\ \A n \in 1 .. Len(socket'.toHost) :
           n + 1 \in 1 .. Len(socket.toHost) /\ socket'.toHost[n] = socket.toHost[n + 1]
  BY <1>3
<1>5. CalmRecord' /\ BegunIsRecorded' /\ CalmStore' /\ CalmWorker' /\ CalmLeaving'
  BY <1>1, <1>3 DEF CalmRecord, HasHandoff, LastHandoff, HandoffPending, BegunIsRecorded, Recorded,
                    Sent, Begins, Carried, CalmStore, CalmWorker, CalmLeaving
<1>6. CalmFrames'
  <2>1. \A f : Fits(f) => Fits(f)'
    BY <1>3 DEF Fits
  <2> QED
    BY <1>1, <1>3, <2>1 DEF CalmFrames, Carried
<1>7. CalmReception'
  BY <1>1, <1>3 DEF CalmReception, ReadBegin, ReadObservation, ReadUpdate, ReadAcknowledgement
<1>8. CalmSession'
  BY <1>1, <1>2, <1>3 DEF CalmSession
<1>9. Answered => Answered'
  BY <1>2 DEF Answered
<1>10. Working => Working'
  BY DEF Working, Preceding
<1>11. PlaceHolds'
  <2>1. /\ AtIdentify => AtIdentify'
        /\ AtIdentified => AtIdentified'
    BY <1>9 DEF AtIdentify, AtIdentified
  <2>2. /\ AtRevoke => AtRevoke'
        /\ AtAnnounce => AtAnnounce'
        /\ AtAwaitGeneration => AtAwaitGeneration'
    BY <1>9 DEF AtRevoke, AtAnnounce, AtAwaitGeneration, Succeeding, HandoffPending, HasHandoff,
                LastHandoff
  <2>3. MayBegin => MayBegin' /\ Answered /\ heard'.generation = heard.generation
    BY <1>9 DEF MayBegin, Preceding
  <2>4. AtConfirm => AtConfirm'
    BY <1>9, <2>2, <2>3 DEF AtConfirm
  <2>5. AtCollectAcceptance => AtCollectAcceptance' /\ heard'.generation = heard.generation
    BY <1>9 DEF AtCollectAcceptance
  <2>6. AtCollectAcknowledgement => AtCollectAcknowledgement'
    BY <2>5 DEF AtCollectAcknowledgement
  <2>7. AtAcquire => AtAcquire'
    BY <2>3 DEF AtAcquire, Succeeding, LastHandoffNames, HasHandoff, LastHandoff
  <2>8. AtEnter => AtEnter' /\ heard'.generation = heard.generation
    BY <2>3 DEF AtEnter
  <2>9. AtCheck => AtCheck'
    BY <2>5, <2>8 DEF AtCheck
  <2>10. AtSend => AtSend'
    BY <2>3 DEF AtSend, EntryIs
  <2>11. /\ AtDispatch => AtDispatch'
         /\ AtAwaitAcceptance => AtAwaitAcceptance'
         /\ AtAccepted => AtAccepted'
    BY <1>9 DEF AtDispatch, AtAwaitAcceptance, AtAccepted, EntryIs, Preceding
  <2>12. /\ AtObserve => AtObserve'
         /\ AtAwaitAcknowledgement => AtAwaitAcknowledgement'
         /\ AtAcknowledged => AtAcknowledged'
    BY <1>9 DEF AtObserve, AtAwaitAcknowledgement, AtAcknowledged, AcceptanceIs, Preceding
  <2>13. /\ AtWork => AtWork'
         /\ AtOffer => AtOffer'
         /\ AtExit => AtExit'
    BY <1>9, <1>10 DEF AtWork, AtOffer, AtExit
  <2> QED
    BY <1>1, <2>1, <2>2, <2>4, <2>5, <2>6, <2>7, <2>8, <2>9, <2>10, <2>11, <2>12, <2>13 DEF PlaceHolds
<1>12. Conversation'
  <2>1. WorkerTurn
    BY <1>1 DEF Conversation
  <2>2. worker.seq = host'.last + Len(socket'.toHost) + 1
    BY <1>2, <1>4, <2>1 DEF WorkerTurn
  <2>3. WorkerTurn'
    BY <1>2, <1>3, <2>1, <2>2 DEF WorkerTurn, Preceding, Busy
  <2>4. \A f : Expected(f) => Expected(f)'
    BY DEF Expected, IsAnswer, Preceding
  <2>5. ASSUME NEW n \in 1 .. Len(socket'.toHost)
        PROVE  (socket.toHost[n].seq = host.last + n /\ Expected(socket.toHost[n]))'
    <3>1. /\ socket.toHost[n + 1].seq = host.last + (n + 1)
          /\ Expected(socket.toHost[n + 1])
      BY <1>1, <1>4 DEF Conversation
    <3>2. n \in Nat
      BY <1>4
    <3>3. host.last + (n + 1) = host'.last + n
      <4>1. \A a, b \in Nat : a + (b + 1) = (a + 1) + b
        OBVIOUS
      <4> QED
        BY <1>2, <3>2, <4>1
    <3>4. PICK f : f = socket.toHost[n + 1]
      OBVIOUS
    <3>5. socket'.toHost[n] = f /\ Expected(f)
      BY <1>4, <3>1, <3>4
    <3>6. Expected(f)'
      BY <2>4, <3>5
    <3> QED
      BY <3>1, <3>3, <3>4, <3>5, <3>6
  <2>6. HostFrame' = HostFrame
    BY DEF HostFrame, Preceding
  <2> QED
    BY <1>1, <1>3, <2>3, <2>5, <2>6 DEF Conversation, Preceding, Carried
<1> QED
  BY <1>3, <1>5, <1>6, <1>7, <1>8, <1>11, <1>12 DEF Calm

\* What the host does with a frame it admits.
LEMMA AdmittedIsHeard ==
  ASSUME SessionIInv, HostReceives, NEW f, f = Head(socket.toHost), HostAdmits(host, f)
  PROVE  /\ heard.open /\ socket.toHost # <<>> /\ socket.state \in {"up", "worker"}
         /\ host' = HostAfter(host, f) /\ heard' = HeardEvent(heard, f.event)
         /\ socket' = [socket EXCEPT !.toHost = Tail(@)]
         /\ UNCHANGED <<op, run, worker, bridge, reception, stored, process>>
         /\ host \in HostProtocolPeers /\ heard \in Hearings
  BY DEF HostReceives, workerSide, SessionIInv, SessionTypeOK

LEMMA HelloCalmly ==
  ASSUME SessionIInv, SessionIInv', Calm, HostReceives, host.last = 0, host.seq = 1
  PROVE  Calm'
<1>0. PICK f : f = Head(socket.toHost)
  OBVIOUS
<1>1. /\ socket.state = "up" /\ HostTurn /\ HostHandover /\ HostBegin /\ HostResult
      /\ f \in ToHost /\ f.seq = host.last + 1 /\ Expected(f) /\ heard.open
  BY <1>0, NextFrame DEF HostReceives
<1>2. NothingBegun /\ host.seq \in Nat /\ Preceding \in {0, 1}
  BY CalmParts, CalmTypes DEF Preceding
<1>3. f.event.type = "hello"
  BY <1>1 DEF Expected, Plain
<1>4. host.state = "awaiting_hello"
  BY <1>1 DEF HostTurn
<1>5. HostAdmits(host, f)
  BY <1>1, <1>3, <1>4 DEF HostAdmits, HostExpects
<1>6. /\ heard.open /\ socket.toHost # <<>>
      /\ host' = HostAfter(host, f) /\ heard' = HeardEvent(heard, f.event)
      /\ socket' = [socket EXCEPT !.toHost = Tail(@)]
      /\ UNCHANGED <<op, run, worker, bridge, reception, stored, process>>
      /\ host \in HostProtocolPeers /\ heard \in Hearings
  BY <1>0, <1>5, AdmittedIsHeard
<1>7. host'.last = 1 /\ host'.state = "awaiting_started" /\ HostKeeps(host, host', {"last", "state"})
  BY <1>1, <1>3, <1>6, ReadHostFields
<1>8. heard' = heard
  BY <1>3, <1>6, HeardFields
<1>9. ~heard.completed
  BY <1>1 DEF HostResult
<1>10. NothingBegun'
  BY <1>2, <1>6, <1>7, <1>8 DEF NothingBegun, HostKeeps, Preceding
<1>11. CalmHost'
  <2>1. HostTurn'
    BY <1>1, <1>2, <1>6, <1>7, <1>8 DEF HostTurn, HostKeeps, Preceding
  <2>2. HostHandover'
    BY <1>1, <1>6, <1>7, <1>8 DEF HostHandover, HostKeeps, HandedOver, Answered
  <2>3. HostBegin'
    BY <1>1, <1>2, <1>6, <1>7, <1>8 DEF HostBegin, HostKeeps, Preceding, Answered
  <2>4. HostResult'
    BY <1>1, <1>6, <1>7, <1>8, <1>9 DEF HostResult, HostKeeps
  <2> QED
    BY <1>7, <2>1, <2>2, <2>3, <2>4 DEF CalmHost
<1> QED
  BY <1>1, <1>6, <1>7, <1>8, <1>9, <1>10, <1>11, HearsCalmly DEF HostKeeps

LEMMA StartedCalmly ==
  ASSUME SessionIInv, SessionIInv', Calm, HostReceives, host.last = 1, host.seq = 1
  PROVE  Calm'
<1>0. PICK f : f = Head(socket.toHost)
  OBVIOUS
<1>1. /\ socket.state = "up" /\ HostTurn /\ HostHandover /\ HostBegin /\ HostResult
      /\ f \in ToHost /\ f.seq = host.last + 1 /\ Expected(f) /\ heard.open
  BY <1>0, NextFrame DEF HostReceives
<1>2. NothingBegun /\ host.seq \in Nat /\ Preceding \in {0, 1}
  BY CalmParts, CalmTypes DEF Preceding
<1>3. f.event.type = "started"
  BY <1>1 DEF Expected, IsAnswer, Plain
<1>4. host.state = "awaiting_started" /\ heard.started = "pending"
  BY <1>1 DEF HostTurn
<1>5. HostAdmits(host, f)
  BY <1>1, <1>3, <1>4 DEF HostAdmits, HostExpects
<1>6. /\ heard.open /\ socket.toHost # <<>>
      /\ host' = HostAfter(host, f) /\ heard' = HeardEvent(heard, f.event)
      /\ socket' = [socket EXCEPT !.toHost = Tail(@)]
      /\ UNCHANGED <<op, run, worker, bridge, reception, stored, process>>
      /\ host \in HostProtocolPeers /\ heard \in Hearings
  BY <1>0, <1>5, AdmittedIsHeard
<1>7. host'.last = 2 /\ host'.state = "awaiting_begin" /\ HostKeeps(host, host', {"last", "state"})
  BY <1>1, <1>3, <1>6, ReadHostFields
<1>8. HeardKeeps(heard, heard', {"started"}) /\ heard'.started = "identified"
  BY <1>3, <1>4, <1>6, HeardFields DEF First
<1>9. ~heard.completed /\ heard.generation = "pending"
  BY <1>1 DEF HostResult, HostHandover, HandedOver
<1>10. NothingBegun'
  BY <1>2, <1>6, <1>7, <1>8 DEF NothingBegun, HostKeeps, HeardKeeps, Preceding
<1>11. CalmHost'
  <2>1. HostTurn'
    BY <1>1, <1>2, <1>6, <1>7, <1>8, <1>9 DEF HostTurn, HostKeeps, HeardKeeps, Preceding
  <2>2. HostHandover'
    BY <1>1, <1>6, <1>7, <1>8 DEF HostHandover, HostKeeps, HeardKeeps, HandedOver, Answered
  <2>3. HostBegin'
    BY <1>1, <1>2, <1>6, <1>7, <1>8 DEF HostBegin, HostKeeps, HeardKeeps, Preceding, Answered
  <2>4. HostResult'
    BY <1>1, <1>6, <1>7, <1>8, <1>9 DEF HostResult, HostKeeps, HeardKeeps
  <2> QED
    BY <1>7, <2>1, <2>2, <2>3, <2>4 DEF CalmHost
<1> QED
  BY <1>1, <1>6, <1>7, <1>8, <1>9, <1>10, <1>11, HearsCalmly DEF HostKeeps, HeardKeeps

LEMMA GenerationUpdatedCalmly ==
  ASSUME SessionIInv, SessionIInv', Calm, HostReceives,
         host.last = host.seq, host.seq = 2, run.recovering
  PROVE  Calm'
<1> DEFINE i == run.instruction
<1>0. PICK f : f = Head(socket.toHost)
  OBVIOUS
<1>1. /\ socket.state = "up" /\ HostTurn /\ HostHandover /\ HostBegin /\ HostResult
      /\ f \in ToHost /\ f.seq = host.last + 1 /\ Expected(f) /\ heard.open
  BY <1>0, NextFrame DEF HostReceives
<1>2. NothingBegun /\ BegunIsRecorded /\ ~HandedOver /\ ~Answered /\ Preceding = 1
  BY CalmParts DEF HandedOver, Answered, Preceding
<1>3. /\ f.event.type = "generation_updated" /\ f.event.generation = i.deliveryGeneration
      /\ f.event.instruction = stored.acceptance
      /\ f.event.acceptance = IF stored.acceptance = None THEN "not_accepted" ELSE "accepted"
  BY <1>1, <1>2 DEF Expected, IsAnswer
<1>4. /\ heard.generation = "pending" /\ host.pending = i.deliveryGeneration
      /\ host.instruction = op.startDeliveryAuthority /\ ~heard.completed
  BY <1>1, <1>2 DEF HostHandover, HostResult
<1>5. host.state = "awaiting_begin"
  BY <1>1, <1>2, <1>4 DEF HostTurn
<1>6. HostAdmits(host, f)
  <2>1. f.event.instruction # None => f.event.instruction = host.instruction
    BY <1>2, <1>3, <1>4 DEF BegunIsRecorded, Recorded
  <2>2. HostExpects(host, f.event)
    BY <1>3, <1>4, <1>5, <2>1 DEF HostExpects
  <2> QED
    BY <1>1, <1>5, <2>2 DEF HostAdmits
<1>7. /\ heard.open /\ socket.toHost # <<>>
      /\ host' = HostAfter(host, f) /\ heard' = HeardEvent(heard, f.event)
      /\ socket' = [socket EXCEPT !.toHost = Tail(@)]
      /\ UNCHANGED <<op, run, worker, bridge, reception, stored, process>>
      /\ host \in HostProtocolPeers /\ heard \in Hearings
  BY <1>0, <1>6, AdmittedIsHeard
<1>8. /\ host'.last = 3 /\ host'.confirmed = i.deliveryGeneration
      /\ host'.answer = f.event.acceptance /\ host'.pending = 0
      /\ host'.state = IF f.event.acceptance = "accepted" THEN "receiving_results" ELSE "awaiting_begin"
      /\ HostKeeps(host, host', {"last", "confirmed", "answer", "pending", "state"})
  BY <1>1, <1>3, <1>5, <1>7, ReadAnswerFields
<1>9. /\ HeardKeeps(heard, heard', {"generation"}) /\ heard'.said = stored.acceptance
      /\ heard'.generation = f.event.acceptance
  BY <1>3, <1>4, <1>7, HeardFields DEF First
<1>10. NothingBegun'
  BY <1>3, <1>7, <1>9 DEF NothingBegun
<1>11. CalmHost'
  <2>1. /\ host'.seq = 2 /\ Preceding' = 1 /\ Answered' /\ HandedOver'
    BY <1>7, <1>8 DEF HostKeeps, Preceding, Answered, HandedOver
  <2>2. HostTurn'
    BY <1>1, <1>3, <1>4, <1>7, <1>8, <1>9, <2>1 DEF HostTurn, HostKeeps, HeardKeeps
  <2>3. HostHandover'
    BY <1>3, <1>7, <1>8, <1>9, <2>1 DEF HostHandover
  <2>4. HostBegin'
    BY <1>1, <1>2, <1>7, <1>8, <1>9, <2>1 DEF HostBegin, HostKeeps, HeardKeeps
  <2>5. HostResult'
    BY <1>1, <1>4, <1>7, <1>8, <1>9, <2>1 DEF HostResult, HostKeeps, HeardKeeps
  <2> QED
    BY <1>8, <2>2, <2>3, <2>4, <2>5 DEF CalmHost
<1> QED
  BY <1>1, <1>2, <1>4, <1>7, <1>8, <1>9, <1>10, <1>11, HearsCalmly DEF HostKeeps, HeardKeeps

LEMMA BeginAcceptedCalmly ==
  ASSUME SessionIInv, SessionIInv', Calm, HostReceives,
         host.last = host.seq, host.seq = Preceding + 2
  PROVE  Calm'
<1> DEFINE i == run.instruction
<1>0. PICK f : f = Head(socket.toHost)
  OBVIOUS
<1>1. /\ socket.state = "up" /\ HostTurn /\ HostHandover /\ HostBegin /\ HostResult
      /\ f \in ToHost /\ f.seq = host.last + 1 /\ Expected(f) /\ heard.open
  BY <1>0, NextFrame DEF HostReceives
<1>2. /\ NothingBegun /\ ~Answered /\ Preceding \in {0, 1} /\ host.seq \in Nat /\ host.last \in Nat
      /\ host.seq # 1 /\ host.seq # Preceding + 1 /\ host.seq # Preceding + 3
  BY CalmParts, CalmTypes DEF Answered, Preceding
<1>3. f.event.type = "begin_accepted" /\ f.event.instruction = i
  BY <1>1, <1>2 DEF Expected, IsAnswer, About
<1>4. /\ host.accepted = None /\ heard.acceptance = "pending" /\ host.observations = 0
      /\ host.acknowledgements = 0 /\ ~heard.completed /\ host.instruction = i
  BY <1>1, <1>2 DEF HostBegin, HostResult
<1>5. host.state = "receiving_results"
  BY <1>1, <1>2, <1>4 DEF HostTurn
<1>6. HostAdmits(host, f)
  <2>1. f.event.instruction # None
    BY <1>1, <1>3, ToHostFields, InstructionIsSome
  <2>2. HostExpects(host, f.event)
    BY <1>3, <1>4, <1>5, <2>1 DEF HostExpects, Receiving
  <2> QED
    BY <1>1, <1>5, <2>2 DEF HostAdmits
<1>7. /\ heard.open /\ socket.toHost # <<>>
      /\ host' = HostAfter(host, f) /\ heard' = HeardEvent(heard, f.event)
      /\ socket' = [socket EXCEPT !.toHost = Tail(@)]
      /\ UNCHANGED <<op, run, worker, bridge, reception, stored, process>>
      /\ host \in HostProtocolPeers /\ heard \in Hearings
  BY <1>0, <1>6, AdmittedIsHeard
<1>8. /\ host'.last = host.last + 1 /\ host'.accepted = i /\ host'.observations = 1
      /\ HostKeeps(host, host', {"last", "accepted", "observations"})
  BY <1>1, <1>3, <1>4, <1>7, ReadHostFields
<1>9. HeardKeeps(heard, heard', {"acceptance"}) /\ heard'.acceptance = "accepted"
  BY <1>3, <1>4, <1>7, HeardFields DEF First
<1>10. NothingBegun'
  BY <1>2, <1>7, <1>8 DEF NothingBegun, HostKeeps, Preceding
<1>11. CalmHost'
  <2>1. /\ host'.seq = host.seq /\ Preceding' = Preceding /\ Answered'
        /\ host'.state = "receiving_results"
    BY <1>2, <1>5, <1>7, <1>8 DEF HostKeeps, Preceding, Answered
  <2>2. HostTurn'
    BY <1>1, <1>2, <1>4, <1>7, <1>8, <1>9, <2>1 DEF HostTurn, HostKeeps, HeardKeeps
  <2>3. HostHandover'
    BY <1>1, <1>2, <1>7, <1>8, <1>9, <2>1 DEF HostHandover, HostKeeps, HeardKeeps, HandedOver, Preceding
  <2>4. HostBegin'
    BY <1>1, <1>2, <1>4, <1>7, <1>8, <1>9, <2>1 DEF HostBegin, HostKeeps, HeardKeeps
  <2>5. HostResult'
    BY <1>1, <1>2, <1>4, <1>7, <1>8, <1>9, <2>1 DEF HostResult, HostKeeps, HeardKeeps
  <2> QED
    BY <2>1, <2>2, <2>3, <2>4, <2>5 DEF CalmHost
<1> QED
  BY <1>1, <1>2, <1>4, <1>7, <1>8, <1>9, <1>10, <1>11, HearsCalmly DEF HostKeeps, HeardKeeps

LEMMA BeginAcknowledgedCalmly ==
  ASSUME SessionIInv, SessionIInv', Calm, HostReceives,
         host.last = host.seq, host.seq = Preceding + 3
  PROVE  Calm'
<1> DEFINE i == run.instruction
<1>0. PICK f : f = Head(socket.toHost)
  OBVIOUS
<1>1. /\ socket.state = "up" /\ HostTurn /\ HostHandover /\ HostBegin /\ HostResult
      /\ f \in ToHost /\ f.seq = host.last + 1 /\ Expected(f) /\ heard.open
  BY <1>0, NextFrame DEF HostReceives
<1>2. /\ NothingBegun /\ ~Answered /\ Preceding \in {0, 1} /\ host.seq \in Nat /\ host.last \in Nat
      /\ host.seq # 1 /\ host.seq # Preceding + 1 /\ host.seq # Preceding + 2
  BY CalmParts, CalmTypes DEF Answered, Preceding
<1>3. f.event.type = "begin_ack" /\ f.event.instruction = i
  BY <1>1, <1>2 DEF Expected, IsAnswer, About
<1>4. /\ host.accepted = i /\ heard.acknowledgement = "pending"
      /\ host.acknowledgements = 1 /\ ~heard.completed
  BY <1>1, <1>2 DEF HostBegin, HostResult
<1>5. host.state = "receiving_results"
  BY <1>1, <1>2, <1>4 DEF HostTurn
<1>6. HostAdmits(host, f)
  <2>1. f.event.instruction # None
    BY <1>1, <1>3, ToHostFields, InstructionIsSome
  <2>2. HostExpects(host, f.event)
    BY <1>3, <1>4, <1>5, <2>1 DEF HostExpects, Receiving
  <2> QED
    BY <1>1, <1>5, <2>2 DEF HostAdmits
<1>7. /\ heard.open /\ socket.toHost # <<>>
      /\ host' = HostAfter(host, f) /\ heard' = HeardEvent(heard, f.event)
      /\ socket' = [socket EXCEPT !.toHost = Tail(@)]
      /\ UNCHANGED <<op, run, worker, bridge, reception, stored, process>>
      /\ host \in HostProtocolPeers /\ heard \in Hearings
  BY <1>0, <1>6, AdmittedIsHeard
<1>8. /\ host'.last = host.last + 1 /\ host'.acknowledgements = 0
      /\ HostKeeps(host, host', {"last", "acknowledgements"})
  BY <1>1, <1>3, <1>4, <1>7, ReadHostFields
<1>9. HeardKeeps(heard, heard', {"acknowledgement"}) /\ heard'.acknowledgement = "acknowledged"
  BY <1>3, <1>4, <1>7, HeardFields DEF First
<1>10. NothingBegun'
  BY <1>2, <1>7, <1>8 DEF NothingBegun, HostKeeps, Preceding
<1>11. CalmHost'
  <2>1. /\ host'.seq = host.seq /\ Preceding' = Preceding /\ Answered'
        /\ host'.state = "receiving_results"
    BY <1>2, <1>5, <1>7, <1>8 DEF HostKeeps, Preceding, Answered
  <2>2. HostTurn'
    BY <1>1, <1>2, <1>4, <1>7, <1>8, <1>9, <2>1 DEF HostTurn, HostKeeps, HeardKeeps
  <2>3. HostHandover'
    BY <1>1, <1>2, <1>7, <1>8, <1>9, <2>1 DEF HostHandover, HostKeeps, HeardKeeps, HandedOver, Preceding
  <2>4. HostBegin'
    BY <1>1, <1>2, <1>4, <1>7, <1>8, <1>9, <2>1 DEF HostBegin, HostKeeps, HeardKeeps
  <2>5. HostResult'
    BY <1>1, <1>2, <1>4, <1>7, <1>8, <1>9, <2>1 DEF HostResult, HostKeeps, HeardKeeps
  <2> QED
    BY <2>1, <2>2, <2>3, <2>4, <2>5 DEF CalmHost
<1> QED
  BY <1>1, <1>2, <1>4, <1>7, <1>8, <1>9, <1>10, <1>11, HearsCalmly DEF HostKeeps, HeardKeeps

\* A frame of the completion is heard.
LEMMA CompletionHeardCalmly ==
  ASSUME SessionIInv, SessionIInv', Calm,
         UNCHANGED <<op, run, worker, bridge, reception, stored, process>>,
         heard.open, socket.state = "up", socket.toHost # <<>>,
         socket' = [socket EXCEPT !.toHost = Tail(@)],
         host.last \in host.seq + 1 .. host.seq + 4, Working, ~heard.completed,
         host'.last = host.last + 1, host'.acknowledged = host.acknowledged,
         HostKeeps(host, host', {"last", "state", "result"}),
         HeardKeeps(heard, heard', {"completed", "reception"}),
         host'.state = IF heard'.completed THEN "done" ELSE "receiving_results",
         heard'.completed /\ host'.last = host.seq + 2 => worker.seq = host.seq + 3,
         heard'.completed \in BOOLEAN, HostResult'
  PROVE  Calm'
<1>1. /\ NothingBegun /\ Preceding \in {0, 1} /\ host.seq \in Nat /\ host.last \in Nat
  BY CalmParts, CalmTypes DEF Preceding
<1>2. HostTurn /\ HostHandover /\ HostBegin /\ HostResult
  BY CalmParts DEF CalmHost
<1>3. /\ host'.seq = host.seq /\ Preceding' = Preceding /\ Answered /\ Answered' /\ Working'
      /\ host'.last > host.seq
  BY <1>1 DEF HostKeeps, HeardKeeps, Preceding, Answered, Working
<1>4. NothingBegun'
  BY <1>1, <1>3 DEF NothingBegun, HeardKeeps
<1>5. CalmHost'
  <2>1. HostTurn'
    <3>1. /\ host'.seq \in 1 .. Preceding' + 3 /\ host'.last >= host'.seq
          /\ host'.last <= host'.seq + 5 /\ host'.last >= 2
      BY <1>1, <1>2, <1>3 DEF HostTurn
    <3>2. heard'.started = "identified"
      BY <1>1, <1>2 DEF HostTurn, HeardKeeps
    <3>3. host'.seq > Preceding' + 1 \/ heard'.generation = "accepted"
      BY <1>1, <1>3 DEF Working, Preceding
    <3>4. host'.last # 0 /\ host'.last # 1 /\ ~(host'.last < 2)
      BY <1>1, <3>1
    <3> QED
      BY <1>3, <3>1, <3>2, <3>3, <3>4 DEF HostTurn
  <2>2. HostHandover'
    BY <1>1, <1>2, <1>3 DEF HostHandover, HostKeeps, HeardKeeps, HandedOver
  <2>3. HostBegin'
    BY <1>1, <1>2, <1>3 DEF HostBegin, HostKeeps, HeardKeeps
  <2> QED
    BY <2>1, <2>2, <2>3 DEF CalmHost
<1>6. heard.reception # "result"
  BY <1>2 DEF HostResult
<1> QED
  BY <1>1, <1>3, <1>4, <1>5, <1>6, HearsCalmly DEF HostKeeps, HeardKeeps

LEMMA CompletionCalmly ==
  ASSUME SessionIInv, SessionIInv', Calm, HostReceives, host.last > host.seq
  PROVE  Calm'
<1>0. PICK f : f = Head(socket.toHost)
  OBVIOUS
<1>1. /\ heard.open /\ socket.toHost # <<>> /\ socket.state = "up" /\ HostTurn /\ HostResult
      /\ f \in ToHost /\ f.seq = host.last + 1 /\ Expected(f)
      /\ \/ host.last = 0 /\ host.seq = 1
         \/ host.last = host.seq
         \/ /\ host.last \in host.seq + 1 .. host.seq + 4
            /\ Working /\ ~heard.completed /\ host.state = "receiving_results"
            /\ host.last > host.seq + 1 => worker.seq # host.seq + 3
  BY <1>0, NextFrame DEF HostReceives
<1>2. /\ host.seq \in Nat /\ host.last \in Nat /\ worker.seq \in Nat
      /\ Preceding \in {0, 1}
  BY CalmTypes DEF Preceding
<1>3. /\ host.last \in host.seq + 1 .. host.seq + 4
      /\ Working /\ ~heard.completed /\ host.state = "receiving_results"
      /\ host.last > host.seq + 1 => worker.seq # host.seq + 3
      /\ host.seq >= 1
  BY <1>1, <1>2 DEF HostTurn
<1>4. host \in HostProtocolPeers /\ heard \in Hearings
  BY DEF SessionIInv, SessionTypeOK
<1>5. /\ HostAdmits(host, f) =>
           /\ host' = HostAfter(host, f) /\ heard' = HeardEvent(heard, f.event)
           /\ socket' = [socket EXCEPT !.toHost = Tail(@)]
           /\ UNCHANGED <<op, run, worker, bridge, reception, stored, process>>
      /\ HostExpects(host, f.event) => HostAdmits(host, f)
  BY <1>0, <1>1, <1>3, AdmittedIsHeard DEF HostAdmits
<1>6. TheResult # None
  BY Chosen
<1>7. heard'.completed \in BOOLEAN
  <2>1. heard' \in Hearings
    BY DEF SessionIInv, SessionTypeOK
  <2> QED
    BY <2>1 DEF Hearings
<1>8. heard.reception = "pending" /\ host.acknowledged = None
  BY <1>2, <1>3, <1>1 DEF HostResult
<1>14. /\ [digest |-> TheResult, chunks |-> <<>>] \in [digest : Result, chunks : Seq(Result)]
       /\ [digest |-> TheResult, chunks |-> <<TheResult>>] \in [digest : Result, chunks : Seq(Result)]
  BY Chosen
<1>9. CASE host.last = host.seq + 1 /\ worker.seq = host.seq + 3
  <2>1. f.event.type = "failed"
    BY <1>1, <1>2, <1>9 DEF Expected, Plain
  <2>2. host.current = None /\ host.received = None /\ ~host.acknowledgementPending
    BY <1>1, <1>2, <1>9 DEF HostResult
  <2>3. HostExpects(host, f.event)
    BY <1>3, <2>1, <2>2 DEF HostExpects, ExpectsCompletion, Receiving
  <2>4. /\ host' = HostAfter(host, f) /\ heard' = HeardEvent(heard, f.event)
        /\ socket' = [socket EXCEPT !.toHost = Tail(@)]
        /\ UNCHANGED <<op, run, worker, bridge, reception, stored, process>>
    BY <1>5, <2>3
  <2>5. host'.last = host.last + 1 /\ host'.state = "done" /\ HostKeeps(host, host', {"last", "state"})
    BY <1>1, <1>4, <2>1, <2>4, ReadHostFields
  <2>6. /\ HeardKeeps(heard, heard', {"completed", "reception"}) /\ heard'.completed
        /\ heard'.reception = "agent_failed"
    BY <1>4, <1>8, <2>1, <2>4, HeardFields DEF First
  <2>7. HostKeeps(host, host', {"last", "state", "result"}) /\ host'.acknowledged = host.acknowledged
    BY <2>5 DEF HostKeeps
  <2>8. HostResult'
    BY <1>2, <1>8, <1>9, <2>2, <2>5, <2>6 DEF HostResult, HostKeeps
  <2> QED
    BY <1>1, <1>3, <1>7, <1>9, <2>4, <2>5, <2>6, <2>7, <2>8, CompletionHeardCalmly
<1>10. CASE host.last = host.seq + 1 /\ worker.seq # host.seq + 3
  <2>1. f.event.type = "result_begin" /\ f.event.digest = TheResult
    BY <1>1, <1>2, <1>10 DEF Expected
  <2>2. host.current = None /\ host.received = None /\ ~host.acknowledgementPending
    BY <1>1, <1>2, <1>10 DEF HostResult
  <2>3. HostExpects(host, f.event)
    BY <1>3, <2>1, <2>2 DEF HostExpects, ExpectsCompletion, Receiving
  <2>4. /\ host' = HostAfter(host, f) /\ heard' = HeardEvent(heard, f.event)
        /\ socket' = [socket EXCEPT !.toHost = Tail(@)]
        /\ UNCHANGED <<op, run, worker, bridge, reception, stored, process>>
    BY <1>5, <2>3
  <2>5. /\ host'.last = host.last + 1 /\ host'.acknowledged = host.acknowledged
        /\ HostKeeps(host, host', {"last", "result"})
        /\ host'.current = [digest |-> TheResult, chunks |-> <<>>] /\ host'.received = None
        /\ ~host'.acknowledgementPending
    BY <1>1, <1>4, <2>1, <2>2, <2>4, ReadResultFields
  <2>6. heard' = heard
    BY <1>4, <2>1, <2>4, HeardFields
  <2>7. /\ HostKeeps(host, host', {"last", "state", "result"})
        /\ host'.state = "receiving_results" /\ host'.seq = host.seq
        /\ HeardKeeps(heard, heard', {"completed", "reception"})
    BY <1>3, <2>5, <2>6 DEF HostKeeps, HeardKeeps
  <2>8. HostResult'
    BY <1>2, <1>3, <1>8, <1>10, <2>5, <2>6, <2>7 DEF HostResult
  <2> QED
    BY <1>1, <1>3, <1>7, <2>4, <2>5, <2>6, <2>7, <2>8, CompletionHeardCalmly
<1>11. CASE host.last = host.seq + 2
  <2>1. f.event.type = "result_chunk" /\ f.event.payload = TheResult
    BY <1>1, <1>2, <1>3, <1>11 DEF Expected
  <2>2. /\ host.current = [digest |-> TheResult, chunks |-> <<>>] /\ host.received = None
        /\ ~host.acknowledgementPending
    BY <1>1, <1>2, <1>3, <1>11 DEF HostResult
  <2>3. host.current # None
    BY <2>2, <1>14, NoneIsNoReception
  <2>4. HostExpects(host, f.event)
    BY <1>3, <2>1, <2>2, <2>3 DEF HostExpects, ExpectsCompletion, Receiving
  <2>5. /\ host' = HostAfter(host, f) /\ heard' = HeardEvent(heard, f.event)
        /\ socket' = [socket EXCEPT !.toHost = Tail(@)]
        /\ UNCHANGED <<op, run, worker, bridge, reception, stored, process>>
    BY <1>5, <2>4
  <2>6. /\ host'.last = host.last + 1 /\ host'.acknowledged = host.acknowledged
        /\ HostKeeps(host, host', {"last", "result"})
        /\ host'.current = [digest |-> TheResult, chunks |-> <<TheResult>>] /\ host'.received = None
        /\ ~host'.acknowledgementPending
    BY <1>1, <1>4, <2>1, <2>2, <2>5, ReadResultFields
  <2>7. heard' = heard
    BY <1>4, <2>1, <2>5, HeardFields
  <2>8. /\ HostKeeps(host, host', {"last", "state", "result"})
        /\ host'.state = "receiving_results" /\ host'.seq = host.seq
        /\ HeardKeeps(heard, heard', {"completed", "reception"})
    BY <1>3, <2>6, <2>7 DEF HostKeeps, HeardKeeps
  <2>9. HostResult'
    BY <1>2, <1>3, <1>8, <1>11, <2>6, <2>7, <2>8 DEF HostResult
  <2> QED
    BY <1>1, <1>3, <1>7, <2>5, <2>6, <2>7, <2>8, <2>9, CompletionHeardCalmly
<1>12. CASE host.last = host.seq + 3
  <2>1. f.event.type = "result_commit" /\ f.event.digest = TheResult
    BY <1>1, <1>2, <1>3, <1>12 DEF Expected
  <2>2. /\ host.current = [digest |-> TheResult, chunks |-> <<TheResult>>] /\ host.received = None
        /\ ~host.acknowledgementPending
    BY <1>1, <1>2, <1>3, <1>12 DEF HostResult
  <2>3. host.current # None
    BY <2>2, <1>14, NoneIsNoReception
  <2>4. HostExpects(host, f.event)
    BY <1>3, <2>1, <2>2, <2>3 DEF HostExpects, ExpectsCompletion, Receiving
  <2>5. /\ host' = HostAfter(host, f) /\ heard' = HeardEvent(heard, f.event)
        /\ socket' = [socket EXCEPT !.toHost = Tail(@)]
        /\ UNCHANGED <<op, run, worker, bridge, reception, stored, process>>
    BY <1>5, <2>4
  <2>6. /\ host'.last = host.last + 1 /\ host'.acknowledged = host.acknowledged
        /\ HostKeeps(host, host', {"last", "result"})
        /\ host'.current = None /\ host'.received = TheResult /\ host'.acknowledgementPending
    BY <1>1, <1>4, <2>1, <2>2, <2>5, ReadResultFields
  <2>7. heard' = heard
    BY <1>4, <2>1, <2>5, HeardFields
  <2>8. /\ HostKeeps(host, host', {"last", "state", "result"})
        /\ host'.state = "receiving_results" /\ host'.seq = host.seq
        /\ HeardKeeps(heard, heard', {"completed", "reception"})
    BY <1>3, <2>6, <2>7 DEF HostKeeps, HeardKeeps
  <2>9. HostResult'
    BY <1>2, <1>3, <1>8, <1>12, <2>6, <2>7, <2>8 DEF HostResult
  <2> QED
    BY <1>1, <1>3, <1>7, <2>5, <2>6, <2>7, <2>8, <2>9, CompletionHeardCalmly
<1>13. CASE host.last = host.seq + 4
  <2>1. f.event.type = "done"
    BY <1>1, <1>2, <1>3, <1>13 DEF Expected, Plain
  <2>2. /\ host.current = None /\ host.received = TheResult /\ host.acknowledgementPending
    BY <1>1, <1>2, <1>3, <1>8, <1>13 DEF HostResult
  <2>3. HostExpects(host, f.event)
    BY <1>3, <1>6, <2>1, <2>2 DEF HostExpects, ExpectsCompletion, Receiving
  <2>4. /\ host' = HostAfter(host, f) /\ heard' = HeardEvent(heard, f.event)
        /\ socket' = [socket EXCEPT !.toHost = Tail(@)]
        /\ UNCHANGED <<op, run, worker, bridge, reception, stored, process>>
    BY <1>5, <2>3
  <2>5. host'.last = host.last + 1 /\ host'.state = "done" /\ HostKeeps(host, host', {"last", "state"})
    BY <1>1, <1>4, <2>1, <2>4, ReadHostFields
  <2>6. /\ HeardKeeps(heard, heard', {"completed", "reception"}) /\ heard'.completed
        /\ heard'.reception = "result"
    BY <1>4, <1>8, <2>1, <2>4, HeardFields DEF First
  <2>7. HostKeeps(host, host', {"last", "state", "result"}) /\ host'.acknowledged = host.acknowledged
        /\ host'.last = host.seq + 5
    BY <1>2, <1>13, <2>5 DEF HostKeeps
  <2>8. HostResult'
    <3>1. /\ host'.current = None /\ host'.received = TheResult
          /\ host'.acknowledgementPending /\ host'.acknowledged = None /\ host'.seq = host.seq
      BY <1>8, <2>2, <2>5 DEF HostKeeps
    <3>2. /\ host'.last > host'.seq + 3 /\ host'.last = host'.seq + 5
          /\ host'.last # host'.seq + 2 /\ host'.last # host'.seq + 3
      BY <1>2, <2>7, <3>1
    <3> QED
      BY <2>6, <3>1, <3>2 DEF HostResult
  <2>9. host'.last # host.seq + 2
    BY <1>2, <2>7
  <2> QED
    BY <1>1, <1>3, <1>7, <2>4, <2>5, <2>6, <2>7, <2>8, <2>9, CompletionHeardCalmly
<1> QED
  BY <1>2, <1>3, <1>9, <1>10, <1>11, <1>12, <1>13

LEMMA HostReceivesCalmly ==
  ASSUME SessionIInv, SessionIInv', Calm, HostReceives
  PROVE  Calm'
<1>1. PICK f : f = Head(socket.toHost)
  OBVIOUS
<1>2. /\ HostTurn /\ HostHandover
      /\ \/ host.last = 0 /\ host.seq = 1
         \/ host.last = host.seq
         \/ host.last \in host.seq + 1 .. host.seq + 4
  BY <1>1, NextFrame DEF HostReceives
<1>3. host.seq \in Nat /\ host.last \in Nat /\ Preceding \in {0, 1}
  BY CalmTypes DEF Preceding
<1>4. CASE host.last = 0 /\ host.seq = 1
  BY <1>4, HelloCalmly
<1>5. CASE host.last > host.seq
  BY <1>5, CompletionCalmly
<1>6. CASE host.last = host.seq
  <2>1. CASE host.seq = 1
    BY <1>6, <2>1, StartedCalmly
  <2>2. CASE host.seq = Preceding + 1 /\ host.seq # 1
    <3>1. run.recovering /\ host.seq = 2
      BY <2>2 DEF Preceding
    <3> QED
      BY <1>6, <3>1, GenerationUpdatedCalmly
  <2>3. CASE host.seq = Preceding + 2
    BY <1>6, <2>3, BeginAcceptedCalmly
  <2>4. CASE host.seq = Preceding + 3
    BY <1>6, <2>4, BeginAcknowledgedCalmly
  <2> QED
    BY <1>2, <1>3, <2>1, <2>2, <2>3, <2>4 DEF HostTurn
<1> QED
  BY <1>2, <1>3, <1>4, <1>5, <1>6

\* A step of the worker's side leaves the host's as it is.
LEMMA HostSideStays ==
  ASSUME SessionIInv, Calm, UNCHANGED <<op, run, host>>,
         UNCHANGED heard \/ heard' = [heard EXCEPT !.connected = TRUE]
  PROVE  CalmRecord' /\ PlaceHolds' /\ CalmHost'
<1>1. CalmRecord /\ PlaceHolds /\ CalmHost
  BY CalmParts
<1>2. /\ heard'.open = heard.open /\ heard'.completed = heard.completed
      /\ heard'.started = heard.started /\ heard'.generation = heard.generation
      /\ heard'.said = heard.said /\ heard'.acceptance = heard.acceptance
      /\ heard'.acknowledgement = heard.acknowledgement /\ heard'.reception = heard.reception
  <2>1. heard \in Hearings
    BY DEF SessionIInv, SessionTypeOK
  <2> QED
    BY <2>1, SMTT(30) DEF Hearings
<1>3. CalmRecord'
  BY <1>1 DEF CalmRecord, HasHandoff, LastHandoff, HandoffPending
<1>4. /\ Answered' = Answered /\ Working' = Working /\ Preceding' = Preceding
      /\ HandedOver' = HandedOver /\ Succeeding' = Succeeding /\ MayBegin' = MayBegin
  BY <1>2 DEF Answered, Working, Preceding, HandedOver, Succeeding, MayBegin
<1>5. PlaceHolds'
  <2>1. /\ AtIdentify => AtIdentify'
        /\ AtIdentified => AtIdentified'
        /\ AtRevoke => AtRevoke'
        /\ AtAnnounce => AtAnnounce'
        /\ AtAwaitGeneration => AtAwaitGeneration'
    BY <1>4 DEF AtIdentify, AtIdentified, AtRevoke, AtAnnounce, AtAwaitGeneration,
                HandoffPending, HasHandoff, LastHandoff
  <2>2. AtConfirm => AtConfirm'
    BY <1>2, <1>4, <2>1 DEF AtConfirm
  <2>3. /\ AtCollectAcceptance => AtCollectAcceptance'
        /\ AtCollectAcknowledgement => AtCollectAcknowledgement'
    BY <1>2, <1>4 DEF AtCollectAcceptance, AtCollectAcknowledgement
  <2>4. AtAcquire => AtAcquire'
    BY <1>4 DEF AtAcquire, LastHandoffNames, HasHandoff, LastHandoff
  <2>5. AtEnter => AtEnter'
    BY <1>4 DEF AtEnter
  <2>6. AtCheck => AtCheck'
    BY <1>2, <2>3, <2>5 DEF AtCheck
  <2>7. /\ AtSend => AtSend'
        /\ AtDispatch => AtDispatch'
        /\ AtAwaitAcceptance => AtAwaitAcceptance'
        /\ AtAccepted => AtAccepted'
    BY <1>4 DEF AtSend, AtDispatch, AtAwaitAcceptance, AtAccepted, EntryIs
  <2>8. /\ AtObserve => AtObserve'
        /\ AtAwaitAcknowledgement => AtAwaitAcknowledgement'
        /\ AtAcknowledged => AtAcknowledged'
    BY <1>4 DEF AtObserve, AtAwaitAcknowledgement, AtAcknowledged, AcceptanceIs
  <2>9. /\ AtWork => AtWork'
        /\ AtOffer => AtOffer'
        /\ AtExit => AtExit'
    BY <1>2, <1>4 DEF AtWork, AtOffer, AtExit
  <2> QED
    BY <1>1, <2>1, <2>2, <2>3, <2>4, <2>5, <2>6, <2>7, <2>8, <2>9 DEF PlaceHolds
<1>6. CalmHost'
  <2>1. HostTurn => HostTurn'
    BY <1>2, <1>4 DEF HostTurn
  <2>2. HostHandover => HostHandover'
    BY <1>2, <1>4 DEF HostHandover
  <2>3. HostBegin => HostBegin'
    BY <1>2, <1>4 DEF HostBegin
  <2>4. HostResult => HostResult'
    BY <1>2 DEF HostResult
  <2> QED
    BY <1>1, <1>2, <2>1, <2>2, <2>3, <2>4 DEF CalmHost
<1> QED
  BY <1>3, <1>5, <1>6

LEMMA SocketShape ==
  ASSUME SessionIInv, Calm
  PROVE  /\ socket \in Sockets
         /\ socket.state \in {"none", "up", "host", "worker", "broken"}
         /\ socket.state \notin {"up", "worker"} => socket.toHost = <<>>
         /\ socket.state \in {"none", "worker"} => socket.toWorker = <<>>
         /\ socket.state = "worker" => socket.toHost = <<>>
         /\ socket.state = "none" => socket = NoSocket
<1>1. socket \in Sockets
  BY DEF SessionIInv, SessionTypeOK
<1>2. /\ socket.state \in {"none", "up", "host", "worker", "broken"}
      /\ socket.state \notin {"up", "worker"} => socket.toHost = <<>>
      /\ socket.state \in {"none", "worker"} => socket.toWorker = <<>>
      /\ socket.state = "worker" => socket.toHost = <<>>
  BY <1>1, CalmParts DEF Sockets, SessionIInv, ConnectionIsOpen, CalmFrames
<1>3. socket.state = "none" => socket = NoSocket
  BY <1>1, <1>2 DEF Sockets, NoSocket
<1> QED
  BY <1>1, <1>2, <1>3

LEMMA ConnectToHostCalmly ==
  ASSUME SessionIInv, SessionIInv', Calm, ConnectToHost
  PROVE  Calm'
<1>1. /\ BegunIsRecorded /\ NothingBegun /\ CalmStore /\ CalmWorker /\ CalmLeaving /\ CalmSession
      /\ PlaceHolds /\ CalmHost
  BY CalmParts
<1>2. /\ process = "running" /\ ~bridge.stopped /\ socket.state = "none"
      /\ heard.open /\ ~heard.connected
      /\ socket' = [NoSocket EXCEPT !.state = "up"] /\ heard' = [heard EXCEPT !.connected = TRUE]
      /\ worker' = FreshWorker /\ reception' = NoReception
      /\ UNCHANGED <<op, run, host, bridge, stored, process>>
  BY DEF ConnectToHost
<1>3. /\ CalmRecord' /\ PlaceHolds' /\ CalmHost' /\ heard'.open = heard.open /\ heard'.connected
      /\ heard'.generation = heard.generation
  <2>1. heard \in Hearings
    BY DEF SessionIInv, SessionTypeOK
  <2> QED
    BY <1>2, <2>1, HostSideStays DEF Hearings
<1>4. socket'.state = "up" /\ socket'.toHost = <<>> /\ socket'.toWorker = <<>>
  BY <1>2 DEF NoSocket
<1>5. host.last = 0 /\ host.seq \in Nat /\ worker'.seq = 1 /\ worker'.last = 0 /\ worker'.state = "new"
      /\ worker'.accepted = None /\ ~worker'.acknowledgementPending
  BY <1>1, <1>2, CalmTypes DEF CalmSession, FreshWorker
<1>6. run.at = "identify" /\ host.seq = 1
  <2>1. run.at \notin {"ended", "down", "stop"} /\ run.at \in {"identify", "exit"}
    BY <1>1, <1>2, CalmTypes DEF CalmSession, Places
  <2>2. run.at # "exit"
    <3>1. run.at = "exit" => Working /\ Answered
      BY <1>1, <1>2 DEF PlaceHolds, AtExit, AtOffer, AtWork
    <3> QED
      BY <1>5, <3>1 DEF Answered
  <2> QED
    BY <1>1, <2>1, <2>2 DEF PlaceHolds, AtIdentify
<1>7. Carried(socket.toWorker) = {} /\ Carried(socket.toWorker)' = {} /\ Begins' = Begins
  BY <1>2, <1>4, SocketShape DEF Begins, Carried
<1>8. BegunIsRecorded' /\ NothingBegun' /\ CalmStore'
  BY <1>1, <1>2, <1>3, <1>7 DEF BegunIsRecorded, Recorded, Sent, NothingBegun, Preceding, CalmStore
<1>9. CalmWorker'
  BY <1>1, <1>2, <1>5 DEF CalmWorker
<1>10. CalmFrames'
  BY <1>4, <1>7 DEF CalmFrames
<1>11. CalmReception'
  BY <1>2 DEF CalmReception, NoReception
<1>12. CalmLeaving'
  BY <1>1, <1>2, <1>4 DEF CalmLeaving
<1>13. CalmSession'
  BY <1>1, <1>2, <1>3, <1>4, <1>6 DEF CalmSession
<1>14. Conversation'
  <2>1. WorkerTurn'
    BY <1>2, <1>4, <1>5, <1>6 DEF WorkerTurn, Busy, NoReception
  <2>2. reception'.update = None /\ reception'.start = None /\ reception'.observed = None
    BY <1>2 DEF NoReception
  <2> QED
    BY <1>4, <1>5, <1>7, <2>1, <2>2 DEF Conversation
<1> QED
  BY <1>3, <1>8, <1>9, <1>10, <1>11, <1>12, <1>13, <1>14 DEF Calm

LEMMA WorkerSeesEndCalmly ==
  ASSUME SessionIInv, SessionIInv', Calm, WorkerSeesEnd
  PROVE  Calm'
<1>1. /\ BegunIsRecorded /\ NothingBegun /\ CalmStore /\ CalmWorker /\ CalmFrames /\ CalmReception
      /\ CalmLeaving /\ CalmSession
  BY CalmParts
<1>2. /\ ~reception.active
      /\ socket.state = "broken" \/ (socket.state = "host" /\ socket.toWorker = <<>>)
      /\ socket' = NoSocket
      /\ UNCHANGED <<op, run, host, heard, worker, bridge, reception, stored, process>>
  BY DEF WorkerSeesEnd, hostSide, workerSide
<1>3. CalmRecord' /\ PlaceHolds' /\ CalmHost'
  BY <1>2, HostSideStays
<1>4. socket'.state = "none" /\ socket'.toHost = <<>> /\ socket'.toWorker = <<>>
  BY <1>2 DEF NoSocket
<1>5. Carried(socket.toWorker)' = {} /\ Begins' = {} /\ Begins = {}
  BY <1>1, <1>2, <1>4 DEF Begins, Carried, CalmFrames, Fits
<1>6. BegunIsRecorded' /\ NothingBegun' /\ CalmStore'
  BY <1>1, <1>2, <1>5 DEF BegunIsRecorded, Recorded, Sent, NothingBegun, Preceding, CalmStore
<1>7. CalmWorker' /\ CalmFrames'
  BY <1>1, <1>2, <1>4, <1>5 DEF CalmWorker, CalmFrames
<1>8. CalmReception'
  BY <1>1, <1>2 DEF CalmReception
<1>9. CalmLeaving' /\ CalmSession'
  BY <1>1, <1>2, <1>4 DEF CalmLeaving, CalmSession
<1> QED
  BY <1>3, <1>4, <1>6, <1>7, <1>8, <1>9 DEF Calm

LEMMA PiExitsCalmly ==
  ASSUME SessionIInv, SessionIInv', Calm, PiExits
  PROVE  Calm'
<1>1. /\ BegunIsRecorded /\ NothingBegun /\ CalmStore /\ CalmWorker /\ CalmFrames /\ CalmReception
      /\ CalmLeaving /\ CalmSession /\ (socket.state = "up" => Conversation)
  BY CalmParts
<1>2. /\ bridge.shutdown /\ process' = "exited"
      /\ UNCHANGED <<op, run, host, heard, worker, bridge, reception, stored, socket>>
  BY DEF PiExits, hostSide, workerSide
<1>3. CalmRecord' /\ PlaceHolds' /\ CalmHost'
  BY <1>2, HostSideStays
<1>4. BegunIsRecorded' /\ NothingBegun' /\ CalmStore'
  BY <1>1, <1>2 DEF BegunIsRecorded, Recorded, Sent, Begins, Carried, NothingBegun, Preceding, CalmStore
<1>5. CalmWorker'
  BY <1>1, <1>2 DEF CalmWorker
<1>6. CalmFrames'
  BY <1>1, <1>2 DEF CalmFrames, Carried, Fits
<1>7. CalmReception'
  BY <1>1, <1>2 DEF CalmReception, ReadBegin, ReadObservation, ReadUpdate, ReadAcknowledgement
<1>8. CalmLeaving' /\ CalmSession'
  BY <1>1, <1>2 DEF CalmLeaving, CalmSession, CalmWorker
<1>9. socket.state = "up" => Conversation'
  <2>1. WorkerTurn => WorkerTurn'
    BY <1>2 DEF WorkerTurn, Preceding, Busy
  <2>2. \A f : Expected(f) => Expected(f)'
    BY <1>2 DEF Expected, IsAnswer, Preceding
  <2>3. HostFrame' = HostFrame
    BY <1>2 DEF HostFrame, Preceding
  <2> QED
    BY <1>1, <1>2, <2>1, <2>2, <2>3 DEF Conversation, Preceding, Carried
<1> QED
  BY <1>2, <1>3, <1>4, <1>5, <1>6, <1>7, <1>8, <1>9 DEF Calm

\* What a call or a frame leaves alone of the worker's peer.
WorkerKeeps(w, n, changed) ==
  /\ "state" \notin changed => n.state = w.state
  /\ "seq" \notin changed => n.seq = w.seq
  /\ "last" \notin changed => n.last = w.last
  /\ "pending" \notin changed => n.acknowledgementPending = w.acknowledgementPending
  /\ "generation" \notin changed => n.generation = w.generation
  /\ "dispatcher" \notin changed => n.dispatcher = w.dispatcher
  /\ "accepted" \notin changed => n.accepted = w.accepted
  /\ "acknowledged" \notin changed => n.acknowledged = w.acknowledged

LEMMA ReadWorkerFields ==
  ASSUME NEW w \in WorkerProtocolPeers
  PROVE  /\ LET n == [w EXCEPT !.last = @ + 1] IN
              n \in WorkerProtocolPeers /\ n.last = w.last + 1 /\ WorkerKeeps(w, n, {"last"})
         /\ \A a \in [generation : Nat \ {0}, dispatcher : Dispatcher \cup {None}] :
              LET n == WithAuthority(w, a) IN
              /\ n \in WorkerProtocolPeers
              /\ n.generation = a.generation /\ n.dispatcher = a.dispatcher
              /\ WorkerKeeps(w, n, {"generation", "dispatcher"})
         /\ \A i : LET n == [w EXCEPT !.accepted = i, !.dispatcher = i.dispatcherId,
                                      !.state = "running"] IN
              /\ n.accepted = i /\ n.state = "running"
              /\ WorkerKeeps(w, n, {"accepted", "dispatcher", "state"})
         /\ \A i : LET n == [w EXCEPT !.accepted = i, !.state = "running"] IN
              /\ n.accepted = i /\ n.state = "running"
              /\ i \in StartInstruction => n \in WorkerProtocolPeers
              /\ WorkerKeeps(w, n, {"accepted", "state"})
         /\ \A p : LET n == [w EXCEPT !.acknowledgementPending = FALSE, !.acknowledged = p] IN
              /\ ~n.acknowledgementPending /\ n.acknowledged = p
              /\ WorkerKeeps(w, n, {"pending", "acknowledged"})
<1>1. LET n == [w EXCEPT !.last = @ + 1] IN
      n \in WorkerProtocolPeers /\ n.last = w.last + 1 /\ WorkerKeeps(w, n, {"last"})
  BY SMTT(30) DEF WorkerProtocolPeers, WorkerKeeps
<1>2. ASSUME NEW a \in [generation : Nat \ {0}, dispatcher : Dispatcher \cup {None}]
      PROVE  LET n == WithAuthority(w, a) IN
             /\ n \in WorkerProtocolPeers
             /\ n.generation = a.generation /\ n.dispatcher = a.dispatcher
             /\ WorkerKeeps(w, n, {"generation", "dispatcher"})
  <2> DEFINE g == a.generation
             d == a.dispatcher
  <2>2. WithAuthority(w, a) = [w EXCEPT !.generation = g, !.dispatcher = d]
    BY DEF WithAuthority
  <2> HIDE DEF g, d
  <2>3. LET n == [w EXCEPT !.generation = g, !.dispatcher = d] IN
        /\ n.generation = g /\ n.dispatcher = d /\ WorkerKeeps(w, n, {"generation", "dispatcher"})
    BY SMTT(30) DEF WorkerProtocolPeers, WorkerKeeps
  <2>5. WithAuthority(w, a) \in WorkerProtocolPeers
    BY PeerOnReception
  <2> QED
    BY <2>2, <2>3, <2>5 DEF g, d
<1>3. ASSUME NEW i
      PROVE  LET n == [w EXCEPT !.accepted = i, !.dispatcher = i.dispatcherId,
                                !.state = "running"] IN
             /\ n.accepted = i /\ n.state = "running"
             /\ WorkerKeeps(w, n, {"accepted", "dispatcher", "state"})
  <2> DEFINE d == i.dispatcherId
  <2> HIDE DEF d
  <2>1. LET n == [w EXCEPT !.accepted = i, !.dispatcher = d, !.state = "running"] IN
        /\ n.accepted = i /\ n.state = "running"
        /\ WorkerKeeps(w, n, {"accepted", "dispatcher", "state"})
    BY SMTT(30) DEF WorkerProtocolPeers, WorkerKeeps
  <2> QED
    BY <2>1 DEF d
<1>4. ASSUME NEW i
      PROVE  LET n == [w EXCEPT !.accepted = i, !.state = "running"] IN
             /\ n.accepted = i /\ n.state = "running"
             /\ i \in StartInstruction => n \in WorkerProtocolPeers
             /\ WorkerKeeps(w, n, {"accepted", "state"})
  <2> DEFINE m == [w EXCEPT !.accepted = i]
  <2>1. m.accepted = i /\ WorkerKeeps(w, m, {"accepted"}) /\ DOMAIN m = DOMAIN w
    BY SMTT(30) DEF WorkerProtocolPeers, WorkerKeeps
  <2>2. i \in StartInstruction => m \in WorkerProtocolPeers
    BY SMTT(30) DEF WorkerProtocolPeers
  <2>3. [w EXCEPT !.accepted = i, !.state = "running"] = [m EXCEPT !.state = "running"]
    OBVIOUS
  <2> HIDE DEF m
  <2>4. LET n == [m EXCEPT !.state = "running"] IN
        n.state = "running" /\ WorkerKeeps(m, n, {"state"})
    BY <2>1, SMTT(30) DEF WorkerProtocolPeers, WorkerKeeps
  <2>5. i \in StartInstruction => [m EXCEPT !.state = "running"] \in WorkerProtocolPeers
    BY <2>2, SMTT(30) DEF WorkerProtocolPeers
  <2> QED
    BY <2>1, <2>3, <2>4, <2>5 DEF WorkerKeeps
<1>5. ASSUME NEW p
      PROVE  LET n == [w EXCEPT !.acknowledgementPending = FALSE, !.acknowledged = p] IN
             /\ ~n.acknowledgementPending /\ n.acknowledged = p
             /\ WorkerKeeps(w, n, {"pending", "acknowledged"})
  BY SMTT(30) DEF WorkerProtocolPeers, WorkerKeeps
<1> QED
  BY <1>1, <1>2, <1>3, <1>4, <1>5

LEMMA ToldFields ==
  ASSUME NEW r
  PROVE  /\ LET n == [[NoReception EXCEPT !.start = r] EXCEPT !.active = TRUE] IN
              n.active /\ ~n.cancel /\ n.start = r /\ n.observed = None /\ n.update = None
         /\ LET n == [[NoReception EXCEPT !.observed = r] EXCEPT !.active = TRUE] IN
              n.active /\ ~n.cancel /\ n.start = None /\ n.observed = r /\ n.update = None
         /\ LET n == [[NoReception EXCEPT !.update = r] EXCEPT !.active = TRUE] IN
              n.active /\ ~n.cancel /\ n.start = None /\ n.observed = None /\ n.update = r
         /\ LET n == [NoReception EXCEPT !.active = TRUE] IN
              n.active /\ ~n.cancel /\ n.start = None /\ n.observed = None /\ n.update = None
  BY DEF NoReception

LEMMA OneInQueue ==
  ASSUME NEW S, NEW s \in Seq(S), s # <<>>, Len(s) <= 1
  PROVE  Head(s) = s[1] /\ s[1] \in S /\ Tail(s) = <<>> /\ Carried(s) = {s[1]}
<1>1. Len(s) = 1
  <2>1. Len(s) \in Nat \ {0}
    OBVIOUS
  <2> QED
    BY <2>1
<1>2. Tail(s) \in Seq(S) /\ Len(Tail(s)) = 0
  BY <1>1
<1>3. Tail(s) = <<>>
  BY <1>2, EmptySeq
<1> QED
  BY <1>1, <1>3 DEF Carried

LEMMA NothingIsShort == Len(<<>>) <= 1
  OBVIOUS

\* The one frame that is on its way to the worker.
LEMMA FrameToRead ==
  ASSUME SessionIInv, Calm, socket.toWorker # <<>>, NEW f, f = Head(socket.toWorker)
  PROVE  /\ f \in ToWorker /\ Fits(f) /\ f \in Carried(socket.toWorker)
         /\ Tail(socket.toWorker) = <<>> /\ reception = NoReception
         /\ Begins = IF f.event.type = "begin" THEN {f} ELSE {}
         /\ socket.state \in {"up", "host", "broken"} /\ ~bridge.stopped /\ Busy
         /\ socket.state = "up" =>
              /\ Conversation /\ WorkerTurn /\ heard.open
              /\ HostTurn /\ HostHandover /\ HostBegin /\ HostResult
              /\ IF worker.state = "done" THEN f.event.type = "ack" ELSE f.event = HostFrame
<1>1. /\ CalmFrames /\ CalmReception /\ CalmLeaving /\ CalmHost
      /\ (socket.state = "up" => Conversation)
  BY CalmParts
<1>2. socket.toWorker \in Seq(ToWorker)
  BY SocketFields DEF SessionIInv, SessionTypeOK
<1>3. Len(socket.toWorker) <= 1
  BY <1>1 DEF CalmFrames
<1>4. f \in ToWorker /\ Tail(socket.toWorker) = <<>> /\ Carried(socket.toWorker) = {f}
  BY <1>2, <1>3, OneInQueue
<1>5. Fits(f) /\ Begins = IF f.event.type = "begin" THEN {f} ELSE {}
  BY <1>1, <1>4 DEF CalmFrames, Begins
<1>6. socket.state \in {"up", "host", "broken"} /\ ~bridge.stopped /\ reception = NoReception
  BY <1>1, SocketShape DEF CalmLeaving, CalmReception
<1>7. ASSUME socket.state = "up"
      PROVE  /\ Conversation /\ WorkerTurn /\ heard.open
             /\ HostTurn /\ HostHandover /\ HostBegin /\ HostResult
             /\ IF worker.state = "done" THEN f.event.type = "ack" ELSE f.event = HostFrame
  <2>1. Conversation /\ heard.open
    BY <1>1, <1>7 DEF SessionIInv, ConnectionIsOpen
  <2> QED
    BY <1>1, <1>4, <2>1 DEF Conversation, CalmHost
<1> QED
  BY <1>4, <1>5, <1>6, <1>7 DEF Busy

\* The worker reads a frame that it admits.
LEMMA ReadsCalmly ==
  ASSUME SessionIInv, SessionIInv', Calm, process = "running", socket.toWorker # <<>>,
         UNCHANGED <<op, run, host, heard, bridge, process>>,
         socket' = [socket EXCEPT !.toWorker = Tail(@)],
         reception'.active, ~reception'.cancel,
         (ReadBegin \/ ReadObservation \/ ReadUpdate \/ ReadAcknowledgement)',
         worker'.seq = worker.seq,
         stored'.acceptance = stored.acceptance \/ host.seq # Preceding + 1 \/ socket.state # "up",
         BegunIsRecorded', NothingBegun', CalmStore', CalmWorker',
         socket.state = "up" =>
           /\ worker.state # "new" /\ worker'.state \in {"ready", "running", "done"}
           /\ worker'.state \in {"ready", "running"} =>
                worker.state \in {"ready", "running"} /\ worker'.last = worker.last + 1
           /\ worker'.state = "ready" => worker'.last <= Preceding
           /\ worker'.state = "done" =>
                /\ worker.state = "done"
                /\ worker'.acknowledgementPending => worker.acknowledgementPending
           /\ run.recovering => stored'.authority.generation = run.instruction.deliveryGeneration
                                  \/ (stored' = stored /\ (worker.last > 0 \/ worker'.last = 0))
           /\ reception'.update # None =>
                /\ host.seq = Preceding + 1
                /\ reception'.update.generation = run.instruction.deliveryGeneration
           /\ reception'.start # None =>
                host.seq = Preceding + 2 /\ reception'.start.instruction = run.instruction
           /\ reception'.observed # None =>
                /\ host.seq = Preceding + 3 /\ reception'.observed = run.instruction
                /\ worker'.state = "running"
  PROVE  Calm'
<1>1. PICK f : f = Head(socket.toWorker)
  OBVIOUS
<1>2. /\ Tail(socket.toWorker) = <<>> /\ ~bridge.stopped /\ Busy
      /\ socket.state \in {"up", "host", "broken"}
      /\ socket.state = "up" => Conversation /\ WorkerTurn
  BY <1>1, FrameToRead
<1>3. socket'.state = socket.state /\ socket'.toHost = socket.toHost /\ socket'.toWorker = <<>>
  BY <1>2, SocketShape DEF Sockets
<1>4. CalmRecord' /\ PlaceHolds' /\ CalmHost'
  BY HostSideStays
<1>5. Carried(socket.toWorker)' = {}
  BY <1>3 DEF Carried
<1>6. CalmFrames'
  <2>1. Len(socket'.toWorker) <= 1
    BY <1>3, NothingIsShort, Zenon
  <2>2. socket'.state # "worker"
    BY <1>2, <1>3
  <2> QED
    BY <1>3, <1>5, <2>1, <2>2 DEF CalmFrames
<1>7. CalmReception'
  BY <1>3 DEF CalmReception
<1>8. CalmLeaving' /\ CalmSession'
  BY <1>2, <1>3, CalmParts DEF CalmLeaving, CalmSession
<1>9. ASSUME socket.state = "up"
      PROVE  Conversation'
  <2>1. /\ worker.last \in Nat /\ worker.seq \in Nat /\ host.seq \in Nat /\ Preceding \in {0, 1}
        /\ worker'.last \in Nat
    <3>1. worker' \in WorkerProtocolPeers
      BY DEF SessionIInv, SessionTypeOK
    <3> QED
      BY <3>1, CalmTypes DEF Preceding, WorkerProtocolPeers
  <2>2. Busy'
    BY DEF Busy
  <2>3. WorkerTurn'
    <3>1. /\ worker'.seq = host'.last + Len(socket'.toHost) + 1
          /\ worker'.state \in {"ready", "running", "done"}
      BY <1>2, <1>3, <1>9 DEF WorkerTurn
    <3>2. worker'.state \in {"ready", "running"} =>
            /\ host'.seq = worker'.last + (IF socket'.toWorker = <<>> THEN 1 ELSE 2)
            /\ worker'.seq = host'.seq + (IF Busy' THEN 1 ELSE 2)
      BY <1>2, <1>3, <1>9, <2>1, <2>2 DEF WorkerTurn
    <3>3. worker'.state = "running" => worker'.last > 0
      BY <1>9, <2>1
    <3>4. worker'.state = "done" =>
            /\ host'.seq = Preceding' + 3 \/ (run'.recovering /\ host'.seq = 2)
            /\ worker'.seq \in {host'.seq + 3, host'.seq + 6}
            /\ worker'.acknowledgementPending => worker'.seq = host'.seq + 6
            /\ worker'.seq = host'.seq + 6 =>
                 worker'.acknowledgementPending \/ host'.acknowledged # None
            /\ Busy' => host'.acknowledged # None
            /\ heard'.completed /\ host'.last = host'.seq + 2 => worker'.seq = host'.seq + 3
      BY <1>2, <1>9 DEF WorkerTurn, Preceding
    <3>5. worker'.state = "ready" => worker'.last <= Preceding'
      BY <1>9 DEF Preceding
    <3> QED
      BY <3>1, <3>2, <3>3, <3>4, <3>5 DEF WorkerTurn
  <2>4. \A n \in 1 .. Len(socket'.toHost) :
          socket'.toHost[n].seq = host'.last + n /\ (Expected(socket.toHost[n]))'
    <3>1. \A e : IsAnswer(e) => IsAnswer(e)'
      BY <1>9 DEF IsAnswer, Preceding
    <3>2. \A g : Expected(g) => Expected(g)'
      BY <3>1 DEF Expected
    <3> QED
      BY <1>2, <1>3, <1>9, <3>2 DEF Conversation
  <2>5. run'.recovering /\ worker'.last > 0 =>
          stored'.authority.generation = run'.instruction.deliveryGeneration
    BY <1>2, <1>9, <2>1 DEF Conversation
  <2> QED
    BY <1>5, <1>9, <2>3, <2>4, <2>5 DEF Conversation, Preceding
<1> QED
  BY <1>3, <1>4, <1>6, <1>7, <1>8, <1>9 DEF Calm

\* A frame in a closed connection was left there by a run that is over, or by the
\* predecessor of a run that has not heard of the worker yet.
LEMMA LeftOver ==
  ASSUME SessionIInv, Calm, process = "running", socket.state \in {"host", "broken"}
  PROVE  \/ ~heard.open /\ run.at \in {"ended", "down"}
         \/ /\ run.at = "identify" /\ host.seq = 1
            /\ ~run.recovering => op.startDeliveryAuthority = None
<1>1. CalmSession /\ PlaceHolds
  BY CalmParts
<1>2. run.at # "exit"
  BY <1>1 DEF CalmSession
<1>3. CASE ~heard.open
  BY <1>1, <1>2, <1>3 DEF CalmSession
<1>4. CASE heard.open
  BY <1>1, <1>2, <1>4 DEF CalmSession, PlaceHolds, AtIdentify
<1> QED
  BY <1>3, <1>4

LEMMA ReceiveBeginCalmly ==
  ASSUME SessionIInv, SessionIInv', Calm, NEW disk, ReceiveBegin(disk), ~mishap'
  PROVE  Calm'
<1> DEFINE g == stored.authority.generation
           w == WithAuthority(Counted, stored.authority)
<1>0. PICK f : f = Head(socket.toWorker)
  OBVIOUS
<1> DEFINE i == f.event.instruction
<1>1. disk = "works"
  BY DEF ReceiveBegin, DiskWorks, Fault
<1>2. /\ process = "running" /\ socket.toWorker # <<>> /\ f.event.type = "begin"
      /\ UNCHANGED <<op, run, host, heard, bridge, process>>
  BY <1>0 DEF ReceiveBegin, Receive, NextEvent, hostSide
<1>3. /\ f \in ToWorker /\ Fits(f) /\ f \in Begins /\ Begins = {f}
      /\ Tail(socket.toWorker) = <<>> /\ reception = NoReception
      /\ socket.state = "up" =>
           /\ Conversation /\ WorkerTurn /\ HostTurn /\ Busy
           /\ IF worker.state = "done" THEN f.event.type = "ack" ELSE f.event = HostFrame
  BY <1>0, <1>2, FrameToRead
<1>4. CalmRecord /\ BegunIsRecorded /\ CalmStore /\ CalmWorker
  BY CalmParts
<1>5. /\ worker.state = "ready" /\ stored.acceptance = None /\ i = InstructionOf(g)
      /\ f.seq = worker.last + 1 /\ worker.accepted = None /\ ~worker.acknowledgementPending
      /\ socket.state \in {"up", "host"} /\ ~bridge.cancelled
  BY <1>2, <1>3, <1>4 DEF Fits, CalmWorker
<1>6. Recorded(i) /\ i \in StartInstruction /\ i # None
  BY <1>2, <1>3, <1>4, ToWorkerFields, InstructionIsSome DEF BegunIsRecorded
<1>7. i.dispatcherId = g /\ i.workerProcessInstanceId = TheWorker /\ i.deliveryGeneration = g
  BY <1>5 DEF InstructionOf
<1>8. /\ worker \in WorkerProtocolPeers /\ stored \in Stores /\ g \in Nat \ {0}
      /\ stored.authority \in [generation : Nat \ {0}, dispatcher : Dispatcher \cup {None}]
  BY WorkerFacts DEF Stores
<1>9. /\ Counted \in WorkerProtocolPeers /\ Counted.last = worker.last + 1
      /\ WorkerKeeps(worker, Counted, {"last"})
  BY <1>8, ReadWorkerFields DEF Counted
<1>10. /\ w \in WorkerProtocolPeers
       /\ w.generation = g /\ w.dispatcher = stored.authority.dispatcher
       /\ w.last = worker.last + 1 /\ w.seq = worker.seq /\ w.state = "ready"
       /\ w.accepted = None /\ ~w.acknowledgementPending
  <2>1. /\ w \in WorkerProtocolPeers
        /\ w.generation = g /\ w.dispatcher = stored.authority.dispatcher
        /\ WorkerKeeps(Counted, w, {"generation", "dispatcher"})
    BY <1>8, <1>9, ReadWorkerFields
  <2> QED
    BY <1>5, <1>9, <2>1 DEF WorkerKeeps
<1>11. ~Stale(w, i)
  BY <1>4, <1>7, <1>10 DEF Stale, CalmStore
<1>12. Load("works").known /\ Load("works").instruction = None /\ Restored(w, Load("works")) = w
  <2>1. Load("works").known /\ Load("works").instruction = None
    BY <1>4, <1>5 DEF Load, Loaded, CalmStore
  <2> QED
    BY <2>1 DEF Restored
<1> HIDE DEF w
<1>13. BeginStatus(w, i, "works") = "accepted"
  BY <1>7, <1>10, <1>11, <1>12 DEF BeginStatus
<1>14. /\ AfterBegin(w, i, "works") =
            [w EXCEPT !.accepted = i, !.dispatcher = i.dispatcherId, !.state = "running"]
       /\ StoredByBegin(w, i, "works").acceptance = i
       /\ ~StoredByBegin(w, i, "works").torn
       /\ StoredByBegin(w, i, "works").authority.generation = g
       /\ StoredByBegin(w, i, "works").authority.dispatcher = g
  <2>1. AfterBegin(w, i, "works") =
            [w EXCEPT !.accepted = i, !.dispatcher = i.dispatcherId, !.state = "running"]
    BY <1>13 DEF AfterBegin
  <2>2. stored.authority.dispatcher # None => stored.authority.dispatcher = g
    BY <1>4 DEF CalmStore
  <2>3. stored.authority.generation = g /\ ~stored.torn
    BY <1>4 DEF CalmStore
  <2> HIDE DEF g
  <2>4. /\ StoredByBegin(w, i, "works").acceptance = i
        /\ ~StoredByBegin(w, i, "works").torn
    BY <1>13, <2>3 DEF StoredByBegin
  <2>5. /\ StoredByBegin(w, i, "works").authority.generation = g
        /\ StoredByBegin(w, i, "works").authority.dispatcher = g
    BY <1>7, <1>10, <1>13, <2>2, <2>3 DEF StoredByBegin
  <2> QED
    BY <2>1, <2>4, <2>5
<1>15. /\ worker' = AfterBegin(w, i, "works") /\ stored' = StoredByBegin(w, i, "works")
       /\ reception' = [[NoReception EXCEPT !.start = [status |-> "accepted", instruction |-> i]]
                          EXCEPT !.active = TRUE]
       /\ socket' = [socket EXCEPT !.toWorker = Tail(@)]
  <2>1. InSequence /\ NextEvent.instruction = i
    BY <1>0, <1>5 DEF InSequence, NextEvent
  <2> QED
    BY <1>1, <1>3, <1>13, <2>1 DEF ReceiveBegin, Receive, w
<1>16. /\ worker'.accepted = i /\ worker'.state = "running"
       /\ worker'.last = worker.last + 1 /\ worker'.seq = worker.seq
       /\ ~worker'.acknowledgementPending
  <2> DEFINE n == [w EXCEPT !.accepted = i, !.dispatcher = i.dispatcherId, !.state = "running"]
  <2>2. worker' = n
    BY <1>14, <1>15
  <2>3. n.accepted = i /\ n.state = "running" /\ WorkerKeeps(w, n, {"accepted", "dispatcher", "state"})
    <3> HIDE DEF i
    <3> QED
      BY <1>10, ReadWorkerFields
  <2>1. /\ worker'.accepted = i /\ worker'.state = "running"
        /\ WorkerKeeps(w, worker', {"accepted", "dispatcher", "state"})
    BY <2>2, <2>3
  <2> QED
    BY <1>10, <2>1 DEF WorkerKeeps
<1>17. /\ stored'.acceptance = i /\ ~stored'.torn
       /\ stored'.authority.generation = g /\ stored'.authority.dispatcher = g
  BY <1>14, <1>15
<1>18. /\ reception'.active /\ ~reception'.cancel /\ reception'.observed = None
       /\ reception'.update = None
       /\ reception'.start = [status |-> "accepted", instruction |-> i]
  BY <1>15, ToldFields
<1>19. ReadBegin'
  <2>1. [status |-> "accepted", instruction |-> i] \in [status : Statuses, instruction : StartInstruction]
    BY <1>6 DEF Statuses
  <2>2. reception'.start # None
    BY <1>18, <2>1, NoneIsNoReception
  <2> QED
    BY <1>16, <1>18, <2>2 DEF ReadBegin
<1>20. ASSUME socket.state = "up"
       PROVE  /\ host.seq = Preceding + 2 /\ i = run.instruction
              /\ run.instruction.deliveryGeneration = g
  <2>1. f.event = HostFrame
    BY <1>3, <1>5, <1>20
  <2>2. host.seq = Preceding + 2
    BY <1>2, <2>1 DEF HostFrame, About
  <2>3. i = run.instruction
    BY <2>1, <2>2, CalmTypes DEF HostFrame, About, Preceding
  <2> QED
    BY <1>7, <2>2, <2>3
<1>21. ~(heard.open /\ host.seq = Preceding + 1)
  <2>1. CASE socket.state = "up"
    BY <1>20, <2>1, CalmTypes DEF Preceding
  <2>2. CASE socket.state = "host"
    BY <1>2, <1>6, <2>2, LeftOver, CalmTypes DEF Preceding, Recorded
  <2> QED
    BY <1>5, <2>1, <2>2
<1>22. BegunIsRecorded'
  <2>1. Begins' = {}
    BY <1>3, <1>8, <1>15, SocketShape DEF Begins, Carried, Sockets
  <2> QED
    BY <1>2, <1>6, <1>17, <2>1 DEF BegunIsRecorded, Recorded, Sent
<1>23. NothingBegun'
  BY <1>2, <1>21 DEF NothingBegun, Preceding
<1>24. CalmStore'
  <2>1. op.startDeliveryAuthority = i
    BY <1>6 DEF Recorded
  <2> QED
    BY <1>2, <1>4, <1>6, <1>7, <1>8, <1>17, <2>1, InstructionIsSome DEF CalmStore
<1>25. CalmWorker'
  BY <1>2, <1>4, <1>6, <1>16 DEF CalmWorker
<1>26. socket.state = "up" =>
         /\ worker.state # "new" /\ worker'.state \in {"ready", "running", "done"}
         /\ worker'.state \in {"ready", "running"} =>
              worker.state \in {"ready", "running"} /\ worker'.last = worker.last + 1
         /\ worker'.state = "ready" => worker'.last <= Preceding
         /\ worker'.state = "done" =>
              /\ worker.state = "done"
              /\ worker'.acknowledgementPending => worker.acknowledgementPending
         /\ run.recovering => stored'.authority.generation = run.instruction.deliveryGeneration
                                \/ (stored' = stored /\ (worker.last > 0 \/ worker'.last = 0))
         /\ reception'.update # None =>
              /\ host.seq = Preceding + 1
              /\ reception'.update.generation = run.instruction.deliveryGeneration
         /\ reception'.start # None =>
              host.seq = Preceding + 2 /\ reception'.start.instruction = run.instruction
         /\ reception'.observed # None =>
              /\ host.seq = Preceding + 3 /\ reception'.observed = run.instruction
              /\ worker'.state = "running"
  BY <1>5, <1>16, <1>17, <1>18, <1>20
<1>27. host.seq # Preceding + 1 \/ socket.state # "up"
  BY <1>20, CalmTypes DEF Preceding
<1> QED
  BY <1>2, <1>15, <1>16, <1>18, <1>19, <1>22, <1>23, <1>24, <1>25, <1>26, <1>27, ReadsCalmly

\* What is on disk is restored in a worker that has accepted nothing.
LEMMA RestoredFields ==
  ASSUME SessionIInv, Calm, NEW w \in WorkerProtocolPeers, w.accepted = None, w.state = "ready"
  PROVE  LET n == Restored(w, Load("works")) IN
         /\ n \in WorkerProtocolPeers /\ n.accepted = stored.acceptance
         /\ n.state = IF stored.acceptance = None THEN "ready" ELSE "running"
         /\ WorkerKeeps(w, n, {"accepted", "state"})
         /\ AcceptanceState(w, Load("works"))
              = IF stored.acceptance = None THEN "not_accepted" ELSE "accepted"
<1> DEFINE n == Restored(w, Load("works"))
           a == stored.acceptance
<1>1. Load("works").known /\ Load("works").instruction = a
  BY CalmParts DEF Load, Loaded, CalmStore
<1>2. a \in StartInstruction \cup {None}
  BY CalmTypes
<1>3. n = IF a = None THEN w ELSE [w EXCEPT !.accepted = a, !.state = "running"]
  BY <1>1 DEF Restored
<1> HIDE DEF n, a
<1>4. /\ n \in WorkerProtocolPeers /\ n.accepted = a
      /\ n.state = IF a = None THEN "ready" ELSE "running"
      /\ WorkerKeeps(w, n, {"accepted", "state"})
  <2>1. CASE a = None
    BY <1>3, <2>1 DEF WorkerKeeps
  <2>2. CASE a # None
    <3> DEFINE m == [w EXCEPT !.accepted = a, !.state = "running"]
    <3>1. /\ m.accepted = a /\ m.state = "running" /\ m \in WorkerProtocolPeers
          /\ WorkerKeeps(w, m, {"accepted", "state"})
      BY <1>2, <2>2, ReadWorkerFields
    <3>2. n = m
      BY <1>3, <2>2
    <3> QED
      BY <2>2, <3>1, <3>2
  <2> QED
    BY <2>1, <2>2
<1>5. AcceptanceState(w, Load("works")) = IF a = None THEN "not_accepted" ELSE "accepted"
  BY <1>1, <1>4 DEF AcceptanceState, n
<1> QED
  BY <1>4, <1>5 DEF n, a

LEMMA ReceiveUpdateCalmly ==
  ASSUME SessionIInv, SessionIInv', Calm, NEW disk, ReceiveUpdate(disk), ~mishap'
  PROVE  Calm'
<1>0. PICK f : f = Head(socket.toWorker)
  OBVIOUS
<1> DEFINE e == f.event
           proposed == [generation |-> e.generation, dispatcher |-> e.dispatcher]
           v == Restored(Counted, Load("works"))
           next == WithAuthority(v, proposed)
           answer == IF stored.acceptance = None THEN "not_accepted" ELSE "accepted"
           update == [generation |-> e.generation, acceptance |-> answer,
                      instruction |-> stored.acceptance]
<1>1. disk = "works"
  BY DEF ReceiveUpdate, DiskWorks, Fault
<1>2. /\ process = "running" /\ socket.toWorker # <<>> /\ e.type = "delivery_generation_update"
      /\ UNCHANGED <<op, run, host, heard, bridge, process>>
  BY <1>0 DEF ReceiveUpdate, Receive, NextEvent, hostSide
<1>3. /\ f \in ToWorker /\ Fits(f) /\ Begins = {}
      /\ Tail(socket.toWorker) = <<>> /\ reception = NoReception
      /\ socket.state \in {"up", "host", "broken"}
      /\ socket.state = "up" =>
           /\ Conversation /\ WorkerTurn /\ HostTurn /\ Busy /\ heard.open
           /\ IF worker.state = "done" THEN f.event.type = "ack" ELSE f.event = HostFrame
  BY <1>0, <1>2, FrameToRead
<1>4. BegunIsRecorded /\ NothingBegun /\ CalmStore /\ CalmWorker /\ PlaceHolds /\ CalmSession
  BY CalmParts
<1>5. /\ worker.state = "ready" /\ e.dispatcher = e.generation
      /\ e.generation >= stored.authority.generation /\ e.generation > 1
      /\ op.startDeliveryAuthority # None
      /\ e.generation <= op.startDeliveryAuthority.deliveryGeneration + 1
      /\ f.seq = worker.last + 1 /\ worker.accepted = None /\ ~worker.acknowledgementPending
      /\ ~bridge.cancelled
  BY <1>2, <1>3, <1>4 DEF Fits, CalmWorker
<1>6. /\ worker \in WorkerProtocolPeers /\ stored \in Stores
      /\ stored.authority.generation \in Nat \ {0}
      /\ e.generation \in Nat \ {0} /\ e.dispatcher \in Dispatcher
      /\ stored.acceptance \in StartInstruction \cup {None}
  BY <1>2, <1>3, WorkerFacts, ToWorkerFields, CalmTypes
<1>7. proposed \in [generation : Nat \ {0}, dispatcher : Dispatcher \cup {None}]
  BY <1>6
<1>8. /\ Counted \in WorkerProtocolPeers /\ Counted.last = worker.last + 1
      /\ WorkerKeeps(worker, Counted, {"last"})
  BY <1>6, ReadWorkerFields DEF Counted
<1>9. /\ v \in WorkerProtocolPeers /\ v.accepted = stored.acceptance
      /\ v.state = IF stored.acceptance = None THEN "ready" ELSE "running"
      /\ v.last = worker.last + 1 /\ v.seq = worker.seq /\ ~v.acknowledgementPending
  <2>1. Counted.accepted = None /\ Counted.state = "ready"
    BY <1>5, <1>8 DEF WorkerKeeps
  <2>2. /\ v \in WorkerProtocolPeers /\ v.accepted = stored.acceptance
        /\ v.state = IF stored.acceptance = None THEN "ready" ELSE "running"
        /\ WorkerKeeps(Counted, v, {"accepted", "state"})
    BY <1>8, <2>1, RestoredFields
  <2> QED
    BY <1>5, <1>8, <2>2 DEF WorkerKeeps
<1>10. AcceptanceState(worker, Load("works")) = answer
  BY <1>5, <1>6, RestoredFields
<1>11. AdmitsUpdate(e, "works")
  <2>1. InSequence
    BY <1>0, <1>5 DEF InSequence
  <2>2. e.generation = stored.authority.generation => e.dispatcher = stored.authority.dispatcher
    BY <1>4, <1>5, <1>6 DEF CalmStore
  <2> QED
    BY <1>5, <1>6, <2>1, <2>2 DEF AdmitsUpdate
<1>12. /\ next.generation = e.generation
       /\ next.accepted = stored.acceptance
       /\ next.state = IF stored.acceptance = None THEN "ready" ELSE "running"
       /\ next.last = worker.last + 1 /\ next.seq = worker.seq /\ ~next.acknowledgementPending
  <2>1. proposed.generation = e.generation
    OBVIOUS
  <2> HIDE DEF proposed, v
  <2>2. \A x \in [generation : Nat \ {0}, dispatcher : Dispatcher \cup {None}] :
          /\ WithAuthority(v, x).generation = x.generation
          /\ WorkerKeeps(v, WithAuthority(v, x), {"generation", "dispatcher"})
    BY <1>9, ReadWorkerFields
  <2>3. next.generation = proposed.generation /\ WorkerKeeps(v, next, {"generation", "dispatcher"})
    BY <1>7, <2>2
  <2> HIDE DEF next
  <2> QED
    BY <1>9, <2>1, <2>3 DEF WorkerKeeps
<1>13. /\ worker' = next /\ stored' = [stored EXCEPT !.authority = proposed]
       /\ reception' = [[NoReception EXCEPT !.update = update] EXCEPT !.active = TRUE]
       /\ socket' = [socket EXCEPT !.toWorker = Tail(@)]
  <2>1. NextEvent = e
    BY <1>0 DEF NextEvent
  <2>2. next.accepted = stored.acceptance
    BY <1>12
  <2> QED
    BY <1>1, <1>3, <1>10, <1>11, <2>1, <2>2 DEF ReceiveUpdate, Receive
<1>14. /\ stored'.acceptance = stored.acceptance /\ stored'.torn = stored.torn
       /\ stored'.authority.generation = e.generation
       /\ stored'.authority.dispatcher = e.generation
  <2>1. stored'.acceptance = stored.acceptance /\ stored'.torn = stored.torn
        /\ stored'.authority = proposed
    BY <1>6, <1>13 DEF Stores
  <2> QED
    BY <1>5, <2>1
<1>15. /\ reception'.active /\ ~reception'.cancel /\ reception'.observed = None
       /\ reception'.start = None /\ reception'.update = update
  <2> HIDE DEF update
  <2> QED
    BY <1>13, ToldFields
<1>16. /\ worker'.generation = e.generation /\ worker'.accepted = stored.acceptance
       /\ worker'.state = IF stored.acceptance = None THEN "ready" ELSE "running"
       /\ worker'.last = worker.last + 1 /\ worker'.seq = worker.seq
       /\ ~worker'.acknowledgementPending
  <2> HIDE DEF next
  <2> QED
    BY <1>12, <1>13
<1>17. update \in [generation : Nat \ {0}, acceptance : AcceptanceStates,
                   instruction : StartInstruction \cup {None}]
  BY <1>6 DEF AcceptanceStates
<1>18. /\ update # None /\ update.generation = e.generation
       /\ update.acceptance = answer /\ update.instruction = stored.acceptance
  BY <1>17, NoneIsNoReception
<1> HIDE DEF update, next, v, proposed
<1>19. ReadUpdate'
  BY <1>5, <1>14, <1>15, <1>16, <1>18 DEF ReadUpdate
<1>20. /\ worker.last \in Nat /\ host.seq \in Nat /\ Preceding \in {0, 1}
       /\ op.startDeliveryAuthority.deliveryGeneration \in Nat \ {0}
  BY <1>5, CalmTypes, InstructionIsSome DEF Preceding
<1>21. ASSUME socket.state = "up"
       PROVE  /\ host.seq = Preceding + 1 /\ run.instruction.deliveryGeneration = e.generation
              /\ run.recovering /\ worker.last + 1 <= Preceding
  <2>1. f.event = HostFrame
    BY <1>3, <1>5, <1>21
  <2>2. host.seq = Preceding + 1
    BY <1>2, <2>1 DEF HostFrame, About
  <2>3. run.instruction.deliveryGeneration = e.generation
    BY <2>1, <2>2 DEF HostFrame
  <2>4. host.seq = worker.last + 2
    BY <1>2, <1>3, <1>5, <1>21 DEF WorkerTurn
  <2> QED
    BY <1>20, <2>2, <2>3, <2>4 DEF Preceding
<1>22. BegunIsRecorded'
  <2>1. Begins' = {}
    BY <1>3, <1>13, SocketShape DEF Begins, Carried, Sockets
  <2> QED
    BY <1>2, <1>3, <1>4, <1>14, <2>1 DEF BegunIsRecorded, Recorded, Sent
<1>23. NothingBegun'
  BY <1>2, <1>4, <1>14 DEF NothingBegun, Preceding
<1>24. ~run.recovering => run.at \in {"down", "ended"}
  <2>1. CASE socket.state = "up"
    BY <1>21, <2>1
  <2>2. CASE socket.state # "up"
    BY <1>2, <1>3, <1>5, <2>2, LeftOver
  <2> QED
    BY <2>1, <2>2
<1>25. CalmStore'
  <2>1. ~stored'.torn
    BY <1>4, <1>14 DEF CalmStore
  <2>2. /\ stored'.authority.dispatcher \in {None, stored'.authority.generation}
        /\ stored'.authority.dispatcher # None
    BY <1>5, <1>6, <1>14, NoneIsNoValue
  <2>3. IF op'.startDeliveryAuthority = None THEN stored'.authority.generation = 1
        ELSE stored'.authority.generation <= op'.startDeliveryAuthority.deliveryGeneration + 1
    BY <1>2, <1>5, <1>14
  <2>4. ~(~run'.recovering /\ run'.at \notin {"down", "ended"})
    BY <1>2, <1>24
  <2> QED
    BY <2>1, <2>2, <2>3, <2>4 DEF CalmStore
<1>26. CalmWorker'
  BY <1>2, <1>4, <1>5, <1>16 DEF CalmWorker
<1>27. socket.state = "up" =>
         /\ worker.state # "new" /\ worker'.state \in {"ready", "running", "done"}
         /\ worker'.state \in {"ready", "running"} =>
              worker.state \in {"ready", "running"} /\ worker'.last = worker.last + 1
         /\ worker'.state = "ready" => worker'.last <= Preceding
         /\ worker'.state = "done" =>
              /\ worker.state = "done"
              /\ worker'.acknowledgementPending => worker.acknowledgementPending
         /\ run.recovering => stored'.authority.generation = run.instruction.deliveryGeneration
                                \/ (stored' = stored /\ (worker.last > 0 \/ worker'.last = 0))
         /\ reception'.update # None =>
              /\ host.seq = Preceding + 1
              /\ reception'.update.generation = run.instruction.deliveryGeneration
         /\ reception'.start # None =>
              host.seq = Preceding + 2 /\ reception'.start.instruction = run.instruction
         /\ reception'.observed # None =>
              /\ host.seq = Preceding + 3 /\ reception'.observed = run.instruction
              /\ worker'.state = "running"
  BY <1>5, <1>14, <1>15, <1>16, <1>18, <1>21
<1>28. /\ worker'.seq = worker.seq /\ stored'.acceptance = stored.acceptance
       /\ (ReadBegin \/ ReadObservation \/ ReadUpdate \/ ReadAcknowledgement)'
       /\ reception'.active /\ ~reception'.cancel
  BY <1>14, <1>15, <1>16, <1>19
<1> QED
  BY <1>2, <1>13, <1>22, <1>23, <1>25, <1>26, <1>27, <1>28, ReadsCalmly

LEMMA ReceiveObservationCalmly ==
  ASSUME SessionIInv, SessionIInv', Calm, ReceiveObservation
  PROVE  Calm'
<1>0. PICK f : f = Head(socket.toWorker)
  OBVIOUS
<1> DEFINE i == f.event.instruction
<1>1. /\ process = "running" /\ socket.toWorker # <<>> /\ f.event.type = "begin_acceptance_observed"
      /\ UNCHANGED <<op, run, host, heard, bridge, process, stored>>
  BY <1>0 DEF ReceiveObservation, Receive, NextEvent, hostSide
<1>2. /\ f \in ToWorker /\ Fits(f) /\ Begins = {}
      /\ Tail(socket.toWorker) = <<>> /\ reception = NoReception
      /\ socket.state = "up" =>
           /\ Conversation /\ WorkerTurn /\ HostTurn /\ Busy
           /\ IF worker.state = "done" THEN f.event.type = "ack" ELSE f.event = HostFrame
  BY <1>0, <1>1, FrameToRead
<1>3. BegunIsRecorded /\ NothingBegun /\ CalmStore /\ CalmWorker
  BY CalmParts
<1>4. /\ worker.accepted = i /\ i # None /\ f.seq = worker.last + 1
      /\ worker.state \notin {"new", "ready"}
  BY <1>1, <1>2, <1>3, ToWorkerFields, InstructionIsSome DEF Fits, CalmWorker
<1>5. /\ Counted \in WorkerProtocolPeers /\ Counted.last = worker.last + 1
      /\ WorkerKeeps(worker, Counted, {"last"})
  BY WorkerFacts, ReadWorkerFields DEF Counted
<1>6. Restored(Counted, Load("works")) = Counted
  BY <1>4, <1>5 DEF Restored, WorkerKeeps
<1>7. /\ worker' = Counted
      /\ reception' = [[NoReception EXCEPT !.observed = i] EXCEPT !.active = TRUE]
      /\ socket' = [socket EXCEPT !.toWorker = Tail(@)]
  <2>1. InSequence /\ NextEvent.instruction = i /\ Counted.accepted = i
    BY <1>0, <1>4, <1>5 DEF InSequence, NextEvent, WorkerKeeps
  <2> QED
    BY <1>2, <1>6, <2>1 DEF ReceiveObservation, Receive
<1>8. /\ worker'.accepted = i /\ worker'.state = worker.state
      /\ worker'.last = worker.last + 1 /\ worker'.seq = worker.seq
      /\ worker'.acknowledgementPending = worker.acknowledgementPending
  BY <1>4, <1>5, <1>7 DEF WorkerKeeps
<1>9. /\ reception'.active /\ ~reception'.cancel /\ reception'.observed = i
      /\ reception'.start = None /\ reception'.update = None
  BY <1>7, ToldFields
<1>10. ReadObservation'
  BY <1>4, <1>8, <1>9 DEF ReadObservation
<1>11. ASSUME socket.state = "up"
       PROVE  /\ host.seq = Preceding + 3 /\ i = run.instruction /\ worker.state = "running"
  <2>1. f.event = HostFrame /\ worker.state # "done"
    BY <1>1, <1>2, <1>11
  <2>2. worker.state = "running"
    BY <1>2, <1>4, <1>11, <2>1 DEF WorkerTurn
  <2>3. host.seq # Preceding + 1 /\ host.seq # Preceding + 2 /\ i = run.instruction
    BY <1>1, <2>1 DEF HostFrame, About
  <2>4. host.seq \in 1 .. Preceding + 3 /\ host.seq # 1
    <3>1. host.seq = worker.last + 2
      BY <1>1, <1>2, <1>11, <2>2 DEF WorkerTurn
    <3> QED
      BY <1>2, <1>11, <3>1, CalmTypes DEF HostTurn
  <2> QED
    BY <2>2, <2>3, <2>4 DEF Preceding
<1>12. BegunIsRecorded'
  <2>1. Begins' = {}
    BY <1>2, <1>7, SocketShape DEF Begins, Carried, Sockets
  <2> QED
    BY <1>1, <1>2, <1>3, <2>1 DEF BegunIsRecorded, Recorded, Sent
<1>13. NothingBegun' /\ CalmStore'
  BY <1>1, <1>3 DEF NothingBegun, Preceding, CalmStore
<1>14. CalmWorker'
  BY <1>1, <1>3, <1>4, <1>8 DEF CalmWorker
<1>15. socket.state = "up" =>
         /\ worker.state # "new" /\ worker'.state \in {"ready", "running", "done"}
         /\ worker'.state \in {"ready", "running"} =>
              worker.state \in {"ready", "running"} /\ worker'.last = worker.last + 1
         /\ worker'.state = "ready" => worker'.last <= Preceding
         /\ worker'.state = "done" =>
              /\ worker.state = "done"
              /\ worker'.acknowledgementPending => worker.acknowledgementPending
         /\ run.recovering => stored'.authority.generation = run.instruction.deliveryGeneration
                                \/ (stored' = stored /\ (worker.last > 0 \/ worker'.last = 0))
         /\ reception'.update # None =>
              /\ host.seq = Preceding + 1
              /\ reception'.update.generation = run.instruction.deliveryGeneration
         /\ reception'.start # None =>
              host.seq = Preceding + 2 /\ reception'.start.instruction = run.instruction
         /\ reception'.observed # None =>
              /\ host.seq = Preceding + 3 /\ reception'.observed = run.instruction
              /\ worker'.state = "running"
  <2>1. socket.state = "up" => worker.last > 0
    BY <1>2, <1>11 DEF WorkerTurn
  <2> QED
    BY <1>1, <1>8, <1>9, <1>11, <2>1
<1>16. /\ worker'.seq = worker.seq /\ stored'.acceptance = stored.acceptance
       /\ (ReadBegin \/ ReadObservation \/ ReadUpdate \/ ReadAcknowledgement)'
       /\ reception'.active /\ ~reception'.cancel
  BY <1>1, <1>8, <1>9, <1>10
<1> QED
  BY <1>1, <1>7, <1>12, <1>13, <1>14, <1>15, <1>16, ReadsCalmly

LEMMA ReceiveAcknowledgementCalmly ==
  ASSUME SessionIInv, SessionIInv', Calm, ReceiveAcknowledgement
  PROVE  Calm'
<1>0. PICK f : f = Head(socket.toWorker)
  OBVIOUS
<1> DEFINE p == f.event.proof
<1>1. /\ process = "running" /\ socket.toWorker # <<>> /\ f.event.type = "ack"
      /\ UNCHANGED <<op, run, host, heard, bridge, process, stored>>
  BY <1>0 DEF ReceiveAcknowledgement, Receive, NextEvent, hostSide
<1>2. /\ f \in ToWorker /\ Fits(f) /\ Begins = {}
      /\ Tail(socket.toWorker) = <<>> /\ reception = NoReception
      /\ socket.state = "up" => Conversation /\ WorkerTurn
  BY <1>0, <1>1, FrameToRead
<1>3. BegunIsRecorded /\ NothingBegun /\ CalmStore /\ CalmWorker
  BY CalmParts
<1>4. worker.state = "done" /\ worker.acknowledgementPending
  BY <1>1, <1>2 DEF Fits
<1>5. /\ worker' = [worker EXCEPT !.acknowledgementPending = FALSE, !.acknowledged = p]
      /\ reception' = [NoReception EXCEPT !.active = TRUE]
      /\ socket' = [socket EXCEPT !.toWorker = Tail(@)]
  <2>1. AdmitsAcknowledgement(worker, p) /\ NextEvent.proof = p
    BY <1>0, <1>4 DEF AdmitsAcknowledgement, NextEvent
  <2> QED
    BY <1>2, <2>1 DEF ReceiveAcknowledgement, Receive
<1>6. /\ worker'.accepted = worker.accepted /\ worker'.state = "done"
      /\ worker'.last = worker.last /\ worker'.seq = worker.seq /\ ~worker'.acknowledgementPending
  <2> HIDE DEF p
  <2> DEFINE n == [worker EXCEPT !.acknowledgementPending = FALSE, !.acknowledged = p]
  <2>1. worker' = n
    BY <1>5
  <2>2. ~n.acknowledgementPending /\ WorkerKeeps(worker, n, {"pending", "acknowledged"})
    BY WorkerFacts, ReadWorkerFields
  <2> HIDE DEF n
  <2> QED
    BY <1>4, <2>1, <2>2 DEF WorkerKeeps
<1>7. /\ reception'.active /\ ~reception'.cancel /\ reception'.observed = None
      /\ reception'.start = None /\ reception'.update = None
  BY <1>5, ToldFields
<1>8. ReadAcknowledgement'
  BY <1>6, <1>7 DEF ReadAcknowledgement
<1>9. BegunIsRecorded'
  <2>1. Begins' = {}
    BY <1>2, <1>5, SocketShape DEF Begins, Carried, Sockets
  <2> QED
    BY <1>1, <1>2, <1>3, <2>1 DEF BegunIsRecorded, Recorded, Sent
<1>10. NothingBegun' /\ CalmStore'
  BY <1>1, <1>3 DEF NothingBegun, Preceding, CalmStore
<1>11. CalmWorker'
  BY <1>1, <1>3, <1>4, <1>6 DEF CalmWorker
<1>12. worker.last = 0 \/ worker.last > 0
  BY CalmTypes
<1>13. socket.state = "up" =>
         /\ worker.state # "new" /\ worker'.state \in {"ready", "running", "done"}
         /\ worker'.state \in {"ready", "running"} =>
              worker.state \in {"ready", "running"} /\ worker'.last = worker.last + 1
         /\ worker'.state = "ready" => worker'.last <= Preceding
         /\ worker'.state = "done" =>
              /\ worker.state = "done"
              /\ worker'.acknowledgementPending => worker.acknowledgementPending
         /\ run.recovering => stored'.authority.generation = run.instruction.deliveryGeneration
                                \/ (stored' = stored /\ (worker.last > 0 \/ worker'.last = 0))
         /\ reception'.update # None =>
              /\ host.seq = Preceding + 1
              /\ reception'.update.generation = run.instruction.deliveryGeneration
         /\ reception'.start # None =>
              host.seq = Preceding + 2 /\ reception'.start.instruction = run.instruction
         /\ reception'.observed # None =>
              /\ host.seq = Preceding + 3 /\ reception'.observed = run.instruction
              /\ worker'.state = "running"
  BY <1>1, <1>4, <1>6, <1>7, <1>12
<1>14. /\ worker'.seq = worker.seq /\ stored'.acceptance = stored.acceptance
       /\ (ReadBegin \/ ReadObservation \/ ReadUpdate \/ ReadAcknowledgement)'
       /\ reception'.active /\ ~reception'.cancel
  BY <1>1, <1>6, <1>7, <1>8
<1> QED
  BY <1>1, <1>5, <1>9, <1>10, <1>11, <1>13, <1>14, ReadsCalmly

LEMMA NoCancelIsRead == ASSUME SessionIInv, Calm, ReceiveCancel PROVE FALSE
<1>1. PICK f : f = Head(socket.toWorker)
  OBVIOUS
<1>2. socket.toWorker # <<>> /\ f.event.type = "cancel"
  BY <1>1 DEF ReceiveCancel, Receive, NextEvent
<1> QED
  BY <1>1, <1>2, FrameToRead DEF Fits

\* What is written reaches an open connection only.
LEMMA WrittenFields ==
  ASSUME SessionIInv, NEW frames \in Seq(ToHost), socket' = WrittenToHost(frames)
  PROVE  /\ socket'.toWorker = socket.toWorker
         /\ socket'.state = socket.state \/ (socket.state = "host" /\ socket'.state = "broken")
         /\ socket.state \in {"none", "worker"} => socket' = socket
         /\ socket.state = "up" =>
              /\ socket'.state = "up"
              /\ Len(socket'.toHost) = Len(socket.toHost) + Len(frames)
              /\ \A n \in 1 .. Len(socket'.toHost) :
                   socket'.toHost[n] = IF n <= Len(socket.toHost) THEN socket.toHost[n]
                                       ELSE frames[n - Len(socket.toHost)]
<1>1. socket \in Sockets /\ socket.toHost \in Seq(ToHost)
  BY SocketFields DEF SessionIInv, SessionTypeOK
<1>2. CASE frames = <<>>
  <2>1. socket' = socket /\ Len(frames) = 0
    BY <1>2 DEF WrittenToHost
  <2> QED
    BY <1>1, <2>1
<1>3. CASE frames # <<>> /\ socket.state = "up"
  <2>1. socket' = [socket EXCEPT !.toHost = @ \o frames]
    BY <1>3 DEF WrittenToHost
  <2>2. /\ socket'.toHost = socket.toHost \o frames
        /\ socket'.state = "up" /\ socket'.toWorker = socket.toWorker
    BY <1>1, <1>3, <2>1 DEF Sockets
  <2>3. \A s, t \in Seq(ToHost) :
          /\ Len(s \o t) = Len(s) + Len(t)
          /\ \A n \in 1 .. Len(s \o t) : (s \o t)[n] = IF n <= Len(s) THEN s[n] ELSE t[n - Len(s)]
    OBVIOUS
  <2> QED
    BY <1>1, <1>3, <2>2, <2>3
<1>4. CASE frames # <<>> /\ socket.state = "host"
  <2>1. socket' = [socket EXCEPT !.state = "broken"]
    BY <1>4 DEF WrittenToHost
  <2> QED
    BY <1>1, <1>4, <2>1 DEF Sockets
<1>5. CASE frames # <<>> /\ socket.state \notin {"up", "host"}
  BY <1>1, <1>5 DEF WrittenToHost
<1> QED
  BY <1>2, <1>3, <1>4, <1>5

\* A number up to those written is no greater than the last.
LEMMA BeforeTheLast ==
  ASSUME NEW l \in Nat, NEW s \in Nat, NEW w \in Nat, NEW k \in Nat, NEW n \in Nat,
         w = l + k + 1, w <= s + 2, n <= k
  PROVE  l + n <= s + 1
OBVIOUS

\* Frames that continue what the worker has written, from the number seq on.
NextFramesFrom(seq, frames) ==
  \A n \in 1 .. Len(frames) : frames[n].seq = seq + n - 1 /\ Expected(frames[n])'

NextFrames(frames) == NextFramesFrom(worker.seq, frames)

\* The bridge writes, and has read nothing that it has not answered.
LEMMA TurnCalmly ==
  ASSUME SessionIInv, SessionIInv', Calm,
         UNCHANGED <<op, run, host, heard, stored, process>>,
         bridge'.stopped = bridge.stopped, CalmWorker', worker'.last = worker.last,
         reception' = NoReception,
         NEW frames \in Seq(ToHost), socket' = WrittenToHost(frames),
         \A f \in Carried(socket.toWorker) : Fits(f)',
         socket.state = "up" =>
           /\ socket.toWorker = <<>> /\ worker.seq <= host.seq + 2
           /\ worker'.seq = worker.seq + Len(frames) /\ NextFrames(frames)
           /\ worker'.state \in {"ready", "running", "done"}
           /\ worker'.state \in {"ready", "running"} =>
                host.seq = worker.last + 1 /\ worker'.seq = host.seq + 2
           /\ worker'.state = "ready" => worker.last <= Preceding
           /\ worker'.state = "running" => worker.last > 0
           /\ worker'.state = "done" =>
                /\ host.seq = Preceding + 3 \/ (run.recovering /\ host.seq = 2)
                /\ worker'.seq \in {host.seq + 3, host.seq + 6}
                /\ worker'.acknowledgementPending <=> worker'.seq = host.seq + 6
  PROVE  Calm'
<1>1. /\ BegunIsRecorded /\ NothingBegun /\ CalmStore /\ CalmWorker /\ CalmFrames /\ CalmReception
      /\ CalmLeaving /\ CalmSession /\ (socket.state = "up" => Conversation)
  BY CalmParts
<1>2. /\ socket'.toWorker = socket.toWorker
      /\ socket'.state = socket.state \/ (socket.state = "host" /\ socket'.state = "broken")
      /\ socket.state \in {"none", "worker"} => socket' = socket
      /\ socket.state = "up" =>
           /\ socket'.state = "up"
           /\ Len(socket'.toHost) = Len(socket.toHost) + Len(frames)
           /\ \A n \in 1 .. Len(socket'.toHost) :
                socket'.toHost[n] = IF n <= Len(socket.toHost) THEN socket.toHost[n]
                                    ELSE frames[n - Len(socket.toHost)]
  BY WrittenFields
<1>3. CalmRecord' /\ PlaceHolds' /\ CalmHost'
  BY HostSideStays
<1>4. Carried(socket.toWorker)' = Carried(socket.toWorker) /\ Begins' = Begins
  BY <1>2 DEF Carried, Begins
<1>5. BegunIsRecorded' /\ NothingBegun' /\ CalmStore'
  BY <1>1, <1>4 DEF BegunIsRecorded, Recorded, Sent, NothingBegun, Preceding, CalmStore
<1>6. CalmFrames'
  <2>1. socket'.state \in {"none", "worker"} => socket' = socket
    BY <1>2
  <2>2. Len(socket'.toWorker) <= 1
    BY <1>1, <1>2, Zenon DEF CalmFrames
  <2> QED
    BY <1>1, <1>4, <2>1, <2>2 DEF CalmFrames
<1>7. ~reception'.active /\ ~reception'.cancel
      /\ reception'.start = None /\ reception'.observed = None /\ reception'.update = None
  BY DEF NoReception
<1>8. CalmReception'
  BY <1>7 DEF CalmReception
<1>9. CalmLeaving' /\ CalmSession'
  BY <1>1, <1>2, <1>7 DEF CalmLeaving, CalmSession
<1>10. ASSUME socket.state = "up"
       PROVE  Conversation'
  <2>1. /\ worker.last \in Nat /\ worker.seq \in Nat /\ host.seq \in Nat /\ host.last \in Nat
        /\ Preceding \in {0, 1} /\ Len(frames) \in Nat /\ Len(socket.toHost) \in Nat
    <3>1. socket.toHost \in Seq(ToHost)
      BY SocketFields DEF SessionIInv, SessionTypeOK
    <3>2. \A s \in Seq(ToHost) : Len(s) \in Nat
      OBVIOUS
    <3> QED
      BY <3>1, <3>2, CalmTypes DEF Preceding
  <2>2. WorkerTurn /\ Conversation
    BY <1>1, <1>10 DEF Conversation
  <2>3. worker.seq = host.last + Len(socket.toHost) + 1
    BY <2>2 DEF WorkerTurn
  <2>4. ~Busy' /\ socket'.toWorker = <<>> /\ Carried(socket.toWorker)' = {}
    <3>1. Carried(<<>>) = {}
      BY DEF Carried
    <3> QED
      BY <1>2, <1>7, <1>10, <3>1 DEF Busy, Carried
  <2>5. WorkerTurn'
    <3>1. worker'.seq = host'.last + Len(socket'.toHost) + 1
      BY <1>2, <1>10, <2>1, <2>3
    <3>2. worker'.state \in {"ready", "running"} =>
            /\ host'.seq = worker'.last + (IF socket'.toWorker = <<>> THEN 1 ELSE 2)
            /\ worker'.seq = host'.seq + (IF Busy' THEN 1 ELSE 2)
      BY <1>10, <2>4
    <3>3. worker'.state = "ready" => worker'.last <= Preceding'
      BY <1>10 DEF Preceding
    <3>4. worker'.state = "done" =>
            /\ host'.seq = Preceding' + 3 \/ (run'.recovering /\ host'.seq = 2)
            /\ worker'.seq \in {host'.seq + 3, host'.seq + 6}
            /\ worker'.acknowledgementPending => worker'.seq = host'.seq + 6
            /\ worker'.seq = host'.seq + 6 =>
                 worker'.acknowledgementPending \/ host'.acknowledged # None
            /\ Busy' => host'.acknowledged # None
            /\ heard'.completed /\ host'.last = host'.seq + 2 => worker'.seq = host'.seq + 3
      <4>1. host.last <= host.seq + 1
        BY <1>10, <2>1, <2>3
      <4>2. host.last # host.seq + 2
        BY <2>1, <4>1
      <4> QED
        BY <1>10, <2>4, <4>2 DEF Preceding
    <3> QED
      BY <1>10, <3>1, <3>2, <3>3, <3>4 DEF WorkerTurn
  <2>6. ASSUME NEW n \in 1 .. Len(socket'.toHost)
        PROVE  socket'.toHost[n].seq = host'.last + n /\ Expected(socket.toHost[n])'
    <3>0. n \in Nat /\ n >= 1 /\ n <= Len(socket.toHost) + Len(frames)
      BY <1>2, <1>10, <2>1
    <3>9. worker.seq <= host.seq + 2
      BY <1>10
    <3>1. CASE n <= Len(socket.toHost)
      <4>1. PICK f : f = socket.toHost[n]
        OBVIOUS
      <4>2. f.seq = host.last + n /\ Expected(f) /\ socket'.toHost[n] = f
        BY <1>2, <1>10, <2>1, <2>2, <3>1, <4>1 DEF Conversation
      <4>3. f.seq <= host.seq + 1
        <5>1. host.last + n <= host.seq + 1
          <6>1. n <= Len(socket.toHost) /\ worker.seq <= host.seq + 2
            BY <3>1, <3>9
          <6> QED
            BY <2>1, <2>3, <3>0, <6>1, BeforeTheLast, SMTT(30)
        <5> QED
          BY <4>2, <5>1
      <4>4. /\ f.seq # host.seq + 2 /\ f.seq # host.seq + 3
            /\ f.seq # host.seq + 4 /\ f.seq # host.seq + 5
        <5>1. f.seq \in Nat
          BY <2>1, <3>0, <4>2
        <5> QED
          BY <2>1, <4>3, <5>1
      <4>5. Expected(f)'
        BY <4>2, <4>4 DEF Expected, IsAnswer, Preceding
      <4> QED
        BY <4>2, <4>5
    <3>2. CASE n > Len(socket.toHost)
      <4>1. PICK k : k = n - Len(socket.toHost)
        OBVIOUS
      <4>2. k \in 1 .. Len(frames) /\ socket'.toHost[n] = frames[k]
        <5>1. k \in 1 .. Len(frames) /\ ~(n <= Len(socket.toHost))
          BY <2>1, <3>0, <3>2, <4>1
        <5> QED
          BY <1>2, <1>10, <4>1, <5>1
      <4>3. frames[k].seq = worker.seq + k - 1 /\ Expected(frames[k])'
        BY <1>10, <4>2 DEF NextFrames, NextFramesFrom
      <4>4. frames[k].seq = host.last + n
        <5>1. worker.seq + k - 1 = host.last + n
          BY <2>1, <2>3, <3>0, <4>1
        <5> QED
          BY <4>3, <5>1
      <4> QED
        BY <4>2, <4>3, <4>4
    <3> QED
      BY <2>1, <3>0, <3>1, <3>2
  <2>7. run'.recovering /\ worker'.last > 0 =>
          stored'.authority.generation = run'.instruction.deliveryGeneration
    BY <2>2 DEF Conversation
  <2> QED
    BY <1>7, <2>4, <2>5, <2>6, <2>7 DEF Conversation
<1>11. socket'.state = "up" => socket.state = "up"
  BY <1>2
<1> QED
  BY <1>3, <1>5, <1>6, <1>8, <1>9, <1>10, <1>11 DEF Calm

\* What a send makes of the worker's peer.
LEMMA SendFields ==
  ASSUME NEW w \in WorkerProtocolPeers, NEW e, e.type # "result"
  PROVE  /\ FramesOf(w, e) = <<[seq |-> w.seq, event |-> e]>>
         /\ LET v == AfterSend(w, e) IN
            /\ v.seq = w.seq + 1 /\ WorkerKeeps(w, v, {"seq", "state"})
            /\ v.state = IF e.type = "hello" THEN "identified"
                         ELSE IF e.type = "started" THEN "ready"
                         ELSE IF e.type \in {"failed", "done", "cancelled"} THEN "done"
                         ELSE w.state
<1> DEFINE v == [w EXCEPT !.seq = @ + 1]
<1>1. FramesOf(w, e) = <<[seq |-> w.seq, event |-> e]>>
  BY DEF FramesOf, Frame
<1>2. Len(<<[seq |-> w.seq, event |-> e]>>) = 1
  OBVIOUS
<1>3. Numbered(w, Len(FramesOf(w, e))) = v
  BY <1>1, <1>2 DEF Numbered
<1>4. /\ v.seq = w.seq + 1 /\ WorkerKeeps(w, v, {"seq"}) /\ v \in WorkerProtocolPeers
  BY SMTT(30) DEF WorkerProtocolPeers, WorkerKeeps
<1> HIDE DEF v
<1>5. \A s : LET u == [v EXCEPT !.state = s] IN u.state = s /\ WorkerKeeps(v, u, {"state"})
  BY <1>4, SMTT(30) DEF WorkerProtocolPeers, WorkerKeeps
<1>6. CASE e.type = "hello"
  <2>1. AfterSend(w, e) = [v EXCEPT !.state = "identified"]
    BY <1>3, <1>6 DEF AfterSend
  <2> QED
    BY <1>1, <1>4, <1>5, <1>6, <2>1 DEF WorkerKeeps
<1>7. CASE e.type = "started"
  <2>1. AfterSend(w, e) = [v EXCEPT !.state = "ready"]
    BY <1>3, <1>7 DEF AfterSend
  <2> QED
    BY <1>1, <1>4, <1>5, <1>7, <2>1 DEF WorkerKeeps
<1>8. CASE e.type \in {"failed", "done", "cancelled"}
  <2>1. AfterSend(w, e) = [v EXCEPT !.state = "done"]
    BY <1>3, <1>8 DEF AfterSend
  <2> QED
    BY <1>1, <1>4, <1>5, <1>8, <2>1 DEF WorkerKeeps
<1>9. CASE e.type \notin {"hello", "started", "failed", "done", "cancelled"}
  <2>1. AfterSend(w, e) = v
    BY <1>3, <1>9 DEF AfterSend
  <2> QED
    BY <1>1, <1>4, <1>9, <2>1 DEF WorkerKeeps
<1> QED
  BY <1>6, <1>7, <1>8, <1>9

LEMMA SendResultFields ==
  ASSUME NEW w \in WorkerProtocolPeers, NEW r
  PROVE  LET e == [type |-> "result", result |-> r]
             v == AfterSend(w, e)
         IN
         /\ FramesOf(w, e) =
              << [seq |-> w.seq,     event |-> [type |-> "result_begin", digest |-> r]],
                 [seq |-> w.seq + 1, event |-> [type |-> "result_chunk", payload |-> r]],
                 [seq |-> w.seq + 2, event |-> [type |-> "result_commit", digest |-> r]] >>
         /\ v.seq = w.seq + 3 /\ v.state = "delivering" /\ v.acknowledgementPending
         /\ v \in WorkerProtocolPeers
         /\ WorkerKeeps(w, v, {"seq", "state", "pending"})
<1> DEFINE e == [type |-> "result", result |-> r]
           frames == << [seq |-> w.seq,     event |-> [type |-> "result_begin", digest |-> r]],
                        [seq |-> w.seq + 1, event |-> [type |-> "result_chunk", payload |-> r]],
                        [seq |-> w.seq + 2, event |-> [type |-> "result_commit", digest |-> r]] >>
           v == [w EXCEPT !.seq = @ + 3]
           u == [v EXCEPT !.state = "delivering", !.acknowledgementPending = TRUE]
<1>1. FramesOf(w, e) = frames
  <2>1. Numbered(w, 1).seq = w.seq + 1 /\ Numbered(w, 2).seq = w.seq + 2
    BY DEF Numbered, WorkerProtocolPeers
  <2> QED
    BY <2>1 DEF FramesOf, Frame
<1>2. Len(frames) = 3
  OBVIOUS
<1> HIDE DEF frames
<1>3. Numbered(w, Len(FramesOf(w, e))) = v
  BY <1>1, <1>2 DEF Numbered
<1>4. AfterSend(w, e) = u
  BY <1>3 DEF AfterSend
<1>5. v.seq = w.seq + 3 /\ WorkerKeeps(w, v, {"seq"}) /\ v \in WorkerProtocolPeers
  BY SMTT(30) DEF WorkerProtocolPeers, WorkerKeeps
<1> HIDE DEF v
<1>6. /\ u.state = "delivering" /\ u.acknowledgementPending /\ WorkerKeeps(v, u, {"state", "pending"})
      /\ u \in WorkerProtocolPeers
  <2>1. /\ u.state = "delivering" /\ u.acknowledgementPending
        /\ WorkerKeeps(v, u, {"state", "pending"})
    BY <1>5, SMTT(30) DEF WorkerProtocolPeers, WorkerKeeps
  <2>2. u \in WorkerProtocolPeers
    <3> DEFINE m == [v EXCEPT !.state = "delivering"]
    <3>1. m \in WorkerProtocolPeers
      BY <1>5 DEF WorkerProtocolPeers
    <3>2. u = [m EXCEPT !.acknowledgementPending = TRUE]
      OBVIOUS
    <3> HIDE DEF m, u
    <3> QED
      BY <3>1, <3>2 DEF WorkerProtocolPeers
  <2> QED
    BY <2>1, <2>2
<1> HIDE DEF u
<1>7. u.seq = w.seq + 3 /\ WorkerKeeps(w, u, {"seq", "state", "pending"})
  BY <1>5, <1>6 DEF WorkerKeeps
<1> QED
  BY <1>1, <1>4, <1>6, <1>7 DEF frames

\* A worker that has not introduced itself is sent nothing.
LEMMA NewWorkerFields ==
  ASSUME SessionIInv, Calm, worker.state = "new", socket.state # "none"
  PROVE  /\ socket.toWorker = <<>> /\ worker.accepted = None /\ ~worker.acknowledgementPending
         /\ socket.state = "up" =>
              worker = FreshWorker /\ host.seq = 1 /\ host.last = 0 /\ ~Busy
<1>1. CalmFrames /\ CalmWorker /\ (socket.state = "up" => Conversation)
  BY CalmParts
<1>2. worker.accepted = None /\ ~worker.acknowledgementPending
  BY <1>1 DEF CalmWorker
<1>3. ASSUME NEW f \in Carried(socket.toWorker)
      PROVE  FALSE
  <2>1. f \in ToWorker
    BY WorkerFacts, CarriedFrames, SocketFields DEF SocketOK
  <2>2. Fits(f)
    BY <1>1 DEF CalmFrames
  <2>3. f.event.type = "begin_acceptance_observed" => f.event.instruction # None
    BY <2>1, ToWorkerFields, InstructionIsSome
  <2>4. f.event.type \in {"begin", "begin_acceptance_observed", "delivery_generation_update",
                          "cancel", "ack"}
    BY <2>1, SMTT(30) DEF ToWorker
  <2> QED
    BY <1>2, <2>2, <2>3, <2>4 DEF Fits
<1>4. socket.toWorker = <<>>
  <2>1. socket.toWorker \in Seq(ToWorker)
    BY WorkerFacts, SocketFields DEF SocketOK
  <2> QED
    BY <1>3, <2>1, CarriedFrames
<1>5. ASSUME socket.state = "up"
      PROVE  worker = FreshWorker /\ host.seq = 1 /\ host.last = 0 /\ ~Busy
  <2>1. /\ worker = FreshWorker /\ host.seq = 1 /\ ~Busy
        /\ worker.seq = host.last + Len(socket.toHost) + 1
    BY <1>1, <1>5 DEF Conversation, WorkerTurn
  <2>2. worker.seq = 1
    BY <2>1 DEF FreshWorker
  <2>3. Len(socket.toHost) \in Nat
    <3>1. socket.toHost \in Seq(ToHost)
      BY WorkerFacts, SocketFields DEF SocketOK
    <3> QED
      BY <3>1
  <2> QED
    BY <2>1, <2>2, <2>3, CalmTypes
<1> QED
  BY <1>2, <1>4, <1>5

LEMMA TwoInSequence ==
  ASSUME NEW a, NEW b
  PROVE  <<a>> \o <<b>> = <<a, b>>
<1> DEFINE s == <<a>> \o <<b>>
           t == <<a, b>>
<1>1. <<a>> \in Seq({a, b}) /\ <<b>> \in Seq({a, b}) /\ t \in Seq({a, b})
  OBVIOUS
<1>2. s \in Seq({a, b}) /\ Len(s) = 2 /\ Len(t) = 2
  BY <1>1
<1>3. s[1] = a /\ s[2] = b
  BY <1>1
<1>4. \A n \in 1 .. Len(s) : s[n] = t[n]
  BY <1>2, <1>3
<1> HIDE DEF s, t
<1>5. s = t
  BY <1>1, <1>2, <1>4, SeqEqual
<1> QED
  BY <1>5 DEF s, t

LEMMA IdentifyCalmly ==
  ASSUME SessionIInv, SessionIInv', Calm, Identify
  PROVE  Calm'
<1> DEFINE hello == Plain("hello")
           started == Plain("started")
           w == AfterSend(worker, hello)
           frames == <<[seq |-> worker.seq, event |-> hello], [seq |-> worker.seq + 1, event |-> started]>>
<1>1. /\ worker.state = "new" /\ socket.state # "none"
      /\ worker' = AfterSend(w, started)
      /\ socket' = WrittenToHost(FramesOf(worker, hello) \o FramesOf(w, started))
      /\ UNCHANGED <<op, run, host, heard, bridge, reception, stored, process>>
  BY DEF Identify, hostSide
<1>2. hello.type = "hello" /\ started.type = "started"
  BY DEF Plain
<1>3. worker \in WorkerProtocolPeers /\ w \in WorkerProtocolPeers
  <2>1. worker \in WorkerProtocolPeers
    BY WorkerFacts
  <2>2. FramesOf(worker, hello) = <<[seq |-> worker.seq, event |-> hello]>>
    BY <1>2, <2>1, SendFields
  <2>3. Len(FramesOf(worker, hello)) \in Nat
    BY <2>2
  <2>4. CanSend(worker, hello)
    BY <1>1, <1>2 DEF CanSend
  <2> QED
    BY <2>1, <2>3, <2>4, AfterSendTyped
<1>4. /\ FramesOf(worker, hello) = <<[seq |-> worker.seq, event |-> hello]>>
      /\ w.seq = worker.seq + 1 /\ WorkerKeeps(worker, w, {"seq", "state"})
  BY <1>2, <1>3, SendFields
<1>5. /\ FramesOf(w, started) = <<[seq |-> w.seq, event |-> started]>>
      /\ worker'.seq = w.seq + 1 /\ worker'.state = "ready"
      /\ WorkerKeeps(w, worker', {"seq", "state"})
  <2> HIDE DEF w
  <2> QED
    BY <1>1, <1>2, <1>3, SendFields
<1> HIDE DEF hello, started
<1>6. socket' = WrittenToHost(frames)
  <2> DEFINE a == [seq |-> worker.seq, event |-> hello]
             b == [seq |-> worker.seq + 1, event |-> started]
  <2>1. FramesOf(worker, hello) = <<a>> /\ FramesOf(w, started) = <<b>>
    BY <1>4, <1>5
  <2> HIDE DEF a, b, w
  <2>2. socket' = WrittenToHost(<<a>> \o <<b>>)
    BY <1>1, <2>1
  <2>3. <<a>> \o <<b>> = <<a, b>>
    BY TwoInSequence
  <2>4. socket' = WrittenToHost(<<a, b>>)
    BY <2>2, <2>3
  <2> QED
    BY <2>4 DEF a, b
<1>7. frames \in Seq(ToHost)
  <2>1. worker.seq \in Nat
    BY CalmTypes
  <2>2. /\ [seq |-> worker.seq, event |-> hello] \in ToHost
        /\ [seq |-> worker.seq + 1, event |-> started] \in ToHost
    BY <2>1 DEF ToHost, hello, started, Plain
  <2> QED
    BY <2>2
<1> HIDE DEF w
<1>8. /\ worker'.seq = worker.seq + 2 /\ worker'.state = "ready" /\ worker'.last = worker.last
      /\ worker'.accepted = worker.accepted
      /\ worker'.acknowledgementPending = worker.acknowledgementPending
  <2>1. worker.seq \in Nat
    BY CalmTypes
  <2> QED
    BY <1>4, <1>5, <2>1 DEF WorkerKeeps
<1>9. /\ socket.toWorker = <<>> /\ worker.accepted = None /\ ~worker.acknowledgementPending
      /\ socket.state = "up" =>
           worker = FreshWorker /\ host.seq = 1 /\ host.last = 0 /\ ~Busy
  BY <1>1, NewWorkerFields
<1>10. CalmWorker'
  BY <1>1, <1>8, <1>9, CalmParts DEF CalmWorker
<1>11. reception' = NoReception
  <2>1. ~reception.active
    <3>1. CalmReception
      BY CalmParts
    <3>2. worker.state = "new" => ~(ReadBegin \/ ReadUpdate \/ ReadAcknowledgement)
      BY DEF ReadBegin, ReadUpdate, ReadAcknowledgement
    <3>3. ~ReadObservation
      <4>1. reception.observed # None => reception.observed \in StartInstruction
        BY ReceptionFields
      <4> QED
        BY <1>9, <4>1 DEF ReadObservation
    <3> QED
      BY <1>1, <3>1, <3>2, <3>3 DEF CalmReception
  <2> QED
    BY <1>1, <2>1, CalmParts DEF CalmReception
<1>12. \A f \in Carried(socket.toWorker) : Fits(f)'
  <2>1. Carried(<<>>) = {}
    BY DEF Carried
  <2> QED
    BY <1>9, <2>1
<1> HIDE DEF hello, started
<1>20. PICK written : written = frames
  OBVIOUS
<1>13. /\ Len(written) = 2 /\ written[1] = [seq |-> worker.seq, event |-> hello]
       /\ written[2] = [seq |-> worker.seq + 1, event |-> started]
       /\ written \in Seq(ToHost) /\ socket' = WrittenToHost(written)
  BY <1>6, <1>7, <1>20
<1> HIDE DEF frames
<1>14. ASSUME socket.state = "up"
       PROVE  /\ worker.seq = 1 /\ worker.last = 0 /\ host.seq = 1 /\ NextFrames(written)
  <2>1. worker.seq = 1 /\ worker.last = 0 /\ host.seq = 1 /\ host'.seq = 1
    BY <1>1, <1>9, <1>14 DEF FreshWorker
  <2>2. written[1].seq = 1 /\ written[1].event = Plain("hello")
    BY <1>13, <2>1 DEF hello
  <2>3. written[2].seq = 2 /\ written[2].event = Plain("started")
    BY <1>13, <2>1 DEF started
  <2>4. ASSUME NEW f, f.seq = 1, f.event = Plain("hello")
        PROVE  Expected(f)'
    BY <2>1, <2>4 DEF Expected
  <2>5. ASSUME NEW f, f.seq = 2, f.event = Plain("started")
        PROVE  Expected(f)'
    BY <2>1, <2>5 DEF Expected, IsAnswer
  <2> QED
    <3>1. Expected(written[1])' /\ Expected(written[2])'
      <4>1. PICK f, g : f = written[1] /\ g = written[2]
        OBVIOUS
      <4>2. Expected(f)' /\ Expected(g)'
        BY <2>2, <2>3, <2>4, <2>5, <4>1
      <4> QED
        BY <4>1, <4>2
    <3> QED
      BY <1>13, <2>1, <2>2, <2>3, <3>1 DEF NextFrames, NextFramesFrom
<1>15. socket.state = "up" =>
         /\ socket.toWorker = <<>> /\ worker.seq <= host.seq + 2
         /\ worker'.seq = worker.seq + Len(written) /\ NextFrames(written)
         /\ worker'.state \in {"ready", "running", "done"}
         /\ worker'.state \in {"ready", "running"} =>
              host.seq = worker.last + 1 /\ worker'.seq = host.seq + 2
         /\ worker'.state = "ready" => worker.last <= Preceding
         /\ worker'.state = "running" => worker.last > 0
         /\ worker'.state = "done" =>
              /\ host.seq = Preceding + 3 \/ (run.recovering /\ host.seq = 2)
              /\ worker'.seq \in {host.seq + 3, host.seq + 6}
              /\ worker'.acknowledgementPending <=> worker'.seq = host.seq + 6
  BY <1>8, <1>9, <1>13, <1>14 DEF Preceding
<1> QED
  BY <1>1, <1>8, <1>10, <1>11, <1>12, <1>13, <1>15, TurnCalmly

\* What a send makes of a turn.
LEMMA SentFields ==
  ASSUME NEW t \in Turns, NEW e
  PROVE  LET s == Send(t, e) IN
         /\ s.bridge = t.bridge
         /\ ~t.thrown /\ CanSend(t.peer, e) =>
              /\ ~s.thrown /\ s.peer = AfterSend(t.peer, e)
              /\ s.frames = t.frames \o FramesOf(t.peer, e)
         /\ t.thrown \/ ~CanSend(t.peer, e) =>
              s.thrown /\ s.peer = t.peer /\ s.frames = t.frames
<1> DEFINE p == AfterSend(t.peer, e)
           q == FramesOf(t.peer, e)
<1>1. CASE t.thrown
  BY <1>1 DEF Send
<1>2. CASE ~t.thrown /\ CanSend(t.peer, e)
  <2>1. Send(t, e) = [t EXCEPT !.peer = p, !.frames = @ \o q]
    BY <1>2 DEF Send
  <2> HIDE DEF p, q
  <2> DEFINE s == [t EXCEPT !.peer = p, !.frames = @ \o q]
  <2>2. s.bridge = t.bridge /\ s.thrown = t.thrown /\ s.peer = p /\ s.frames = t.frames \o q
    BY DEF Turns
  <2> HIDE DEF s
  <2>3. Send(t, e) = s
    BY <2>1 DEF s
  <2> QED
    BY <1>2, <2>2, <2>3 DEF p, q
<1>3. CASE ~t.thrown /\ ~CanSend(t.peer, e)
  <2>1. Send(t, e) = [t EXCEPT !.thrown = TRUE]
    BY <1>3 DEF Send
  <2> DEFINE s == [t EXCEPT !.thrown = TRUE]
  <2>2. s.bridge = t.bridge /\ s.thrown = TRUE /\ s.peer = t.peer /\ s.frames = t.frames
    BY DEF Turns
  <2> HIDE DEF s
  <2>3. Send(t, e) = s
    BY <2>1 DEF s
  <2> QED
    BY <1>3, <2>2, <2>3
<1> QED
  BY <1>1, <1>2, <1>3

\* A bridge that is neither cancelled nor stopped by what it does.
BridgeKeeps(b, c) ==
  c.cancelled = b.cancelled /\ c.stopped = b.stopped /\ c.shutdown = b.shutdown

LEMMA CompletionFlagFields ==
  ASSUME NEW t \in Turns, NEW v \in BOOLEAN
  PROVE  LET s == [t EXCEPT !.bridge.completionSent = v] IN
         /\ s.peer = t.peer /\ s.frames = t.frames /\ s.thrown = t.thrown
         /\ BridgeKeeps(t.bridge, s.bridge)
         /\ s.bridge.final = t.bridge.final /\ s.bridge.completionSent = v
<1> DEFINE b == t.bridge
           c == [b EXCEPT !.completionSent = v]
<1>1. b \in Bridges
  BY DEF Turns
<1>2. [t EXCEPT !.bridge.completionSent = v] = [t EXCEPT !.bridge = c]
  BY Zenon DEF Turns
<1>3. /\ c.cancelled = b.cancelled /\ c.stopped = b.stopped /\ c.shutdown = b.shutdown
      /\ c.final = b.final /\ c.completionSent = v
  BY <1>1, Zenon DEF Bridges
<1> HIDE DEF c
<1> DEFINE s == [t EXCEPT !.bridge = c]
<1>4. s.peer = t.peer /\ s.frames = t.frames /\ s.thrown = t.thrown /\ s.bridge = c
  BY Zenon DEF Turns
<1> HIDE DEF s
<1>5. [t EXCEPT !.bridge.completionSent = v] = s
  BY <1>2 DEF s
<1> QED
  BY <1>3, <1>4, <1>5 DEF BridgeKeeps

LEMMA StoppedFields ==
  ASSUME NEW t \in Turns, ~t.thrown
  PROVE  LET s == Stopped(t) IN
         /\ s.peer = t.peer /\ s.frames = t.frames
         /\ s.bridge.cancelled = t.bridge.cancelled /\ s.bridge.stopped /\ s.bridge.shutdown
<1> DEFINE b == t.bridge
           d == [b EXCEPT !.stopped = TRUE]
           c == [d EXCEPT !.shutdown = TRUE]
<1>1. b \in Bridges
  BY DEF Turns
<1>2. Stopped(t) = [t EXCEPT !.bridge = [b EXCEPT !.stopped = TRUE, !.shutdown = TRUE]]
  BY Zenon DEF Turns, Stopped
<1>3. d \in Bridges /\ d.cancelled = b.cancelled /\ d.stopped = TRUE
  BY <1>1, Zenon DEF Bridges
<1>4. [b EXCEPT !.stopped = TRUE, !.shutdown = TRUE] = c
  OBVIOUS
<1> HIDE DEF d
<1>5. c.cancelled = d.cancelled /\ c.stopped = d.stopped /\ c.shutdown = TRUE
  BY <1>3, Zenon DEF Bridges
<1> HIDE DEF c
<1> DEFINE s == [t EXCEPT !.bridge = c]
<1>6. s.peer = t.peer /\ s.frames = t.frames /\ s.bridge = c
  BY Zenon DEF Turns
<1> HIDE DEF s
<1>7. Stopped(t) = s
  BY <1>2, <1>4 DEF s
<1> QED
  BY <1>3, <1>5, <1>6, <1>7

\* The frames of a completion, from the number n on.
FailedFrames(n) == <<[seq |-> n, event |-> Plain("failed")]>>

ResultFrames(n) ==
  << [seq |-> n,     event |-> [type |-> "result_begin", digest |-> TheResult]],
     [seq |-> n + 1, event |-> [type |-> "result_chunk", payload |-> TheResult]],
     [seq |-> n + 2, event |-> [type |-> "result_commit", digest |-> TheResult]],
     [seq |-> n + 3, event |-> Plain("done")] >>

LEMMA FourInSequence ==
  ASSUME NEW a, NEW b, NEW c, NEW d
  PROVE  <<a, b, c>> \o <<d>> = <<a, b, c, d>>
<1> DEFINE s == <<a, b, c>> \o <<d>>
           t == <<a, b, c, d>>
<1>1. <<a, b, c>> \in Seq({a, b, c, d}) /\ <<d>> \in Seq({a, b, c, d}) /\ t \in Seq({a, b, c, d})
  OBVIOUS
<1>2. s \in Seq({a, b, c, d}) /\ Len(s) = 4 /\ Len(t) = 4
  BY <1>1
<1>3. s[1] = a /\ s[2] = b /\ s[3] = c /\ s[4] = d
  BY <1>1
<1>4. \A n \in 1 .. Len(s) : s[n] = t[n]
  BY <1>2, <1>3
<1> HIDE DEF s, t
<1>5. s = t
  BY <1>1, <1>2, <1>4, SeqEqual
<1> QED
  BY <1>5 DEF s, t

LEMMA SettleFields ==
  ASSUME NEW t, TurnOK(t), ~t.bridge.cancelled, ~t.thrown
  PROVE  LET s == Settle(t)
             w == t.peer
         IN
         /\ BridgeKeeps(t.bridge, s.bridge)
         /\ t.bridge.completionSent \/ w.state # "running" => s.peer = w /\ s.frames = t.frames
         /\ ~t.bridge.completionSent /\ w.state = "running" =>
              /\ ~s.thrown /\ s.peer.state = "done"
              /\ IF t.bridge.final = "result"
                   THEN /\ s.frames = t.frames \o ResultFrames(w.seq)
                        /\ s.peer.seq = w.seq + 4 /\ s.peer.acknowledgementPending
                        /\ WorkerKeeps(w, s.peer, {"state", "seq", "pending"})
                   ELSE /\ s.frames = t.frames \o FailedFrames(w.seq)
                        /\ s.peer.seq = w.seq + 1
                        /\ WorkerKeeps(w, s.peer, {"state", "seq"})
<1> DEFINE w == t.peer
           c == [t EXCEPT !.bridge.completionSent = TRUE]
           failed == Plain("failed")
           done == Plain("done")
           result == [type |-> "result", result |-> TheResult]
<1>1. t \in Turns /\ w \in WorkerProtocolPeers /\ t.frames \in Seq(ToHost)
  BY DEF TurnOK, Turns
<1>2. TurnOK(c) /\ c \in Turns
  BY FlagsOK DEF TurnOK
<1>3. /\ c.peer = w /\ c.frames = t.frames /\ ~c.thrown /\ BridgeKeeps(t.bridge, c.bridge)
      /\ c.bridge.final = t.bridge.final
  BY <1>1, CompletionFlagFields
<1>4. CASE t.bridge.completionSent
  BY <1>4 DEF Settle, BridgeKeeps
<1>5. CASE ~t.bridge.completionSent /\ t.bridge.final # "result"
  <2>1. Settle(t) = Send(c, failed)
    BY <1>3, <1>5 DEF Settle, BridgeKeeps
  <2>2. failed.type = "failed"
    BY DEF Plain
  <2>3. CanSend(w, failed) <=> w.state = "running"
    BY <2>2 DEF CanSend
  <2>4. /\ FramesOf(w, failed) = FailedFrames(w.seq)
        /\ AfterSend(w, failed).seq = w.seq + 1 /\ AfterSend(w, failed).state = "done"
        /\ WorkerKeeps(w, AfterSend(w, failed), {"seq", "state"})
    BY <1>1, <2>2, SendFields DEF FailedFrames
  <2> HIDE DEF c, failed
  <2>5. /\ Send(c, failed).bridge = c.bridge
        /\ w.state = "running" =>
             /\ ~Send(c, failed).thrown /\ Send(c, failed).peer = AfterSend(w, failed)
             /\ Send(c, failed).frames = t.frames \o FramesOf(w, failed)
        /\ w.state # "running" => Send(c, failed).peer = w /\ Send(c, failed).frames = t.frames
    BY <1>2, <1>3, <2>3, SentFields
  <2>6. WorkerKeeps(w, AfterSend(w, failed), {"state", "seq"})
    BY <2>4 DEF WorkerKeeps
  <2> QED
    BY <1>3, <1>5, <2>1, <2>4, <2>5, <2>6
<1>6. CASE ~t.bridge.completionSent /\ t.bridge.final = "result"
  <2> DEFINE s == Send(c, result)
             v == AfterSend(w, result)
  <2>1. Settle(t) = Send(s, done)
    BY <1>3, <1>6 DEF Settle, BridgeKeeps
  <2>2. done.type = "done" /\ result.type = "result"
    BY DEF Plain
  <2>3. CanSend(w, result) <=> w.state = "running"
    BY <2>2 DEF CanSend
  <2>4. TurnOK(s) /\ s \in Turns
    BY <1>2, Sayable, SendOK DEF TurnOK
  <2> DEFINE threeFrames ==
        << [seq |-> w.seq,     event |-> [type |-> "result_begin", digest |-> TheResult]],
           [seq |-> w.seq + 1, event |-> [type |-> "result_chunk", payload |-> TheResult]],
           [seq |-> w.seq + 2, event |-> [type |-> "result_commit", digest |-> TheResult]] >>
  <2>5. /\ FramesOf(w, result) = threeFrames
        /\ v.seq = w.seq + 3 /\ v.state = "delivering" /\ v.acknowledgementPending
        /\ v \in WorkerProtocolPeers
        /\ WorkerKeeps(w, v, {"seq", "state", "pending"})
    BY <1>1, SendResultFields
  <2>6. /\ FramesOf(v, done) = <<[seq |-> v.seq, event |-> done]>>
        /\ AfterSend(v, done).seq = v.seq + 1 /\ AfterSend(v, done).state = "done"
        /\ WorkerKeeps(v, AfterSend(v, done), {"seq", "state"})
    <3> HIDE DEF v
    <3> QED
      BY <2>2, <2>5, SendFields
  <2>7. threeFrames \o <<[seq |-> w.seq + 3, event |-> done]>> = ResultFrames(w.seq)
    BY FourInSequence, Zenon DEF ResultFrames
  <2> HIDE DEF c, done, result, threeFrames
  <2>8. /\ s.bridge = c.bridge
        /\ w.state = "running" => ~s.thrown /\ s.peer = v /\ s.frames = t.frames \o threeFrames
        /\ w.state # "running" => s.thrown /\ s.peer = w /\ s.frames = t.frames
    BY <1>2, <1>3, <2>3, <2>5, SentFields
  <2> HIDE DEF s, v
  <2>9. Send(s, done).bridge = c.bridge
    BY <2>4, <2>8, SentFields
  <2>10. CASE w.state # "running"
    <3>1. Send(s, done).peer = w /\ Send(s, done).frames = t.frames
      BY <2>4, <2>8, <2>10, SentFields
    <3> QED
      BY <1>3, <1>6, <2>1, <2>9, <2>10, <3>1
  <2>11. CASE w.state = "running"
    <3>1. CanSend(v, done)
      BY <2>2, <2>5 DEF CanSend, done
    <3>2. /\ ~Send(s, done).thrown /\ Send(s, done).peer = AfterSend(v, done)
          /\ Send(s, done).frames = (t.frames \o threeFrames) \o FramesOf(v, done)
      BY <2>4, <2>8, <2>11, <3>1, SentFields
    <3>3. FramesOf(v, done) = <<[seq |-> w.seq + 3, event |-> done]>>
      BY <2>5, <2>6
    <3>4. (t.frames \o threeFrames) \o FramesOf(v, done) = t.frames \o ResultFrames(w.seq)
      <4>1. \A a, b, d \in Seq(ToHost) : (a \o b) \o d = a \o (b \o d)
        BY ConcatAssociative
      <4>2. threeFrames \in Seq(ToHost) /\ FramesOf(v, done) \in Seq(ToHost)
        BY <1>1, <2>5, FramesTyped, Sayable DEF done, result
      <4> QED
        <5> DEFINE d == FramesOf(v, done)
        <5>1. threeFrames \o d = ResultFrames(w.seq)
          BY <2>7, <3>3
        <5>2. d \in Seq(ToHost)
          BY <4>2
        <5> HIDE DEF d
        <5>3. t.frames \in Seq(ToHost) /\ threeFrames \in Seq(ToHost)
          BY <1>1, <4>2
        <5>4. (t.frames \o threeFrames) \o d = t.frames \o (threeFrames \o d)
          BY <4>1, <5>2, <5>3
        <5>5. (t.frames \o threeFrames) \o d = t.frames \o ResultFrames(w.seq)
          BY <5>1, <5>4
        <5> QED
          BY <5>5 DEF d
    <3>5. /\ AfterSend(v, done).seq = w.seq + 4 /\ AfterSend(v, done).state = "done"
          /\ AfterSend(v, done).acknowledgementPending
          /\ WorkerKeeps(w, AfterSend(v, done), {"state", "seq", "pending"})
      <4>1. w.seq \in Nat
        BY <1>1 DEF WorkerProtocolPeers
      <4> QED
        <5> DEFINE u == AfterSend(v, done)
        <5> HIDE DEF u
        <5>1. u.seq = v.seq + 1 /\ u.state = "done" /\ WorkerKeeps(v, u, {"seq", "state"})
          BY <2>6 DEF u
        <5>2. u.seq = w.seq + 4
          BY <2>5, <4>1, <5>1
        <5>3. u.acknowledgementPending
          BY <2>5, <5>1, Zenon DEF WorkerKeeps
        <5>4. WorkerKeeps(w, u, {"state", "seq", "pending"})
          BY <2>5, <5>1 DEF WorkerKeeps
        <5> QED
          BY <5>1, <5>2, <5>3, <5>4 DEF u
    <3> QED
      BY <1>3, <1>6, <2>1, <2>9, <2>11, <3>2, <3>4, <3>5
  <2> QED
    BY <2>10, <2>11
<1> QED
  BY <1>4, <1>5, <1>6

\* A turn ends that closes nothing: a bridge that was shut down has no connection.
LEMMA TurnEndsFields ==
  ASSUME SessionIInv, Calm, NEW t, TurnEnds(t, FALSE), t.frames \in Seq(ToHost),
         t.bridge.shutdown => bridge.shutdown
  PROVE  /\ worker' = t.peer /\ bridge' = t.bridge /\ reception' = NoReception
         /\ socket' = WrittenToHost(t.frames)
         /\ UNCHANGED <<op, run, host, heard, stored, process>>
<1>1. /\ worker' = t.peer /\ bridge' = t.bridge /\ reception' = NoReception
      /\ socket' = IF t.bridge.shutdown THEN WorkerCloses(WrittenToHost(t.frames))
                   ELSE WrittenToHost(t.frames)
      /\ UNCHANGED <<op, run, host, heard, stored, process>>
  BY DEF TurnEnds, hostSide
<1>2. CASE ~t.bridge.shutdown
  BY <1>1, <1>2
<1>3. CASE t.bridge.shutdown
  <2>1. socket.state \in {"none", "worker"}
    BY <1>3, CalmParts DEF CalmLeaving, CalmWorker
  <2>2. WrittenToHost(t.frames) = socket
    BY <2>1 DEF WrittenToHost
  <2>3. WorkerCloses(socket) = socket
    BY <2>1, SocketShape DEF WorkerCloses
  <2> QED
    BY <1>1, <1>3, <2>2, <2>3
<1> QED
  BY <1>2, <1>3

\* The bridge goes on without a word.
LEMMA SilentTurnCalmly ==
  ASSUME SessionIInv, SessionIInv', Calm, ~reception.active,
         NEW t, TurnEnds(t, FALSE), t.peer = worker, t.frames = <<>>,
         BridgeKeeps(bridge, t.bridge)
  PROVE  Calm'
<1>1. /\ BegunIsRecorded /\ NothingBegun /\ CalmStore /\ CalmWorker /\ CalmFrames /\ CalmReception
      /\ CalmLeaving /\ CalmSession /\ (socket.state = "up" => Conversation)
  BY CalmParts
<1>2. /\ worker' = worker /\ reception' = reception /\ socket' = socket
      /\ bridge'.cancelled = bridge.cancelled /\ bridge'.stopped = bridge.stopped
      /\ bridge'.shutdown = bridge.shutdown
      /\ UNCHANGED <<op, run, host, heard, stored, process>>
  <2>1. <<>> \in Seq(ToHost)
    BY EmptySeq
  <2>2. /\ worker' = t.peer /\ bridge' = t.bridge /\ reception' = NoReception
        /\ socket' = WrittenToHost(<<>>)
        /\ UNCHANGED <<op, run, host, heard, stored, process>>
    BY <2>1, TurnEndsFields DEF BridgeKeeps
  <2>3. WrittenToHost(<<>>) = socket
    BY DEF WrittenToHost
  <2> QED
    BY <1>1, <2>2, <2>3 DEF BridgeKeeps, CalmReception
<1>3. CalmRecord' /\ PlaceHolds' /\ CalmHost'
  BY <1>2, HostSideStays
<1>4. BegunIsRecorded' /\ NothingBegun' /\ CalmStore'
  BY <1>1, <1>2 DEF BegunIsRecorded, Recorded, Sent, Begins, Carried, NothingBegun, Preceding, CalmStore
<1>5. CalmWorker'
  BY <1>1, <1>2 DEF CalmWorker
<1>6. CalmFrames'
  BY <1>1, <1>2 DEF CalmFrames, Carried, Fits
<1>7. CalmReception'
  BY <1>1, <1>2 DEF CalmReception
<1>8. CalmLeaving' /\ CalmSession'
  BY <1>1, <1>2 DEF CalmLeaving, CalmSession, CalmWorker
<1>9. socket.state = "up" => Conversation'
  <2>1. WorkerTurn => WorkerTurn'
    BY <1>2 DEF WorkerTurn, Preceding, Busy
  <2>2. \A f : Expected(f) => Expected(f)'
    BY <1>2 DEF Expected, IsAnswer, Preceding
  <2>3. HostFrame' = HostFrame
    BY <1>2 DEF HostFrame, Preceding
  <2> QED
    BY <1>1, <1>2, <2>1, <2>2, <2>3 DEF Conversation, Preceding, Carried
<1> QED
  BY <1>2, <1>3, <1>4, <1>5, <1>6, <1>7, <1>8, <1>9 DEF Calm

LEMMA PromptReadCalmly ==
  ASSUME SessionIInv, SessionIInv', Calm, PromptRead, ~mishap'
  PROVE  Calm'
<1> DEFINE t == [Turn(worker) EXCEPT !.bridge.agent = "running", !.bridge.prompts = @ + 1]
           b == [bridge EXCEPT !.agent = "running", !.prompts = @ + 1]
<1>1. ~bridge.cancelled
  BY CalmParts DEF CalmWorker
<1>2. ~reception.active /\ TurnEnds(t, FALSE)
  BY <1>1 DEF PromptRead, Fault
<1>3. t.peer = worker /\ t.frames = <<>> /\ t.bridge = b
  BY DEF Turn
<1>4. BridgeKeeps(bridge, b)
  BY WorkerFacts, Zenon DEF Bridges, BridgeKeeps
<1> HIDE DEF t, b
<1> QED
  BY <1>2, <1>3, <1>4, SilentTurnCalmly

\* An agent that settles while no start is under way does so between two frames of
\* the host.
LEMMA SettlingPlace ==
  ASSUME SessionIInv, Calm, socket.state = "up", worker.state = "running",
         ~reception.active, ~StartUnderWay
  PROVE  /\ host.seq = Preceding + 3 \/ (run.recovering /\ host.seq = 2)
         /\ ~Busy /\ host.seq = worker.last + 1 /\ worker.seq = host.seq + 2
<1>1. /\ heard.open /\ WorkerTurn /\ Conversation /\ CalmSession /\ PlaceHolds /\ CalmFrames
  BY CalmParts DEF Conversation, SessionIInv, ConnectionIsOpen
<1>2. heard.connected
  BY DEF SessionIInv, ConnectionIsOpen
<1>3. /\ host.seq \in Nat /\ worker.last \in Nat /\ worker.seq \in Nat /\ run.at \in Places
      /\ run.recovering \in BOOLEAN
  BY CalmTypes
<1>4. run.at \notin {"ended", "down", "stop", "giveUp"}
  BY <1>1, <1>2 DEF CalmSession, PlaceHolds
<1>5. host.seq # 1
  <2>1. worker.last > 0 /\ host.seq = worker.last + (IF socket.toWorker = <<>> THEN 1 ELSE 2)
    BY <1>1 DEF WorkerTurn
  <2> QED
    BY <1>3, <2>1
<1>6. \/ host.seq = 1 \/ host.seq = Preceding + 1
      \/ Working /\ Answered
  <2>1. CASE run.at \in {"identify", "identified", "revoke", "announce"}
    BY <1>1, <2>1 DEF PlaceHolds, AtIdentified, AtIdentify, AtRevoke, AtAnnounce
  <2>2. CASE run.at \in {"awaitGeneration", "confirm"}
    BY <1>1, <2>2 DEF PlaceHolds, AtAwaitGeneration, AtConfirm, Succeeding, Preceding
  <2>3. CASE run.at \in {"collectAcceptance", "collectAcknowledgement"}
    BY <1>1, <2>3 DEF PlaceHolds, AtCollectAcceptance, AtCollectAcknowledgement, Preceding
  <2>4. CASE run.at \in {"acquire", "check", "enter", "send"}
    BY <1>1, <2>4 DEF PlaceHolds, AtAcquire, AtCheck, AtEnter, AtSend, MayBegin,
                      AtCollectAcceptance, Preceding
  <2>5. CASE run.at = "acknowledged"
    BY <1>1, <2>5 DEF PlaceHolds, AtAcknowledged, AtAwaitAcknowledgement, Working
  <2>6. CASE run.at \in {"work", "offer", "acknowledge", "exit"}
    BY <1>1, <2>6 DEF PlaceHolds, AtWork, AtOffer, AtExit
  <2> QED
    BY <1>3, <1>4, <2>1, <2>2, <2>3, <2>4, <2>5, <2>6 DEF Places, StartUnderWay
<1>7. host.seq = Preceding + 3 \/ (run.recovering /\ host.seq = 2)
  BY <1>3, <1>5, <1>6 DEF Preceding, Working
<1>8. ~Busy
  <2>1. CASE Answered
    BY <1>1, <2>1, AnsweredIsQuiet
  <2>2. CASE host.seq = Preceding + 1
    <3>1. ASSUME NEW f \in Carried(socket.toWorker)
          PROVE  FALSE
      <4>1. Fits(f) /\ f.event = HostFrame
        BY <1>1 DEF CalmFrames, Conversation
      <4>2. f.event.type = "delivery_generation_update"
        BY <2>2, <4>1 DEF HostFrame
      <4> QED
        BY <4>1, <4>2 DEF Fits
    <3>2. socket.toWorker = <<>>
      <4>1. socket.toWorker \in Seq(ToWorker)
        BY WorkerFacts, SocketFields DEF SocketOK
      <4> QED
        BY <3>1, <4>1, CarriedFrames
    <3> QED
      BY <3>2 DEF Busy
  <2> QED
    BY <1>5, <1>6, <2>1, <2>2
<1>9. host.seq = worker.last + 1 /\ worker.seq = host.seq + 2
  BY <1>1, <1>8 DEF WorkerTurn, Busy
<1> QED
  BY <1>7, <1>8, <1>9

\* A completion that follows the answers to the host is what the host expects.
LEMMA CompletionExpected ==
  ASSUME SessionIInv, host' = host, NEW n \in Nat
  PROVE  /\ FailedFrames(n) \in Seq(ToHost) /\ Len(FailedFrames(n)) = 1
         /\ ResultFrames(n) \in Seq(ToHost) /\ Len(ResultFrames(n)) = 4
         /\ n = host.seq + 2 /\ worker'.seq = n + 1 => NextFramesFrom(n, FailedFrames(n))
         /\ n = host.seq + 2 /\ worker'.seq = n + 4 => NextFramesFrom(n, ResultFrames(n))
<1>1. host.seq \in Nat
  BY CalmTypes
<1>2. FailedFrames(n) \in Seq(ToHost) /\ Len(FailedFrames(n)) = 1
  <2>1. [seq |-> n, event |-> Plain("failed")] \in ToHost
    BY DEF ToHost, Plain
  <2> QED
    BY <2>1 DEF FailedFrames
<1>3. ResultFrames(n) \in Seq(ToHost) /\ Len(ResultFrames(n)) = 4
  <2>1. /\ [seq |-> n,     event |-> [type |-> "result_begin", digest |-> TheResult]] \in ToHost
        /\ [seq |-> n + 1, event |-> [type |-> "result_chunk", payload |-> TheResult]] \in ToHost
        /\ [seq |-> n + 2, event |-> [type |-> "result_commit", digest |-> TheResult]] \in ToHost
    BY Chosen DEF ToHost
  <2>2. [seq |-> n + 3, event |-> Plain("done")] \in ToHost
    BY DEF ToHost, Plain
  <2> QED
    BY <2>1, <2>2 DEF ResultFrames
<1>4. ASSUME n = host.seq + 2, worker'.seq = n + 1
      PROVE  LET f == FailedFrames(n)[1] IN f.seq = n /\ Expected(f)'
  <2>1. PICK f : f = FailedFrames(n)[1]
    OBVIOUS
  <2>2. f.seq = n /\ f.event = Plain("failed")
    BY <2>1 DEF FailedFrames
  <2>3. f.seq = host'.seq + 2 /\ f.seq # 1 /\ worker'.seq = host'.seq + 3
    BY <1>1, <1>4, <2>2
  <2>4. Expected(f)'
    BY <1>1, <2>2, <2>3 DEF Expected
  <2> QED
    BY <2>1, <2>2, <2>4
<1>5. ASSUME n = host.seq + 2, worker'.seq = n + 4, NEW k \in 1 .. 4
      PROVE  LET f == ResultFrames(n)[k] IN f.seq = n + k - 1 /\ Expected(f)'
  <2>1. PICK f : f = ResultFrames(n)[k]
    OBVIOUS
  <2>2. worker'.seq # host'.seq + 3 /\ host'.seq \in Nat
    BY <1>1, <1>5
  <2>3. CASE k = 1
    <3>1. f.seq = host'.seq + 2 /\ f.event = [type |-> "result_begin", digest |-> TheResult]
      BY <1>5, <2>1, <2>3 DEF ResultFrames
    <3> QED
      BY <1>5, <2>1, <2>2, <2>3, <3>1 DEF Expected
  <2>4. CASE k = 2
    <3>1. f.seq = host'.seq + 3 /\ f.event = [type |-> "result_chunk", payload |-> TheResult]
      BY <1>1, <1>5, <2>1, <2>4 DEF ResultFrames
    <3> QED
      BY <1>1, <1>5, <2>1, <2>2, <2>4, <3>1 DEF Expected
  <2>5. CASE k = 3
    <3>1. f.seq = host'.seq + 4 /\ f.event = [type |-> "result_commit", digest |-> TheResult]
      BY <1>1, <1>5, <2>1, <2>5 DEF ResultFrames
    <3> QED
      BY <1>1, <1>5, <2>1, <2>2, <2>5, <3>1 DEF Expected
  <2>6. CASE k = 4
    <3>1. f.seq = host'.seq + 5 /\ f.event = Plain("done")
      BY <1>1, <1>5, <2>1, <2>6 DEF ResultFrames
    <3> QED
      BY <1>1, <1>5, <2>1, <2>2, <2>6, <3>1 DEF Expected
  <2> QED
    BY <2>3, <2>4, <2>5, <2>6
<1>6. n = host.seq + 2 /\ worker'.seq = n + 1 => NextFramesFrom(n, FailedFrames(n))
  BY <1>2, <1>4 DEF NextFramesFrom
<1>7. n = host.seq + 2 /\ worker'.seq = n + 4 => NextFramesFrom(n, ResultFrames(n))
  BY <1>3, <1>5 DEF NextFramesFrom
<1> QED
  BY <1>2, <1>3, <1>6, <1>7

LEMMA AgentSettlesCalmly ==
  ASSUME SessionIInv, SessionIInv', Calm, AgentSettles, ~mishap'
  PROVE  Calm'
<1>1. PICK final \in {"result", "error"} :
        TurnEnds(Settle([Turn(worker) EXCEPT !.bridge.agent = "settled", !.bridge.final = final]), FALSE)
  BY DEF AgentSettles
<1> DEFINE t == [Turn(worker) EXCEPT !.bridge.agent = "settled", !.bridge.final = final]
           b == [bridge EXCEPT !.agent = "settled", !.final = final]
           s == Settle(t)
<1>2. ~reception.active /\ bridge.agent = "running" /\ ~StartUnderWay /\ TurnEnds(s, FALSE)
  BY <1>1 DEF AgentSettles
<1>3. TurnOK(t) /\ t.peer = worker /\ t.frames = <<>> /\ ~t.thrown /\ t.bridge = b
  <2>1. t = [Turn(worker) EXCEPT !.bridge = b]
    BY DEF Turn
  <2>2. TurnOK(t)
    BY <1>2, <2>1, AgentMoves, TurnWithBridge
  <2> QED
    BY <2>2 DEF Turn
<1>4. CalmWorker /\ CalmFrames
  BY CalmParts
<1>5. BridgeKeeps(bridge, b)
  BY WorkerFacts, Zenon DEF Bridges, BridgeKeeps
<1> HIDE DEF t
<1>14. t.bridge.final = final
  <2>1. b.final = final
    BY WorkerFacts DEF Bridges
  <2> QED
    BY <1>3, <2>1
<1> HIDE DEF b
<1>6. ~t.bridge.cancelled
  BY <1>3, <1>4, <1>5 DEF CalmWorker, BridgeKeeps
<1>7. TurnOK(s) /\ s.frames \in Seq(ToHost)
  BY <1>3, SettleOK DEF TurnOK, Turns
<1>8. BridgeKeeps(bridge, s.bridge)
  BY <1>3, <1>5, <1>6, SettleFields DEF BridgeKeeps
<1>9. CASE t.bridge.completionSent \/ worker.state # "running"
  <2>1. s.peer = worker /\ s.frames = <<>>
    BY <1>3, <1>6, <1>9, SettleFields
  <2> HIDE DEF s
  <2> QED
    BY <1>2, <1>8, <2>1, SilentTurnCalmly
<1>10. CASE ~t.bridge.completionSent /\ worker.state = "running"
  <2>0. PICK n : n = worker.seq
    OBVIOUS
  <2> DEFINE frames == IF final = "result" THEN ResultFrames(n) ELSE FailedFrames(n)
             sent == IF final = "result" THEN 4 ELSE 1
  <2>1. n \in Nat /\ host.seq \in Nat
    BY <2>0, CalmTypes
  <2>2. /\ worker' = s.peer /\ bridge' = s.bridge /\ reception' = NoReception
        /\ socket' = WrittenToHost(s.frames)
        /\ UNCHANGED <<op, run, host, heard, stored, process>>
    BY <1>2, <1>7, <1>8, TurnEndsFields DEF BridgeKeeps
  <2>3. /\ frames \in Seq(ToHost) /\ Len(frames) = sent
        /\ n = host.seq + 2 /\ worker'.seq = n + sent => NextFrames(frames)
    <3>1. host' = host
      BY <2>2
    <3> HIDE DEF s
    <3> QED
      BY <2>0, <2>1, <3>1, CompletionExpected DEF NextFrames
  <2>4. /\ s.frames = frames /\ s.peer.state = "done" /\ s.peer.seq = n + sent
        /\ s.peer.acknowledgementPending <=> sent = 4
        /\ WorkerKeeps(worker, s.peer, {"state", "seq", "pending"})
    <3>1. ~worker.acknowledgementPending
      BY <1>4, <1>10 DEF CalmWorker
    <3>2. /\ <<>> \o ResultFrames(n) = ResultFrames(n) /\ <<>> \o FailedFrames(n) = FailedFrames(n)
      BY <2>1, CompletionExpected, ConcatEmptySeq
    <3>3. CASE final = "result"
      <4>1. /\ s.frames = <<>> \o ResultFrames(n) /\ s.peer.state = "done"
            /\ s.peer.seq = n + 4 /\ s.peer.acknowledgementPending
            /\ WorkerKeeps(worker, s.peer, {"state", "seq", "pending"})
        BY <1>3, <1>6, <1>10, <3>3, SettleFields, <2>0, <1>14
      <4> QED
        BY <3>2, <3>3, <4>1
    <3>4. CASE final # "result"
      <4>1. /\ s.frames = <<>> \o FailedFrames(n) /\ s.peer.state = "done"
            /\ s.peer.seq = n + 1 /\ WorkerKeeps(worker, s.peer, {"state", "seq"})
        BY <1>3, <1>6, <1>10, <3>4, SettleFields, <2>0, <1>14
      <4> QED
        BY <3>1, <3>2, <3>4, <4>1 DEF WorkerKeeps
    <3> QED
      BY <3>3, <3>4
  <2> HIDE DEF s
  <2>5. /\ worker'.state = "done" /\ worker'.seq = n + sent /\ worker'.last = worker.last
        /\ worker'.accepted = worker.accepted
        /\ worker'.acknowledgementPending <=> sent = 4
    BY <2>2, <2>4 DEF WorkerKeeps
  <2>6. CalmWorker'
    BY <1>4, <1>8, <1>10, <2>2, <2>5 DEF CalmWorker, BridgeKeeps
  <2>7. ASSUME NEW f \in Carried(socket.toWorker)
        PROVE  Fits(f)'
    <3>1. Fits(f)
      BY <1>4 DEF CalmFrames
    <3>2. /\ f.event.type \notin {"cancel", "begin", "delivery_generation_update", "ack"}
          /\ f.event.type # "ack" => f.seq = worker.last + 1
          /\ f.event.type = "begin_acceptance_observed" => worker.accepted = f.event.instruction
      BY <1>10, <3>1 DEF Fits
    <3> QED
      BY <2>5, <3>2 DEF Fits
  <2>8. sent \in {1, 4}
    OBVIOUS
  <2> HIDE DEF frames, sent
  <2>9. ASSUME socket.state = "up"
        PROVE  /\ socket.toWorker = <<>> /\ worker.seq = host.seq + 2 /\ NextFrames(frames)
               /\ host.seq = Preceding + 3 \/ (run.recovering /\ host.seq = 2)
    <3>1. /\ host.seq = Preceding + 3 \/ (run.recovering /\ host.seq = 2)
          /\ ~Busy /\ worker.seq = host.seq + 2
      BY <1>2, <1>10, <2>9, SettlingPlace
    <3> QED
      BY <2>0, <2>3, <2>5, <3>1 DEF Busy
  <2>10. socket.state = "up" =>
           /\ socket.toWorker = <<>> /\ worker.seq <= host.seq + 2
           /\ worker'.seq = worker.seq + Len(frames) /\ NextFrames(frames)
           /\ worker'.state \in {"ready", "running", "done"}
           /\ worker'.state \in {"ready", "running"} =>
                host.seq = worker.last + 1 /\ worker'.seq = host.seq + 2
           /\ worker'.state = "ready" => worker.last <= Preceding
           /\ worker'.state = "running" => worker.last > 0
           /\ worker'.state = "done" =>
                /\ host.seq = Preceding + 3 \/ (run.recovering /\ host.seq = 2)
                /\ worker'.seq \in {host.seq + 3, host.seq + 6}
                /\ worker'.acknowledgementPending <=> worker'.seq = host.seq + 6
    BY <2>0, <2>1, <2>3, <2>5, <2>8, <2>9
  <2>11. socket' = WrittenToHost(frames) /\ bridge'.stopped = bridge.stopped
    BY <1>8, <2>2, <2>4 DEF BridgeKeeps
  <2> QED
    BY <2>2, <2>3, <2>5, <2>6, <2>7, <2>10, <2>11, TurnCalmly
<1> QED
  BY <1>9, <1>10

\* The worker closes its connection, and joins no other.
LEMMA WorkerEndsCalmly ==
  ASSUME SessionIInv, SessionIInv', Calm, process = "running", reception.active,
         UNCHANGED <<op, run, host, heard, stored, process>>,
         reception' = NoReception, socket' = WorkerCloses(socket), CalmWorker',
         socket.state = "up" => bridge'.stopped /\ socket.toHost = <<>> /\ run.at = "exit"
  PROVE  Calm'
<1>1. /\ BegunIsRecorded /\ NothingBegun /\ CalmStore /\ CalmReception /\ CalmLeaving /\ CalmSession
  BY CalmParts
<1>2. CalmRecord' /\ PlaceHolds' /\ CalmHost'
  BY HostSideStays
<1>3. socket.toWorker = <<>> /\ socket.state # "worker"
  BY <1>1 DEF CalmReception, CalmLeaving
<1>4. /\ socket'.state \in {"none", "worker"} /\ socket'.toWorker = <<>> /\ socket'.toHost = <<>>
      /\ socket'.state = "worker" => socket.state = "up"
  <2>1. CASE socket.state = "up"
    <3>1. socket' = [socket EXCEPT !.state = "worker", !.toWorker = <<>>] /\ socket \in Sockets
      BY <2>1, SocketShape DEF WorkerCloses
    <3> QED
      BY <2>1, <3>1 DEF Sockets
  <2>2. CASE socket.state # "up"
    BY <1>3, <2>2 DEF WorkerCloses, NoSocket
  <2> QED
    BY <2>1, <2>2
<1>5. Carried(socket.toWorker) = {} /\ Carried(socket.toWorker)' = {} /\ Begins = {} /\ Begins' = {}
  BY <1>3, <1>4 DEF Carried, Begins
<1>6. BegunIsRecorded' /\ NothingBegun' /\ CalmStore'
  BY <1>1, <1>5 DEF BegunIsRecorded, Recorded, Sent, NothingBegun, Preceding, CalmStore
<1>7. CalmFrames'
  BY <1>4, <1>5, NothingIsShort DEF CalmFrames
<1>8. reception' = NoReception /\ ~reception'.active /\ ~reception'.cancel
  BY DEF NoReception
<1>9. CalmReception'
  BY <1>8 DEF CalmReception
<1>10. CalmLeaving'
  <2>1. socket.state # "up" => run.at \in {"exit", "ended", "down"} \/ ~heard.connected
    BY <1>1 DEF CalmSession
  <2> QED
    BY <1>4, <1>8, <2>1 DEF CalmLeaving
<1>11. CalmSession'
  <2>1. heard.open /\ heard.connected => run.at = "exit"
    BY <1>1 DEF CalmSession
  <2> QED
    BY <1>1, <1>4, <2>1 DEF CalmSession
<1>12. socket'.state # "up"
  BY <1>4
<1> QED
  BY <1>2, <1>6, <1>7, <1>9, <1>10, <1>11, <1>12 DEF Calm

LEMMA BeginRunFields ==
  ASSUME NEW t \in Turns
  PROVE  LET s == BeginRun(t) IN
         /\ s.peer = t.peer /\ s.frames = t.frames /\ s.thrown = t.thrown
         /\ BridgeKeeps(t.bridge, s.bridge)
<1> DEFINE b == t.bridge
           c == [b EXCEPT !.began = TRUE]
           d == [c EXCEPT !.agent = "reading"]
           s == [t EXCEPT !.bridge = d]
<1>1. b \in Bridges
  BY DEF Turns
<1>2. BeginRun(t) \in {t, s}
  <2>1. [t EXCEPT !.bridge.began = TRUE, !.bridge.agent = "reading"] = s
    BY Zenon DEF Turns
  <2> QED
    BY <2>1 DEF BeginRun
<1>3. c.cancelled = b.cancelled /\ c.stopped = b.stopped /\ c.shutdown = b.shutdown /\ c \in Bridges
  BY <1>1, Zenon DEF Bridges
<1> HIDE DEF c
<1>4. d.cancelled = b.cancelled /\ d.stopped = b.stopped /\ d.shutdown = b.shutdown
  BY <1>3, Zenon DEF Bridges
<1> HIDE DEF d
<1>5. s.peer = t.peer /\ s.frames = t.frames /\ s.thrown = t.thrown /\ s.bridge = d
  BY Zenon DEF Turns
<1> HIDE DEF s
<1> QED
  BY <1>2, <1>4, <1>5 DEF BridgeKeeps

\* The turn t does nothing but answer what was read with e.
Answering(e, t) ==
  /\ e.type \in {"generation_updated", "begin_accepted", "begin_ack"}
  /\ TurnEnds(t, FALSE) /\ t.frames \in Seq(ToHost) /\ t.peer = AfterSend(worker, e)
  /\ Len(t.frames) = 1 /\ t.frames[1].seq = worker.seq /\ t.frames[1].event = e
  /\ BridgeKeeps(bridge, t.bridge)

\* The worker answers the frame that it has read.
LEMMA AnswersCalmly ==
  ASSUME SessionIInv, SessionIInv', Calm, reception.active, worker.state \in {"ready", "running"},
         NEW e, NEW t, Answering(e, t), socket.state = "up" => IsAnswer(e)
  PROVE  Calm'
<1>0. /\ e.type \in {"generation_updated", "begin_accepted", "begin_ack"}
      /\ TurnEnds(t, FALSE) /\ t.frames \in Seq(ToHost) /\ t.peer = AfterSend(worker, e)
      /\ Len(t.frames) = 1 /\ t.frames[1].seq = worker.seq /\ t.frames[1].event = e
      /\ BridgeKeeps(bridge, t.bridge)
  BY DEF Answering
<1>1. CalmWorker /\ CalmReception /\ (socket.state = "up" => Conversation)
  BY CalmParts
<1>2. /\ worker' = t.peer /\ bridge' = t.bridge /\ reception' = NoReception
      /\ socket' = WrittenToHost(t.frames)
      /\ UNCHANGED <<op, run, host, heard, stored, process>>
  BY <1>0, TurnEndsFields DEF BridgeKeeps
<1>3. /\ worker'.seq = worker.seq + 1 /\ worker'.state = worker.state
      /\ WorkerKeeps(worker, worker', {"seq", "state"})
  <2>1. worker \in WorkerProtocolPeers
    BY WorkerFacts
  <2> QED
    BY <1>0, <1>2, <2>1, SendFields
<1>4. /\ worker'.last = worker.last /\ worker'.accepted = worker.accepted
      /\ worker'.acknowledgementPending = worker.acknowledgementPending
  BY <1>3 DEF WorkerKeeps
<1>5. CalmWorker'
  BY <1>0, <1>1, <1>2, <1>3, <1>4 DEF CalmWorker, BridgeKeeps
<1>6. socket.toWorker = <<>> /\ \A f \in Carried(socket.toWorker) : Fits(f)'
  BY <1>1 DEF CalmReception, Carried
<1>7. worker.seq \in Nat /\ worker.last \in Nat /\ host.seq \in Nat /\ Preceding \in Nat
  BY CalmTypes DEF Preceding
<1>8. PICK frames, f : frames = t.frames /\ f = t.frames[1]
  OBVIOUS
<1>9. /\ frames \in Seq(ToHost) /\ Len(frames) = 1 /\ frames[1] = f
      /\ f.seq = worker.seq /\ f.event = e /\ socket' = WrittenToHost(frames)
  BY <1>0, <1>2, <1>8
<1>10. ASSUME socket.state = "up"
       PROVE  /\ worker.seq = host.seq + 1 /\ host.seq = worker.last + 1 /\ NextFrames(frames)
              /\ worker.state = "ready" => worker.last <= Preceding
              /\ worker.state = "running" => worker.last > 0
  <2>1. WorkerTurn /\ Busy
    BY <1>1, <1>10 DEF Conversation, Busy
  <2>2. worker.seq = host.seq + 1 /\ host.seq = worker.last + 1
    BY <1>6, <2>1 DEF WorkerTurn
  <2>3. IsAnswer(e)'
    BY <1>2, <1>10 DEF IsAnswer, Preceding
  <2>4. f.seq = host'.seq + 1 /\ f.seq > 1 /\ host'.seq \in Nat
    BY <1>2, <1>7, <1>9, <2>2
  <2>5. Expected(f)'
    BY <1>9, <2>3, <2>4 DEF Expected
  <2>6. NextFrames(frames)
    BY <1>7, <1>9, <2>5 DEF NextFrames, NextFramesFrom
  <2> QED
    BY <2>1, <2>2, <2>6 DEF WorkerTurn
<1>11. socket.state = "up" =>
         /\ socket.toWorker = <<>> /\ worker.seq <= host.seq + 2
         /\ worker'.seq = worker.seq + Len(frames) /\ NextFrames(frames)
         /\ worker'.state \in {"ready", "running", "done"}
         /\ worker'.state \in {"ready", "running"} =>
              host.seq = worker.last + 1 /\ worker'.seq = host.seq + 2
         /\ worker'.state = "ready" => worker.last <= Preceding
         /\ worker'.state = "running" => worker.last > 0
         /\ worker'.state = "done" =>
              /\ host.seq = Preceding + 3 \/ (run.recovering /\ host.seq = 2)
              /\ worker'.seq \in {host.seq + 3, host.seq + 6}
              /\ worker'.acknowledgementPending <=> worker'.seq = host.seq + 6
  BY <1>3, <1>6, <1>7, <1>9, <1>10
<1>12. bridge'.stopped = bridge.stopped
  BY <1>0, <1>2 DEF BridgeKeeps
<1> QED
  BY <1>2, <1>4, <1>5, <1>6, <1>9, <1>11, <1>12, TurnCalmly

\* One frame more, before those that follow it.
LEMMA FramesInTurn ==
  ASSUME NEW m \in Nat, NEW a \in ToHost, NEW q \in Seq(ToHost), a.seq = m, Expected(a)',
         NextFramesFrom(m + 1, q)
  PROVE  /\ <<a>> \o q \in Seq(ToHost) /\ Len(<<a>> \o q) = 1 + Len(q)
         /\ NextFramesFrom(m, <<a>> \o q)
<1>1. PICK s : s = <<a>> \o q
  OBVIOUS
<1>2. /\ s \in Seq(ToHost) /\ Len(s) = 1 + Len(q) /\ Len(q) \in Nat /\ s[1] = a
      /\ \A n \in 1 .. Len(s) : n # 1 => s[n] = q[n - 1]
  BY <1>1
<1>3. ASSUME NEW n \in 1 .. Len(s)
      PROVE  s[n].seq = m + n - 1 /\ Expected(s[n])'
  <2>1. CASE n = 1
    BY <1>2, <2>1
  <2>2. CASE n # 1
    <3>1. PICK k : k = n - 1
      OBVIOUS
    <3>2. k \in 1 .. Len(q) /\ s[n] = q[k] /\ (m + 1) + k - 1 = m + n - 1
      BY <1>2, <2>2, <3>1
    <3>3. q[k].seq = (m + 1) + k - 1 /\ Expected(q[k])'
      BY <3>2 DEF NextFramesFrom
    <3> QED
      BY <3>2, <3>3
  <2> QED
    BY <2>1, <2>2
<1> QED
  BY <1>1, <1>2, <1>3 DEF NextFramesFrom

\* The turn t answers with the frame a, and settles again with the k frames q.
SettlingAgain(a, n, q, k, t) ==
  /\ a \in ToHost /\ a.seq = worker.seq
  /\ n = worker.seq + 1
  /\ (q = ResultFrames(n) /\ k = 4) \/ (q = FailedFrames(n) /\ k = 1)
  /\ TurnEnds(t, FALSE) /\ t.frames = <<a>> \o q
  /\ t.peer.state = "done" /\ t.peer.seq = n + k
  /\ t.peer.last = worker.last /\ t.peer.accepted = worker.accepted
  /\ t.peer.acknowledgementPending <=> k = 4
  /\ BridgeKeeps(bridge, t.bridge)

\* A recovering host is sent the completion behind the answer.
LEMMA SettlesAgainCalmly ==
  ASSUME SessionIInv, SessionIInv', Calm, reception.active, worker.state = "running",
         NEW a, NEW n, NEW q, NEW k, NEW t, SettlingAgain(a, n, q, k, t),
         socket.state = "up" => IsAnswer(a.event) /\ run.recovering /\ host.seq = 2
  PROVE  Calm'
<1>0. /\ a \in ToHost /\ a.seq = worker.seq
      /\ n = worker.seq + 1
      /\ (q = ResultFrames(n) /\ k = 4) \/ (q = FailedFrames(n) /\ k = 1)
      /\ TurnEnds(t, FALSE) /\ t.frames = <<a>> \o q
      /\ t.peer.state = "done" /\ t.peer.seq = n + k
      /\ t.peer.last = worker.last /\ t.peer.accepted = worker.accepted
      /\ t.peer.acknowledgementPending <=> k = 4
      /\ BridgeKeeps(bridge, t.bridge)
  BY DEF SettlingAgain
<1>1. CalmWorker /\ CalmReception /\ (socket.state = "up" => Conversation)
  BY CalmParts
<1>2. worker.seq \in Nat /\ worker.last \in Nat /\ host.seq \in Nat /\ n \in Nat
  BY <1>0, CalmTypes
<1>3. TurnEnds(t, FALSE) => worker' = t.peer /\ host' = host
  BY DEF TurnEnds, hostSide
<1>4. /\ q \in Seq(ToHost) /\ Len(q) = k
      /\ n = host.seq + 2 => NextFramesFrom(n, q)
  BY <1>0, <1>2, <1>3, CompletionExpected
<1>5. <<a>> \o q \in Seq(ToHost) /\ Len(<<a>> \o q) = 1 + k
  BY <1>0, <1>4
<1>6. PICK frames : frames = <<a>> \o q
  OBVIOUS
<1>7. /\ worker' = t.peer /\ bridge' = t.bridge /\ reception' = NoReception
      /\ socket' = WrittenToHost(frames)
      /\ UNCHANGED <<op, run, host, heard, stored, process>>
  BY <1>0, <1>5, <1>6, TurnEndsFields DEF BridgeKeeps
<1>8. socket.toWorker = <<>> /\ \A f \in Carried(socket.toWorker) : Fits(f)'
  BY <1>1 DEF CalmReception, Carried
<1>9. ASSUME socket.state = "up"
      PROVE  worker.seq = host.seq + 1 /\ NextFrames(frames)
  <2>1. WorkerTurn /\ Busy
    BY <1>1, <1>9 DEF Conversation, Busy
  <2>2. worker.seq = host.seq + 1
    BY <2>1 DEF WorkerTurn
  <2>3. IsAnswer(a.event)'
    BY <1>7, <1>9 DEF IsAnswer, Preceding
  <2>4. a.seq = host'.seq + 1 /\ a.seq > 1 /\ host'.seq \in Nat
    BY <1>0, <1>2, <1>7, <1>9, <2>2
  <2>5. Expected(a)'
    BY <2>3, <2>4 DEF Expected
  <2>6. NextFramesFrom(worker.seq + 1, q)
    BY <1>0, <1>2, <1>4, <2>2
  <2>7. PICK m : m = worker.seq
    OBVIOUS
  <2>8. NextFramesFrom(m, frames)
    BY <1>0, <1>2, <1>4, <1>6, <2>5, <2>6, <2>7, FramesInTurn
  <2> QED
    BY <2>2, <2>7, <2>8 DEF NextFrames
<1>10. CalmWorker'
  BY <1>0, <1>1, <1>7 DEF CalmWorker, BridgeKeeps
<1>11. k \in {1, 4}
  BY <1>0
<1>14. /\ n = worker.seq + 1 /\ worker'.seq = n + k /\ worker'.state = "done"
       /\ worker'.acknowledgementPending <=> k = 4
  BY <1>0, <1>7
<1>15. Len(frames) = 1 + k
  BY <1>5, <1>6
<1>12. socket.state = "up" =>
         /\ socket.toWorker = <<>> /\ worker.seq <= host.seq + 2
         /\ worker'.seq = worker.seq + Len(frames) /\ NextFrames(frames)
         /\ worker'.state \in {"ready", "running", "done"}
         /\ worker'.state \in {"ready", "running"} =>
              host.seq = worker.last + 1 /\ worker'.seq = host.seq + 2
         /\ worker'.state = "ready" => worker.last <= Preceding
         /\ worker'.state = "running" => worker.last > 0
         /\ worker'.state = "done" =>
              /\ host.seq = Preceding + 3 \/ (run.recovering /\ host.seq = 2)
              /\ worker'.seq \in {host.seq + 3, host.seq + 6}
              /\ worker'.acknowledgementPending <=> worker'.seq = host.seq + 6
  BY <1>2, <1>8, <1>9, <1>11, <1>14, <1>15
<1>13. bridge'.stopped = bridge.stopped
  BY <1>0, <1>7 DEF BridgeKeeps
<1> QED
  BY <1>0, <1>5, <1>6, <1>7, <1>8, <1>10, <1>12, <1>13, TurnCalmly

\* The turn in which the worker deals with what it has read.
ControlTurn == BeginRun(AnswerObservation(AnswerBegin(AnswerUpdate(Turn(AfterReception(worker))))))

LEMMA ControlBegins ==
  ASSUME SessionIInv, Calm, ReceiveControl
  PROVE  /\ process = "running" /\ reception.active /\ socket.toWorker = <<>>
         /\ ~bridge.stopped /\ ~bridge.shutdown /\ ~bridge.cancelled /\ CalmWorker
         /\ ReadBegin \/ ReadObservation \/ ReadUpdate \/ ReadAcknowledgement
         /\ TurnEnds(IF AcknowledgementsComplete(worker) THEN Stopped(ControlTurn) ELSE ControlTurn,
                     ControlTurn.thrown)
         /\ LET t == Turn(AfterReception(worker)) IN
              /\ TurnOK(t) /\ t \in Turns /\ t.peer = AfterReception(worker)
              /\ t.bridge = bridge /\ t.frames = <<>> /\ ~t.thrown
<1>1. process = "running" /\ reception.active
  BY DEF ReceiveControl
<1>2. CalmReception /\ CalmWorker /\ CalmLeaving
  BY CalmParts
<1>3. /\ socket.toWorker = <<>> /\ ~reception.cancel /\ ~bridge.stopped /\ ~bridge.shutdown
      /\ ~bridge.cancelled
      /\ ReadBegin \/ ReadObservation \/ ReadUpdate \/ ReadAcknowledgement
  BY <1>1, <1>2 DEF CalmReception, CalmWorker, CalmLeaving
<1>4. \A t : AnswerCancel(t) = t
  BY <1>3 DEF AnswerCancel
<1>5. TurnEnds(IF AcknowledgementsComplete(worker) THEN Stopped(ControlTurn) ELSE ControlTurn,
               ControlTurn.thrown)
  BY <1>4, Zenon DEF ReceiveControl, ControlTurn
<1>6. LET t == Turn(AfterReception(worker)) IN
        /\ TurnOK(t) /\ t \in Turns /\ t.peer = AfterReception(worker)
        /\ t.bridge = bridge /\ t.frames = <<>> /\ ~t.thrown
  <2>1. TurnOK(Turn(AfterReception(worker)))
    BY AfterReceptionOK
  <2> QED
    BY <2>1 DEF TurnOK, Turn
<1> QED
  BY <1>1, <1>2, <1>3, <1>5, <1>6

\* The turn does nothing but send one answer, which the worker may send.
LEMMA AnsweringTurn ==
  ASSUME SessionIInv, Calm, ReceiveControl, ~AcknowledgementsComplete(worker),
         NEW e, Says(e), CanSend(worker, e),
         e.type \in {"generation_updated", "begin_accepted", "begin_ack"},
         ControlTurn = BeginRun(Send(Turn(AfterReception(worker)), e))
  PROVE  Answering(e, ControlTurn)
<1> DEFINE t == Turn(AfterReception(worker))
           s == Send(t, e)
<1>1. TurnOK(t) /\ t \in Turns /\ t.peer = worker /\ t.bridge = bridge /\ t.frames = <<>> /\ ~t.thrown
  BY ControlBegins DEF AfterReception
<1>2. TurnEnds(ControlTurn, ControlTurn.thrown)
  BY ControlBegins
<1> HIDE DEF t
<1>3. TurnOK(s) /\ s \in Turns
  BY <1>1, SendOK DEF TurnOK
<1>4. s.bridge = bridge /\ ~s.thrown /\ s.peer = AfterSend(worker, e)
      /\ s.frames = <<>> \o FramesOf(worker, e)
  BY <1>1, SentFields
<1>5. FramesOf(worker, e) = <<[seq |-> worker.seq, event |-> e]>> /\ FramesOf(worker, e) \in Seq(ToHost)
  BY WorkerFacts, SendFields, FramesTyped
<1>6. <<>> \o FramesOf(worker, e) = FramesOf(worker, e)
  BY <1>5, ConcatEmptySeq
<1>7. ControlTurn = BeginRun(s)
  BY DEF t
<1> HIDE DEF s
<1>8. /\ ControlTurn.peer = s.peer /\ ControlTurn.frames = s.frames /\ ControlTurn.thrown = s.thrown
      /\ BridgeKeeps(s.bridge, ControlTurn.bridge)
  BY <1>3, <1>7, BeginRunFields
<1>9. ControlTurn.thrown = FALSE
  BY <1>3, <1>4, <1>8 DEF Turns
<1>10. PICK f : f = [seq |-> worker.seq, event |-> e]
  OBVIOUS
<1>11. ControlTurn.frames = <<f>> /\ f.seq = worker.seq /\ f.event = e
  BY <1>4, <1>5, <1>6, <1>8, <1>10
<1>12. /\ Len(ControlTurn.frames) = 1 /\ ControlTurn.frames[1].seq = worker.seq
       /\ ControlTurn.frames[1].event = e
  BY <1>11
<1> QED
  BY <1>2, <1>4, <1>5, <1>6, <1>8, <1>9, <1>12 DEF Answering

LEMMA BeginAnsweredCalmly ==
  ASSUME SessionIInv, SessionIInv', Calm, ReceiveControl, ReadBegin
  PROVE  Calm'
<1> DEFINE e == About("begin_accepted", reception.start.instruction)
<1>1. /\ reception.start # None /\ reception.observed = None /\ reception.update = None
      /\ reception.start.status = "accepted"
      /\ worker.state = "running" /\ worker.accepted = reception.start.instruction
  BY DEF ReadBegin
<1>2. reception.start.instruction \in StartInstruction /\ Faithful(reception.start.instruction)
  BY <1>1, ReceptionFields
<1>3. e.type = "begin_accepted" /\ e.instruction = reception.start.instruction
  BY DEF About
<1>4. Says(e)
  BY <1>1, <1>2, SayableAbout
<1>5. CanSend(worker, e)
  <2> HIDE DEF e
  <2> QED
    BY <1>1, <1>2, <1>3, InstructionIsSome DEF CanSend
<1>6. ControlTurn = BeginRun(Send(Turn(AfterReception(worker)), e))
  BY <1>1, Zenon DEF ControlTurn, AnswerUpdate, AnswerBegin, AnswerObservation
<1>7. ~AcknowledgementsComplete(worker)
  BY <1>1 DEF AcknowledgementsComplete
<1>8. reception.active
  BY DEF ReceiveControl
<1>9. ASSUME socket.state = "up"
      PROVE  IsAnswer(e)
  <2>1. host.seq = Preceding + 2 /\ reception.start.instruction = run.instruction
    BY <1>1, <1>9, CalmParts DEF Conversation
  <2> QED
    BY <2>1 DEF IsAnswer, Preceding
<1> HIDE DEF e
<1>10. Answering(e, ControlTurn)
  BY <1>3, <1>4, <1>5, <1>6, <1>7, AnsweringTurn
<1> QED
  BY <1>1, <1>8, <1>9, <1>10, AnswersCalmly

LEMMA ObservationAnsweredCalmly ==
  ASSUME SessionIInv, SessionIInv', Calm, ReceiveControl, ReadObservation
  PROVE  Calm'
<1> DEFINE e == About("begin_ack", reception.observed)
           t == Turn(AfterReception(worker))
<1>1. /\ reception.start = None /\ reception.observed # None /\ reception.update = None
      /\ worker.accepted = reception.observed
  BY DEF ReadObservation
<1>2. reception.observed \in StartInstruction /\ Faithful(reception.observed)
  BY <1>1, ReceptionFields
<1>3. e.type = "begin_ack" /\ e.instruction = reception.observed
  BY DEF About
<1>4. Says(e)
  BY <1>2, SayableAbout
<1>5. ControlTurn = BeginRun(Send(t, e))
  BY <1>1, Zenon DEF ControlTurn, AnswerUpdate, AnswerBegin, AnswerObservation
<1>6. /\ reception.active /\ process = "running" /\ CalmWorker
      /\ ~bridge.stopped /\ ~bridge.shutdown /\ ~bridge.cancelled
  BY ControlBegins
<1>7. worker.state \in {"running", "done", "acknowledged"}
  BY <1>1, <1>6 DEF CalmWorker
<1>8. CASE worker.state = "running"
  <2>1. CanSend(worker, e)
    <3> HIDE DEF e
    <3> QED
      BY <1>1, <1>3, <1>8 DEF CanSend
  <2>2. ~AcknowledgementsComplete(worker)
    BY <1>8 DEF AcknowledgementsComplete
  <2>3. ASSUME socket.state = "up"
        PROVE  IsAnswer(e)
    <3>1. host.seq = Preceding + 3 /\ reception.observed = run.instruction
      BY <1>1, <2>3, CalmParts DEF Conversation
    <3> QED
      BY <3>1 DEF IsAnswer, Preceding
  <2> HIDE DEF e
  <2>4. Answering(e, ControlTurn)
    BY <1>3, <1>4, <1>5, <2>1, <2>2, AnsweringTurn
  <2> QED
    BY <1>6, <1>8, <2>3, <2>4, AnswersCalmly
<1>9. CASE worker.state \in {"done", "acknowledged"}
  <2> DEFINE w == AfterReception(worker)
             s == Send(t, e)
  <2>1. /\ w.state \in {"done", "acknowledged"} /\ w.accepted = worker.accepted
        /\ w.acknowledgementPending = worker.acknowledgementPending
    BY <1>9, WorkerFacts DEF AfterReception, WorkerProtocolPeers
  <2>2. TurnOK(t) /\ t \in Turns /\ t.peer = w /\ t.bridge = bridge /\ t.frames = <<>> /\ ~t.thrown
    BY ControlBegins
  <2> HIDE DEF w, t
  <2>3. ~CanSend(t.peer, e)
    <3> HIDE DEF e
    <3> QED
      BY <1>3, <2>1, <2>2 DEF CanSend
  <2>4. s.bridge = bridge /\ s.thrown /\ s.peer = w /\ s.frames = <<>>
    BY <2>2, <2>3, SentFields
  <2>5. s \in Turns
    BY <1>4, <2>2, SendOK DEF TurnOK
  <2> HIDE DEF s
  <2>6. /\ ControlTurn.peer = w /\ ControlTurn.frames = <<>> /\ ControlTurn.thrown
        /\ BridgeKeeps(bridge, ControlTurn.bridge)
    BY <1>5, <2>4, <2>5, BeginRunFields DEF s
  <2>7. Stopped(ControlTurn) = ControlTurn
    BY <2>6 DEF Stopped
  <2>8. TurnEnds(ControlTurn, ControlTurn.thrown)
    BY <2>7, ControlBegins
  <2>9. /\ worker' = w /\ bridge' = ControlTurn.bridge /\ reception' = NoReception
        /\ socket' = WorkerCloses(WrittenToHost(<<>>))
        /\ UNCHANGED <<op, run, host, heard, stored, process>>
    BY <2>6, <2>8 DEF TurnEnds, hostSide
  <2>10. socket' = WorkerCloses(socket)
    BY <2>9 DEF WrittenToHost
  <2>11. CalmWorker'
    <3>1. ~bridge'.cancelled /\ ~bridge'.shutdown
      BY <1>6, <2>6, <2>9 DEF BridgeKeeps
    <3>2. worker'.state \in {"done", "acknowledged"} /\ worker'.accepted # None
      BY <1>1, <1>2, <2>1, <2>9, InstructionIsSome
    <3> QED
      BY <3>1, <3>2 DEF CalmWorker
  <2>12. socket.state # "up"
    BY <1>1, <1>9, CalmParts DEF Conversation
  <2> QED
    BY <1>6, <2>9, <2>10, <2>11, <2>12, WorkerEndsCalmly
<1> QED
  BY <1>7, <1>8, <1>9

\* The worker is acknowledged, and leaves.
LEMMA AcknowledgedLeavesCalmly ==
  ASSUME SessionIInv, SessionIInv', Calm, ReceiveControl, ReadAcknowledgement
  PROVE  Calm'
<1> DEFINE w == AfterReception(worker)
           t == Turn(w)
<1>1. /\ reception.start = None /\ reception.observed = None /\ reception.update = None
      /\ worker.state = "done" /\ ~worker.acknowledgementPending
  BY DEF ReadAcknowledgement
<1>2. /\ reception.active /\ process = "running" /\ CalmWorker /\ ~bridge.cancelled
      /\ socket.toWorker = <<>>
      /\ TurnOK(t) /\ t \in Turns /\ t.peer = w /\ t.bridge = bridge /\ t.frames = <<>> /\ ~t.thrown
  BY ControlBegins
<1>3. AcknowledgementsComplete(worker)
  BY <1>1 DEF AcknowledgementsComplete
<1>4. ControlTurn = t
  BY <1>1, Zenon DEF ControlTurn, AnswerUpdate, AnswerBegin, AnswerObservation, BeginRun
<1>5. w.state = "acknowledged" /\ w.accepted = worker.accepted
  BY <1>3, WorkerFacts DEF AfterReception, WorkerProtocolPeers
<1> HIDE DEF w, t
<1> DEFINE s == Stopped(t)
<1>6. TurnEnds(s, t.thrown)
  BY <1>3, <1>4, ControlBegins
<1>7. /\ s.peer = w /\ s.frames = <<>> /\ ~s.bridge.cancelled
      /\ s.bridge.stopped /\ s.bridge.shutdown
  BY <1>2, StoppedFields
<1> HIDE DEF s
<1>8. /\ worker' = w /\ bridge' = s.bridge /\ reception' = NoReception
      /\ socket' = WorkerCloses(WrittenToHost(<<>>))
      /\ UNCHANGED <<op, run, host, heard, stored, process>>
  BY <1>6, <1>7 DEF TurnEnds, hostSide
<1>9. socket' = WorkerCloses(socket)
  BY <1>8 DEF WrittenToHost
<1>10. CalmWorker'
  BY <1>5, <1>7, <1>8 DEF CalmWorker
<1>11. ASSUME socket.state = "up"
       PROVE  bridge'.stopped /\ socket.toHost = <<>> /\ run.at = "exit"
  <2>1. /\ Conversation /\ WorkerTurn /\ heard.open /\ CalmSession /\ CalmHost
    BY <1>11, CalmParts DEF Conversation, SessionIInv, ConnectionIsOpen
  <2>2. host.acknowledged # None
    BY <1>1, <1>2, <2>1 DEF WorkerTurn, Busy
  <2>3. run.at = "exit"
    BY <2>1, <2>2 DEF CalmSession
  <2>4. host.last = host.seq + 5
    BY <2>1, <2>2 DEF CalmHost, HostResult
  <2>5. worker.seq = host.last + Len(socket.toHost) + 1 /\ worker.seq \in {host.seq + 3, host.seq + 6}
    BY <1>1, <2>1 DEF WorkerTurn
  <2>6. socket.toHost \in Seq(ToHost)
    BY WorkerFacts, SocketFields DEF SocketOK
  <2>7. Len(socket.toHost) \in Nat
    BY <2>6
  <2>8. Len(socket.toHost) = 0
    BY <2>4, <2>5, <2>7, CalmTypes
  <2>9. socket.toHost = <<>>
    BY <2>6, <2>8, EmptySeq
  <2> QED
    BY <1>7, <1>8, <2>3, <2>9
<1> QED
  BY <1>2, <1>8, <1>9, <1>10, <1>11, WorkerEndsCalmly

\* The answer to an announced generation is the one a recovering host expects.
LEMMA UpdateAnswerExpected ==
  ASSUME SessionIInv, Calm, ReadUpdate, socket.state = "up"
  PROVE  run.recovering /\ host.seq = 2 /\ IsAnswer(UpdateAnswer(reception.update))
<1> DEFINE u == reception.update
           e == UpdateAnswer(u)
<1>1. /\ u # None /\ u.generation > 1 /\ u.instruction = stored.acceptance
      /\ u.acceptance = IF stored.acceptance = None THEN "not_accepted" ELSE "accepted"
  BY DEF ReadUpdate
<1>2. /\ Conversation /\ CalmSession /\ PlaceHolds /\ heard.open
  BY CalmParts DEF SessionIInv, ConnectionIsOpen
<1>3. host.seq = Preceding + 1 /\ u.generation = run.instruction.deliveryGeneration
  BY <1>1, <1>2 DEF Conversation
<1>4. run.recovering
  <2>1. run.at \notin {"down", "ended"}
    BY <1>2 DEF CalmSession
  <2>2. ~run.recovering => run.instruction = InstructionOf(1)
    BY <1>2, <2>1 DEF PlaceHolds
  <2>3. InstructionOf(1).deliveryGeneration = 1
    BY DEF InstructionOf
  <2> QED
    BY <1>1, <1>3, <2>2, <2>3, CalmTypes
<1>5. host.seq = 2 /\ Preceding = 1
  BY <1>3, <1>4 DEF Preceding
<1>6. /\ e.type = "generation_updated" /\ e.generation = u.generation
      /\ e.instruction = u.instruction /\ e.acceptance = u.acceptance
  BY DEF UpdateAnswer
<1> HIDE DEF e
<1>7. IsAnswer(e)
  BY <1>1, <1>3, <1>5, <1>6 DEF IsAnswer
<1> QED
  BY <1>4, <1>5, <1>7 DEF e

LEMMA UpdateAnsweredCalmly ==
  ASSUME SessionIInv, SessionIInv', Calm, ReceiveControl, ReadUpdate
  PROVE  Calm'
<1> DEFINE u == reception.update
           e == UpdateAnswer(u)
           t == Turn(AfterReception(worker))
           s == Send(t, e)
           c == [s EXCEPT !.bridge.completionSent = FALSE]
           d == Settle(c)
<1>1. /\ reception.start = None /\ reception.observed = None /\ u # None
      /\ u.generation = worker.generation /\ u.instruction = worker.accepted
      /\ worker.state = IF worker.accepted = None THEN "ready" ELSE "running"
      /\ u.acceptance = IF worker.accepted = None THEN "not_accepted" ELSE "accepted"
  BY DEF ReadUpdate
<1>2. /\ e.type = "generation_updated" /\ e.generation = u.generation
      /\ e.instruction = u.instruction /\ e.acceptance = u.acceptance
  BY DEF UpdateAnswer
<1>3. Says(e)
  BY <1>1, ReceptionFields
<1>4. /\ reception.active /\ ~bridge.cancelled
      /\ TurnOK(t) /\ t \in Turns /\ t.bridge = bridge /\ t.frames = <<>> /\ ~t.thrown
      /\ t.peer = AfterReception(worker)
  BY ControlBegins
<1>5. ~AcknowledgementsComplete(worker) /\ AfterReception(worker) = worker
  BY <1>1 DEF AcknowledgementsComplete, AfterReception
<1>6. socket.state = "up" => run.recovering /\ host.seq = 2 /\ IsAnswer(e)
  BY UpdateAnswerExpected
<1>7. ControlTurn = BeginRun(AnswerUpdate(t))
  BY <1>1, Zenon DEF ControlTurn, AnswerBegin, AnswerObservation
<1> HIDE DEF e
<1>8. CanSend(worker, e)
  BY <1>1, <1>2 DEF CanSend
<1>9. AnswerUpdate(t) \in {s, d} /\ (AnswerUpdate(t) = d => AnswerUpdate(t) = s \/ u.acceptance = "accepted")
  BY <1>1, Zenon DEF AnswerUpdate, e
<1> HIDE DEF t
<1>12. t.peer = worker
  BY <1>4, <1>5
<1>10. CASE AnswerUpdate(t) = s
  <2>1. ControlTurn = BeginRun(Send(Turn(AfterReception(worker)), e))
    BY <1>7, <1>10 DEF t
  <2>2. Answering(e, ControlTurn)
    BY <1>2, <1>3, <1>5, <1>8, <2>1, AnsweringTurn
  <2> QED
    BY <1>1, <1>4, <1>6, <2>2, AnswersCalmly
<1>11. CASE AnswerUpdate(t) # s
  <2>1. worker.state = "running" /\ ControlTurn = BeginRun(d)
    BY <1>1, <1>7, <1>9, <1>11
  <2>2. TurnOK(s) /\ s \in Turns
    BY <1>3, <1>4, SendOK DEF TurnOK
  <2>3. s.bridge = bridge /\ ~s.thrown /\ s.peer = AfterSend(worker, e)
        /\ s.frames = <<>> \o FramesOf(worker, e)
    BY <1>4, <1>8, <1>12, SentFields
  <2>4. /\ FramesOf(worker, e) = <<[seq |-> worker.seq, event |-> e]>>
        /\ FramesOf(worker, e) \in Seq(ToHost)
        /\ AfterSend(worker, e).seq = worker.seq + 1 /\ AfterSend(worker, e).state = "running"
        /\ WorkerKeeps(worker, AfterSend(worker, e), {"seq", "state"})
    BY <1>2, <1>3, <2>1, WorkerFacts, SendFields, FramesTyped
  <2>5. <<>> \o FramesOf(worker, e) = FramesOf(worker, e)
    BY <2>4, ConcatEmptySeq
  <2>6. PICK a, n : a = [seq |-> worker.seq, event |-> e] /\ n = worker.seq + 1
    OBVIOUS
  <2>7. /\ a.seq = worker.seq /\ a.event = e /\ s.frames = <<a>> /\ n \in Nat /\ s.peer.seq = n
        /\ s.peer.state = "running" /\ s.peer.last = worker.last
        /\ s.peer.accepted = worker.accepted
        /\ s.peer.acknowledgementPending = worker.acknowledgementPending
    BY <2>3, <2>4, <2>5, <2>6, CalmTypes DEF WorkerKeeps
  <2>8. a \in ToHost
    BY <2>4, <2>6
  <2> HIDE DEF s
  <2>9. TurnOK(c)
    BY <2>2, FlagsOK
  <2>10. /\ c.peer = s.peer /\ c.frames = s.frames /\ c.thrown = s.thrown
         /\ BridgeKeeps(bridge, c.bridge) /\ c.bridge.completionSent = FALSE
    BY <2>2, <2>3, CompletionFlagFields
  <2> HIDE DEF c
  <2>11. ~c.bridge.cancelled /\ ~c.thrown
    BY <1>4, <2>3, <2>10 DEF BridgeKeeps
  <2>12. TurnOK(d) /\ d \in Turns /\ BridgeKeeps(c.bridge, d.bridge) /\ ~d.thrown
    BY <2>7, <2>9, <2>10, <2>11, SettleOK, SettleFields DEF TurnOK
  <2>13. ~worker.acknowledgementPending
    BY <2>1, ControlBegins DEF CalmWorker
  <2>18. /\ c.bridge.final = "result" =>
              /\ d.frames = c.frames \o ResultFrames(c.peer.seq)
              /\ d.peer.seq = c.peer.seq + 4 /\ d.peer.acknowledgementPending
              /\ WorkerKeeps(c.peer, d.peer, {"state", "seq", "pending"})
         /\ c.bridge.final # "result" =>
              /\ d.frames = c.frames \o FailedFrames(c.peer.seq)
              /\ d.peer.seq = c.peer.seq + 1
              /\ WorkerKeeps(c.peer, d.peer, {"state", "seq"})
         /\ d.peer.state = "done"
    BY <2>7, <2>9, <2>10, <2>11, SettleFields
  <2> HIDE DEF d
  <2>14. PICK q, k :
           /\ (q = ResultFrames(n) /\ k = 4) \/ (q = FailedFrames(n) /\ k = 1)
           /\ d.frames = <<a>> \o q /\ d.peer.state = "done" /\ d.peer.seq = n + k
           /\ d.peer.last = worker.last /\ d.peer.accepted = worker.accepted
           /\ d.peer.acknowledgementPending <=> k = 4
    <3>1. CASE c.bridge.final = "result"
      <4>1. /\ d.frames = <<a>> \o ResultFrames(n) /\ d.peer.state = "done" /\ d.peer.seq = n + 4
            /\ d.peer.acknowledgementPending /\ WorkerKeeps(s.peer, d.peer, {"state", "seq", "pending"})
        BY <2>7, <2>10, <2>18, <3>1
      <4>2. d.peer.last = worker.last /\ d.peer.accepted = worker.accepted
        BY <2>7, <4>1 DEF WorkerKeeps
      <4> QED
        BY <4>1, <4>2
    <3>2. CASE c.bridge.final # "result"
      <4>1. /\ d.frames = <<a>> \o FailedFrames(n) /\ d.peer.state = "done" /\ d.peer.seq = n + 1
            /\ WorkerKeeps(s.peer, d.peer, {"state", "seq"})
        BY <2>7, <2>10, <2>18, <3>2
      <4>2. /\ d.peer.last = worker.last /\ d.peer.accepted = worker.accepted
            /\ ~d.peer.acknowledgementPending
        BY <2>7, <2>13, <4>1 DEF WorkerKeeps
      <4> QED
        BY <4>1, <4>2
    <3> QED
      BY <3>1, <3>2
  <2>15. PICK r : r = ControlTurn
    OBVIOUS
  <2>16. /\ r.peer = d.peer /\ r.frames = d.frames /\ ~r.thrown /\ BridgeKeeps(bridge, r.bridge)
    <3>1. r.peer = d.peer /\ r.frames = d.frames /\ r.thrown = d.thrown /\ BridgeKeeps(d.bridge, r.bridge)
      BY <2>1, <2>12, <2>15, BeginRunFields
    <3> QED
      BY <2>10, <2>12, <3>1 DEF BridgeKeeps
  <2>17. TurnEnds(r, FALSE)
    <3>1. TurnEnds(r, r.thrown)
      BY <1>5, <2>15, ControlBegins
    <3>2. TurnEnds(r, FALSE) <=> TurnEnds(r, r.thrown)
      BY <2>16 DEF TurnEnds
    <3> QED
      BY <3>1, <3>2
  <2>19. SettlingAgain(a, n, q, k, r)
    BY <2>6, <2>7, <2>8, <2>14, <2>16, <2>17 DEF SettlingAgain
  <2>20. socket.state = "up" => IsAnswer(a.event) /\ run.recovering /\ host.seq = 2
    BY <1>6, <2>7
  <2> QED
    BY <1>4, <2>1, <2>19, <2>20, SettlesAgainCalmly
<1> QED
  BY <1>10, <1>11

LEMMA ReceiveControlCalmly ==
  ASSUME SessionIInv, SessionIInv', Calm, ReceiveControl
  PROVE  Calm'
BY ControlBegins, BeginAnsweredCalmly, ObservationAnsweredCalmly, UpdateAnsweredCalmly,
   AcknowledgedLeavesCalmly

-----------------------------------------------------------------------------
(* The peers agree.                                                        *)

\* Nothing makes up for a mishap.
LEMMA MishapsStay ==
  ASSUME SessionIInv, [Next]_vars, mishap
  PROVE  mishap'
<1>1. ASSUME Fault \/ NoFault PROVE mishap'
  BY <1>1 DEF Fault, NoFault
<1>2. CASE UNCHANGED vars
  BY <1>2 DEF vars
<1>3. CASE Cancelled \/ RuntimeDies \/ WorkerDies
  BY <1>1, <1>3 DEF Cancelled, RuntimeDies, WorkerDies
<1>4. CASE WorkerStep
  <2>1. CASE ConnectToHost \/ Identify \/ WorkerSeesEnd \/ PiExits
    BY <2>1 DEF ConnectToHost, Identify, WorkerSeesEnd, PiExits
  <2>2. CASE \E disk \in Disks : ReceiveBegin(disk) \/ ReceiveUpdate(disk)
    BY <1>1, <2>2 DEF ReceiveBegin, ReceiveUpdate, DiskWorks
  <2>3. CASE ReceiveObservation \/ ReceiveCancel \/ ReceiveAcknowledgement \/ ReceiveControl
    BY <1>1, <2>3 DEF ReceiveObservation, ReceiveCancel, ReceiveAcknowledgement, ReceiveControl
  <2>4. CASE PromptRead
    BY <1>1, <2>4 DEF PromptRead
  <2>5. CASE AgentSettles
    BY <2>5 DEF AgentSettles
  <2> QED
    BY <1>4, <2>1, <2>2, <2>3, <2>4, <2>5 DEF WorkerStep, WorkerReceives
<1>5. CASE HostStep
  <2>1. CASE HostReceives \/ HostSeesEnd \/ StopProcess \/ RuntimeRecovers
    BY <2>1 DEF HostReceives, HostSeesEnd, StopProcess, RuntimeRecovers
  <2>2. CASE WaitForIdentification \/ ConfirmSuccessfulExit
    BY <1>1, <2>2 DEF WaitForIdentification, ConfirmSuccessfulExit, NoFault, rest
  <2>3. CASE \/ WorkerIdentified \/ StartDeliveryAuthorityAcquired \/ StartDeliveryAuthorityRevoked
             \/ RequestDeliveryGenerationUpdate \/ CompleteDispatcherHandoff
             \/ StartDeliveryGenerationConfirmed \/ StartAcceptanceUnknown
    BY <2>3 DEF WorkerIdentified, StartDeliveryAuthorityAcquired, StartDeliveryAuthorityRevoked,
       RequestDeliveryGenerationUpdate, CompleteDispatcherHandoff, StartDeliveryGenerationConfirmed,
       StartAcceptanceUnknown, Hook, Await, Writes, rest
  <2>4. CASE \/ CollectAcceptance \/ CollectAcknowledgement \/ CheckCancellation
             \/ StartDeliveryEntered \/ DispatchBegin \/ StartInstructionDispatched
    BY <2>4 DEF CollectAcceptance, CollectAcknowledgement, CheckCancellation, StartDeliveryEntered,
       DispatchBegin, StartInstructionDispatched, Hook, Writes, rest
  <2>5. CASE \/ AwaitAcceptance \/ StartInstructionAccepted \/ SendStartAcceptanceObservation
             \/ AwaitAcknowledgement \/ StartInstructionAcknowledged \/ AwaitReception
             \/ OfferResult \/ SendAcknowledgement \/ RequestCancellationOfWorker
    BY <2>5 DEF AwaitAcceptance, StartInstructionAccepted, SendStartAcceptanceObservation,
       AwaitAcknowledgement, StartInstructionAcknowledged, AwaitReception, OfferResult,
       SendAcknowledgement, RequestCancellationOfWorker, Hook, Await, Writes, rest
  <2> QED
    BY <1>5, <2>1, <2>2, <2>3, <2>4, <2>5 DEF HostStep
<1> QED
  BY <1>2, <1>3, <1>4, <1>5 DEF Next

LEMMA CalmHostStep ==
  ASSUME SessionIInv, SessionIInv', Calm, HostStep, ~mishap'
  PROVE  Calm'
<1>1. CASE \/ WaitForIdentification \/ WorkerIdentified \/ StartDeliveryAuthorityAcquired
           \/ StartDeliveryAuthorityRevoked \/ RequestDeliveryGenerationUpdate
           \/ CompleteDispatcherHandoff \/ StartDeliveryGenerationConfirmed
           \/ StartAcceptanceUnknown
  BY <1>1, WaitForIdentificationCalmly, FreshWorkerIdentifiedCalmly,
     RecoveringWorkerIdentifiedCalmly, StartDeliveryAuthorityAcquiredCalmly,
     StartDeliveryAuthorityRevokedCalmly, RequestDeliveryGenerationUpdateCalmly,
     CompleteDispatcherHandoffCalmly, StartDeliveryGenerationConfirmedCalmly,
     StartAcceptanceUnknownCalmly
<1>2. CASE \/ CollectAcceptance \/ CollectAcknowledgement \/ CheckCancellation
           \/ StartDeliveryEntered \/ DispatchBegin \/ StartInstructionDispatched
           \/ AwaitAcceptance \/ StartInstructionAccepted \/ SendStartAcceptanceObservation
  BY <1>2, CollectAcceptanceCalmly, CollectAcknowledgementCalmly, CheckCancellationCalmly,
     StartDeliveryEnteredCalmly, DispatchBeginCalmly, StartInstructionDispatchedCalmly,
     AwaitAcceptanceCalmly, StartInstructionAcceptedCalmly, SendStartAcceptanceObservationCalmly
<1>3. CASE \/ AwaitAcknowledgement \/ StartInstructionAcknowledged \/ AwaitReception
           \/ OfferResult \/ SendAcknowledgement \/ ConfirmSuccessfulExit
           \/ RequestCancellationOfWorker \/ StopProcess
  BY <1>3, AwaitAcknowledgementCalmly, StartInstructionAcknowledgedCalmly, AwaitReceptionCalmly,
     OfferResultCalmly, SendAcknowledgementCalmly, ConfirmSuccessfulExitCalmly,
     RequestCancellationOfWorkerCalmly, StopProcessCalmly
<1>4. CASE HostReceives \/ HostSeesEnd \/ RuntimeRecovers
  BY <1>4, HostReceivesCalmly, HostSeesEndCalmly, RuntimeRecoversCalmly
<1> QED
  BY <1>1, <1>2, <1>3, <1>4 DEF HostStep

LEMMA CalmWorkerStep ==
  ASSUME SessionIInv, SessionIInv', Calm, WorkerStep, ~mishap'
  PROVE  Calm'
<1>1. CASE ConnectToHost \/ Identify \/ WorkerSeesEnd \/ PiExits
  BY <1>1, ConnectToHostCalmly, IdentifyCalmly, WorkerSeesEndCalmly, PiExitsCalmly
<1>2. CASE \E disk \in Disks : ReceiveBegin(disk) \/ ReceiveUpdate(disk)
  BY <1>2, ReceiveBeginCalmly, ReceiveUpdateCalmly
<1>3. CASE ReceiveObservation \/ ReceiveCancel \/ ReceiveAcknowledgement
  BY <1>3, ReceiveObservationCalmly, NoCancelIsRead, ReceiveAcknowledgementCalmly
<1>4. CASE ReceiveControl \/ PromptRead \/ AgentSettles
  BY <1>4, ReceiveControlCalmly, PromptReadCalmly, AgentSettlesCalmly
<1> QED
  BY <1>1, <1>2, <1>3, <1>4 DEF WorkerStep, WorkerReceives

LEMMA CalmStutter ==
  ASSUME SessionIInv, Calm, UNCHANGED vars
  PROVE  Calm'
<1>1. /\ BegunIsRecorded /\ NothingBegun /\ CalmStore /\ CalmWorker /\ CalmFrames /\ CalmReception
      /\ CalmLeaving /\ CalmSession /\ (socket.state = "up" => Conversation)
  BY CalmParts
<1>2. UNCHANGED <<op, run, host, heard, worker, bridge, reception, stored, socket, process>>
  BY DEF vars, hostSide, workerSide
<1>3. CalmRecord' /\ PlaceHolds' /\ CalmHost'
  BY <1>2, HostSideStays
<1>4. BegunIsRecorded' /\ NothingBegun' /\ CalmStore'
  BY <1>1, <1>2 DEF BegunIsRecorded, Recorded, Sent, Begins, Carried, NothingBegun, Preceding, CalmStore
<1>5. CalmWorker' /\ CalmLeaving' /\ CalmSession'
  BY <1>1, <1>2 DEF CalmWorker, CalmLeaving, CalmSession
<1>6. CalmFrames'
  BY <1>1, <1>2 DEF CalmFrames, Carried, Fits
<1>7. CalmReception'
  BY <1>1, <1>2 DEF CalmReception, ReadBegin, ReadObservation, ReadUpdate, ReadAcknowledgement
<1>8. socket.state = "up" => Conversation'
  <2>1. WorkerTurn => WorkerTurn'
    BY <1>2 DEF WorkerTurn, Preceding, Busy
  <2>2. \A f : Expected(f) => Expected(f)'
    BY <1>2 DEF Expected, IsAnswer, Preceding
  <2>3. HostFrame' = HostFrame
    BY <1>2 DEF HostFrame, Preceding
  <2> QED
    BY <1>1, <1>2, <2>1, <2>2, <2>3 DEF Conversation, Preceding, Carried
<1> QED
  BY <1>2, <1>3, <1>4, <1>5, <1>6, <1>7, <1>8 DEF Calm

LEMMA CalmStep == SessionIInv /\ SessionIInv' /\ CalmIInv /\ [Next]_vars => CalmIInv'
<1> SUFFICES ASSUME SessionIInv, SessionIInv', CalmIInv, [Next]_vars, ~mishap'
             PROVE  Calm'
  BY DEF CalmIInv
<1>1. Calm
  BY MishapsStay DEF CalmIInv
<1>2. CASE HostStep
  BY <1>1, <1>2, CalmHostStep
<1>3. CASE WorkerStep
  BY <1>1, <1>3, CalmWorkerStep
<1>4. CASE Cancelled \/ WorkerDies
  BY <1>4 DEF Cancelled, WorkerDies, Fault
<1>5. CASE RuntimeDies
  BY <1>1, <1>5, RuntimeDiesCalmly
<1>6. CASE UNCHANGED vars
  BY <1>1, <1>6, CalmStutter
<1> QED
  BY <1>2, <1>3, <1>4, <1>5, <1>6 DEF Next

LEMMA CalmInit == Init => CalmIInv
<1> SUFFICES ASSUME Init PROVE Calm
  BY DEF CalmIInv
<1>1. /\ op = [Requested EXCEPT !.state = "starting", !.workerLaunched = TRUE,
                                !.presentation = CHOOSE w \in Workspace : TRUE]
      /\ run = [at |-> "identify", recovering |-> FALSE, instruction |-> InstructionOf(1),
                cancel |-> "no"]
      /\ host = FreshHost /\ heard = FreshHeard /\ worker = FreshWorker
      /\ ~bridge.cancelled /\ ~bridge.stopped /\ ~bridge.shutdown
      /\ reception = NoReception
      /\ stored = [acceptance |-> None, torn |-> FALSE,
                   authority |-> [generation |-> 1, dispatcher |-> None]]
      /\ socket = NoSocket /\ process = "running"
  BY DEF Init
<1>2. /\ op.state = "starting" /\ op.workerLaunched
      /\ op.startDeliveryAuthority = None /\ op.startDeliveryEntry = None
      /\ op.startInstructionDelivery = None /\ op.startInstructionAcceptance = None
      /\ op.startInstructionAcknowledgement = None /\ op.startDeliveryHandoffs = <<>>
  BY <1>1 DEF Requested
<1>3. socket.state = "none" /\ socket.toHost = <<>> /\ socket.toWorker = <<>>
  BY <1>1 DEF NoSocket
<1>4. Carried(socket.toWorker) = {} /\ Begins = {}
  BY <1>3 DEF Carried, Begins
<1>5. /\ run.at = "identify" /\ ~run.recovering /\ run.instruction = InstructionOf(1)
      /\ run.cancel = "no"
  BY <1>1
<1>6. /\ host.state = "awaiting_hello" /\ host.last = 0 /\ host.seq = 1
      /\ host.instruction = None /\ host.accepted = None /\ host.observations = 0
      /\ host.acknowledgements = 0 /\ host.dispatcher = None /\ host.pending = 0
      /\ host.current = None /\ host.received = None /\ host.acknowledgementPending = FALSE
      /\ host.acknowledged = None
  BY <1>1 DEF FreshHost
<1>7. /\ heard.open /\ ~heard.connected /\ heard.completed = FALSE /\ heard.started = "pending"
      /\ heard.generation = "pending" /\ heard.acceptance = "pending"
      /\ heard.acknowledgement = "pending" /\ heard.reception = "pending"
  BY <1>1 DEF FreshHeard
<1>8. /\ stored.acceptance = None /\ ~stored.torn /\ stored.authority.generation = 1
      /\ stored.authority.dispatcher = None
  BY <1>1
<1>9. worker.state = "new" /\ worker.accepted = None /\ ~worker.acknowledgementPending
  BY <1>1 DEF FreshWorker
<1>10. ~reception.active /\ ~reception.cancel
  BY <1>1 DEF NoReception
<1>11. CalmRecord
  BY <1>2 DEF CalmRecord, HasHandoff, HandoffPending
<1>12. BegunIsRecorded /\ NothingBegun /\ CalmStore
  BY <1>2, <1>4, <1>5, <1>8 DEF BegunIsRecorded, NothingBegun, CalmStore
<1>13. CalmWorker
  BY <1>1, <1>9 DEF CalmWorker
<1>14. CalmFrames
  BY <1>3, <1>4, NothingIsShort DEF CalmFrames
<1>15. CalmReception
  BY <1>1, <1>10 DEF CalmReception
<1>16. CalmLeaving
  BY <1>1, <1>3 DEF CalmLeaving
<1>17. CalmSession
  BY <1>3, <1>5, <1>6, <1>7 DEF CalmSession
<1>18. PlaceHolds
  BY <1>2, <1>5, <1>6 DEF PlaceHolds, AtIdentify
<1>19. Preceding = 0 /\ ~Answered /\ ~HandedOver
  BY <1>5, <1>6 DEF Preceding, Answered, HandedOver
<1>20. CalmHost
  <2>1. HostTurn
    BY <1>6, <1>7, <1>19 DEF HostTurn
  <2>2. HostHandover
    BY <1>5, <1>6, <1>7, <1>19 DEF HostHandover
  <2>3. HostBegin
    BY <1>6, <1>7, <1>19 DEF HostBegin
  <2>4. HostResult
    BY <1>6, <1>7 DEF HostResult
  <2> QED
    BY <1>6, <2>1, <2>2, <2>3, <2>4 DEF CalmHost
<1> QED
  BY <1>3, <1>11, <1>12, <1>13, <1>14, <1>15, <1>16, <1>17, <1>18, <1>20 DEF Calm

\* Until something out of the ordinary happens, the host's sequence number tells how
\* far the conversation is: which frames are on their way, what both peers and the
\* record hold, and what the run does next, over any number of Runtimes.
THEOREM CalmInvariant == Spec => []CalmIInv
<1>1. SessionIInv /\ SessionIInv' /\ CalmIInv /\ [Next]_vars => CalmIInv'
  BY CalmStep
<1> QED
  BY <1>1, CalmInit, SessionInvariant, PTL DEF Spec

\* However often the Runtime dies and a successor recovers the session, neither
\* HostProtocolPeer nor WorkerProtocolPeer sees a violation, and no
\* worker that still runs is stopped: that takes a fault, a worker that dies, a
\* cancellation or an agent that settles before its start is acknowledged.
THEOREM PeersAgreeHolds == Spec => []PeersAgree
<1>1. CalmIInv => PeersAgree
  <2> SUFFICES ASSUME Calm
               PROVE  /\ host.state # "failed" /\ worker.state # "failed"
                      /\ run.at = "stop" => process # "running"
    BY DEF CalmIInv, PeersAgree
  <2> QED
    BY CalmParts DEF CalmHost, CalmWorker, CalmSession
<1> QED
  BY <1>1, CalmInvariant, PTL

=============================================================================
