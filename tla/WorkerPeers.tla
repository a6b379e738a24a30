-------------------------- MODULE WorkerPeers --------------------------
(***************************************************************************)
(* HostProtocolPeer and WorkerProtocolPeer, the two state machines of a    *)
(* session, as operators: where a peer admits a frame or a call (the code  *)
(* throws a ProtocolViolation otherwise) and the peer it then is.          *)
(*                                                                         *)
(* A frame is an event with its sequence number.  Authority, version,      *)
(* schema and size of frames are left out: they are the same for all       *)
(* frames of the one worker.  A start instruction has no deadline.  A body *)
(* is its own digest and is sent in one chunk.                             *)
(***************************************************************************)
EXTENDS StartDelivery

Frame(peer, event) == [seq |-> peer.seq, event |-> event]

\* The sequence number counts the frames a peer has sent.
Numbered(peer, n) == [peer EXCEPT !.seq = @ + n]

\* Events without fields, and events about a start instruction.
Plain(type) == [type |-> type]

About(type, instruction) == [type |-> type, instruction |-> instruction]

\* The frames that a host and a worker send.
ToWorker ==
  [seq : Nat,
   event : [type : {"begin", "begin_acceptance_observed"}, instruction : StartInstruction]
      \cup [type : {"delivery_generation_update"}, generation : Nat \ {0},
            dispatcher : Dispatcher]
      \cup [type : {"cancel"}, dispatcher : Dispatcher \cup {None}, generation : Nat]
      \cup [type : {"ack"}, proof : Result]]

ToHost ==
  [seq : Nat,
   event : [type : {"hello", "started", "cancelled", "failed", "done"}]
      \cup [type : {"begin_accepted", "begin_rejected", "begin_ack"},
            instruction : StartInstruction]
      \cup [type : {"generation_updated"}, generation : Nat \ {0},
            acceptance : AcceptanceStates, instruction : StartInstruction \cup {None}]
      \cup [type : {"result_begin", "result_commit"}, digest : Result]
      \cup [type : {"result_chunk"}, payload : Result]]

-----------------------------------------------------------------------------
(* HostProtocolPeer.                                                       *)

\* current: the result under way; received: the complete one; observations and
\* acknowledgements: acceptances to be observed, and observations to be answered.
FreshHost ==
  [state |-> "awaiting_hello", last |-> 0, seq |-> 1,
   instruction |-> None, accepted |-> None, observations |-> 0, acknowledgements |-> 0,
   dispatcher |-> None, pending |-> 0, confirmed |-> 1, answer |-> None,
   current |-> None, received |-> None, acknowledgementPending |-> FALSE,
   acknowledged |-> None]

HostProtocolPeers ==
  [state : {"awaiting_hello", "awaiting_started", "awaiting_begin", "receiving_results",
            "cancelling", "failed", "done"},
   last : Nat, seq : Nat,
   instruction : StartInstruction \cup {None}, accepted : StartInstruction \cup {None},
   observations : Nat, acknowledgements : Nat,
   dispatcher : Dispatcher \cup {None}, pending : Nat, confirmed : Nat,
   answer : AcceptanceStates \cup {None},
   current : {None} \cup [digest : Result, chunks : Seq(Result)],
   received : Result \cup {None}, acknowledgementPending : BOOLEAN,
   acknowledged : Result \cup {None}]

\* restoreStartDelivery.
RestoredHost(i) ==
  [FreshHost EXCEPT !.instruction = i, !.dispatcher = i.dispatcherId,
                    !.confirmed = i.deliveryGeneration]

CanBegin(h, i) ==
  /\ h.dispatcher # None => i.dispatcherId = h.dispatcher
  /\ h.state \in {"awaiting_begin", "receiving_results"}
  /\ h.instruction # None => h.instruction = i

Begin(h, i) ==
  [Numbered(h, 1) EXCEPT !.dispatcher = IF @ = None THEN i.dispatcherId ELSE @,
                         !.instruction = i, !.state = "receiving_results"]

CanUpdateGeneration(h, generation) == generation > h.confirmed /\ h.pending = 0

UpdateGeneration(h, generation) == [Numbered(h, 1) EXCEPT !.pending = generation]

CanCompleteHandoff(h) == h.pending = 0 /\ h.confirmed > 1

\* Mutant: keeps the instruction that the worker has not accepted.
CompleteHandoffOnly(h, dispatcher) == [h EXCEPT !.dispatcher = dispatcher]

CompleteHandoff(h, dispatcher) ==
  LET next == [h EXCEPT !.dispatcher = dispatcher] IN
  IF h.answer = "not_accepted"
    THEN [next EXCEPT !.instruction = None, !.accepted = None, !.state = "awaiting_begin"]
    ELSE next

CanObserveAcceptance(h, i) == h.accepted # None /\ h.accepted = i /\ h.observations > 0

ObserveAcceptance(h) ==
  [Numbered(h, 1) EXCEPT !.observations = @ - 1, !.acknowledgements = @ + 1]

CanRequestCancel(h) == h.state \notin {"awaiting_hello", "cancelling", "failed", "done"}

CancelEvent(h) ==
  [type |-> "cancel", dispatcher |-> h.dispatcher,
   generation |-> IF h.dispatcher = None THEN 0 ELSE h.confirmed]

RequestCancel(h) == [Numbered(h, 1) EXCEPT !.state = "cancelling"]

CanAcknowledgeResult(h, proof) ==
  h.state = "done" /\ (h.acknowledgementPending \/ h.acknowledged = proof)

AcknowledgeResult(h, proof) ==
  [h EXCEPT !.acknowledgementPending = FALSE, !.acknowledged = proof]

\* acceptFrame: what the host expects in which state.
Receiving(h) == h.state = "receiving_results"

\* The frames of a completion.
ExpectsCompletion(h, e) ==
  CASE e.type = "result_begin" -> h.current = None /\ h.received = None
    [] e.type = "result_chunk" -> h.current # None /\ h.current.chunks = <<>>
    [] e.type = "result_commit" ->
         h.current # None /\ h.current.chunks = <<e.digest>> /\ e.digest = h.current.digest
    [] e.type = "failed" -> h.received = None /\ h.current = None
    [] e.type = "done"   -> h.received # None /\ h.acknowledgementPending
    [] OTHER -> FALSE

HostExpects(h, e) ==
  IF h.state = "awaiting_hello" THEN e.type = "hello" ELSE
  CASE e.type = "started"   -> h.state = "awaiting_started"
    [] e.type = "cancelled" -> h.state = "cancelling"
    [] e.type = "generation_updated" ->
         /\ e.generation = h.pending
         /\ e.acceptance = "accepted" <=> e.instruction # None
         /\ e.instruction # None /\ h.instruction # None => e.instruction = h.instruction
    [] e.type \in {"begin_rejected", "begin_accepted"} ->
         Receiving(h) /\ h.instruction # None /\ e.instruction = h.instruction
    [] e.type = "begin_ack" ->
         Receiving(h) /\ h.accepted # None /\ e.instruction = h.accepted /\ h.acknowledgements > 0
    [] OTHER -> Receiving(h) /\ ExpectsCompletion(h, e)

HostAdmits(h, f) ==
  h.state \notin {"failed", "done"} /\ f.seq = h.last + 1 /\ HostExpects(h, f.event)

HostAfter(h, f) ==
  LET e == f.event
      g == [h EXCEPT !.last = f.seq]
  IN
  CASE e.type = "hello"   -> [g EXCEPT !.state = "awaiting_started"]
    [] e.type = "started" -> [g EXCEPT !.state = "awaiting_begin"]
    [] e.type \in {"cancelled", "failed", "done"} -> [g EXCEPT !.state = "done"]
    [] e.type = "generation_updated" ->
         [g EXCEPT !.confirmed = e.generation, !.answer = e.acceptance, !.pending = 0,
                   !.state = IF e.acceptance = "accepted" THEN "receiving_results" ELSE @]
    [] e.type = "begin_accepted" -> [g EXCEPT !.accepted = e.instruction, !.observations = @ + 1]
    [] e.type = "begin_ack"      -> [g EXCEPT !.acknowledgements = @ - 1]
    [] e.type = "result_begin"   -> [g EXCEPT !.current = [digest |-> e.digest, chunks |-> <<>>]]
    [] e.type = "result_chunk"   -> [g EXCEPT !.current.chunks = Append(@, e.payload)]
    [] e.type = "result_commit"  ->
         [g EXCEPT !.received = e.digest, !.current = None, !.acknowledgementPending = TRUE]
    [] OTHER -> g

-----------------------------------------------------------------------------
(* WorkerProtocolPeer: what it sends.                                      *)

FreshWorker ==
  [state |-> "new", seq |-> 1, last |-> 0, acknowledgementPending |-> FALSE,
   generation |-> 1, dispatcher |-> None, accepted |-> None, acknowledged |-> None]

WorkerProtocolPeers ==
  [state : {"new", "identified", "ready", "running", "delivering", "cancelling", "done",
            "acknowledged", "failed"},
   seq : Nat, last : Nat, acknowledgementPending : BOOLEAN,
   generation : Nat \ {0}, dispatcher : Dispatcher \cup {None},
   accepted : StartInstruction \cup {None}, acknowledged : Result \cup {None}]

CanSend(w, e) ==
  CASE e.type = "hello"     -> w.state = "new"
    [] e.type = "started"   -> w.state = "identified"
    [] e.type = "cancelled" -> w.state = "cancelling"
    [] e.type = "generation_updated" ->
         /\ e.generation = w.generation
         /\ e.acceptance = "accepted" <=> e.instruction # None
         /\ e.instruction # None => e.instruction = w.accepted
    [] e.type \in {"begin_accepted", "begin_ack"} ->
         w.state = "running" /\ w.accepted # None /\ e.instruction = w.accepted
    [] e.type = "begin_rejected" -> w.state \in {"ready", "running"}
    [] e.type \in {"result", "failed"} -> w.state = "running"
    [] e.type = "done" -> w.state = "delivering"

\* A result is three frames, every other event is one.
FramesOf(w, e) ==
  IF e.type = "result"
    THEN << Frame(w, [type |-> "result_begin", digest |-> e.result]),
            Frame(Numbered(w, 1), [type |-> "result_chunk", payload |-> e.result]),
            Frame(Numbered(w, 2), [type |-> "result_commit", digest |-> e.result]) >>
    ELSE << Frame(w, e) >>

AfterSend(w, e) ==
  LET v == Numbered(w, Len(FramesOf(w, e))) IN
  CASE e.type = "hello"   -> [v EXCEPT !.state = "identified"]
    [] e.type = "started" -> [v EXCEPT !.state = "ready"]
    [] e.type = "result"  -> [v EXCEPT !.state = "delivering", !.acknowledgementPending = TRUE]
    [] e.type \in {"failed", "done", "cancelled"} -> [v EXCEPT !.state = "done"]
    [] OTHER -> v

-----------------------------------------------------------------------------
(* WorkerProtocolPeer: what it receives.                                   *)

\* The durable authority is read anew for every begin and every update.
WithAuthority(w, authority) ==
  [w EXCEPT !.generation = authority.generation, !.dispatcher = authority.dispatcher]

Stale(w, i) ==
  \/ i.deliveryGeneration # w.generation
  \/ w.dispatcher # None /\ i.dispatcherId # w.dispatcher

\* Mutant: a file that cannot be read counts as no acceptance.
LoadedOrNone(known, instruction) ==
  [known |-> TRUE, instruction |-> IF known THEN instruction ELSE None]

\* What load of the acceptance store returns; a file that cannot be read or
\* decoded is unknown.
Loaded(known, instruction) == [known |-> known, instruction |-> instruction]

\* restoreDurableStartAcceptance.
Restored(w, load) ==
  IF w.accepted # None \/ ~load.known \/ load.instruction = None THEN w
  ELSE [w EXCEPT !.accepted = load.instruction, !.state = "running"]

AcceptanceState(w, load) ==
  IF Restored(w, load).accepted # None THEN "accepted"
  ELSE IF load.known THEN "not_accepted" ELSE "unknown"

MayCancel(w, e) ==
  /\ w.dispatcher # None => e.generation = w.generation /\ e.dispatcher = w.dispatcher
  /\ w.state \in {"ready", "running", "delivering"}

AdmitsAcknowledgement(w, proof) ==
  /\ w.state \in {"done", "acknowledged"}
  /\ w.acknowledgementPending \/ w.acknowledged = proof

\* The end of receive: nothing more is expected of the host.
AcknowledgementsComplete(w) ==
  w.state = "acknowledged" \/ (w.state = "done" /\ ~w.acknowledgementPending)

AfterReception(w) ==
  IF AcknowledgementsComplete(w) THEN [w EXCEPT !.state = "acknowledged"] ELSE w

=============================================================================
