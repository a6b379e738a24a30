----------------------- MODULE WorkerSessionProofs -----------------------
(* Theorems about WorkerSession, for any dispatchers, Results, failures    *)
(* and deaths of the Runtime.                                              *)
EXTENDS WorkerSession, OperationReducerProofs

-----------------------------------------------------------------------------
(* The inductive invariant.                                                *)

\* The frames of a sequence.
Carried(frames) == {frames[n] : n \in 1 .. Len(frames)}

\* A connection belongs to the session the host has open.
ConnectionIsOpen ==
  /\ socket.state \in {"up", "worker"} => heard.open /\ heard.connected
  /\ socket.state \notin {"up", "worker"} => socket.toHost = <<>>
  /\ run.at = "down" => ~heard.open /\ run.cancel = "no"

\* Every death of the Runtime leads to one generation at most.
GenerationsBounded ==
  /\ run.instruction = None =>
       run.at \in {"down", "stop", "ended"} \/ (run.recovering /\ run.at \in {"identify", "identified"})
  /\ run.recovering => op.startDeliveryAuthority # None
  /\ op.startDeliveryAuthority # None =>
       /\ op.startDeliveryAuthority.deliveryGeneration <= MaxCrashes - budget.crashes + 1
       /\ run.at = "down" \/ (run.recovering /\ run.at \in {"identify", "identified"}) =>
            op.startDeliveryAuthority.deliveryGeneration <= MaxCrashes - budget.crashes
  /\ run.instruction # None =>
       run.instruction.deliveryGeneration <= MaxCrashes - budget.crashes + 1

\* What the worker and its bridge hold of an acceptance is on disk.
WorkerFaithful ==
  /\ Faithful(worker.accepted)
  /\ reception.start # None /\ reception.start.status \in {"accepted", "duplicate"} =>
       stored.acceptance = reception.start.instruction
  /\ Faithful(reception.observed)
  /\ reception.update # None => Faithful(reception.update.instruction)

\* Nothing older than this generation has been or will be accepted.
Refused(generation) ==
  /\ stored.authority.generation >= generation
  /\ stored.acceptance # None => stored.acceptance.deliveryGeneration >= generation

UpdateIsTrue ==
  reception.update # None /\ reception.update.acceptance = "not_accepted" =>
    Refused(reception.update.generation)

\* A run has begun only for a stored acceptance, and prompts the agent once.
BegunOnce(b) ==
  /\ ~b.began => b.agent = "idle"
  /\ b.began => stored.acceptance # None
  /\ b.agent \in {"idle", "reading"} => b.prompts = 0
  /\ b.prompts <= 1

\* Frames to the host tell the truth.
Truthful(e) ==
  /\ e.type \in {"begin_accepted", "begin_ack", "generation_updated"} => Faithful(e.instruction)
  /\ e.type = "generation_updated" /\ e.acceptance = "not_accepted" => Refused(e.generation)

FramesTrue == \A f \in Carried(socket.toHost) : Truthful(f.event)

\* A result is acknowledged when it is on record.
AcknowledgesRecorded ==
  /\ run.at = "acknowledge" => op.result # None
  /\ \A f \in Carried(socket.toWorker) : f.event.type = "ack" => op.result # None
  /\ worker.acknowledged # None => op.result # None

BeforeAnnounce == {"identify", "identified", "revoke", "announce"}

BeforeSend ==
  BeforeAnnounce \cup {"awaitGeneration", "confirm", "giveUp", "acquire", "check",
                       "collectAcceptance", "collectAcknowledgement", "enter", "send"}

\* Nothing about a begin is on its way in a session that has sent none.
BeginsAreSent ==
  run.at \in BeforeSend =>
    /\ heard.acceptance # "accepted"
    /\ \A f \in Carried(socket.toHost) : f.event.type # "begin_accepted"
    /\ socket.state = "up" =>
         /\ reception.start = None
         /\ \A f \in Carried(socket.toWorker) : f.event.type # "begin"

\* What the host has heard about its instruction.
HostFaithful ==
  /\ Faithful(host.accepted) /\ Faithful(heard.said) /\ Faithful(op.startInstructionAcceptance)
  /\ run.at \in {"dispatch", "awaitAcceptance", "accepted"} =>
       /\ host.instruction = run.instruction
       /\ heard.acceptance = "accepted" => Faithful(run.instruction)
  /\ run.at = "accepted" => heard.acceptance = "accepted"

\* The worker's answer to the announced generation.
AnswerIsTrue ==
  /\ run.at \in BeforeAnnounce => host.pending = 0 /\ heard.generation \notin AcceptanceStates
  /\ run.at = "confirm" => heard.generation \in AcceptanceStates
  /\ run.at \in {"awaitGeneration", "confirm"} =>
       host.pending \in {0, run.instruction.deliveryGeneration}
  /\ run.at \in {"awaitGeneration", "confirm"} /\ heard.generation = "not_accepted" =>
       Refused(run.instruction.deliveryGeneration)

\* A handoff that was answered with not_accepted was answered truthfully.
HandoffsTrue(o) ==
  \A n \in 1 .. Len(o.startDeliveryHandoffs) :
    o.startDeliveryHandoffs[n].acceptanceState = "not_accepted" =>
      Refused(o.startDeliveryHandoffs[n].deliveryGeneration)

SessionIInv ==
  /\ SessionTypeOK /\ ConnectionIsOpen /\ GenerationsBounded
  /\ WorkerFaithful /\ UpdateIsTrue /\ BegunOnce(bridge)
  /\ FramesTrue /\ AcknowledgesRecorded
  /\ BeginsAreSent /\ HostFaithful /\ AnswerIsTrue /\ HandoffsTrue(op)

-----------------------------------------------------------------------------
(* The peers keep their types.                                             *)

LEMMA Chosen ==
  /\ TheWorker \in Worker /\ TheResult \in Result
  /\ TheWorker # None /\ TheResult # None
<1>1. TheWorker \in Worker /\ TheResult \in Result
  BY OneOfEach DEF TheWorker, TheResult
<1> QED
  BY <1>1, NoneIsNoValue

LEMMA InstructionTyped ==
  ASSUME NEW g \in Nat \ {0}, g <= MaxCrashes + 1
  PROVE  /\ InstructionOf(g) \in StartInstruction
         /\ InstructionOf(g).deliveryGeneration = g
<1>1. g \in Dispatcher
  BY OneOfEach, SessionBoundsAreNatural
<1> QED
  BY <1>1, Chosen DEF InstructionOf, StartInstruction

LEMMA InstructionIsSome == \A i \in StartInstruction : i # None /\ i.deliveryGeneration \in Nat \ {0}
  BY NoneIsNoRecord DEF StartInstruction

LEMMA FreshTyped ==
  /\ FreshHost \in HostProtocolPeers
  /\ \A i \in StartInstruction : RestoredHost(i) \in HostProtocolPeers
  /\ FreshWorker \in WorkerProtocolPeers
  /\ FreshHeard \in Hearings /\ NoSession \in Hearings
  /\ NoReception \in Receptions /\ NoSocket \in Sockets
<1>1. FreshHost \in HostProtocolPeers
  BY DEF FreshHost, HostProtocolPeers
<1>2. ASSUME NEW i \in StartInstruction PROVE RestoredHost(i) \in HostProtocolPeers
  <2>1. i.dispatcherId \in Dispatcher /\ i.deliveryGeneration \in Nat
    BY DEF StartInstruction
  <2> QED
    BY <2>1 DEF RestoredHost, FreshHost, HostProtocolPeers
<1>3. FreshWorker \in WorkerProtocolPeers
  BY DEF FreshWorker, WorkerProtocolPeers
<1>4. FreshHeard \in Hearings /\ NoSession \in Hearings
  BY DEF FreshHeard, NoSession, Hearings
<1>5. NoReception \in Receptions
  BY DEF NoReception, Receptions
<1>6. NoSocket \in Sockets
  BY DEF NoSocket, Sockets
<1> QED
  BY <1>1, <1>2, <1>3, <1>4, <1>5, <1>6

LEMMA NumberedHost ==
  ASSUME NEW h \in HostProtocolPeers
  PROVE  LET n == Numbered(h, 1) IN
         /\ n \in HostProtocolPeers
         /\ n.pending = h.pending /\ n.instruction = h.instruction
         /\ n.accepted = h.accepted /\ n.dispatcher = h.dispatcher
         /\ n.observations = h.observations /\ n.acknowledgements = h.acknowledgements
<1>1. h.seq + 1 \in Nat
  BY DEF HostProtocolPeers
<1> DEFINE m == h.seq + 1
<1>2. m \in Nat /\ Numbered(h, 1) = [h EXCEPT !.seq = m]
  BY <1>1 DEF Numbered
<1> HIDE DEF m
<1> QED
  BY <1>2 DEF HostProtocolPeers

LEMMA BeginHostTyped ==
  ASSUME NEW h \in HostProtocolPeers, NEW i \in StartInstruction
  PROVE  /\ Begin(h, i) \in HostProtocolPeers
         /\ Begin(h, i).instruction = i
         /\ Begin(h, i).accepted = h.accepted
         /\ Begin(h, i).pending = h.pending
<1>1. i.dispatcherId \in Dispatcher
  BY DEF StartInstruction
<1> DEFINE n == Numbered(h, 1)
           d == IF n.dispatcher = None THEN i.dispatcherId ELSE n.dispatcher
<1>2. /\ n \in HostProtocolPeers
      /\ n.pending = h.pending /\ n.accepted = h.accepted /\ n.dispatcher = h.dispatcher
  BY NumberedHost
<1>3. d \in Dispatcher
  BY <1>1, <1>2 DEF HostProtocolPeers
<1>4. Begin(h, i) = [n EXCEPT !.dispatcher = d, !.instruction = i,
                              !.state = "receiving_results"]
  BY Zenon DEF Begin
<1> DEFINE a == [n EXCEPT !.dispatcher = d]
           b == [a EXCEPT !.instruction = i]
<1>5. Begin(h, i) = [b EXCEPT !.state = "receiving_results"]
  BY <1>4
<1> HIDE DEF n, d
<1>6. a \in HostProtocolPeers /\ a.pending = n.pending /\ a.accepted = n.accepted
  BY <1>2, <1>3, SMTT(30) DEF HostProtocolPeers
<1> HIDE DEF a
<1>7. /\ b \in HostProtocolPeers /\ b.pending = a.pending /\ b.accepted = a.accepted
      /\ b.instruction = i
  BY <1>6, SMTT(30) DEF HostProtocolPeers
<1> DEFINE c == [b EXCEPT !.state = "receiving_results"]
<1> HIDE DEF b
<1>8. /\ c \in HostProtocolPeers /\ c.pending = b.pending /\ c.accepted = b.accepted
      /\ c.instruction = b.instruction
  BY <1>7, SMTT(30) DEF HostProtocolPeers
<1> HIDE DEF c
<1> QED
  BY <1>2, <1>5, <1>6, <1>7, <1>8 DEF c

LEMMA HostCallsTyped ==
  ASSUME NEW h \in HostProtocolPeers
  PROVE  /\ \A g \in Nat : LET n == UpdateGeneration(h, g) IN
              /\ n \in HostProtocolPeers /\ n.pending = g
              /\ n.instruction = h.instruction /\ n.accepted = h.accepted
         /\ \A d \in Dispatcher : LET n == CompleteHandoff(h, d) IN
              /\ n \in HostProtocolPeers /\ n.pending = h.pending
              /\ n.accepted \in {h.accepted, None}
         /\ h.observations > 0 => LET n == ObserveAcceptance(h) IN
              /\ n \in HostProtocolPeers /\ n.pending = h.pending
              /\ n.instruction = h.instruction /\ n.accepted = h.accepted
         /\ LET n == RequestCancel(h) IN
              /\ n \in HostProtocolPeers /\ n.pending = h.pending
              /\ n.instruction = h.instruction /\ n.accepted = h.accepted
         /\ \A p \in Result : LET n == AcknowledgeResult(h, p) IN
              /\ n \in HostProtocolPeers /\ n.pending = h.pending
              /\ n.instruction = h.instruction /\ n.accepted = h.accepted
         /\ LET n == [h EXCEPT !.state = "failed"] IN
              /\ n \in HostProtocolPeers /\ n.pending = h.pending
              /\ n.instruction = h.instruction /\ n.accepted = h.accepted
<1>1. ASSUME NEW g \in Nat
      PROVE  LET n == UpdateGeneration(h, g) IN
              /\ n \in HostProtocolPeers /\ n.pending = g
              /\ n.instruction = h.instruction /\ n.accepted = h.accepted
  <2> DEFINE n == Numbered(h, 1)
  <2>1. /\ n \in HostProtocolPeers
        /\ n.instruction = h.instruction /\ n.accepted = h.accepted
    BY NumberedHost
  <2>2. UpdateGeneration(h, g) = [n EXCEPT !.pending = g]
    BY DEF UpdateGeneration
  <2> HIDE DEF n
  <2> QED
    BY <2>1, <2>2 DEF HostProtocolPeers
<1>2. ASSUME NEW d \in Dispatcher
      PROVE  LET n == CompleteHandoff(h, d) IN
              /\ n \in HostProtocolPeers /\ n.pending = h.pending
              /\ n.accepted \in {h.accepted, None}
  BY DEF CompleteHandoff, HostProtocolPeers
<1>3. ASSUME h.observations > 0
      PROVE  LET n == ObserveAcceptance(h) IN
              /\ n \in HostProtocolPeers /\ n.pending = h.pending
              /\ n.instruction = h.instruction /\ n.accepted = h.accepted
  <2> DEFINE n == Numbered(h, 1)
             o == n.observations - 1
             a == n.acknowledgements + 1
  <2>1. /\ n \in HostProtocolPeers /\ n.pending = h.pending
        /\ n.instruction = h.instruction /\ n.accepted = h.accepted
        /\ n.observations = h.observations
    BY NumberedHost
  <2>2. o \in Nat /\ a \in Nat
    BY <1>3, <2>1, SMTT(30) DEF HostProtocolPeers
  <2>3. ObserveAcceptance(h) = [n EXCEPT !.observations = o, !.acknowledgements = a]
    <3>1. [n EXCEPT !.observations = o].acknowledgements = n.acknowledgements
      BY <2>1 DEF HostProtocolPeers
    <3> QED
      BY <3>1 DEF ObserveAcceptance
  <2> DEFINE b == [n EXCEPT !.observations = o]
  <2>4. ObserveAcceptance(h) = [b EXCEPT !.acknowledgements = a]
    BY <2>3
  <2> HIDE DEF n, o, a
  <2>5. /\ b \in HostProtocolPeers /\ b.pending = n.pending
        /\ b.accepted = n.accepted /\ b.instruction = n.instruction
    BY <2>1, <2>2, SMTT(30) DEF HostProtocolPeers
  <2> HIDE DEF b
  <2> QED
    BY <2>1, <2>2, <2>4, <2>5 DEF HostProtocolPeers
<1>4. LET n == RequestCancel(h) IN
              /\ n \in HostProtocolPeers /\ n.pending = h.pending
              /\ n.instruction = h.instruction /\ n.accepted = h.accepted
  <2> DEFINE n == Numbered(h, 1)
  <2>1. /\ n \in HostProtocolPeers /\ n.pending = h.pending
        /\ n.instruction = h.instruction /\ n.accepted = h.accepted
    BY NumberedHost
  <2>2. RequestCancel(h) = [n EXCEPT !.state = "cancelling"]
    BY DEF RequestCancel
  <2> HIDE DEF n
  <2> QED
    BY <2>1, <2>2, SMTT(30) DEF HostProtocolPeers
<1>5. ASSUME NEW p \in Result
      PROVE  LET n == AcknowledgeResult(h, p) IN
              /\ n \in HostProtocolPeers /\ n.pending = h.pending
              /\ n.instruction = h.instruction /\ n.accepted = h.accepted
  BY DEF AcknowledgeResult, HostProtocolPeers
<1>6. LET n == [h EXCEPT !.state = "failed"] IN
              /\ n \in HostProtocolPeers /\ n.pending = h.pending
              /\ n.instruction = h.instruction /\ n.accepted = h.accepted
  BY SMTT(30) DEF HostProtocolPeers
<1> QED
  BY <1>1, <1>2, <1>3, <1>4, <1>5, <1>6

LEMMA WorkerFields ==
  ASSUME NEW w \in WorkerProtocolPeers
  PROVE  /\ \A n \in Nat : [w EXCEPT !.seq = n] \in WorkerProtocolPeers
         /\ w.seq \in Nat /\ w.last \in Nat /\ w.generation \in Nat \ {0}
         /\ w.accepted \in StartInstruction \cup {None}
         /\ w.dispatcher \in Dispatcher \cup {None}
         /\ w.acknowledged \in Result \cup {None}
  BY DEF WorkerProtocolPeers

-----------------------------------------------------------------------------
(* Frames to the host.                                                     *)

LEMMA ToHostFields ==
  ASSUME NEW f \in ToHost
  PROVE  /\ f.seq \in Nat
         /\ f.event.type \in {"begin_accepted", "begin_rejected", "begin_ack"} =>
              f.event.instruction \in StartInstruction
         /\ f.event.type = "generation_updated" =>
              /\ f.event.generation \in Nat \ {0}
              /\ f.event.acceptance \in AcceptanceStates
              /\ f.event.instruction \in StartInstruction \cup {None}
         /\ f.event.type \in {"result_begin", "result_commit"} => f.event.digest \in Result
         /\ f.event.type = "result_chunk" => f.event.payload \in Result
  BY DEF ToHost

\* What the host gathers of a frame it admits.
LEMMA AdmittedFrame ==
  ASSUME NEW h \in HostProtocolPeers, NEW f \in ToHost, HostAdmits(h, f)
  PROVE  /\ f.event.type = "generation_updated" =>
              f.event.generation = h.pending /\ h.pending # 0
         /\ f.event.type = "begin_accepted" => f.event.instruction = h.instruction
         /\ f.event.type = "begin_ack" => h.acknowledgements \in Nat \ {0}
         /\ f.event.type = "result_chunk" => h.current # None
<1>1. HostExpects(h, f.event)
  BY DEF HostAdmits
<1>2. f.event.type = "hello" \/ h.state # "awaiting_hello"
  BY <1>1 DEF HostExpects
<1>3. ASSUME f.event.type = "generation_updated"
      PROVE  f.event.generation = h.pending /\ h.pending # 0
  BY <1>1, <1>2, <1>3, ToHostFields DEF HostExpects
<1>4. ASSUME f.event.type = "begin_accepted"
      PROVE  f.event.instruction = h.instruction
  BY <1>1, <1>2, <1>4 DEF HostExpects
<1>5. ASSUME f.event.type = "begin_ack"
      PROVE  h.acknowledgements \in Nat \ {0}
  BY <1>1, <1>2, <1>5 DEF HostExpects, HostProtocolPeers
<1>6. ASSUME f.event.type = "result_chunk"
      PROVE  h.current # None
  BY <1>1, <1>2, <1>6 DEF HostExpects, ExpectsCompletion
<1> QED
  BY <1>3, <1>4, <1>5, <1>6

LEMMA HostAfterTyped ==
  ASSUME NEW h \in HostProtocolPeers, NEW f \in ToHost, HostAdmits(h, f)
  PROVE  LET n == HostAfter(h, f) IN
         /\ n \in HostProtocolPeers /\ n.instruction = h.instruction
         /\ IF f.event.type = "generation_updated" THEN n.pending = 0 ELSE n.pending = h.pending
         /\ IF f.event.type = "begin_accepted" THEN n.accepted = f.event.instruction
                                               ELSE n.accepted = h.accepted
<1> DEFINE e == f.event
           g == [h EXCEPT !.last = f.seq]
           n == HostAfter(h, f)
           Good(p) == /\ p \in HostProtocolPeers /\ p.instruction = h.instruction
                      /\ p.pending = h.pending /\ p.accepted = h.accepted
<1>1. f.seq \in Nat
  BY ToHostFields
<1>2. Good(g) /\ g.observations = h.observations /\ g.acknowledgements = h.acknowledgements
      /\ g.current = h.current /\ g.state = h.state
  BY <1>1, SMTT(30) DEF HostProtocolPeers
<1>3. g.observations \in Nat /\ h.acknowledgements \in Nat
  BY <1>2 DEF HostProtocolPeers
<1>4. e.type \in {"hello", "started", "cancelled", "failed", "done", "begin_accepted",
                  "begin_rejected", "begin_ack", "generation_updated", "result_begin",
                  "result_commit", "result_chunk"}
  BY DEF ToHost
<1> HIDE DEF g
<1>5. CASE e.type \in {"hello", "started", "cancelled", "failed", "done"}
  <2>1. \E s \in {"awaiting_started", "awaiting_begin", "done"} : n = [g EXCEPT !.state = s]
    BY <1>5 DEF HostAfter, g
  <2>2. PICK s \in {"awaiting_started", "awaiting_begin", "done"} : n = [g EXCEPT !.state = s]
    BY <2>1
  <2>3. Good(n)
    BY <1>2, <2>2, SMTT(30) DEF HostProtocolPeers
  <2> QED
    BY <1>5, <2>3
<1>6. CASE e.type = "generation_updated"
  <2> DEFINE a == [g EXCEPT !.confirmed = e.generation]
             b == [a EXCEPT !.answer = e.acceptance]
             c == [b EXCEPT !.pending = 0]
             s == IF e.acceptance = "accepted" THEN "receiving_results" ELSE c.state
  <2>1. e.generation \in Nat /\ e.acceptance \in AcceptanceStates
    BY <1>6, ToHostFields
  <2>2. n = [c EXCEPT !.state = s]
    BY <1>6, Zenon DEF HostAfter, g
  <2>3. Good(a)
    BY <1>2, <2>1, SMTT(30) DEF HostProtocolPeers
  <2> HIDE DEF a
  <2>4. Good(b)
    BY <2>1, <2>3, SMTT(30) DEF HostProtocolPeers
  <2> HIDE DEF b
  <2>5. /\ c \in HostProtocolPeers /\ c.instruction = h.instruction
        /\ c.pending = 0 /\ c.accepted = h.accepted
    BY <2>4, SMTT(30) DEF HostProtocolPeers
  <2> HIDE DEF c
  <2>6. /\ s \in {"receiving_results", c.state}
        /\ c.state \in {"awaiting_hello", "awaiting_started", "awaiting_begin",
                       "receiving_results", "cancelling", "failed", "done"}
    BY <2>5 DEF HostProtocolPeers
  <2> HIDE DEF s
  <2>7. /\ n \in HostProtocolPeers /\ n.instruction = h.instruction
        /\ n.pending = 0 /\ n.accepted = h.accepted
    BY <2>2, <2>5, <2>6, SMTT(30) DEF HostProtocolPeers
  <2> QED
    BY <1>6, <2>7
<1>7. CASE e.type = "begin_accepted"
  <2> DEFINE o == g.observations + 1
             a == [g EXCEPT !.accepted = e.instruction]
  <2>1. e.instruction \in StartInstruction
    BY <1>7, ToHostFields
  <2>2. /\ a \in HostProtocolPeers /\ a.instruction = h.instruction
        /\ a.pending = h.pending /\ a.accepted = e.instruction
        /\ a.observations = g.observations
    BY <1>2, <2>1, SMTT(30) DEF HostProtocolPeers
  <2>3. n = [a EXCEPT !.observations = o]
    BY <1>7, <2>2 DEF HostAfter, g
  <2>4. o \in Nat
    BY <1>3
  <2> HIDE DEF o, a
  <2>5. /\ n \in HostProtocolPeers /\ n.instruction = h.instruction
        /\ n.pending = h.pending /\ n.accepted = e.instruction
    BY <2>2, <2>3, <2>4, SMTT(30) DEF HostProtocolPeers
  <2> QED
    BY <1>7, <2>5
<1>8. CASE e.type = "begin_ack"
  <2> DEFINE o == g.acknowledgements - 1
  <2>1. o \in Nat
    BY <1>8, <1>2, <1>3, AdmittedFrame
  <2>2. n = [g EXCEPT !.acknowledgements = o]
    BY <1>8 DEF HostAfter, g
  <2> HIDE DEF o
  <2>3. Good(n)
    BY <1>2, <2>1, <2>2, SMTT(30) DEF HostProtocolPeers
  <2> QED
    BY <1>8, <2>3
<1>9. CASE e.type = "result_begin"
  <2> DEFINE o == [digest |-> e.digest, chunks |-> <<>>]
  <2>1. o \in [digest : Result, chunks : Seq(Result)]
    BY <1>9, ToHostFields
  <2>2. n = [g EXCEPT !.current = o]
    BY <1>9 DEF HostAfter, g
  <2> HIDE DEF o
  <2>3. Good(n)
    BY <1>2, <2>1, <2>2 DEF HostProtocolPeers
  <2> QED
    BY <1>9, <2>3
<1>10. CASE e.type = "result_chunk"
  <2> DEFINE o == [g.current EXCEPT !.chunks = Append(g.current.chunks, e.payload)]
  <2>1. g.current \in [digest : Result, chunks : Seq(Result)]
    BY <1>10, <1>2, AdmittedFrame DEF HostProtocolPeers
  <2>2. e.payload \in Result
    BY <1>10, ToHostFields
  <2>3. Append(g.current.chunks, e.payload) \in Seq(Result)
    BY <2>1, <2>2
  <2>4. o \in [digest : Result, chunks : Seq(Result)]
    BY <2>1, <2>3
  <2>5. n = [g EXCEPT !.current = o]
    BY <1>10, Zenon DEF HostAfter, g
  <2> HIDE DEF o
  <2>6. Good(n)
    BY <1>2, <2>4, <2>5 DEF HostProtocolPeers
  <2> QED
    BY <1>10, <2>6
<1>11. CASE e.type = "result_commit"
  <2> DEFINE a == [g EXCEPT !.received = e.digest]
             b == [a EXCEPT !.current = None]
  <2>1. e.digest \in Result
    BY <1>11, ToHostFields
  <2>2. n = [b EXCEPT !.acknowledgementPending = TRUE]
    BY <1>11, Zenon DEF HostAfter, g
  <2>3. Good(a)
    BY <1>2, <2>1, SMTT(30) DEF HostProtocolPeers
  <2> HIDE DEF a
  <2>4. Good(b)
    BY <2>3, SMTT(30) DEF HostProtocolPeers
  <2> HIDE DEF b
  <2>5. Good(n)
    BY <2>2, <2>4 DEF HostProtocolPeers
  <2> QED
    BY <1>11, <2>5
<1>12. CASE e.type = "begin_rejected"
  <2>1. n = g
    BY <1>12 DEF HostAfter, g
  <2> QED
    BY <1>2, <1>12, <2>1
<1> QED
  BY <1>4, <1>5, <1>6, <1>7, <1>8, <1>9, <1>10, <1>11, <1>12

\* What the promises of the session hold after an event and after an end.
LEMMA HeardEventTyped ==
  ASSUME NEW s \in Hearings, NEW f \in ToHost
  PROVE  LET e == f.event
             n == HeardEvent(s, e)
         IN
         /\ n \in Hearings /\ n.open = s.open /\ n.connected = s.connected
         /\ IF e.type = "generation_updated"
              THEN n.said = e.instruction /\ n.generation = First(s.generation, e.acceptance)
              ELSE n.said = s.said /\ n.generation = s.generation
         /\ n.acceptance = "accepted" => s.acceptance = "accepted" \/ e.type = "begin_accepted"
<1> DEFINE e == f.event
           n == HeardEvent(s, e)
           Good(p) == /\ p \in Hearings /\ p.open = s.open /\ p.connected = s.connected
                      /\ p.said = s.said /\ p.generation = s.generation
                      /\ p.acceptance = s.acceptance
<1>1. CASE e.type = "started"
  <2> DEFINE v == First(s.started, "identified")
  <2>1. v \in {"pending", "identified", "lost", "rejected"}
    BY DEF First, Hearings
  <2>2. n = [s EXCEPT !.started = v]
    BY <1>1 DEF HeardEvent
  <2> HIDE DEF v
  <2>3. Good(n)
    BY <2>1, <2>2 DEF Hearings
  <2> QED
    BY <1>1, <2>3
<1>2. CASE e.type = "begin_accepted"
  <2> DEFINE v == First(s.acceptance, "accepted")
  <2>1. v \in {"pending", "accepted", "lost", "rejected"}
    BY DEF First, Hearings
  <2>2. n = [s EXCEPT !.acceptance = v]
    BY <1>2 DEF HeardEvent
  <2> HIDE DEF v
  <2>3. /\ n \in Hearings /\ n.open = s.open /\ n.connected = s.connected
        /\ n.said = s.said /\ n.generation = s.generation
    BY <2>1, <2>2 DEF Hearings
  <2> QED
    BY <1>2, <2>3
<1>3. CASE e.type = "begin_ack"
  <2> DEFINE v == First(s.acknowledgement, "acknowledged")
  <2>1. v \in {"pending", "acknowledged", "lost", "rejected"}
    BY DEF First, Hearings
  <2>2. n = [s EXCEPT !.acknowledgement = v]
    BY <1>3 DEF HeardEvent
  <2> HIDE DEF v
  <2>3. Good(n)
    BY <2>1, <2>2 DEF Hearings
  <2> QED
    BY <1>3, <2>3
<1>4. CASE e.type = "begin_rejected"
  <2> DEFINE v == First(s.acceptance, "rejected")
             a == [s EXCEPT !.acceptance = v]
             u == First(a.acknowledgement, "rejected")
  <2>1. /\ v \in {"pending", "accepted", "lost", "rejected"}
        /\ v = "accepted" => s.acceptance = "accepted"
    BY DEF First, Hearings
  <2>2. n = [a EXCEPT !.acknowledgement = u]
    BY <1>4, Zenon DEF HeardEvent
  <2> HIDE DEF v
  <2>3. /\ a \in Hearings /\ a.open = s.open /\ a.connected = s.connected
        /\ a.said = s.said /\ a.generation = s.generation /\ a.acceptance = v
    BY <2>1 DEF Hearings
  <2> HIDE DEF a
  <2>4. u \in {"pending", "acknowledged", "lost", "rejected"}
    BY <2>3 DEF First, Hearings
  <2> HIDE DEF u
  <2>5. /\ n \in Hearings /\ n.open = s.open /\ n.connected = s.connected
        /\ n.said = s.said /\ n.generation = s.generation /\ n.acceptance = v
    BY <2>2, <2>3, <2>4 DEF Hearings
  <2> QED
    BY <1>4, <2>1, <2>5
<1>5. CASE e.type = "generation_updated"
  <2> DEFINE v == First(s.generation, e.acceptance)
             a == [s EXCEPT !.generation = v]
  <2>1. e.acceptance \in AcceptanceStates /\ e.instruction \in StartInstruction \cup {None}
    BY <1>5, ToHostFields
  <2>2. v \in AcceptanceStates \cup {"pending", "lost", "rejected"}
    BY <2>1 DEF First, Hearings
  <2>3. n = [a EXCEPT !.said = e.instruction]
    BY <1>5 DEF HeardEvent
  <2> HIDE DEF v
  <2>4. /\ a \in Hearings /\ a.open = s.open /\ a.connected = s.connected
        /\ a.generation = v /\ a.acceptance = s.acceptance
    BY <2>2 DEF Hearings
  <2> HIDE DEF a
  <2>5. /\ n \in Hearings /\ n.open = s.open /\ n.connected = s.connected
        /\ n.generation = v /\ n.acceptance = s.acceptance /\ n.said = e.instruction
    BY <2>1, <2>3, <2>4 DEF Hearings
  <2> QED
    BY <1>5, <2>5 DEF v
<1>6. CASE e.type = "cancelled"
  <2>1. n = [s EXCEPT !.completed = TRUE, !.cancelled = TRUE]
    BY <1>6 DEF HeardEvent
  <2>2. Good(n)
    BY <2>1 DEF Hearings
  <2> QED
    BY <1>6, <2>2
<1>7. CASE e.type \in {"failed", "done"}
  <2> DEFINE a == [s EXCEPT !.completed = TRUE]
  <2>1. Good(a)
    BY DEF Hearings
  <2>2. \E o \in {"agent_failed", "result"} :
          n = [a EXCEPT !.reception = First(a.reception, o)]
    BY <1>7, Zenon DEF HeardEvent
  <2>3. PICK o \in {"agent_failed", "result"} :
          n = [a EXCEPT !.reception = First(a.reception, o)]
    BY <2>2
  <2> HIDE DEF a
  <2> DEFINE u == First(a.reception, o)
  <2>4. u \in {"pending", "result", "agent_failed", "lost", "rejected"}
    BY <2>1 DEF First, Hearings
  <2> HIDE DEF u
  <2>5. Good(n)
    BY <2>1, <2>3, <2>4 DEF Hearings, u
  <2> QED
    BY <1>7, <2>5
<1>8. CASE e.type \notin {"started", "begin_accepted", "begin_ack", "begin_rejected",
                          "generation_updated", "cancelled", "failed", "done"}
  <2>1. n = s
    BY <1>8 DEF HeardEvent
  <2> QED
    BY <1>8, <2>1
<1> QED
  BY <1>1, <1>2, <1>3, <1>4, <1>5, <1>6, <1>7, <1>8

LEMMA HeardClosed ==
  ASSUME NEW s \in Hearings
  PROVE  LET n == [s EXCEPT !.open = FALSE] IN
         /\ n \in Hearings /\ n.open = FALSE /\ n.connected = s.connected
         /\ n.said = s.said /\ n.generation = s.generation /\ n.acceptance = s.acceptance
         /\ n.started = s.started /\ n.acknowledgement = s.acknowledgement
         /\ n.reception = s.reception
  BY DEF Hearings

LEMMA HeardEndTyped ==
  ASSUME NEW s \in Hearings, NEW outcome \in {"lost", "rejected"}
  PROVE  LET n == HeardEnd(s, outcome) IN
         /\ n \in Hearings /\ n.open = FALSE /\ n.connected = s.connected
         /\ n.said = s.said /\ n.generation \in {s.generation, outcome}
         /\ n.acceptance = "accepted" => s.acceptance = "accepted"
<1> DEFINE n == HeardEnd(s, outcome)
           c == [s EXCEPT !.open = FALSE]
           d == [c EXCEPT !.completed = TRUE]
           d1 == [d EXCEPT !.started = First(d.started, outcome)]
           d2 == [d1 EXCEPT !.generation = First(d1.generation, outcome)]
           d3 == [d2 EXCEPT !.acceptance = First(d2.acceptance, outcome)]
           d4 == [d3 EXCEPT !.acknowledgement = First(d3.acknowledgement, outcome)]
           Good(p) == /\ p \in Hearings /\ p.open = FALSE /\ p.connected = s.connected
                      /\ p.said = s.said
<1>1. Good(c) /\ c.generation = s.generation /\ c.acceptance = s.acceptance
  BY DEF Hearings
<1>2. CASE s.completed
  <2>1. n = c
    BY <1>2 DEF HeardEnd
  <2> QED
    BY <1>1, <2>1
<1>3. CASE ~s.completed
  <2>1. n = [d4 EXCEPT !.reception = First(d4.reception, outcome)]
    BY <1>3, Zenon DEF HeardEnd
  <2> HIDE DEF c
  <2>2. Good(d) /\ d.generation = s.generation /\ d.acceptance = s.acceptance
    BY <1>1 DEF Hearings
  <2> HIDE DEF d
  <2>3. First(d.started, outcome) \in {"pending", "identified", "lost", "rejected"}
    BY <2>2 DEF First, Hearings
  <2>4. Good(d1) /\ d1.generation = s.generation /\ d1.acceptance = s.acceptance
    BY <2>2, <2>3 DEF Hearings
  <2> HIDE DEF d1
  <2>5. First(d1.generation, outcome) \in AcceptanceStates \cup {"pending", "lost", "rejected"}
    BY <2>4 DEF First, Hearings
  <2>6. First(d1.generation, outcome) \in {s.generation, outcome}
    BY <2>4 DEF First
  <2>7. Good(d2) /\ d2.generation \in {s.generation, outcome} /\ d2.acceptance = s.acceptance
    BY <2>4, <2>5, <2>6 DEF Hearings
  <2> HIDE DEF d2
  <2>8. First(d2.acceptance, outcome) \in {"pending", "accepted", "lost", "rejected"}
    BY <2>7 DEF First, Hearings
  <2>9. First(d2.acceptance, outcome) = "accepted" => s.acceptance = "accepted"
    BY <2>7 DEF First
  <2>10. Good(d3) /\ d3.generation = d2.generation
         /\ d3.acceptance = First(d2.acceptance, outcome)
    BY <2>7, <2>8 DEF Hearings
  <2> HIDE DEF d3
  <2>11. First(d3.acknowledgement, outcome) \in {"pending", "acknowledged", "lost", "rejected"}
    BY <2>10 DEF First, Hearings
  <2>12. Good(d4) /\ d4.generation = d3.generation /\ d4.acceptance = d3.acceptance
    BY <2>10, <2>11 DEF Hearings
  <2> HIDE DEF d4
  <2>13. First(d4.reception, outcome) \in {"pending", "result", "agent_failed", "lost", "rejected"}
    BY <2>12 DEF First, Hearings
  <2>14. Good(n) /\ n.generation = d4.generation /\ n.acceptance = d4.acceptance
    BY <2>1, <2>12, <2>13 DEF Hearings
  <2> QED
    BY <2>7, <2>9, <2>10, <2>12, <2>14
<1> QED
  BY <1>2, <1>3

LEMMA HeardEndKeeps ==
  ASSUME NEW s \in Hearings, NEW outcome \in {"lost", "rejected"}
  PROVE  LET n == HeardEnd(s, outcome) IN
         /\ s.acceptance = "accepted" => n.acceptance = "accepted"
         /\ s.generation # "pending" => n.generation = s.generation
<1> DEFINE n == HeardEnd(s, outcome)
           c == [s EXCEPT !.open = FALSE]
           d == [c EXCEPT !.completed = TRUE]
           d1 == [d EXCEPT !.started = First(d.started, outcome)]
           d2 == [d1 EXCEPT !.generation = First(d1.generation, outcome)]
           d3 == [d2 EXCEPT !.acceptance = First(d2.acceptance, outcome)]
           d4 == [d3 EXCEPT !.acknowledgement = First(d3.acknowledgement, outcome)]
<1>1. CASE s.completed
  <2>1. n = c
    BY <1>1 DEF HeardEnd
  <2> QED
    BY <2>1 DEF Hearings
<1>2. CASE ~s.completed
  <2>1. n = [d4 EXCEPT !.reception = First(d4.reception, outcome)]
    BY <1>2, Zenon DEF HeardEnd
  <2>2. n.acceptance = First(s.acceptance, outcome) /\ n.generation = First(s.generation, outcome)
    BY <2>1 DEF Hearings
  <2> QED
    BY <2>2 DEF First
<1> QED
  BY <1>1, <1>2

-----------------------------------------------------------------------------
(* The socket.                                                             *)

LEMMA CarriedFrames ==
  ASSUME NEW S, NEW s \in Seq(S)
  PROVE  /\ Carried(s) \subseteq S
         /\ Carried(<<>>) = {}
         /\ s # <<>> => Head(s) \in Carried(s) /\ Tail(s) \in Seq(S)
                        /\ Carried(Tail(s)) \subseteq Carried(s)
         /\ \A f \in S : Append(s, f) \in Seq(S) /\ Carried(Append(s, f)) \subseteq Carried(s) \cup {f}
         /\ \A t \in Seq(S) : s \o t \in Seq(S) /\ Carried(s \o t) \subseteq Carried(s) \cup Carried(t)
<1>1. Carried(s) \subseteq S
  BY DEF Carried
<1>2. Carried(<<>>) = {}
  BY DEF Carried
<1>3. ASSUME s # <<>>
      PROVE  /\ Head(s) \in Carried(s) /\ Tail(s) \in Seq(S)
             /\ Carried(Tail(s)) \subseteq Carried(s)
  <2>1. Len(s) \in Nat /\ Len(s) > 0 /\ Head(s) = s[1]
    BY <1>3
  <2>2. Tail(s) \in Seq(S) /\ Len(Tail(s)) = Len(s) - 1
    BY <1>3
  <2>3. ASSUME NEW n \in 1 .. Len(Tail(s)) PROVE Tail(s)[n] \in Carried(s)
    <3>1. Tail(s)[n] = s[n + 1] /\ n + 1 \in 1 .. Len(s)
      BY <1>3, <2>1, <2>2
    <3> QED
      BY <3>1 DEF Carried
  <2>4. Head(s) \in Carried(s)
    BY <2>1 DEF Carried
  <2> QED
    BY <2>2, <2>3, <2>4 DEF Carried
<1>4. ASSUME NEW f \in S
      PROVE  Append(s, f) \in Seq(S) /\ Carried(Append(s, f)) \subseteq Carried(s) \cup {f}
  <2>1. Append(s, f) \in Seq(S) /\ Len(Append(s, f)) = Len(s) + 1 /\ Len(s) \in Nat
    OBVIOUS
  <2>2. ASSUME NEW n \in 1 .. Len(Append(s, f))
        PROVE  Append(s, f)[n] \in Carried(s) \cup {f}
    <3>1. CASE n = Len(s) + 1
      BY <3>1
    <3>2. CASE n # Len(s) + 1
      <4>1. n \in 1 .. Len(s) /\ Append(s, f)[n] = s[n]
        BY <2>1, <3>2
      <4> QED
        BY <4>1 DEF Carried
    <3> QED
      BY <3>1, <3>2
  <2> QED
    BY <2>1, <2>2 DEF Carried
<1>5. ASSUME NEW t \in Seq(S)
      PROVE  s \o t \in Seq(S) /\ Carried(s \o t) \subseteq Carried(s) \cup Carried(t)
  <2>1. /\ s \o t \in Seq(S) /\ Len(s \o t) = Len(s) + Len(t)
        /\ Len(s) \in Nat /\ Len(t) \in Nat
    OBVIOUS
  <2>2. ASSUME NEW n \in 1 .. Len(s \o t)
        PROVE  (s \o t)[n] \in Carried(s) \cup Carried(t)
    <3>1. CASE n \in 1 .. Len(s)
      <4>1. (s \o t)[n] = s[n]
        BY <3>1
      <4> QED
        BY <3>1, <4>1 DEF Carried
    <3>2. CASE n \notin 1 .. Len(s)
      <4>1. (s \o t)[n] = t[n - Len(s)] /\ n - Len(s) \in 1 .. Len(t)
        BY <2>1, <3>2
      <4> QED
        BY <4>1 DEF Carried
    <3> QED
      BY <3>1, <3>2
  <2> QED
    BY <2>1, <2>2 DEF Carried
<1> QED
  BY <1>1, <1>2, <1>3, <1>4, <1>5

\* n is the socket s after frames were written to it, read from it or lost.
Continues(s, n, toHost, toWorker) ==
  /\ n \in Sockets
  /\ n.state = "up" => s.state = "up"
  /\ n.state = "worker" => s.state \in {"up", "worker"}
  /\ n.state \notin {"up", "worker"} => n.toHost = <<>>
  /\ Carried(n.toHost) \subseteq Carried(s.toHost) \cup toHost
  /\ s.state # "up" => Carried(n.toHost) \subseteq Carried(s.toHost)
  /\ Carried(n.toWorker) \subseteq Carried(s.toWorker) \cup toWorker

\* No frames are kept for a host that does not listen.
SocketOK(s) == s \in Sockets /\ (s.state \notin {"up", "worker"} => s.toHost = <<>>)

LEMMA SocketFields ==
  ASSUME NEW s \in Sockets
  PROVE  s.toHost \in Seq(ToHost) /\ s.toWorker \in Seq(ToWorker)
  BY DEF Sockets

LEMMA ContinuesItself ==
  ASSUME NEW s, SocketOK(s) PROVE Continues(s, s, {}, {})
  BY DEF SocketOK, Continues

LEMMA NoSocketContinues ==
  ASSUME NEW s PROVE Continues(s, NoSocket, {}, {}) /\ NoSocket.state = "none"
<1>1. NoSocket \in Sockets /\ NoSocket.state = "none"
  BY FreshTyped DEF NoSocket
<1>2. Carried(NoSocket.toHost) = {} /\ Carried(NoSocket.toWorker) = {} /\ NoSocket.toHost = <<>>
  BY DEF NoSocket, Carried
<1> QED
  BY <1>1, <1>2 DEF Continues

LEMMA HostClosesContinues ==
  ASSUME SocketOK(socket)
  PROVE  Continues(socket, HostCloses, {}, {}) /\ HostCloses.state \notin {"up", "worker"}
<1> USE DEF SocketOK
<1>1. CASE socket.state = "up"
  <2> DEFINE a == [socket EXCEPT !.state = "host"]
             e == <<>>
             n == [a EXCEPT !.toHost = e]
  <2>1. HostCloses = n
    BY <1>1 DEF HostCloses
  <2>2. /\ n \in Sockets /\ n.state = "host" /\ n.toHost = <<>>
        /\ n.toWorker = socket.toWorker
    <3>1. a \in Sockets /\ a.state = "host" /\ a.toWorker = socket.toWorker
      BY DEF Sockets
    <3>2. e \in Seq(ToHost)
      OBVIOUS
    <3> HIDE DEF a, e
    <3>3. n \in Sockets /\ n.state = "host" /\ n.toHost = e /\ n.toWorker = socket.toWorker
      BY <3>1, <3>2 DEF Sockets
    <3> QED
      BY <3>3 DEF e
  <2>3. Carried(n.toHost) = {}
    BY <2>2 DEF Carried
  <2> HIDE DEF n
  <2> QED
    BY <2>1, <2>2, <2>3 DEF Continues
<1>2. CASE socket.state = "worker"
  BY <1>2, NoSocketContinues DEF HostCloses
<1>3. CASE socket.state \notin {"up", "worker"}
  BY <1>3, ContinuesItself DEF HostCloses
<1> QED
  BY <1>1, <1>2, <1>3

LEMMA WorkerClosesContinues ==
  ASSUME NEW s, SocketOK(s)
  PROVE  Continues(s, WorkerCloses(s), {}, {}) /\ WorkerCloses(s).state # "up"
<1>1. CASE s.state = "up"
  <2> DEFINE a == [s EXCEPT !.state = "worker"]
             e == <<>>
             n == [a EXCEPT !.toWorker = e]
  <2>1. WorkerCloses(s) = n
    BY <1>1 DEF WorkerCloses
  <2>2. /\ n \in Sockets /\ n.state = "worker" /\ n.toHost = s.toHost
        /\ n.toWorker = <<>>
    <3>1. a \in Sockets /\ a.state = "worker" /\ a.toHost = s.toHost
      BY DEF Sockets, SocketOK
    <3>2. e \in Seq(ToWorker)
      OBVIOUS
    <3> HIDE DEF a, e
    <3>3. n \in Sockets /\ n.state = "worker" /\ n.toWorker = e /\ n.toHost = s.toHost
      BY <3>1, <3>2 DEF Sockets
    <3> QED
      BY <3>3 DEF e
  <2>3. Carried(n.toWorker) = {}
    BY <2>2 DEF Carried
  <2> HIDE DEF n
  <2> QED
    BY <1>1, <2>1, <2>2, <2>3 DEF Continues
<1>2. CASE s.state = "worker"
  BY <1>2, ContinuesItself DEF WorkerCloses
<1>3. CASE s.state \notin {"up", "worker"}
  BY <1>3, NoSocketContinues DEF WorkerCloses
<1> QED
  BY <1>1, <1>2, <1>3

LEMMA WrittenContinues ==
  ASSUME SocketOK(socket), NEW frames \in Seq(ToHost)
  PROVE  Continues(socket, WrittenToHost(frames), Carried(frames), {})
<1>1. CASE frames = <<>>
  BY <1>1, ContinuesItself DEF WrittenToHost, Continues
<1>2. CASE frames # <<>> /\ socket.state = "up"
  <2> DEFINE q == socket.toHost \o frames
             n == [socket EXCEPT !.toHost = q]
  <2>1. WrittenToHost(frames) = n
    BY <1>2 DEF WrittenToHost
  <2>2. q \in Seq(ToHost) /\ Carried(q) \subseteq Carried(socket.toHost) \cup Carried(frames)
    BY CarriedFrames, SocketFields DEF SocketOK
  <2> HIDE DEF q
  <2>3. /\ n \in Sockets /\ n.state = "up" /\ n.toHost = q
        /\ n.toWorker = socket.toWorker
    BY <1>2, <2>2 DEF Sockets, SocketOK
  <2> HIDE DEF n
  <2> QED
    BY <1>2, <2>1, <2>2, <2>3 DEF Continues
<1>3. CASE frames # <<>> /\ socket.state = "host"
  <2> DEFINE n == [socket EXCEPT !.state = "broken"]
  <2>1. WrittenToHost(frames) = n
    BY <1>3 DEF WrittenToHost
  <2>2. /\ n \in Sockets /\ n.state = "broken" /\ n.toHost = socket.toHost
        /\ n.toWorker = socket.toWorker /\ socket.toHost = <<>>
    BY <1>3 DEF Sockets, SocketOK
  <2> HIDE DEF n
  <2> QED
    BY <1>3, <2>1, <2>2 DEF Continues
<1>4. CASE frames # <<>> /\ socket.state \notin {"up", "host"}
  <2>1. WrittenToHost(frames) = socket
    BY <1>4 DEF WrittenToHost
  <2> QED
    BY <2>1, ContinuesItself DEF Continues
<1> QED
  BY <1>1, <1>2, <1>3, <1>4

LEMMA ThenCloses ==
  ASSUME SocketOK(socket), NEW frames \in Seq(ToHost)
  PROVE  Continues(socket, WorkerCloses(WrittenToHost(frames)), Carried(frames), {})
<1> DEFINE w == WrittenToHost(frames)
<1>1. Continues(socket, w, Carried(frames), {})
  BY WrittenContinues
<1>2. SocketOK(w)
  BY <1>1 DEF Continues, SocketOK
<1>3. Continues(w, WorkerCloses(w), {}, {})
  BY <1>2, WorkerClosesContinues
<1> HIDE DEF w
<1> QED
  BY <1>1, <1>3 DEF Continues, w

LEMMA SentContinues ==
  ASSUME SocketOK(socket), socket.state = "up", NEW f \in ToWorker
  PROVE  LET n == [socket EXCEPT !.toWorker = Append(@, f)] IN
         Continues(socket, n, {}, {f}) /\ n.state = "up"
<1> DEFINE q == Append(socket.toWorker, f)
           n == [socket EXCEPT !.toWorker = q]
<1>1. q \in Seq(ToWorker) /\ Carried(q) \subseteq Carried(socket.toWorker) \cup {f}
  BY CarriedFrames, SocketFields DEF SocketOK
<1>2. n = [socket EXCEPT !.toWorker = Append(@, f)]
  OBVIOUS
<1> HIDE DEF q
<1>3. n \in Sockets /\ n.state = "up" /\ n.toHost = socket.toHost /\ n.toWorker = q
  BY <1>1 DEF Sockets, SocketOK
<1> HIDE DEF n
<1> QED
  BY <1>1, <1>2, <1>3 DEF Continues

LEMMA HeardContinues ==
  ASSUME SocketOK(socket), socket.toHost # <<>>
  PROVE  /\ Head(socket.toHost) \in ToHost /\ Head(socket.toHost) \in Carried(socket.toHost)
         /\ LET n == [socket EXCEPT !.toHost = Tail(@)] IN
            Continues(socket, n, {}, {}) /\ n.state = socket.state
<1> DEFINE q == Tail(socket.toHost)
           n == [socket EXCEPT !.toHost = q]
<1>1. /\ q \in Seq(ToHost) /\ Carried(q) \subseteq Carried(socket.toHost)
      /\ Head(socket.toHost) \in ToHost /\ Head(socket.toHost) \in Carried(socket.toHost)
  BY CarriedFrames, SocketFields DEF SocketOK
<1>2. n = [socket EXCEPT !.toHost = Tail(@)]
  OBVIOUS
<1>3. socket.state \in {"up", "worker"}
  BY DEF SocketOK
<1> HIDE DEF q
<1>4. n \in Sockets /\ n.state = socket.state /\ n.toHost = q /\ n.toWorker = socket.toWorker
  BY <1>1 DEF Sockets, SocketOK
<1> HIDE DEF n
<1> QED
  BY <1>1, <1>2, <1>3, <1>4 DEF Continues

LEMMA ReadContinues ==
  ASSUME SocketOK(socket), socket.toWorker # <<>>
  PROVE  /\ Head(socket.toWorker) \in ToWorker
         /\ Head(socket.toWorker) \in Carried(socket.toWorker)
         /\ LET n == [socket EXCEPT !.toWorker = Tail(@)] IN
            Continues(socket, n, {}, {}) /\ n.state = socket.state
<1> DEFINE q == Tail(socket.toWorker)
           n == [socket EXCEPT !.toWorker = q]
<1>1. /\ q \in Seq(ToWorker) /\ Carried(q) \subseteq Carried(socket.toWorker)
      /\ Head(socket.toWorker) \in ToWorker /\ Head(socket.toWorker) \in Carried(socket.toWorker)
  BY CarriedFrames, SocketFields DEF SocketOK
<1>2. n = [socket EXCEPT !.toWorker = Tail(@)]
  OBVIOUS
<1> HIDE DEF q
<1>4. n \in Sockets /\ n.state = socket.state /\ n.toWorker = q /\ n.toHost = socket.toHost
  BY <1>1 DEF Sockets, SocketOK
<1> HIDE DEF n
<1> QED
  BY <1>1, <1>2, <1>4 DEF Continues, SocketOK

-----------------------------------------------------------------------------
(* The steps of the run.                                                   *)

Budgets == [faults : Nat, crashes : 0 .. MaxCrashes, cancels : Nat]

\* A step of the host leaves the worker's side alone and kills no Runtime.
WorkerWaits ==
  /\ UNCHANGED workerSide
  /\ process' \in {"running", "exited", "stopped"}
  /\ budget' \in Budgets /\ budget'.crashes = budget.crashes
  /\ mishap' \in BOOLEAN

\* What a step may do to the session: nothing, close it, or send a frame.
Leaves == heard' = [heard EXCEPT !.open = FALSE] /\ socket' \in {HostCloses, NoSocket}

Sends(f) ==
  /\ f \in ToWorker
  /\ heard.open /\ socket.state = "up"
  /\ heard' = heard
  /\ socket' = [socket EXCEPT !.toWorker = Append(@, f)]

\* Where a step may lead.
BeforeAnswer == {"awaitGeneration", "confirm"}
Delivering   == {"dispatch", "awaitAcceptance", "accepted"}
Identifying  == {"identify", "identified"}

PlaceMoves ==
  /\ run' \in Runs
  /\ run'.recovering = run.recovering /\ run'.instruction = run.instruction
  /\ run.at # "down" /\ run'.at # "down"
  /\ \/ run'.at \in {run.at, "stop", "ended"}
     \/ run.at \notin {"identified", "stop", "ended"} /\ (run.at = "identify" => run'.at = "identified")
     \/ run.instruction # None
  /\ run'.at \in BeforeSend => run.at \in BeforeSend
  /\ run'.at \in Identifying => run.at \in Identifying
  /\ run'.at \in BeforeAnnounce => run.at \in BeforeAnnounce /\ host'.pending = host.pending
  /\ run'.at \in BeforeAnswer =>
       \/ run.at \in BeforeAnswer /\ host'.pending = host.pending
       \/ run.at = "announce" /\ host'.pending = run.instruction.deliveryGeneration
  /\ run'.at \in Delivering =>
       \/ run.at \in Delivering /\ host'.instruction = host.instruction
       \/ run.at \in BeforeSend /\ host'.instruction = run.instruction
  /\ run'.at = "accepted" => heard.acceptance = "accepted"
  /\ run'.at = "confirm" => heard.generation \in AcceptanceStates

\* What a step may record.
OpMoves ==
  /\ op' \in Operation
  /\ op.result # None => op'.result # None
  /\ run'.at = "acknowledge" => op'.result # None
  /\ Faithful(op'.startInstructionAcceptance)
  /\ \/ op'.startDeliveryAuthority = op.startDeliveryAuthority
     \/ op'.startDeliveryAuthority = run.instruction /\ run'.at = "check" /\ run.instruction # None
  /\ HandoffsTrue(op')

RunMoves ==
  /\ WorkerWaits /\ PlaceMoves /\ OpMoves
  /\ host' \in HostProtocolPeers /\ host'.accepted \in {host.accepted, None}
  /\ \/ UNCHANGED <<heard, socket>>
     \/ Leaves
     \/ \E f : /\ Sends(f)
               /\ f.event.type = "begin" => run'.at \notin BeforeSend
               /\ f.event.type = "ack" => op.result # None

LEMMA InvSocket == SessionIInv => SocketOK(socket)
  BY DEF SessionIInv, SessionTypeOK, ConnectionIsOpen, SocketOK

\* A step of the run and the session.
LEMMA SessionContinues ==
  ASSUME SessionIInv, RunMoves
  PROVE  /\ heard' \in Hearings
         /\ heard'.said = heard.said /\ heard'.generation = heard.generation
         /\ heard'.acceptance = heard.acceptance /\ heard'.connected = heard.connected
         /\ heard'.open \/ socket'.state \notin {"up", "worker"}
         /\ \E sent : /\ Continues(socket, socket', {}, sent)
                      /\ \A f \in sent : /\ f.event.type = "begin" => run'.at \notin BeforeSend
                                         /\ f.event.type = "ack" => op.result # None
<1>1. SocketOK(socket) /\ heard \in Hearings
  BY InvSocket DEF SessionIInv, SessionTypeOK
<1>2. CASE UNCHANGED <<heard, socket>>
  <2>1. Continues(socket, socket', {}, {})
    BY <1>1, <1>2, ContinuesItself
  <2>2. heard.open \/ socket.state \notin {"up", "worker"}
    BY DEF SessionIInv, ConnectionIsOpen
  <2> QED
    BY <1>1, <1>2, <2>1, <2>2
<1>3. CASE Leaves
  <2>1. Continues(socket, socket', {}, {}) /\ socket'.state \notin {"up", "worker"}
    BY <1>1, <1>3, HostClosesContinues, NoSocketContinues DEF Leaves
  <2>2. /\ heard' \in Hearings
        /\ heard'.said = heard.said /\ heard'.generation = heard.generation
        /\ heard'.acceptance = heard.acceptance /\ heard'.connected = heard.connected
    BY <1>1, <1>3, HeardClosed DEF Leaves
  <2> QED
    BY <2>1, <2>2
<1>4. ASSUME NEW f, Sends(f),
             f.event.type = "begin" => run'.at \notin BeforeSend,
             f.event.type = "ack" => op.result # None
      PROVE  /\ heard' = heard /\ heard'.open
             /\ Continues(socket, socket', {}, {f})
  BY <1>1, <1>4, SentContinues DEF Sends
<1> QED
  <2>1. CASE \E f : /\ Sends(f)
                    /\ f.event.type = "begin" => run'.at \notin BeforeSend
                    /\ f.event.type = "ack" => op.result # None
    <3>1. PICK f : /\ Sends(f)
                   /\ f.event.type = "begin" => run'.at \notin BeforeSend
                   /\ f.event.type = "ack" => op.result # None
      BY <2>1
    <3>2. /\ heard' = heard /\ heard'.open
          /\ Continues(socket, socket', {}, {f})
      BY <1>4, <3>1
    <3>3. \A g \in {f} : /\ g.event.type = "begin" => run'.at \notin BeforeSend
                         /\ g.event.type = "ack" => op.result # None
      BY <3>1
    <3> QED
      BY <1>1, <3>2, <3>3
  <2> QED
    BY <1>2, <1>3, <2>1 DEF RunMoves

LEMMA RunMovesKeeps ==
  ASSUME SessionIInv, RunMoves
  PROVE  SessionIInv'
<1> USE DEF SessionIInv
<1>1. /\ heard' \in Hearings
      /\ heard'.said = heard.said /\ heard'.generation = heard.generation
      /\ heard'.acceptance = heard.acceptance /\ heard'.connected = heard.connected
      /\ heard'.open \/ socket'.state \notin {"up", "worker"}
  BY SessionContinues
<1>2. PICK sent :
        /\ Continues(socket, socket', {}, sent)
        /\ \A f \in sent : /\ f.event.type = "begin" => run'.at \notin BeforeSend
                           /\ f.event.type = "ack" => op.result # None
  BY SessionContinues
<1>3. UNCHANGED workerSide
  BY DEF RunMoves, WorkerWaits
<1>4. UNCHANGED <<worker, bridge, reception, stored>>
  BY <1>3 DEF workerSide
<1>5. SessionTypeOK'
  <2>1. /\ worker' \in WorkerProtocolPeers /\ bridge' \in Bridges
        /\ reception' \in Receptions /\ stored' \in Stores
    BY <1>4 DEF SessionTypeOK
  <2>2. socket' \in Sockets
    BY <1>2 DEF Continues
  <2> QED
    BY <1>1, <2>1, <2>2
    DEF SessionTypeOK, RunMoves, WorkerWaits, PlaceMoves, OpMoves, Budgets
<1>6. ConnectionIsOpen'
  BY <1>1, <1>2 DEF ConnectionIsOpen, Continues, RunMoves, PlaceMoves
<1>7. GenerationsBounded'
  <2>1. budget'.crashes = budget.crashes
    BY DEF RunMoves, WorkerWaits
  <2>2. \/ op'.startDeliveryAuthority = op.startDeliveryAuthority
        \/ /\ op'.startDeliveryAuthority = run.instruction /\ run'.at = "check"
           /\ run.instruction # None
    BY DEF RunMoves, OpMoves
  <2>3. PlaceMoves
    BY DEF RunMoves
  <2> QED
    BY <2>1, <2>2, <2>3 DEF GenerationsBounded, PlaceMoves, Identifying
<1>8. WorkerFaithful' /\ UpdateIsTrue' /\ BegunOnce(bridge)'
  BY <1>4 DEF WorkerFaithful, UpdateIsTrue, BegunOnce, Faithful, Refused
<1>9. FramesTrue'
  <2>1. \A e : Truthful(e) => Truthful(e)'
    BY <1>4 DEF Truthful, Faithful, Refused
  <2>2. Carried(socket'.toHost) \subseteq Carried(socket.toHost)
    BY <1>2 DEF Continues
  <2> QED
    BY <2>1, <2>2 DEF FramesTrue
<1>10. AcknowledgesRecorded'
  <2>1. Carried(socket'.toWorker) \subseteq Carried(socket.toWorker) \cup sent
    BY <1>2 DEF Continues
  <2>2. op.result # None => op'.result # None
    BY DEF RunMoves, OpMoves
  <2>3. run'.at = "acknowledge" => op'.result # None
    BY DEF RunMoves, OpMoves
  <2> QED
    BY <1>2, <1>4, <2>1, <2>2, <2>3 DEF AcknowledgesRecorded
<1>11. BeginsAreSent'
  <2>1. SUFFICES ASSUME run'.at \in BeforeSend
                 PROVE  /\ heard'.acceptance # "accepted"
                        /\ \A f \in Carried(socket'.toHost) : f.event.type # "begin_accepted"
                        /\ socket'.state = "up" =>
                             /\ reception'.start = None
                             /\ \A f \in Carried(socket'.toWorker) : f.event.type # "begin"
    BY DEF BeginsAreSent, BeforeSend, BeforeAnnounce
  <2>2. run.at \in BeforeSend
    BY <2>1 DEF RunMoves, PlaceMoves
  <2> QED
    BY <1>1, <1>2, <1>4, <2>1, <2>2 DEF BeginsAreSent, Continues
<1>12. HostFaithful'
  <2>1. \A i : Faithful(i) => Faithful(i)'
    BY <1>4 DEF Faithful
  <2>2. host'.accepted \in {host.accepted, None} /\ Faithful(op'.startInstructionAcceptance)
    BY DEF RunMoves, OpMoves
  <2>3. Faithful(host.accepted)' /\ Faithful(heard.said)' /\ Faithful(op.startInstructionAcceptance)'
    BY <1>1, <1>4, <2>2 DEF HostFaithful, Faithful
  <2>4. ASSUME run'.at \in {"dispatch", "awaitAcceptance", "accepted"}
        PROVE  /\ host'.instruction = run'.instruction
               /\ heard'.acceptance = "accepted" => Faithful(run.instruction)'
    <3>1. /\ run'.instruction = run.instruction
          /\ \/ run.at \in Delivering /\ host'.instruction = host.instruction
             \/ run.at \in BeforeSend /\ host'.instruction = run.instruction
      BY <2>4 DEF RunMoves, PlaceMoves, Delivering
    <3>2. CASE run.at \in Delivering /\ host'.instruction = host.instruction
      BY <1>1, <1>4, <3>1, <3>2 DEF HostFaithful, Faithful, Delivering
    <3>3. CASE run.at \in BeforeSend /\ host'.instruction = run.instruction
      BY <1>1, <3>1, <3>3 DEF BeginsAreSent
    <3> QED
      BY <3>1, <3>2, <3>3
  <2>5. run'.at = "accepted" => heard'.acceptance = "accepted"
    BY <1>1 DEF RunMoves, PlaceMoves
  <2> QED
    BY <2>3, <2>4, <2>5 DEF HostFaithful
<1>13. AnswerIsTrue'
  <2>1. run'.instruction = run.instruction
    BY DEF RunMoves, PlaceMoves
  <2>2. ASSUME run'.at \in BeforeAnnounce
        PROVE  host'.pending = 0 /\ heard'.generation \notin AcceptanceStates
    BY <1>1, <2>2 DEF AnswerIsTrue, RunMoves, PlaceMoves
  <2>3. ASSUME run'.at \in BeforeAnswer
        PROVE  /\ host'.pending \in {0, run'.instruction.deliveryGeneration}
               /\ heard'.generation = "not_accepted" =>
                    Refused(run.instruction.deliveryGeneration)'
    <3>1. \/ run.at \in BeforeAnswer /\ host'.pending = host.pending
          \/ run.at = "announce" /\ host'.pending = run.instruction.deliveryGeneration
      BY <2>3 DEF RunMoves, PlaceMoves
    <3>2. CASE run.at \in BeforeAnswer /\ host'.pending = host.pending
      BY <1>1, <1>4, <2>1, <3>2 DEF AnswerIsTrue, BeforeAnswer, Refused
    <3>3. CASE run.at = "announce" /\ host'.pending = run.instruction.deliveryGeneration
      BY <1>1, <2>1, <3>3 DEF AnswerIsTrue, BeforeAnnounce, AcceptanceStates
    <3> QED
      BY <3>1, <3>2, <3>3
  <2>4. run'.at = "confirm" => heard'.generation \in AcceptanceStates
    BY <1>1 DEF RunMoves, PlaceMoves
  <2> QED
    BY <2>2, <2>3, <2>4 DEF AnswerIsTrue, BeforeAnswer, BeforeAnnounce
<1>14. HandoffsTrue(op)'
  BY <1>4 DEF RunMoves, OpMoves, HandoffsTrue, Refused
<1> QED
  BY <1>5, <1>6, <1>7, <1>8, <1>9, <1>10, <1>11, <1>12, <1>13, <1>14

LEMMA Waits ==
  ASSUME SessionIInv, UNCHANGED workerSide
  PROVE  /\ UNCHANGED <<process, budget, mishap>> => WorkerWaits
         /\ process' = process /\ Fault => WorkerWaits
         /\ process' \in {process, "stopped"} /\ UNCHANGED <<budget, mishap>> => WorkerWaits
<1>1. /\ process \in {"running", "exited", "stopped"}
      /\ budget \in Budgets /\ mishap \in BOOLEAN
  BY DEF SessionIInv, SessionTypeOK, Budgets
<1>2. Fault => /\ budget' \in Budgets /\ budget'.crashes = budget.crashes
               /\ mishap' \in BOOLEAN
  <2>1. SUFFICES ASSUME Fault
                 PROVE  /\ budget' \in Budgets /\ budget'.crashes = budget.crashes
                        /\ mishap' \in BOOLEAN
    OBVIOUS
  <2> DEFINE m == budget.faults - 1
  <2>2. m \in Nat
    BY <1>1, <2>1 DEF Fault, Budgets
  <2>3. budget' = [budget EXCEPT !.faults = m] /\ mishap' = TRUE
    BY <2>1 DEF Fault
  <2> HIDE DEF m
  <2> QED
    BY <1>1, <2>2, <2>3 DEF Budgets
<1> QED
  BY <1>1, <1>2 DEF WorkerWaits

LEMMA Proceeding ==
  ASSUME SessionIInv, NEW p \in Places, Proceeds(p)
  PROVE  /\ run' \in Runs /\ run'.at = p /\ run'.cancel = run.cancel
         /\ run'.recovering = run.recovering /\ run'.instruction = run.instruction
<1>1. run \in Runs
  BY DEF SessionIInv, SessionTypeOK
<1> QED
  BY <1>1 DEF Proceeds, Runs

LEMMA OpStays ==
  ASSUME SessionIInv, UNCHANGED op, UNCHANGED workerSide,
         run'.at = "acknowledge" => op.result # None
  PROVE  OpMoves
  BY DEF SessionIInv, SessionTypeOK, OpMoves, HostFaithful

\* The run ends, or is stopped.
Stops == (Proceeds("stop") /\ UNCHANGED <<heard, socket>>) \/ RunEnds

LEMMA StopMoves ==
  ASSUME SessionIInv, run.at # "down", Stops, UNCHANGED <<op, host>>, WorkerWaits
  PROVE  RunMoves
<1>1. /\ run' \in Runs /\ run'.at \in {"stop", "ended"}
      /\ run'.recovering = run.recovering /\ run'.instruction = run.instruction
  <2>1. CASE Proceeds("stop")
    BY <2>1, Proceeding DEF Places
  <2>2. CASE Proceeds("ended")
    BY <2>2, Proceeding DEF Places
  <2> QED
    BY <2>1, <2>2 DEF Stops, RunEnds
<1>2. PlaceMoves
  BY <1>1 DEF PlaceMoves, BeforeSend, BeforeAnnounce, BeforeAnswer, Delivering, Identifying
<1>3. OpMoves
  BY <1>1, OpStays DEF WorkerWaits
<1>4. UNCHANGED <<heard, socket>> \/ Leaves
  BY DEF Stops, RunEnds, Leaves
<1>5. host' \in HostProtocolPeers /\ host'.accepted = host.accepted
  BY DEF SessionIInv, SessionTypeOK
<1> QED
  BY <1>2, <1>3, <1>4, <1>5 DEF RunMoves

\* A hook: its event is on record, or the run stops.
Granted(p) == Proceeds(p) /\ UNCHANGED <<host, heard, socket, rest>>

Refuses == UNCHANGED <<op, host, rest>> /\ Stops

LEMMA GrantedMoves ==
  ASSUME SessionIInv, NEW p \in Places, Granted(p), PlaceMoves, OpMoves
  PROVE  RunMoves
<1>1. WorkerWaits
  BY Waits DEF Granted, rest
<1>2. host' \in HostProtocolPeers /\ host'.accepted = host.accepted
  BY DEF SessionIInv, SessionTypeOK, Granted
<1> QED
  BY <1>1, <1>2 DEF RunMoves, Granted

LEMMA RefusesMoves ==
  ASSUME SessionIInv, run.at # "down", Refuses
  PROVE  RunMoves
<1>1. WorkerWaits
  BY Waits DEF Refuses, rest
<1> QED
  BY <1>1, StopMoves DEF Refuses

\* Where the run may be without an instruction.
LEMMA InstructionThere ==
  ASSUME SessionIInv, run.at \notin {"down", "stop", "ended", "identify", "identified"}
  PROVE  /\ run.instruction \in StartInstruction /\ run.instruction # None
         /\ run.instruction.deliveryGeneration \in Nat \ {0}
         /\ run.instruction.dispatcherId \in Dispatcher
<1>1. run.instruction \in StartInstruction \cup {None} /\ run.instruction # None
  BY DEF SessionIInv, SessionTypeOK, GenerationsBounded, Runs
<1> QED
  BY <1>1 DEF StartInstruction

-----------------------------------------------------------------------------
(* Each step of the run.                                                   *)

LEMMA WaitForIdentificationMoves ==
  ASSUME SessionIInv, WaitForIdentification PROVE RunMoves
<1>1. run.at = "identify"
  BY DEF WaitForIdentification
<1>2. CASE Proceeds("identified") /\ UNCHANGED <<op, host, heard, socket, rest>>
  <2>1. /\ run' \in Runs /\ run'.at = "identified"
        /\ run'.recovering = run.recovering /\ run'.instruction = run.instruction
    BY <1>2, Proceeding DEF Places
  <2>2. PlaceMoves
    BY <1>1, <1>2, <2>1
    DEF PlaceMoves, BeforeSend, BeforeAnnounce, BeforeAnswer, Delivering, Identifying
  <2>3. OpMoves
    BY <1>2, <2>1, OpStays DEF rest
  <2> QED
    BY <1>2, <2>2, <2>3, GrantedMoves DEF Granted, Places
<1>3. CASE ~(Proceeds("identified") /\ UNCHANGED <<op, host, heard, socket, rest>>)
  <2>1. Stops /\ UNCHANGED <<op, host, workerSide, process>> /\ (Fault \/ NoFault)
    BY <1>3 DEF WaitForIdentification, Stops
  <2>2. WorkerWaits
    BY <2>1, Waits DEF NoFault
  <2> QED
    BY <1>1, <2>1, <2>2, StopMoves
<1> QED
  BY <1>2, <1>3

LEMMA FreshWorkerIdentifiedMoves ==
  ASSUME SessionIInv, WorkerIdentified, ~run.recovering PROVE RunMoves
<1>1. run.at = "identified"
  BY DEF WorkerIdentified, Hook
<1>2. CASE Refuses
  BY <1>1, <1>2, RefusesMoves
<1>3. CASE op' = IdentifyWorker(op, TheWorker) /\ Granted("acquire")
  <2>1. /\ run' \in Runs /\ run'.at = "acquire"
        /\ run'.recovering = run.recovering /\ run'.instruction = run.instruction
    BY <1>3, Proceeding DEF Places, Granted
  <2>2. run.instruction # None
    BY <1>1 DEF SessionIInv, GenerationsBounded
  <2>3. PlaceMoves
    BY <1>1, <1>3, <2>1, <2>2
    DEF PlaceMoves, BeforeSend, BeforeAnnounce, BeforeAnswer, Delivering, Identifying
  <2>4. op \in Operation
    BY DEF SessionIInv, SessionTypeOK
  <2>5. op' \in Operation
    BY <1>3, <2>4, ValueArmsTyped, Chosen
  <2>6. /\ op'.result = op.result
        /\ op'.startInstructionAcceptance = op.startInstructionAcceptance
        /\ op'.startDeliveryAuthority = op.startDeliveryAuthority
        /\ op'.startDeliveryHandoffs = op.startDeliveryHandoffs
    BY <1>3, <2>4 DEF IdentifyWorker, Operation
  <2>7. OpMoves
    BY <2>1, <2>5, <2>6 DEF OpMoves, SessionIInv, HandoffsTrue, HostFaithful
  <2> QED
    BY <1>3, <2>3, <2>7, GrantedMoves DEF Places
<1> QED
  BY <1>2, <1>3 DEF WorkerIdentified, Hook, Granted, Refuses, Stops

\* What the arms of the reducer leave alone.
Kept(o, n) ==
  /\ n \in Operation
  /\ n.startDeliveryAuthority = o.startDeliveryAuthority
  /\ n.startDeliveryHandoffs = o.startDeliveryHandoffs
  /\ o.result # None => n.result # None

LEMMA ArmsKeep ==
  ASSUME NEW o \in Operation
  PROVE  /\ \A i \in StartInstruction :
              /\ Kept(o, EnterDelivery(o, i))
              /\ EnterDelivery(o, i).startInstructionAcceptance = o.startInstructionAcceptance
              /\ Kept(o, DispatchStart(o, i))
              /\ DispatchStart(o, i).startInstructionAcceptance = o.startInstructionAcceptance
              /\ Kept(o, AcceptStart(o, i))
              /\ AcceptStart(o, i).startInstructionAcceptance = i
              /\ Kept(o, AcknowledgeStart(o, i))
              /\ AcknowledgeStart(o, i).startInstructionAcceptance = o.startInstructionAcceptance
         /\ \A r \in Result :
              /\ Kept(o, AcceptResult(o, r)) /\ AcceptResult(o, r).result = r
              /\ AcceptResult(o, r).startInstructionAcceptance = o.startInstructionAcceptance
         /\ Kept(o, GiveUp(o))
         /\ GiveUp(o).startInstructionAcceptance = o.startInstructionAcceptance
         /\ Kept(o, RequestCancellation(o, 1))
         /\ RequestCancellation(o, 1).startInstructionAcceptance = o.startInstructionAcceptance
<1>1. ASSUME NEW i \in StartInstruction
      PROVE  /\ Kept(o, EnterDelivery(o, i))
             /\ EnterDelivery(o, i).startInstructionAcceptance = o.startInstructionAcceptance
             /\ Kept(o, DispatchStart(o, i))
             /\ DispatchStart(o, i).startInstructionAcceptance = o.startInstructionAcceptance
  <2>1. EnterDelivery(o, i) \in Operation /\ DispatchStart(o, i) \in Operation
    BY InstructionArmsTyped
  <2> QED
    BY <2>1 DEF Kept, EnterDelivery, DispatchStart, Operation
<1>2. ASSUME NEW i \in StartInstruction
      PROVE  /\ Kept(o, AcceptStart(o, i))
             /\ AcceptStart(o, i).startInstructionAcceptance = i
  <2>1. AcceptStart(o, i) \in Operation
    BY InstructionArmsTyped
  <2> QED
    BY <2>1 DEF Kept, AcceptStart, Operation
<1>3. ASSUME NEW i \in StartInstruction
      PROVE  /\ Kept(o, AcknowledgeStart(o, i))
             /\ AcknowledgeStart(o, i).startInstructionAcceptance = o.startInstructionAcceptance
  <2>1. AcknowledgeStart(o, i) \in Operation
    BY InstructionArmsTyped
  <2> QED
    BY <2>1 DEF Kept, AcknowledgeStart, Operation
<1>4. ASSUME NEW r \in Result
      PROVE  /\ Kept(o, AcceptResult(o, r)) /\ AcceptResult(o, r).result = r
             /\ AcceptResult(o, r).startInstructionAcceptance = o.startInstructionAcceptance
  <2>1. AcceptResult(o, r) \in Operation /\ r # None
    BY ValueArmsTyped, NoneIsNoValue
  <2> QED
    BY <2>1 DEF Kept, AcceptResult, Operation
<1>5. /\ Kept(o, GiveUp(o))
      /\ GiveUp(o).startInstructionAcceptance = o.startInstructionAcceptance
  <2>1. GiveUp(o) \in Operation
    BY StateArmsTyped
  <2> QED
    BY <2>1 DEF Kept, GiveUp, Operation
<1>6. /\ Kept(o, RequestCancellation(o, 1))
      /\ RequestCancellation(o, 1).startInstructionAcceptance = o.startInstructionAcceptance
  <2>1. RequestCancellation(o, 1) \in Operation
    BY RequestCancellationTyped
  <2> QED
    BY <2>1 DEF Kept, RequestCancellation, Operation
<1> QED
  BY <1>1, <1>2, <1>3, <1>4, <1>5, <1>6

LEMMA KeptMoves ==
  ASSUME SessionIInv, Kept(op, op'), Faithful(op'.startInstructionAcceptance),
         run'.at = "acknowledge" => op'.result # None
  PROVE  OpMoves
  BY DEF OpMoves, Kept, SessionIInv, HandoffsTrue

LEMMA OpFacts ==
  SessionIInv =>
    /\ op \in Operation /\ run \in Runs /\ host \in HostProtocolPeers /\ heard \in Hearings
    /\ Faithful(op.startInstructionAcceptance) /\ Faithful(heard.said)
  BY DEF SessionIInv, SessionTypeOK, HostFaithful

LEMMA StartDeliveryAuthorityAcquiredMoves ==
  ASSUME SessionIInv, StartDeliveryAuthorityAcquired PROVE RunMoves
<1>1. run.at = "acquire"
  BY DEF StartDeliveryAuthorityAcquired, Hook
<1>2. CASE Refuses
  BY <1>1, <1>2, RefusesMoves
<1>3. CASE op' = AcquireAuthority(op, run.instruction) /\ Granted("check")
  <2>1. /\ run' \in Runs /\ run'.at = "check"
        /\ run'.recovering = run.recovering /\ run'.instruction = run.instruction
    BY <1>3, Proceeding DEF Places, Granted
  <2>2. run.instruction \in StartInstruction /\ run.instruction # None
    BY <1>1, InstructionThere
  <2>3. PlaceMoves
    BY <1>1, <1>3, <2>1, <2>2
    DEF PlaceMoves, BeforeSend, BeforeAnnounce, BeforeAnswer, Delivering, Identifying
  <2>4. op \in Operation
    BY OpFacts
  <2>5. op' \in Operation
    BY <1>3, <2>2, <2>4, InstructionArmsTyped
  <2>6. /\ op'.result = op.result
        /\ op'.startInstructionAcceptance = op.startInstructionAcceptance
        /\ op'.startDeliveryAuthority = run.instruction
        /\ op'.startDeliveryHandoffs = op.startDeliveryHandoffs
    BY <1>3, <2>4 DEF AcquireAuthority, Operation
  <2>7. OpMoves
    BY <2>1, <2>2, <2>5, <2>6 DEF OpMoves, SessionIInv, HandoffsTrue, HostFaithful
  <2> QED
    BY <1>3, <2>3, <2>7, GrantedMoves DEF Places
<1> QED
  BY <1>2, <1>3 DEF StartDeliveryAuthorityAcquired, Hook, Granted, Refuses, Stops

LEMMA StartDeliveryAuthorityRevokedMoves ==
  ASSUME SessionIInv, StartDeliveryAuthorityRevoked PROVE RunMoves
<1> DEFINE i == run.instruction
<1>1. run.at = "revoke"
  BY DEF StartDeliveryAuthorityRevoked, Hook
<1>2. CASE Refuses
  BY <1>1, <1>2, RefusesMoves
<1>3. CASE /\ CanRevokeAuthority(op, i.dispatcherId, i.deliveryGeneration)
           /\ op' = RevokeAuthority(op, i.dispatcherId, i.deliveryGeneration)
           /\ Granted("announce")
  <2>1. /\ run' \in Runs /\ run'.at = "announce"
        /\ run'.recovering = run.recovering /\ run'.instruction = run.instruction
    BY <1>3, Proceeding DEF Places, Granted
  <2>2. /\ i \in StartInstruction /\ i # None
        /\ i.deliveryGeneration \in Nat \ {0} /\ i.dispatcherId \in Dispatcher
    BY <1>1, InstructionThere
  <2>3. PlaceMoves
    BY <1>1, <1>3, <2>1, <2>2
    DEF PlaceMoves, BeforeSend, BeforeAnnounce, BeforeAnswer, Delivering, Identifying, Granted
  <2>4. op \in Operation
    BY OpFacts
  <2>5. op.startDeliveryAuthority \in StartInstruction
    BY <1>3, <2>4 DEF CanRevokeAuthority, Operation
  <2>6. op' \in Operation
    BY <1>3, <2>2, <2>4, <2>5, RevokeAuthorityTyped
  <2> DEFINE d == i.dispatcherId
             g == i.deliveryGeneration
             q == AppendHandoff(op, d, g)
  <2>7. op' = [op EXCEPT !.startDeliveryHandoffs = q]
    BY <1>3 DEF RevokeAuthority
  <2>8. HandoffsTrue(op')
    <3>1. op'.startDeliveryHandoffs = q
      <4> HIDE DEF q
      <4> QED
        BY <2>4, <2>7 DEF Operation
    <3>2. CASE ResumesHandoff(op, d, g)
      <4>1. q = op.startDeliveryHandoffs
        BY <3>2 DEF AppendHandoff
      <4> HIDE DEF q
      <4> QED
        BY <3>1, <4>1 DEF SessionIInv, HandoffsTrue
    <3>3. CASE ~ResumesHandoff(op, d, g)
      <4> DEFINE h == op.startDeliveryHandoffs
      <4>1. /\ h \in Seq(Handoff) /\ Len(h) \in Nat
            /\ q \in Seq(Handoff)
            /\ Len(q) = Len(h) + 1
            /\ \A k \in 1..Len(h) : q[k] = h[k]
            /\ q[Len(h) + 1] =
                 [previousDispatcherId       |-> op.startDeliveryAuthority.dispatcherId,
                  previousDeliveryGeneration |-> op.startDeliveryAuthority.deliveryGeneration,
                  successorDispatcherId      |-> d,
                  deliveryGeneration         |-> g,
                  acceptanceState            |-> "pending"]
        BY <2>2, <2>4, <2>5, <3>3, AppendKeepsHandoffs
      <4>2. HandoffsTrue(op)
        BY DEF SessionIInv
      <4> HIDE DEF q, d, g
      <4>3. ASSUME NEW n \in 1 .. Len(q), q[n].acceptanceState = "not_accepted"
            PROVE  Refused(q[n].deliveryGeneration)
        <5>1. n \in 1 .. Len(h)
          <6>1. q[Len(h) + 1].acceptanceState = "pending"
            BY <4>1
          <6> QED
            BY <4>1, <4>3, <6>1
        <5>2. q[n] = h[n]
          BY <4>1, <5>1
        <5> QED
          BY <4>2, <4>3, <5>1, <5>2 DEF HandoffsTrue
      <4> QED
        BY <3>1, <4>3 DEF HandoffsTrue
    <3> QED
      BY <3>2, <3>3
  <2>9. /\ op'.result = op.result
        /\ op'.startInstructionAcceptance = op.startInstructionAcceptance
        /\ op'.startDeliveryAuthority = op.startDeliveryAuthority
    <3> HIDE DEF q
    <3> QED
      BY <2>4, <2>7 DEF Operation
  <2>10. OpMoves
    BY <2>1, <2>6, <2>8, <2>9, OpFacts DEF OpMoves
  <2> QED
    BY <1>3, <2>3, <2>10, GrantedMoves DEF Places
<1> QED
  BY <1>2, <1>3 DEF StartDeliveryAuthorityRevoked, Hook, Granted, Refuses, Stops

LEMMA StartDeliveryGenerationConfirmedMoves ==
  ASSUME SessionIInv, StartDeliveryGenerationConfirmed PROVE RunMoves
<1> DEFINE i == run.instruction
           s == heard.generation
<1>1. run.at = "confirm"
  BY DEF StartDeliveryGenerationConfirmed, Hook
<1>2. CASE Refuses
  BY <1>1, <1>2, RefusesMoves
<1>3. ASSUME NEW p \in {"giveUp", "collectAcceptance", "acquire"},
             CanConfirmGeneration(op, i.dispatcherId, i.deliveryGeneration, s, heard.said),
             op' = ConfirmGeneration(op, s), Granted(p)
      PROVE  RunMoves
  <2>1. /\ run' \in Runs /\ run'.at = p
        /\ run'.recovering = run.recovering /\ run'.instruction = run.instruction
    BY <1>3, Proceeding DEF Places, Granted
  <2>2. /\ i \in StartInstruction /\ i # None
    BY <1>1, InstructionThere
  <2>3. PlaceMoves
    BY <1>1, <1>3, <2>1, <2>2
    DEF PlaceMoves, BeforeSend, BeforeAnnounce, BeforeAnswer, Delivering, Identifying
  <2>4. op \in Operation /\ heard \in Hearings
    BY OpFacts
  <2>5. s \in AcceptanceStates
    <3> QED
      BY <1>1, <2>4 DEF SessionIInv, AnswerIsTrue
  <2>6. op' \in Operation
    BY <1>3, <2>4, <2>5, ConfirmGenerationTyped DEF CanConfirmGeneration, HandoffPending
  <2> DEFINE q == AnswerLastHandoff(op, s)
             h == op.startDeliveryHandoffs
  <2>7. op' = [op EXCEPT !.startDeliveryHandoffs = q]
    BY <1>3 DEF ConfirmGeneration
  <2>8. HandoffsTrue(op')
    <3>1. op'.startDeliveryHandoffs = q
      <4> HIDE DEF q
      <4> QED
        BY <2>4, <2>7 DEF Operation
    <3>2. /\ q \in Seq(Handoff)
          /\ Len(q) = Len(h) /\ Len(h) \in Nat \ {0}
          /\ \A k \in 1..Len(h) : k # Len(h) => q[k] = h[k]
          /\ q[Len(h)] = [h[Len(h)] EXCEPT !.acceptanceState = s]
          /\ h[Len(h)] \in Handoff
      BY <1>3, <2>4, <2>5, AnswerKeepsHandoffs DEF CanConfirmGeneration, HandoffPending
    <3>3. h[Len(h)].deliveryGeneration = i.deliveryGeneration
      BY <1>3 DEF CanConfirmGeneration, LastHandoffNames, LastHandoff
    <3>4. /\ q[Len(h)].acceptanceState = s
          /\ q[Len(h)].deliveryGeneration = i.deliveryGeneration
      <4> DEFINE x == h[Len(h)]
      <4>1. /\ x \in Handoff /\ x.deliveryGeneration = i.deliveryGeneration
            /\ q[Len(h)] = [x EXCEPT !.acceptanceState = s]
        BY <3>2, <3>3
      <4> HIDE DEF x
      <4> QED
        BY <4>1 DEF Handoff
    <3>5. s = "not_accepted" => Refused(i.deliveryGeneration)
      BY <1>1 DEF SessionIInv, AnswerIsTrue
    <3>6. HandoffsTrue(op)
      BY DEF SessionIInv
    <3> HIDE DEF q
    <3>7. ASSUME NEW n \in 1 .. Len(q), q[n].acceptanceState = "not_accepted"
          PROVE  Refused(q[n].deliveryGeneration)
      <4>1. n \in 1 .. Len(h)
        BY <3>2
      <4>2. CASE n = Len(h)
        BY <3>4, <3>5, <3>7, <4>2
      <4>3. CASE n # Len(h)
        <5>1. q[n] = h[n]
          BY <3>2, <4>1, <4>3
        <5> QED
          BY <3>6, <3>7, <4>1, <5>1 DEF HandoffsTrue
      <4> QED
        BY <4>2, <4>3
    <3> QED
      BY <3>1, <3>7 DEF HandoffsTrue
  <2>9. /\ op'.result = op.result
        /\ op'.startInstructionAcceptance = op.startInstructionAcceptance
        /\ op'.startDeliveryAuthority = op.startDeliveryAuthority
    <3> HIDE DEF q
    <3> QED
      BY <2>4, <2>7 DEF Operation
  <2>10. OpMoves
    BY <2>1, <2>6, <2>8, <2>9, OpFacts DEF OpMoves
  <2> QED
    BY <1>3, <2>3, <2>10, GrantedMoves DEF Places
<1>4. \/ Refuses
      \/ \E p \in {"giveUp", "collectAcceptance", "acquire"} :
           /\ CanConfirmGeneration(op, i.dispatcherId, i.deliveryGeneration, s, heard.said)
           /\ op' = ConfirmGeneration(op, s) /\ Granted(p)
  <2>1. CASE s = "unknown"
    BY <2>1 DEF StartDeliveryGenerationConfirmed, Hook, Granted, Refuses, Stops
  <2>2. CASE s = "accepted"
    BY <2>2 DEF StartDeliveryGenerationConfirmed, Hook, Granted, Refuses, Stops
  <2>3. CASE s \notin {"unknown", "accepted"}
    BY <2>3 DEF StartDeliveryGenerationConfirmed, Hook, Granted, Refuses, Stops
  <2> QED
    BY <2>1, <2>2, <2>3
<1> QED
  BY <1>2, <1>3, <1>4

\* The run goes on from one place to the next, and the record with it.
LEMMA RecordMoves ==
  ASSUME SessionIInv, NEW p \in Places, Granted(p),
         Kept(op, op'), Faithful(op'.startInstructionAcceptance),
         run.at \notin {"down", "stop", "ended", "identify", "identified"},
         p \notin BeforeAnnounce \cup BeforeAnswer \cup {"down"},
         p \in BeforeSend => run.at \in BeforeSend,
         p \in Delivering => run.at \in Delivering,
         p = "accepted" => heard.acceptance = "accepted",
         p = "acknowledge" => op'.result # None
  PROVE  RunMoves
<1>1. /\ run' \in Runs /\ run'.at = p
      /\ run'.recovering = run.recovering /\ run'.instruction = run.instruction
  BY Proceeding DEF Granted
<1>2. run.instruction # None
  BY InstructionThere
<1>3. host' = host
  BY DEF Granted
<1>4. p # "confirm" /\ p \notin Identifying
  BY DEF BeforeAnswer, Identifying, BeforeAnnounce
<1>5. PlaceMoves
  BY <1>1, <1>2, <1>3, <1>4 DEF PlaceMoves
<1>6. OpMoves
  BY <1>1, KeptMoves
<1> QED
  BY <1>5, <1>6, GrantedMoves

LEMMA UnchangedKept == SessionIInv => Kept(op, op)
  BY OpFacts DEF Kept

LEMMA StartAcceptanceUnknownMoves ==
  ASSUME SessionIInv, StartAcceptanceUnknown PROVE RunMoves
<1>1. run.at = "giveUp"
  BY DEF StartAcceptanceUnknown, Hook
<1>2. CASE Refuses
  BY <1>1, <1>2, RefusesMoves
<1>3. CASE op' = GiveUp(op) /\ Granted("stop")
  <2>1. Kept(op, op') /\ Faithful(op'.startInstructionAcceptance)
    BY <1>3, ArmsKeep, OpFacts
  <2> QED
    BY <1>1, <1>3, <2>1, RecordMoves
    DEF Places, BeforeSend, BeforeAnnounce, BeforeAnswer, Delivering
<1> QED
  BY <1>2, <1>3 DEF StartAcceptanceUnknown, Hook, Granted, Refuses, Stops

LEMMA CollectAcceptanceMoves ==
  ASSUME SessionIInv, CollectAcceptance PROVE RunMoves
<1> DEFINE known == op.startInstructionAcceptance # None
<1>1. run.at = "collectAcceptance"
  BY DEF CollectAcceptance, Hook
<1>2. CASE Refuses
  BY <1>1, <1>2, RefusesMoves
<1>3. CASE /\ known \/ CanAcceptStart(op, heard.said)
           /\ op' = IF known THEN op ELSE AcceptStart(op, heard.said)
           /\ Granted("collectAcknowledgement")
  <2>1. Kept(op, op') /\ Faithful(op'.startInstructionAcceptance)
    <3>1. CASE known
      BY <1>3, <3>1, UnchangedKept, OpFacts
    <3>2. CASE ~known
      <4>1. op' = AcceptStart(op, heard.said) /\ heard.said # None
        BY <1>3, <3>2 DEF CanAcceptStart
      <4>2. heard.said \in StartInstruction /\ Faithful(heard.said)
        BY <4>1, OpFacts DEF Hearings
      <4> QED
        BY <4>1, <4>2, ArmsKeep, OpFacts
    <3> QED
      BY <3>1, <3>2
  <2> QED
    BY <1>1, <1>3, <2>1, RecordMoves
    DEF Places, BeforeSend, BeforeAnnounce, BeforeAnswer, Delivering
<1> QED
  BY <1>2, <1>3 DEF CollectAcceptance, Hook, Granted, Refuses, Stops

LEMMA CollectAcknowledgementMoves ==
  ASSUME SessionIInv, CollectAcknowledgement PROVE RunMoves
<1> DEFINE known == op.startInstructionAcknowledgement # None
<1>1. run.at = "collectAcknowledgement"
  BY DEF CollectAcknowledgement, Hook
<1>2. CASE Refuses
  BY <1>1, <1>2, RefusesMoves
<1>3. CASE /\ known \/ CanAcknowledgeStart(op, heard.said)
           /\ op' = IF known THEN op ELSE AcknowledgeStart(op, heard.said)
           /\ Granted("check")
  <2>1. Kept(op, op') /\ Faithful(op'.startInstructionAcceptance)
    <3>1. CASE known
      BY <1>3, <3>1, UnchangedKept, OpFacts
    <3>2. CASE ~known
      <4>1. /\ op' = AcknowledgeStart(op, heard.said) /\ heard.said # None
        BY <1>3, <3>2 DEF CanAcknowledgeStart
      <4>2. heard.said \in StartInstruction
        BY <4>1, OpFacts DEF Hearings
      <4> QED
        BY <4>1, <4>2, ArmsKeep, OpFacts
    <3> QED
      BY <3>1, <3>2
  <2> QED
    BY <1>1, <1>3, <2>1, RecordMoves
    DEF Places, BeforeSend, BeforeAnnounce, BeforeAnswer, Delivering
<1> QED
  BY <1>2, <1>3 DEF CollectAcknowledgement, Hook, Granted, Refuses, Stops

LEMMA CheckCancellationMoves ==
  ASSUME SessionIInv, CheckCancellation PROVE RunMoves
<1>1. run.at = "check"
  BY DEF CheckCancellation
<1>2. Kept(op, op) /\ Faithful(op.startInstructionAcceptance)
  BY UnchangedKept, OpFacts
<1>3. CASE op' = op /\ Granted("work")
  BY <1>1, <1>2, <1>3, RecordMoves
  DEF Places, BeforeSend, BeforeAnnounce, BeforeAnswer, Delivering
<1>4. CASE op' = op /\ Granted("enter")
  BY <1>1, <1>2, <1>4, RecordMoves
  DEF Places, BeforeSend, BeforeAnnounce, BeforeAnswer, Delivering
<1>5. CASE Refuses
  BY <1>1, <1>5, RefusesMoves
<1> QED
  BY <1>3, <1>4, <1>5 DEF CheckCancellation, Granted, Refuses, Stops

LEMMA StartDeliveryEnteredMoves ==
  ASSUME SessionIInv, StartDeliveryEntered PROVE RunMoves
<1>1. run.at = "enter"
  BY DEF StartDeliveryEntered, Hook
<1>2. CASE Refuses
  BY <1>1, <1>2, RefusesMoves
<1>3. CASE op' = EnterDelivery(op, run.instruction) /\ Granted("send")
  <2>1. Kept(op, op') /\ Faithful(op'.startInstructionAcceptance)
    BY <1>1, <1>3, ArmsKeep, OpFacts, InstructionThere
  <2> QED
    BY <1>1, <1>3, <2>1, RecordMoves
    DEF Places, BeforeSend, BeforeAnnounce, BeforeAnswer, Delivering
<1> QED
  BY <1>2, <1>3 DEF StartDeliveryEntered, Hook, Granted, Refuses, Stops

LEMMA StartInstructionDispatchedMoves ==
  ASSUME SessionIInv, StartInstructionDispatched PROVE RunMoves
<1>1. run.at = "dispatch"
  BY DEF StartInstructionDispatched, Hook
<1>2. CASE Refuses
  BY <1>1, <1>2, RefusesMoves
<1>3. CASE op' = DispatchStart(op, run.instruction) /\ Granted("awaitAcceptance")
  <2>1. Kept(op, op') /\ Faithful(op'.startInstructionAcceptance)
    BY <1>1, <1>3, ArmsKeep, OpFacts, InstructionThere
  <2> QED
    BY <1>1, <1>3, <2>1, RecordMoves
    DEF Places, BeforeSend, BeforeAnnounce, BeforeAnswer, Delivering
<1> QED
  BY <1>2, <1>3 DEF StartInstructionDispatched, Hook, Granted, Refuses, Stops

\* The host records the acceptance of its instruction when the worker has sent it.
LEMMA StartInstructionAcceptedMoves ==
  ASSUME SessionIInv, StartInstructionAccepted PROVE RunMoves
<1>1. run.at = "accepted"
  BY DEF StartInstructionAccepted, Hook
<1>2. CASE Refuses
  BY <1>1, <1>2, RefusesMoves
<1>3. CASE op' = AcceptStart(op, run.instruction) /\ Granted("observe")
  <2>1. Faithful(run.instruction)
    BY <1>1 DEF SessionIInv, HostFaithful
  <2>2. Kept(op, op') /\ Faithful(op'.startInstructionAcceptance)
    BY <1>1, <1>3, <2>1, ArmsKeep, OpFacts, InstructionThere
  <2> QED
    BY <1>1, <1>3, <2>2, RecordMoves
    DEF Places, BeforeSend, BeforeAnnounce, BeforeAnswer, Delivering
<1> QED
  BY <1>2, <1>3 DEF StartInstructionAccepted, Hook, Granted, Refuses, Stops

LEMMA StartInstructionAcknowledgedMoves ==
  ASSUME SessionIInv, StartInstructionAcknowledged PROVE RunMoves
<1>1. run.at = "acknowledged"
  BY DEF StartInstructionAcknowledged, Hook
<1>2. CASE Refuses
  BY <1>1, <1>2, RefusesMoves
<1>3. CASE op' = AcknowledgeStart(op, run.instruction) /\ Granted("work")
  <2>1. Kept(op, op') /\ Faithful(op'.startInstructionAcceptance)
    BY <1>1, <1>3, ArmsKeep, OpFacts, InstructionThere
  <2> QED
    BY <1>1, <1>3, <2>1, RecordMoves
    DEF Places, BeforeSend, BeforeAnnounce, BeforeAnswer, Delivering
<1> QED
  BY <1>2, <1>3 DEF StartInstructionAcknowledged, Hook, Granted, Refuses, Stops

LEMMA AwaitsMove ==
  ASSUME SessionIInv, AwaitAcceptance \/ AwaitAcknowledgement \/ AwaitReception
  PROVE  RunMoves
<1>1. Kept(op, op) /\ Faithful(op.startInstructionAcceptance)
  BY UnchangedKept, OpFacts
<1>2. CASE AwaitAcceptance
  <2>1. run.at = "awaitAcceptance"
    BY <1>2 DEF AwaitAcceptance, Await
  <2>2. CASE Refuses
    BY <2>1, <2>2, RefusesMoves
  <2>3. CASE op' = op /\ Granted("accepted") /\ heard.acceptance = "accepted"
    BY <1>1, <2>1, <2>3, RecordMoves
    DEF Places, BeforeSend, BeforeAnnounce, BeforeAnswer, Delivering
  <2> QED
    BY <1>2, <2>2, <2>3 DEF AwaitAcceptance, Await, Granted, Refuses, Stops
<1>3. CASE AwaitAcknowledgement
  <2>1. run.at = "awaitAcknowledgement"
    BY <1>3 DEF AwaitAcknowledgement, Await
  <2>2. CASE Refuses
    BY <2>1, <2>2, RefusesMoves
  <2>3. CASE op' = op /\ Granted("acknowledged")
    BY <1>1, <2>1, <2>3, RecordMoves
    DEF Places, BeforeSend, BeforeAnnounce, BeforeAnswer, Delivering
  <2> QED
    BY <1>3, <2>2, <2>3 DEF AwaitAcknowledgement, Await, Granted, Refuses, Stops
<1>4. CASE AwaitReception
  <2>1. run.at = "work"
    BY <1>4 DEF AwaitReception
  <2>2. CASE Refuses
    BY <2>1, <2>2, RefusesMoves
  <2>3. CASE op' = op /\ Granted("offer")
    BY <1>1, <2>1, <2>3, RecordMoves
    DEF Places, BeforeSend, BeforeAnnounce, BeforeAnswer, Delivering
  <2>4. CASE heard.reception = "result"
    BY <1>4, <2>3, <2>4 DEF AwaitReception, Granted
  <2>5. CASE heard.reception = "rejected"
    BY <1>4, <2>2, <2>5 DEF AwaitReception, Refuses, Stops
  <2>6. CASE heard.reception \notin {"result", "rejected"}
    BY <1>4, <2>2, <2>6 DEF AwaitReception, Refuses, Stops
  <2> QED
    BY <2>4, <2>5, <2>6
<1> QED
  BY <1>2, <1>3, <1>4

LEMMA OfferResultMoves ==
  ASSUME SessionIInv, OfferResult PROVE RunMoves
<1>1. run.at = "offer"
  BY DEF OfferResult
<1>2. CASE Refuses
  BY <1>1, <1>2, RefusesMoves
<1>3. CASE /\ op' = IF op.result # None THEN op ELSE AcceptResult(op, TheResult)
           /\ Granted("acknowledge")
  <2>1. Kept(op, op') /\ Faithful(op'.startInstructionAcceptance) /\ op'.result # None
    <3>1. CASE op.result # None
      BY <1>3, <3>1, UnchangedKept, OpFacts
    <3>2. CASE op.result = None
      <4>1. op' = AcceptResult(op, TheResult)
        BY <1>3, <3>2
      <4> QED
        BY <4>1, ArmsKeep, OpFacts, Chosen
    <3> QED
      BY <3>1, <3>2
  <2> QED
    BY <1>1, <1>3, <2>1, RecordMoves
    DEF Places, BeforeSend, BeforeAnnounce, BeforeAnswer, Delivering
<1> QED
  BY <1>2, <1>3 DEF OfferResult, Granted, Refuses, Stops

LEMMA ConfirmSuccessfulExitMoves ==
  ASSUME SessionIInv, ConfirmSuccessfulExit PROVE RunMoves
<1>1. run.at = "exit" /\ Stops /\ UNCHANGED <<op, host>>
  BY DEF ConfirmSuccessfulExit, Stops
<1>2. WorkerWaits
  BY Waits DEF ConfirmSuccessfulExit, NoFault
<1> QED
  BY <1>1, <1>2, StopMoves

-----------------------------------------------------------------------------
(* The steps of the run that write a frame, or end it from outside.        *)

LEMMA FrameTyped ==
  ASSUME SessionIInv
  PROVE  /\ \A i \in StartInstruction :
              /\ Frame(host, About("begin", i)) \in ToWorker
              /\ Frame(host, About("begin_acceptance_observed", i)) \in ToWorker
         /\ \A g \in Nat \ {0}, d \in Dispatcher :
              Frame(host, [type |-> "delivery_generation_update", generation |-> g,
                           dispatcher |-> d]) \in ToWorker
         /\ \A p \in Result : Frame(host, [type |-> "ack", proof |-> p]) \in ToWorker
         /\ Frame(host, CancelEvent(host)) \in ToWorker
<1>1. host.seq \in Nat /\ host.dispatcher \in Dispatcher \cup {None} /\ host.confirmed \in Nat
  BY OpFacts DEF HostProtocolPeers
<1>2. ASSUME NEW i \in StartInstruction
      PROVE  /\ Frame(host, About("begin", i)) \in ToWorker
             /\ Frame(host, About("begin_acceptance_observed", i)) \in ToWorker
  BY <1>1 DEF Frame, About, ToWorker
<1>3. ASSUME NEW g \in Nat \ {0}, NEW d \in Dispatcher
      PROVE  Frame(host, [type |-> "delivery_generation_update", generation |-> g,
                          dispatcher |-> d]) \in ToWorker
  BY <1>1 DEF Frame, ToWorker
<1>4. ASSUME NEW p \in Result
      PROVE  Frame(host, [type |-> "ack", proof |-> p]) \in ToWorker
  BY <1>1 DEF Frame, ToWorker
<1>5. Frame(host, CancelEvent(host)) \in ToWorker
  <2> DEFINE d == host.dispatcher
             g == IF host.dispatcher = None THEN 0 ELSE host.confirmed
  <2>1. d \in Dispatcher \cup {None} /\ g \in Nat
    BY <1>1
  <2>2. CancelEvent(host) = [type |-> "cancel", dispatcher |-> d, generation |-> g]
    BY DEF CancelEvent
  <2> HIDE DEF d, g
  <2> QED
    BY <1>1, <2>1, <2>2 DEF Frame, ToWorker
<1> QED
  BY <1>2, <1>3, <1>4, <1>5

LEMMA RequestDeliveryGenerationUpdateMoves ==
  ASSUME SessionIInv, RequestDeliveryGenerationUpdate PROVE RunMoves
<1> DEFINE i == run.instruction
           e == [type |-> "delivery_generation_update",
                 generation |-> i.deliveryGeneration, dispatcher |-> i.dispatcherId]
           f == Frame(host, e)
<1>1. run.at = "announce" /\ WorkerWaits
  BY Waits DEF RequestDeliveryGenerationUpdate, Writes, rest
<1>2. CASE Stops /\ UNCHANGED <<op, host>>
  BY <1>1, <1>2, StopMoves
<1>3. CASE /\ heard.open /\ socket.state = "up"
           /\ host' = UpdateGeneration(host, i.deliveryGeneration)
           /\ socket' = [socket EXCEPT !.toWorker = Append(@, f)]
           /\ Proceeds("awaitGeneration") /\ UNCHANGED <<op, heard>>
  <2>1. /\ run' \in Runs /\ run'.at = "awaitGeneration"
        /\ run'.recovering = run.recovering /\ run'.instruction = run.instruction
    BY <1>3, Proceeding DEF Places
  <2>2. /\ i \in StartInstruction /\ i # None
        /\ i.deliveryGeneration \in Nat \ {0} /\ i.dispatcherId \in Dispatcher
    BY <1>1, InstructionThere
  <2>3. f \in ToWorker /\ f.event.type = "delivery_generation_update"
    BY <2>2, FrameTyped DEF Frame
  <2>4. Sends(f)
    BY <1>3, <2>3 DEF Sends
  <2>5. /\ host' \in HostProtocolPeers /\ host'.accepted = host.accepted
        /\ host'.pending = i.deliveryGeneration
    BY <1>3, <2>2, OpFacts, HostCallsTyped
  <2>6. PlaceMoves
    BY <1>1, <2>1, <2>2, <2>5
    DEF PlaceMoves, BeforeSend, BeforeAnnounce, BeforeAnswer, Delivering, Identifying
  <2>7. OpMoves
    BY <1>1, <1>3, <2>1, OpStays DEF WorkerWaits
  <2>8. f.event.type # "begin" /\ f.event.type # "ack"
    BY <2>3
  <2> HIDE DEF f
  <2> QED
    BY <1>1, <2>4, <2>5, <2>6, <2>7, <2>8 DEF RunMoves
<1> QED
  BY <1>2, <1>3 DEF RequestDeliveryGenerationUpdate, Writes, Stops

LEMMA CompleteDispatcherHandoffMoves ==
  ASSUME SessionIInv, CompleteDispatcherHandoff PROVE RunMoves
<1> DEFINE i == run.instruction
<1>1. run.at = "awaitGeneration" /\ WorkerWaits
  BY Waits DEF CompleteDispatcherHandoff, rest
<1>2. CASE Stops /\ UNCHANGED <<op, host>>
  BY <1>1, <1>2, StopMoves
<1>3. CASE /\ heard.generation \in AcceptanceStates
           /\ host' = CompleteHandoff(host, i.dispatcherId)
           /\ Proceeds("confirm") /\ UNCHANGED <<op, heard, socket>>
  <2>1. /\ run' \in Runs /\ run'.at = "confirm"
        /\ run'.recovering = run.recovering /\ run'.instruction = run.instruction
    BY <1>3, Proceeding DEF Places
  <2>2. i # None /\ i.dispatcherId \in Dispatcher
    BY <1>1, InstructionThere
  <2>3. /\ host' \in HostProtocolPeers /\ host'.pending = host.pending
        /\ host'.accepted \in {host.accepted, None}
    BY <1>3, <2>2, OpFacts, HostCallsTyped
  <2>4. PlaceMoves
    BY <1>1, <1>3, <2>1, <2>2, <2>3
    DEF PlaceMoves, BeforeSend, BeforeAnnounce, BeforeAnswer, Delivering, Identifying
  <2>5. OpMoves
    BY <1>1, <1>3, <2>1, OpStays DEF WorkerWaits
  <2> QED
    BY <1>1, <1>3, <2>3, <2>4, <2>5 DEF RunMoves
<1> QED
  BY <1>2, <1>3 DEF CompleteDispatcherHandoff, Stops

LEMMA DispatchBeginMoves ==
  ASSUME SessionIInv, DispatchBegin PROVE RunMoves
<1> DEFINE i == run.instruction
           f == Frame(host, About("begin", i))
<1>1. run.at = "send" /\ WorkerWaits
  BY Waits DEF DispatchBegin, Writes, rest
<1>2. CASE Stops /\ UNCHANGED <<op, host>>
  BY <1>1, <1>2, StopMoves
<1>3. CASE /\ heard.open /\ socket.state = "up"
           /\ host' = Begin(host, i)
           /\ socket' = [socket EXCEPT !.toWorker = Append(@, f)]
           /\ Proceeds("dispatch") /\ UNCHANGED <<op, heard>>
  <2>1. /\ run' \in Runs /\ run'.at = "dispatch"
        /\ run'.recovering = run.recovering /\ run'.instruction = run.instruction
    BY <1>3, Proceeding DEF Places
  <2>2. i \in StartInstruction /\ i # None
    BY <1>1, InstructionThere
  <2>3. f \in ToWorker /\ f.event.type = "begin"
    BY <2>2, FrameTyped DEF Frame, About
  <2>4. Sends(f)
    BY <1>3, <2>3 DEF Sends
  <2>5. /\ host' \in HostProtocolPeers /\ host'.accepted = host.accepted
        /\ host'.instruction = i
    BY <1>3, <2>2, OpFacts, BeginHostTyped
  <2>6. PlaceMoves
    BY <1>1, <2>1, <2>2, <2>5
    DEF PlaceMoves, BeforeSend, BeforeAnnounce, BeforeAnswer, Delivering, Identifying
  <2>7. OpMoves
    BY <1>1, <1>3, <2>1, OpStays DEF WorkerWaits
  <2>8. f.event.type # "ack" /\ run'.at \notin BeforeSend
    BY <2>1, <2>3 DEF BeforeSend, BeforeAnnounce
  <2> HIDE DEF f
  <2> QED
    BY <1>1, <2>4, <2>5, <2>6, <2>7, <2>8 DEF RunMoves
<1> QED
  BY <1>2, <1>3 DEF DispatchBegin, Writes, Stops

LEMMA SendStartAcceptanceObservationMoves ==
  ASSUME SessionIInv, SendStartAcceptanceObservation PROVE RunMoves
<1> DEFINE i == run.instruction
           f == Frame(host, About("begin_acceptance_observed", i))
<1>1. run.at = "observe" /\ WorkerWaits
  BY Waits DEF SendStartAcceptanceObservation, Writes, rest
<1>2. CASE Stops /\ UNCHANGED <<op, host>>
  BY <1>1, <1>2, StopMoves
<1>3. CASE /\ CanObserveAcceptance(host, i) /\ heard.open /\ socket.state = "up"
           /\ host' = ObserveAcceptance(host)
           /\ socket' = [socket EXCEPT !.toWorker = Append(@, f)]
           /\ Proceeds("awaitAcknowledgement") /\ UNCHANGED <<op, heard>>
  <2>1. /\ run' \in Runs /\ run'.at = "awaitAcknowledgement"
        /\ run'.recovering = run.recovering /\ run'.instruction = run.instruction
    BY <1>3, Proceeding DEF Places
  <2>2. i \in StartInstruction /\ i # None
    BY <1>1, InstructionThere
  <2>3. f \in ToWorker /\ f.event.type = "begin_acceptance_observed"
    BY <2>2, FrameTyped DEF Frame, About
  <2>4. Sends(f)
    BY <1>3, <2>3 DEF Sends
  <2>5. host' \in HostProtocolPeers /\ host'.accepted = host.accepted
    BY <1>3, OpFacts, HostCallsTyped DEF CanObserveAcceptance
  <2>6. PlaceMoves
    BY <1>1, <2>1, <2>2
    DEF PlaceMoves, BeforeSend, BeforeAnnounce, BeforeAnswer, Delivering, Identifying
  <2>7. OpMoves
    BY <1>1, <1>3, <2>1, OpStays DEF WorkerWaits
  <2>8. f.event.type # "begin" /\ f.event.type # "ack"
    BY <2>3
  <2> HIDE DEF f
  <2> QED
    BY <1>1, <2>4, <2>5, <2>6, <2>7, <2>8 DEF RunMoves
<1> QED
  BY <1>2, <1>3 DEF SendStartAcceptanceObservation, Writes, Stops

LEMMA SendAcknowledgementMoves ==
  ASSUME SessionIInv, SendAcknowledgement PROVE RunMoves
<1> DEFINE f == Frame(host, [type |-> "ack", proof |-> TheResult])
<1>1. run.at = "acknowledge" /\ WorkerWaits
  BY Waits DEF SendAcknowledgement, rest
<1>2. CASE Stops /\ UNCHANGED <<op, host>>
  BY <1>1, <1>2, StopMoves
<1>3. CASE /\ heard.open /\ socket.state = "up"
           /\ host' = AcknowledgeResult(host, TheResult)
           /\ socket' = [socket EXCEPT !.toWorker = Append(@, f)]
           /\ Proceeds("exit") /\ UNCHANGED <<op, heard>>
  <2>1. /\ run' \in Runs /\ run'.at = "exit"
        /\ run'.recovering = run.recovering /\ run'.instruction = run.instruction
    BY <1>3, Proceeding DEF Places
  <2>2. run.instruction # None
    BY <1>1, InstructionThere
  <2>3. f \in ToWorker /\ f.event.type = "ack"
    BY FrameTyped, Chosen DEF Frame
  <2>4. Sends(f)
    BY <1>3, <2>3 DEF Sends
  <2>5. host' \in HostProtocolPeers /\ host'.accepted = host.accepted
    BY <1>3, OpFacts, HostCallsTyped, Chosen
  <2>6. PlaceMoves
    BY <1>1, <2>1, <2>2
    DEF PlaceMoves, BeforeSend, BeforeAnnounce, BeforeAnswer, Delivering, Identifying
  <2>7. OpMoves
    BY <1>1, <1>3, <2>1, OpStays DEF WorkerWaits
  <2>8. f.event.type # "begin" /\ op.result # None
    BY <1>1, <2>3 DEF SessionIInv, AcknowledgesRecorded
  <2> HIDE DEF f
  <2> QED
    BY <1>1, <2>4, <2>5, <2>6, <2>7, <2>8 DEF RunMoves
<1> QED
  BY <1>2, <1>3 DEF SendAcknowledgement, Stops

\* The run stays where it is.
LEMMA StaysMove ==
  ASSUME SessionIInv, run' \in Runs, run'.at = run.at,
         run'.recovering = run.recovering, run'.instruction = run.instruction,
         run.at # "down", host'.pending = host.pending,
         host'.instruction = host.instruction
  PROVE  PlaceMoves
<1>1. run.at = "accepted" => heard.acceptance = "accepted"
  BY DEF SessionIInv, HostFaithful
<1>2. run.at = "confirm" => heard.generation \in AcceptanceStates
  BY DEF SessionIInv, AnswerIsTrue
<1> QED
  BY <1>1, <1>2 DEF PlaceMoves, BeforeAnswer

LEMMA RequestCancellationOfWorkerMoves ==
  ASSUME SessionIInv, RequestCancellationOfWorker PROVE RunMoves
<1> DEFINE f == Frame(host, CancelEvent(host))
<1>1. WorkerWaits
  BY Waits DEF RequestCancellationOfWorker, rest
<1>2. run.at # "down"
  BY DEF RequestCancellationOfWorker, SessionIInv, ConnectionIsOpen
<1>3. /\ run' \in Runs /\ run'.at = run.at
      /\ run'.recovering = run.recovering /\ run'.instruction = run.instruction
  BY OpFacts DEF RequestCancellationOfWorker, Runs
<1>4. OpMoves
  <2>1. run'.at = "acknowledge" => op.result # None
    BY <1>3 DEF SessionIInv, AcknowledgesRecorded
  <2> QED
    BY <1>1, <2>1, OpStays DEF RequestCancellationOfWorker, WorkerWaits
<1>5. CASE UNCHANGED <<host, heard, socket>>
  <2>1. PlaceMoves
    BY <1>2, <1>3, <1>5, StaysMove
  <2> QED
    BY <1>1, <1>4, <1>5, <2>1, OpFacts DEF RunMoves
<1>6. CASE /\ heard.open /\ socket.state = "up"
           /\ host' = RequestCancel(host)
           /\ socket' = [socket EXCEPT !.toWorker = Append(@, f)]
           /\ UNCHANGED heard
  <2>1. /\ host' \in HostProtocolPeers /\ host'.accepted = host.accepted
        /\ host'.pending = host.pending /\ host'.instruction = host.instruction
    BY <1>6, OpFacts, HostCallsTyped
  <2>2. f \in ToWorker /\ f.event.type = "cancel"
    BY FrameTyped DEF Frame, CancelEvent
  <2>3. Sends(f)
    BY <1>6, <2>2 DEF Sends
  <2>4. PlaceMoves
    BY <1>2, <1>3, <2>1, StaysMove
  <2>5. f.event.type # "begin" /\ f.event.type # "ack"
    BY <2>2
  <2> HIDE DEF f
  <2> QED
    BY <1>1, <1>4, <2>1, <2>3, <2>4, <2>5 DEF RunMoves
<1> QED
  BY <1>5, <1>6 DEF RequestCancellationOfWorker

LEMMA StopProcessMoves ==
  ASSUME SessionIInv, StopProcess PROVE RunMoves
<1>1. WorkerWaits
  BY Waits DEF StopProcess
<1>2. run.at # "down"
  BY DEF StopProcess, SessionIInv, ConnectionIsOpen
<1>3. /\ run' \in Runs /\ run'.at = "ended"
      /\ run'.recovering = run.recovering /\ run'.instruction = run.instruction
  BY OpFacts DEF StopProcess, Runs, Places
<1>4. OpMoves
  BY <1>1, <1>3, OpStays DEF StopProcess, WorkerWaits
<1>5. PlaceMoves
  BY <1>2, <1>3
  DEF PlaceMoves, BeforeSend, BeforeAnnounce, BeforeAnswer, Delivering, Identifying
<1>6. Leaves
  BY DEF StopProcess, Leaves
<1>7. host' = host
  BY DEF StopProcess
<1> QED
  BY <1>1, <1>4, <1>5, <1>6, <1>7, OpFacts DEF RunMoves

LEMMA CancelledMoves ==
  ASSUME SessionIInv, Cancelled PROVE RunMoves
<1>1. WorkerWaits
  <2> DEFINE m == budget.cancels - 1
  <2>1. /\ process \in {"running", "exited", "stopped"} /\ budget \in Budgets
    BY DEF SessionIInv, SessionTypeOK, Budgets
  <2>2. m \in Nat
    BY <2>1 DEF Cancelled, Budgets
  <2>3. /\ budget' = [budget EXCEPT !.cancels = m] /\ mishap' = TRUE
        /\ UNCHANGED <<workerSide, process>>
    BY DEF Cancelled
  <2> HIDE DEF m
  <2> QED
    BY <2>1, <2>2, <2>3 DEF WorkerWaits, Budgets
<1>2. run.at # "down" /\ UNCHANGED <<host, heard, socket>>
  BY DEF Cancelled
<1>3. /\ run' \in Runs /\ run'.at = run.at
      /\ run'.recovering = run.recovering /\ run'.instruction = run.instruction
  BY OpFacts DEF Cancelled, Runs
<1>4. OpMoves
  <2>1. Kept(op, op') /\ Faithful(op'.startInstructionAcceptance)
    BY ArmsKeep, OpFacts DEF Cancelled
  <2>2. run'.at = "acknowledge" => op'.result # None
    BY <1>3, <2>1 DEF SessionIInv, AcknowledgesRecorded, Kept
  <2> QED
    BY <2>1, <2>2, KeptMoves
<1>5. PlaceMoves
  BY <1>2, <1>3, StaysMove
<1> QED
  BY <1>1, <1>2, <1>4, <1>5, OpFacts DEF RunMoves

-----------------------------------------------------------------------------
(* A Runtime dies and another one recovers the worker.                     *)

LEMMA SuccessorTyped ==
  ASSUME NEW o \in Operation, o.startDeliveryAuthority # None,
         o.startDeliveryAuthority.deliveryGeneration <= MaxCrashes
  PROVE  /\ SuccessorOf(o) \in StartInstruction
         /\ SuccessorOf(o).deliveryGeneration = o.startDeliveryAuthority.deliveryGeneration + 1
<1> DEFINE g == o.startDeliveryAuthority.deliveryGeneration
           next == g + 1
           resumes == HandoffPending(o) /\ LastHandoff(o).deliveryGeneration = next
           i == InstructionOf(next)
           d == IF resumes THEN LastHandoff(o).successorDispatcherId ELSE i.dispatcherId
<1>1. g \in Nat \ {0}
  BY DEF Operation, StartInstruction
<1>2. next \in Nat \ {0} /\ next <= MaxCrashes + 1
  BY <1>1, SessionBoundsAreNatural
<1>3. SuccessorOf(o) = [i EXCEPT !.dispatcherId = d]
  BY Zenon DEF SuccessorOf
<1> HIDE DEF next
<1>4. i \in StartInstruction /\ i.deliveryGeneration = next
  BY <1>2, InstructionTyped
<1> HIDE DEF i
<1>5. d \in Dispatcher
  <2>1. CASE resumes
    <3>1. o.startDeliveryHandoffs \in Seq(Handoff) /\ o.startDeliveryHandoffs # <<>>
      BY <2>1 DEF HandoffPending, HasHandoff, Operation
    <3>2. LastHandoff(o) \in Handoff
      BY <3>1 DEF LastHandoff
    <3> QED
      BY <2>1, <3>2 DEF Handoff
  <2>2. CASE ~resumes
    BY <1>4, <2>2 DEF StartInstruction
  <2> QED
    BY <2>1, <2>2
<1> HIDE DEF d
<1> QED
  BY <1>3, <1>4, <1>5 DEF StartInstruction, next

\* A step that leaves the worker's side and the record alone.
LEMMA WorkerSideKeeps ==
  ASSUME SessionIInv, UNCHANGED <<workerSide, op>>
  PROVE  /\ WorkerFaithful' /\ UpdateIsTrue' /\ BegunOnce(bridge)' /\ HandoffsTrue(op)'
         /\ \A e : Truthful(e) => Truthful(e)'
         /\ \A i : Faithful(i) <=> Faithful(i)'
         /\ worker' \in WorkerProtocolPeers /\ bridge' \in Bridges
         /\ reception' \in Receptions /\ stored' \in Stores /\ op' \in Operation
<1>1. UNCHANGED <<worker, bridge, reception, stored, op>>
  BY DEF workerSide
<1> QED
  BY <1>1
  DEF SessionIInv, SessionTypeOK, WorkerFaithful, UpdateIsTrue, BegunOnce, HandoffsTrue,
      Truthful, Faithful, Refused

LEMMA RecoveringWorkerIdentifiedKeeps ==
  ASSUME SessionIInv, WorkerIdentified, run.recovering PROVE SessionIInv'
<1> USE DEF SessionIInv
<1> DEFINE i == SuccessorOf(op)
<1>1. /\ run.at = "identified" /\ run' = [run EXCEPT !.at = "revoke", !.instruction = i]
      /\ UNCHANGED <<op, host, heard, socket, rest>>
  BY DEF WorkerIdentified
<1>2. UNCHANGED <<op, host, heard, socket, workerSide, process, budget, mishap>>
  BY <1>1 DEF rest
<1>3. UNCHANGED <<worker, bridge, reception, stored>>
  BY <1>2 DEF workerSide
<1>4. /\ op.startDeliveryAuthority # None /\ budget.crashes \in Nat
      /\ op.startDeliveryAuthority.deliveryGeneration <= MaxCrashes - budget.crashes
      /\ op.startDeliveryAuthority.deliveryGeneration \in Nat
      /\ MaxCrashes \in Nat
  BY <1>1, SessionBoundsAreNatural, OpFacts
  DEF GenerationsBounded, SessionTypeOK, Operation, StartInstruction
<1>5. /\ i \in StartInstruction /\ i # None
      /\ i.deliveryGeneration <= MaxCrashes - budget.crashes + 1
  <2>1. op.startDeliveryAuthority.deliveryGeneration <= MaxCrashes
    BY <1>4
  <2> QED
    BY <1>4, <2>1, SuccessorTyped, OpFacts, InstructionIsSome
<1> HIDE DEF i
<1>6. /\ run' \in Runs /\ run'.at = "revoke" /\ run'.recovering = run.recovering
      /\ run'.instruction = i /\ run'.cancel = run.cancel
  BY <1>1, <1>5, OpFacts DEF Runs, Places
<1>7. SessionTypeOK'
  BY <1>2, <1>3, <1>6 DEF SessionTypeOK
<1>8. ConnectionIsOpen'
  BY <1>2, <1>6 DEF ConnectionIsOpen
<1>9. GenerationsBounded'
  BY <1>2, <1>4, <1>5, <1>6 DEF GenerationsBounded
<1>10. WorkerFaithful' /\ UpdateIsTrue' /\ BegunOnce(bridge)' /\ HandoffsTrue(op)'
  BY <1>2, WorkerSideKeeps
<1>11. FramesTrue' /\ AcknowledgesRecorded'
  BY <1>2, <1>3, <1>6 DEF FramesTrue, AcknowledgesRecorded, Truthful, Faithful, Refused
<1>12. BeginsAreSent' /\ AnswerIsTrue'
  BY <1>1, <1>2, <1>3, <1>6
  DEF BeginsAreSent, AnswerIsTrue, BeforeSend, BeforeAnnounce
<1>13. HostFaithful'
  BY <1>2, <1>3, <1>6 DEF HostFaithful, Faithful
<1> QED
  BY <1>7, <1>8, <1>9, <1>10, <1>11, <1>12, <1>13

LEMMA NoSessionFields ==
  /\ NoSession.open = FALSE /\ NoSession.said = None
  /\ NoSession.generation = "pending" /\ NoSession.acceptance = "pending"
  /\ FreshHeard.open = TRUE /\ FreshHeard.said = None /\ FreshHeard.connected = FALSE
  /\ FreshHeard.generation = "pending" /\ FreshHeard.acceptance = "pending"
  /\ FreshHost.accepted = None /\ FreshHost.pending = 0
  /\ \A i : RestoredHost(i).accepted = None /\ RestoredHost(i).pending = 0
  BY DEF NoSession, FreshHeard, FreshHost, RestoredHost

LEMMA RuntimeDiesKeeps ==
  ASSUME SessionIInv, RuntimeDies PROVE SessionIInv'
<1> USE DEF SessionIInv
<1>1. UNCHANGED <<op, workerSide, process, mishap>>
  BY DEF RuntimeDies
<1>2. UNCHANGED <<worker, bridge, reception, stored>>
  BY <1>1 DEF workerSide
<1>3. /\ run' = [at |-> "down", recovering |-> FALSE, instruction |-> None, cancel |-> "no"]
      /\ host' = FreshHost /\ heard' = NoSession /\ socket' = HostCloses
  BY DEF RuntimeDies
<1>4. Continues(socket, socket', {}, {}) /\ socket'.state \notin {"up", "worker"}
  BY <1>3, InvSocket, HostClosesContinues
<1>5. /\ budget' \in Budgets /\ budget'.crashes = budget.crashes - 1
      /\ budget.crashes \in Nat /\ MaxCrashes \in Nat
  <2> DEFINE m == budget.crashes - 1
  <2>1. budget \in Budgets /\ budget.crashes > 0
    BY DEF SessionTypeOK, Budgets, RuntimeDies
  <2>2. m \in 0 .. MaxCrashes /\ budget.crashes \in Nat
    BY <2>1, SessionBoundsAreNatural DEF Budgets
  <2>3. budget' = [budget EXCEPT !.crashes = m]
    BY DEF RuntimeDies
  <2> HIDE DEF m
  <2>4. budget' \in Budgets /\ budget'.crashes = m
    BY <2>1, <2>2, <2>3 DEF Budgets
  <2> QED
    BY <2>2, <2>4, SessionBoundsAreNatural DEF m
<1>6. /\ WorkerFaithful' /\ UpdateIsTrue' /\ BegunOnce(bridge)' /\ HandoffsTrue(op)'
      /\ \A e : Truthful(e) => Truthful(e)'
  BY <1>1, WorkerSideKeeps
<1>7. SessionTypeOK'
  <2>1. run' \in Runs
    BY <1>3 DEF Runs, Places
  <2>2. socket' \in Sockets
    BY <1>4 DEF Continues
  <2> QED
    BY <1>1, <1>2, <1>3, <1>5, <2>1, <2>2, FreshTyped DEF SessionTypeOK, Budgets
<1>8. ConnectionIsOpen'
  BY <1>3, <1>4, NoSessionFields DEF ConnectionIsOpen, Continues
<1>9. GenerationsBounded'
  <2>1. ~run'.recovering /\ run'.instruction = None /\ run'.at = "down"
    BY <1>3
  <2>2. op' = op
    BY <1>1
  <2>3. op.startDeliveryAuthority # None =>
          op.startDeliveryAuthority.deliveryGeneration \in Nat
    BY OpFacts DEF Operation, StartInstruction
  <2>4. op.startDeliveryAuthority # None =>
          op.startDeliveryAuthority.deliveryGeneration <= MaxCrashes - budget.crashes + 1
    BY DEF GenerationsBounded
  <2> QED
    BY <1>5, <2>1, <2>2, <2>3, <2>4 DEF GenerationsBounded
<1>10. FramesTrue'
  BY <1>4, <1>6 DEF FramesTrue, Continues
<1>11. AcknowledgesRecorded'
  BY <1>1, <1>2, <1>3, <1>4 DEF AcknowledgesRecorded, Continues
<1>12. BeginsAreSent'
  BY <1>3 DEF BeginsAreSent, BeforeSend, BeforeAnnounce
<1>13. HostFaithful'
  BY <1>1, <1>2, <1>3, NoSessionFields DEF HostFaithful, Faithful
<1>14. AnswerIsTrue'
  BY <1>3 DEF AnswerIsTrue, BeforeAnnounce
<1> QED
  BY <1>6, <1>7, <1>8, <1>9, <1>10, <1>11, <1>12, <1>13, <1>14

LEMMA RuntimeRecoversKeeps ==
  ASSUME SessionIInv, RuntimeRecovers PROVE SessionIInv'
<1> USE DEF SessionIInv
<1>1. UNCHANGED <<op, workerSide, socket, budget, mishap>> /\ run.at = "down"
  BY DEF RuntimeRecovers
<1>2. UNCHANGED <<worker, bridge, reception, stored>>
  BY <1>1 DEF workerSide
<1>3. /\ WorkerFaithful' /\ UpdateIsTrue' /\ BegunOnce(bridge)' /\ HandoffsTrue(op)'
      /\ \A e : Truthful(e) => Truthful(e)'
  BY <1>1, WorkerSideKeeps
<1>4. /\ ~heard.open /\ run.cancel = "no"
      /\ socket.state \notin {"up", "worker"} /\ socket.toHost = <<>>
      /\ Carried(socket.toHost) = {}
  <2>1. /\ ~heard.open /\ run.cancel = "no"
        /\ socket.state \notin {"up", "worker"} /\ socket.toHost = <<>>
    BY <1>1 DEF ConnectionIsOpen
  <2> QED
    BY <2>1 DEF Carried
<1>5. FramesTrue'
  BY <1>1, <1>3 DEF FramesTrue
<1>6. CASE /\ op.startDeliveryAuthority # None
           /\ run' = [run EXCEPT !.at = "identify", !.recovering = TRUE]
           /\ host' = RestoredHost(Previous(op))
           /\ heard' = FreshHeard /\ process' = process
  <2>1. /\ run' \in Runs /\ run'.at = "identify" /\ run'.recovering
        /\ run'.instruction = run.instruction
    BY <1>6, OpFacts DEF Runs, Places
  <2>2. Previous(op) \in StartInstruction
    BY <1>6, OpFacts DEF Previous, Operation
  <2>3. host' \in HostProtocolPeers /\ host'.accepted = None /\ host'.pending = 0
    BY <1>6, <2>2, FreshTyped, NoSessionFields
  <2>4. SessionTypeOK'
    BY <1>1, <1>2, <1>6, <2>1, <2>3, FreshTyped DEF SessionTypeOK
  <2>5. ConnectionIsOpen'
    BY <1>1, <1>4, <2>1 DEF ConnectionIsOpen
  <2>6. GenerationsBounded'
    BY <1>1, <1>6, <2>1 DEF GenerationsBounded
  <2>7. AcknowledgesRecorded'
    BY <1>1, <1>2, <2>1 DEF AcknowledgesRecorded
  <2>8. BeginsAreSent'
    BY <1>1, <1>4, <1>6, NoSessionFields DEF BeginsAreSent
  <2>9. HostFaithful'
    BY <1>1, <1>2, <1>6, <2>1, <2>3, NoSessionFields DEF HostFaithful, Faithful
  <2>10. AnswerIsTrue'
    BY <1>6, <2>1, <2>3, NoSessionFields DEF AnswerIsTrue, AcceptanceStates
  <2> QED
    BY <1>3, <1>5, <2>4, <2>5, <2>6, <2>7, <2>8, <2>9, <2>10
<1>7. CASE /\ run' = [run EXCEPT !.at = "ended"]
           /\ process' \in {process, "stopped"}
           /\ UNCHANGED <<host, heard>>
  <2>1. /\ run' \in Runs /\ run'.at = "ended" /\ run'.recovering = run.recovering
        /\ run'.instruction = run.instruction
    BY <1>7, OpFacts DEF Runs, Places
  <2>2. SessionTypeOK'
    BY <1>1, <1>2, <1>7, <2>1 DEF SessionTypeOK
  <2>3. ConnectionIsOpen'
    BY <1>1, <1>4, <2>1 DEF ConnectionIsOpen
  <2>4. GenerationsBounded'
    BY <1>1, <2>1 DEF GenerationsBounded
  <2>5. AcknowledgesRecorded'
    BY <1>1, <1>2, <2>1 DEF AcknowledgesRecorded
  <2>6. BeginsAreSent'
    BY <2>1 DEF BeginsAreSent, BeforeSend, BeforeAnnounce
  <2>7. HostFaithful'
    BY <1>1, <1>2, <1>7, <2>1 DEF HostFaithful, Faithful
  <2>8. AnswerIsTrue'
    BY <2>1 DEF AnswerIsTrue, BeforeAnnounce
  <2> QED
    BY <1>3, <1>5, <2>2, <2>3, <2>4, <2>5, <2>6, <2>7, <2>8
<1> QED
  BY <1>6, <1>7 DEF RuntimeRecovers

-----------------------------------------------------------------------------
(* What the host hears.                                                    *)

\* The host's peer and what it has heard moved on; the run did not.
LEMMA HearingKeeps ==
  ASSUME SessionIInv, UNCHANGED <<op, run, workerSide, process, budget, mishap>>,
         host' \in HostProtocolPeers, heard' \in Hearings,
         Continues(socket, socket', {}, {}),
         heard'.open = heard.open \/ socket'.state \notin {"up", "worker"},
         heard'.open => heard.open,
         heard'.connected = heard.connected,
         host'.instruction = host.instruction,
         Faithful(host'.accepted), Faithful(heard'.said),
         host'.pending \in {0, host.pending},
         heard'.acceptance = "accepted" =>
           heard.acceptance = "accepted"
             \/ (run.at \notin BeforeSend /\ Faithful(host.instruction)),
         heard.acceptance = "accepted" => heard'.acceptance = "accepted",
         heard.generation # "pending" => heard'.generation = heard.generation,
         heard'.generation \in AcceptanceStates =>
           \/ heard'.generation = heard.generation
           \/ /\ host.pending # 0
              /\ heard'.generation = "not_accepted" => Refused(host.pending)
  PROVE  SessionIInv'
<1> USE DEF SessionIInv
<1>1. UNCHANGED <<worker, bridge, reception, stored>>
  BY DEF workerSide
<1>2. /\ WorkerFaithful' /\ UpdateIsTrue' /\ BegunOnce(bridge)' /\ HandoffsTrue(op)'
      /\ \A e : Truthful(e) => Truthful(e)'
  BY WorkerSideKeeps
<1>3. SessionTypeOK'
  BY <1>1 DEF SessionTypeOK, Continues
<1>4. ConnectionIsOpen'
  BY DEF ConnectionIsOpen, Continues
<1>5. GenerationsBounded'
  BY DEF GenerationsBounded
<1>6. FramesTrue'
  BY <1>2 DEF FramesTrue, Continues
<1>7. AcknowledgesRecorded'
  BY <1>1 DEF AcknowledgesRecorded, Continues
<1>8. BeginsAreSent'
  BY <1>1 DEF BeginsAreSent, Continues
<1>9. HostFaithful'
  BY <1>1 DEF HostFaithful, Faithful
<1>10. AnswerIsTrue'
  <2>1. UNCHANGED run /\ stored' = stored
    BY <1>1
  <2>2. ASSUME run.at \in BeforeAnnounce
        PROVE  host'.pending = 0 /\ heard'.generation \notin AcceptanceStates
    BY <2>2 DEF AnswerIsTrue
  <2>3. ASSUME run.at = "confirm"
        PROVE  heard'.generation \in AcceptanceStates
    BY <2>3 DEF AnswerIsTrue, AcceptanceStates
  <2>4. ASSUME run.at \in {"awaitGeneration", "confirm"}
        PROVE  /\ host'.pending \in {0, run.instruction.deliveryGeneration}
               /\ heard'.generation = "not_accepted" =>
                    Refused(run.instruction.deliveryGeneration)
    BY <2>4 DEF AnswerIsTrue, AcceptanceStates
  <2>5. \A g : Refused(g) => Refused(g)'
    BY <2>1 DEF Refused
  <2> QED
    BY <2>1, <2>2, <2>3, <2>4, <2>5 DEF AnswerIsTrue
<1> QED
  BY <1>2, <1>3, <1>4, <1>5, <1>6, <1>7, <1>8, <1>9, <1>10

LEMMA HostReceivesKeeps ==
  ASSUME SessionIInv, HostReceives PROVE SessionIInv'
<1> DEFINE f == Head(socket.toHost)
<1>1. /\ socket.toHost # <<>> /\ heard.open
      /\ UNCHANGED <<op, run, workerSide, process, budget, mishap>>
  BY DEF HostReceives
<1>2. /\ SocketOK(socket) /\ host \in HostProtocolPeers /\ heard \in Hearings
      /\ Faithful(host.accepted) /\ Faithful(heard.said)
  BY InvSocket DEF SessionIInv, SessionTypeOK, HostFaithful
<1>3. /\ f \in ToHost /\ f \in Carried(socket.toHost)
      /\ Continues(socket, [socket EXCEPT !.toHost = Tail(@)], {}, {})
      /\ [socket EXCEPT !.toHost = Tail(@)].state = socket.state
  BY <1>1, <1>2, HeardContinues
<1>4. Truthful(f.event)
  BY <1>3 DEF SessionIInv, FramesTrue
<1>5. CASE /\ HostAdmits(host, f) /\ host' = HostAfter(host, f)
           /\ heard' = HeardEvent(heard, f.event)
           /\ socket' = [socket EXCEPT !.toHost = Tail(@)]
  <2> DEFINE e == f.event
  <2>1. /\ host' \in HostProtocolPeers /\ host'.instruction = host.instruction
        /\ host'.pending \in {0, host.pending}
        /\ host'.accepted = host.accepted
             \/ (e.type = "begin_accepted" /\ host'.accepted = e.instruction)
    BY <1>2, <1>3, <1>5, HostAfterTyped
  <2>2. /\ heard' \in Hearings /\ heard'.open = heard.open
        /\ heard'.connected = heard.connected
        /\ heard'.acceptance = "accepted" =>
             heard.acceptance = "accepted" \/ e.type = "begin_accepted"
        /\ \/ /\ e.type = "generation_updated" /\ heard'.said = e.instruction
              /\ heard'.generation = First(heard.generation, e.acceptance)
           \/ heard'.said = heard.said /\ heard'.generation = heard.generation
    BY <1>2, <1>3, <1>5, HeardEventTyped
  <2>3. /\ e.type = "generation_updated" => e.generation = host.pending /\ host.pending # 0
        /\ e.type = "begin_accepted" => e.instruction = host.instruction
    BY <1>2, <1>3, <1>5, AdmittedFrame
  <2>4. Faithful(host'.accepted) /\ Faithful(heard'.said)
    BY <1>2, <1>4, <2>1, <2>2 DEF Truthful
  <2>5. heard'.acceptance = "accepted" =>
          heard.acceptance = "accepted"
            \/ (run.at \notin BeforeSend /\ Faithful(host.instruction))
    BY <1>3, <1>4, <2>2, <2>3 DEF SessionIInv, BeginsAreSent, Truthful
  <2>6. heard.acceptance = "accepted" => heard'.acceptance = "accepted"
    BY <1>2, <1>5 DEF HeardEvent, First, Hearings
  <2>7. heard.generation # "pending" => heard'.generation = heard.generation
    BY <2>2 DEF First
  <2>8. heard'.generation \in AcceptanceStates =>
          \/ heard'.generation = heard.generation
          \/ /\ host.pending # 0
             /\ heard'.generation = "not_accepted" => Refused(host.pending)
    BY <1>4, <2>2, <2>3 DEF First, Truthful
  <2>9. Continues(socket, socket', {}, {})
    BY <1>3, <1>5
  <2> HIDE DEF f
  <2> QED
    BY <1>1, <2>1, <2>2, <2>4, <2>5, <2>6, <2>7, <2>8, <2>9, HearingKeeps
<1>6. CASE /\ host' = [host EXCEPT !.state = "failed"]
           /\ heard' = HeardEnd(heard, "rejected") /\ socket' = HostCloses
  <2>1. /\ host' \in HostProtocolPeers /\ host'.instruction = host.instruction
        /\ host'.pending = host.pending /\ host'.accepted = host.accepted
    BY <1>2, <1>6, HostCallsTyped
  <2>2. /\ heard' \in Hearings /\ heard'.open = FALSE /\ heard'.connected = heard.connected
        /\ heard'.said = heard.said /\ heard'.generation \in {heard.generation, "rejected"}
        /\ heard'.acceptance = "accepted" => heard.acceptance = "accepted"
    BY <1>2, <1>6, HeardEndTyped
  <2>3. /\ heard.acceptance = "accepted" => heard'.acceptance = "accepted"
        /\ heard.generation # "pending" => heard'.generation = heard.generation
    BY <1>2, <1>6, HeardEndKeeps
  <2>4. Continues(socket, socket', {}, {}) /\ socket'.state \notin {"up", "worker"}
    BY <1>2, <1>6, HostClosesContinues
  <2>5. "rejected" \notin AcceptanceStates
    BY DEF AcceptanceStates
  <2> QED
    BY <1>1, <1>2, <2>1, <2>2, <2>3, <2>4, <2>5, HearingKeeps
<1> QED
  BY <1>5, <1>6 DEF HostReceives

LEMMA HostSeesEndKeeps ==
  ASSUME SessionIInv, HostSeesEnd PROVE SessionIInv'
<1>1. /\ heard' = HeardEnd(heard, "lost") /\ socket' = NoSocket
      /\ UNCHANGED <<op, run, host, workerSide, process, budget, mishap>>
  BY DEF HostSeesEnd
<1>2. /\ SocketOK(socket) /\ host \in HostProtocolPeers /\ heard \in Hearings
      /\ Faithful(host.accepted) /\ Faithful(heard.said)
  BY InvSocket DEF SessionIInv, SessionTypeOK, HostFaithful
<1>3. /\ heard' \in Hearings /\ heard'.open = FALSE /\ heard'.connected = heard.connected
      /\ heard'.said = heard.said /\ heard'.generation \in {heard.generation, "lost"}
      /\ heard'.acceptance = "accepted" => heard.acceptance = "accepted"
  BY <1>1, <1>2, HeardEndTyped
<1>4. /\ heard.acceptance = "accepted" => heard'.acceptance = "accepted"
      /\ heard.generation # "pending" => heard'.generation = heard.generation
  BY <1>1, <1>2, HeardEndKeeps
<1>5. Continues(socket, socket', {}, {}) /\ socket'.state \notin {"up", "worker"}
  BY <1>1, NoSocketContinues
<1>6. "lost" \notin AcceptanceStates
  BY DEF AcceptanceStates
<1> QED
  BY <1>1, <1>2, <1>3, <1>4, <1>5, <1>6, HearingKeeps

-----------------------------------------------------------------------------
(* A turn of the bridge.                                                   *)

Turns ==
  [peer : WorkerProtocolPeers, bridge : Bridges, frames : Seq(ToHost), thrown : BOOLEAN]

TurnOK(t) ==
  /\ t \in Turns
  /\ Faithful(t.peer.accepted) /\ t.peer.acknowledged = worker.acknowledged
  /\ BegunOnce(t.bridge)
  /\ \A f \in Carried(t.frames) :
       Truthful(f.event) /\ (f.event.type = "begin_accepted" => reception.start # None)

\* An event that the bridge may send.
Says(e) ==
  \/ e = [type |-> "result", result |-> TheResult]
  \/ /\ e.type # "result" /\ Truthful(e)
     /\ \E f \in ToHost : e = f.event
     /\ e.type = "begin_accepted" => reception.start # None

LEMMA FramesTyped ==
  ASSUME NEW w \in WorkerProtocolPeers, NEW e, Says(e)
  PROVE  /\ FramesOf(w, e) \in Seq(ToHost) /\ Len(FramesOf(w, e)) \in Nat
         /\ \A f \in Carried(FramesOf(w, e)) :
              Truthful(f.event) /\ (f.event.type = "begin_accepted" => reception.start # None)
<1>1. w.seq \in Nat
  BY DEF WorkerProtocolPeers
<1>2. CASE e = [type |-> "result", result |-> TheResult]
  <2> DEFINE e1 == [type |-> "result_begin", digest |-> TheResult]
             e2 == [type |-> "result_chunk", payload |-> TheResult]
             e3 == [type |-> "result_commit", digest |-> TheResult]
             f1 == Frame(w, e1)
             f2 == Frame(Numbered(w, 1), e2)
             f3 == Frame(Numbered(w, 2), e3)
  <2>1. e.type = "result" /\ e.result = TheResult
    BY <1>2
  <2>2. FramesOf(w, e) = <<f1, f2, f3>>
    BY <2>1 DEF FramesOf
  <2>3. Numbered(w, 1).seq \in Nat /\ Numbered(w, 2).seq \in Nat
    BY <1>1 DEF Numbered, WorkerProtocolPeers
  <2>4. f1 \in ToHost /\ f1.event.type = "result_begin"
    BY <1>1, Chosen DEF Frame, ToHost
  <2>5. f2 \in ToHost /\ f2.event.type = "result_chunk"
    BY <2>3, Chosen DEF Frame, ToHost
  <2>6. f3 \in ToHost /\ f3.event.type = "result_commit"
    BY <2>3, Chosen DEF Frame, ToHost
  <2> HIDE DEF f1, f2, f3
  <2>7. /\ <<f1, f2, f3>> \in Seq(ToHost) /\ Len(<<f1, f2, f3>>) = 3
        /\ Carried(<<f1, f2, f3>>) = {f1, f2, f3}
    <3>1. <<f1, f2, f3>> \in Seq(ToHost) /\ Len(<<f1, f2, f3>>) = 3
      BY <2>4, <2>5, <2>6
    <3>2. 1 .. 3 = {1, 2, 3}
      OBVIOUS
    <3> QED
      BY <3>1, <3>2 DEF Carried
  <2> QED
    BY <2>2, <2>4, <2>5, <2>6, <2>7 DEF Truthful
<1>3. CASE e # [type |-> "result", result |-> TheResult]
  <2> DEFINE f == Frame(w, e)
  <2>1. /\ e.type # "result" /\ Truthful(e)
        /\ \E g \in ToHost : e = g.event
        /\ e.type = "begin_accepted" => reception.start # None
    BY <1>3 DEF Says
  <2>2. f \in ToHost /\ f.event = e
    BY <1>1, <2>1 DEF Frame, ToHost
  <2>3. FramesOf(w, e) = <<f>>
    BY <2>1 DEF FramesOf
  <2> HIDE DEF f
  <2>4. <<f>> \in Seq(ToHost) /\ Len(<<f>>) = 1 /\ Carried(<<f>>) = {f}
    BY <2>2 DEF Carried
  <2> QED
    BY <2>1, <2>2, <2>3, <2>4
<1> QED
  BY <1>2, <1>3

LEMMA NumberedWorker ==
  ASSUME NEW w \in WorkerProtocolPeers, NEW n \in Nat
  PROVE  LET v == Numbered(w, n) IN
         /\ v \in WorkerProtocolPeers
         /\ v.accepted = w.accepted /\ v.acknowledged = w.acknowledged
<1> DEFINE m == w.seq + n
<1>1. m \in Nat
  BY DEF WorkerProtocolPeers
<1>2. Numbered(w, n) = [w EXCEPT !.seq = m]
  BY DEF Numbered
<1> HIDE DEF m
<1> QED
  BY <1>1, <1>2 DEF WorkerProtocolPeers

LEMMA AfterSendTyped ==
  ASSUME NEW w \in WorkerProtocolPeers, NEW e, Len(FramesOf(w, e)) \in Nat, CanSend(w, e)
  PROVE  LET v == AfterSend(w, e) IN
         /\ v \in WorkerProtocolPeers
         /\ v.accepted = w.accepted /\ v.acknowledged = w.acknowledged
<1> DEFINE v == Numbered(w, Len(FramesOf(w, e)))
           Good(p) == /\ p \in WorkerProtocolPeers /\ p.accepted = w.accepted
                      /\ p.acknowledged = w.acknowledged
<1>1. Good(v)
  BY NumberedWorker
<1>2. CASE e.type \in {"hello", "started", "failed", "done", "cancelled"}
  <2>1. \E s \in {"identified", "ready", "done"} : AfterSend(w, e) = [v EXCEPT !.state = s]
    BY <1>2 DEF AfterSend
  <2>2. PICK s \in {"identified", "ready", "done"} : AfterSend(w, e) = [v EXCEPT !.state = s]
    BY <2>1
  <2> HIDE DEF v
  <2>3. Good(AfterSend(w, e))
    BY <1>1, <2>2 DEF WorkerProtocolPeers
  <2> QED
    BY <2>3
<1>3. CASE e.type = "result"
  <2> DEFINE u == [v EXCEPT !.state = "delivering"]
  <2>1. AfterSend(w, e) = [u EXCEPT !.acknowledgementPending = TRUE]
    BY <1>3, Zenon DEF AfterSend
  <2> HIDE DEF v
  <2>2. Good(u)
    BY <1>1 DEF WorkerProtocolPeers
  <2> HIDE DEF u
  <2>3. Good(AfterSend(w, e))
    BY <2>1, <2>2 DEF WorkerProtocolPeers
  <2> QED
    BY <2>3
<1>4. CASE e.type \notin {"hello", "started", "failed", "done", "cancelled", "result"}
  <2>1. AfterSend(w, e) = v
    BY <1>4 DEF AfterSend
  <2> QED
    BY <1>1, <2>1
<1> QED
  BY <1>2, <1>3, <1>4

LEMMA SendOK ==
  ASSUME NEW t, TurnOK(t), NEW e, Says(e)
  PROVE  TurnOK(Send(t, e)) /\ Send(t, e).bridge = t.bridge
<1>1. t \in Turns /\ t.peer \in WorkerProtocolPeers /\ t.frames \in Seq(ToHost)
      /\ t.bridge \in Bridges
  BY DEF TurnOK, Turns
<1>2. CASE t.thrown
  BY <1>2 DEF Send
<1>3. CASE ~t.thrown /\ ~CanSend(t.peer, e)
  <2>1. Send(t, e) = [t EXCEPT !.thrown = TRUE]
    BY <1>3 DEF Send
  <2>2. /\ Send(t, e) \in Turns /\ Send(t, e).peer = t.peer
        /\ Send(t, e).bridge = t.bridge /\ Send(t, e).frames = t.frames
    BY <1>1, <2>1 DEF Turns
  <2> QED
    BY <2>2 DEF TurnOK
<1>4. CASE ~t.thrown /\ CanSend(t.peer, e)
  <2> DEFINE p == AfterSend(t.peer, e)
             q == FramesOf(t.peer, e)
             a == [t EXCEPT !.peer = p]
             z == t.frames \o q
  <2>1. /\ q \in Seq(ToHost) /\ Len(q) \in Nat
        /\ \A f \in Carried(q) :
             Truthful(f.event) /\ (f.event.type = "begin_accepted" => reception.start # None)
    BY <1>1, FramesTyped
  <2>2. /\ p \in WorkerProtocolPeers /\ p.accepted = t.peer.accepted
        /\ p.acknowledged = t.peer.acknowledged
    BY <1>1, <1>4, <2>1, AfterSendTyped
  <2>3. z \in Seq(ToHost) /\ Carried(z) \subseteq Carried(t.frames) \cup Carried(q)
    BY <1>1, <2>1, CarriedFrames
  <2>4. Send(t, e) = [t EXCEPT !.peer = p, !.frames = z]
    <3>1. [t EXCEPT !.peer = p].frames = t.frames
      <4> HIDE DEF p
      <4> QED
        BY <1>1 DEF Turns
    <3> QED
      BY <1>4, <3>1 DEF Send
  <2> HIDE DEF p, q, z
  <2>5. /\ Send(t, e) \in Turns /\ Send(t, e).peer = p
        /\ Send(t, e).bridge = t.bridge /\ Send(t, e).frames = z
    BY <1>1, <2>2, <2>3, <2>4 DEF Turns
  <2> QED
    BY <2>1, <2>2, <2>3, <2>5 DEF TurnOK
<1> QED
  BY <1>2, <1>3, <1>4

\* What a turn makes of the bridge.
LEMMA BridgeOK ==
  ASSUME NEW t, TurnOK(t), NEW b \in Bridges, BegunOnce(b)
  PROVE  TurnOK([t EXCEPT !.bridge = b]) /\ [t EXCEPT !.bridge = b].bridge = b
<1> DEFINE n == [t EXCEPT !.bridge = b]
<1>1. /\ n \in Turns /\ n.peer = t.peer /\ n.bridge = b /\ n.frames = t.frames
  BY DEF TurnOK, Turns
<1> HIDE DEF n
<1>2. TurnOK(n)
  BY <1>1 DEF TurnOK
<1> QED
  BY <1>1, <1>2 DEF n

LEMMA FlagsOK ==
  ASSUME NEW t, TurnOK(t)
  PROVE  /\ TurnOK([t EXCEPT !.bridge.completionSent = TRUE])
         /\ TurnOK([t EXCEPT !.bridge.completionSent = FALSE])
         /\ TurnOK([t EXCEPT !.bridge.cancelled = TRUE])
         /\ TurnOK([t EXCEPT !.bridge.stopped = TRUE])
         /\ TurnOK([t EXCEPT !.bridge.stopped = TRUE, !.bridge.shutdown = TRUE])
<1> DEFINE b == t.bridge
           Same(c) == /\ c \in Bridges /\ c.began = b.began /\ c.agent = b.agent
                      /\ c.prompts = b.prompts
<1>1. b \in Bridges /\ BegunOnce(b) /\ t \in Turns
  BY DEF TurnOK, Turns
<1>2. ASSUME NEW c, Same(c) PROVE c \in Bridges /\ BegunOnce(c)
  BY <1>1, <1>2 DEF BegunOnce
<1>3. Same([b EXCEPT !.completionSent = TRUE])
  BY <1>1, Zenon DEF Bridges
<1>4. Same([b EXCEPT !.completionSent = FALSE])
  BY <1>1, Zenon DEF Bridges
<1>5. Same([b EXCEPT !.cancelled = TRUE])
  BY <1>1, Zenon DEF Bridges
<1>6. Same([b EXCEPT !.stopped = TRUE])
  BY <1>1, Zenon DEF Bridges
<1>7. Same([b EXCEPT !.stopped = TRUE, !.shutdown = TRUE])
  <2> DEFINE c == [b EXCEPT !.stopped = TRUE]
  <2>1. Same(c)
    BY <1>6
  <2> HIDE DEF c
  <2>2. Same([c EXCEPT !.shutdown = TRUE])
    BY <2>1, Zenon DEF Bridges
  <2> QED
    BY <2>2 DEF c
<1>8. ASSUME NEW c, Same(c) PROVE TurnOK([t EXCEPT !.bridge = c])
  BY <1>2, <1>8, BridgeOK
<1>9. [t EXCEPT !.bridge.stopped = TRUE, !.bridge.shutdown = TRUE] =
        [t EXCEPT !.bridge = [b EXCEPT !.stopped = TRUE, !.shutdown = TRUE]]
  BY <1>1, Zenon DEF Turns
<1> QED
  BY <1>3, <1>4, <1>5, <1>6, <1>7, <1>8, <1>9

LEMMA Sayable ==
  /\ \A type \in {"hello", "started", "cancelled", "failed", "done"} : Says(Plain(type))
  /\ Says([type |-> "result", result |-> TheResult])
<1>1. ASSUME NEW type \in {"hello", "started", "cancelled", "failed", "done"}
      PROVE  Says(Plain(type))
  <2> DEFINE e == Plain(type)
             f == [seq |-> 0, event |-> e]
  <2>1. e.type = type
    BY DEF Plain
  <2>2. f \in ToHost /\ e = f.event
    BY DEF Plain, ToHost
  <2> HIDE DEF e, f
  <2> QED
    BY <2>1, <2>2 DEF Says, Truthful, e
<1> QED
  BY <1>1 DEF Says

LEMMA SayableAbout ==
  ASSUME NEW type \in {"begin_accepted", "begin_rejected", "begin_ack"},
         NEW i \in StartInstruction,
         type \in {"begin_accepted", "begin_ack"} => Faithful(i),
         type = "begin_accepted" => reception.start # None
  PROVE  Says(About(type, i))
<1> DEFINE e == About(type, i)
           f == [seq |-> 0, event |-> e]
<1>1. e.type = type /\ e.instruction = i
  BY DEF About
<1>2. f \in ToHost /\ e = f.event
  BY DEF About, ToHost
<1> HIDE DEF e, f
<1> QED
  BY <1>1, <1>2 DEF Says, Truthful, e

LEMMA ReceptionFields ==
  ASSUME SessionIInv
  PROVE  /\ reception \in Receptions
         /\ reception.start # None =>
              /\ reception.start.instruction \in StartInstruction
              /\ reception.start.status \in {"accepted", "duplicate"} =>
                   Faithful(reception.start.instruction) /\ stored.acceptance # None
         /\ reception.observed # None =>
              reception.observed \in StartInstruction /\ Faithful(reception.observed)
         /\ reception.update # None => Says(UpdateAnswer(reception.update))
<1>1. reception \in Receptions /\ stored \in Stores
  BY DEF SessionIInv, SessionTypeOK
<1>2. ASSUME reception.start # None
      PROVE  /\ reception.start.instruction \in StartInstruction
             /\ reception.start.status \in {"accepted", "duplicate"} =>
                  Faithful(reception.start.instruction) /\ stored.acceptance # None
  <2>1. reception.start.instruction \in StartInstruction
    BY <1>1, <1>2 DEF Receptions
  <2>2. reception.start.instruction # None
    BY <2>1, InstructionIsSome
  <2> QED
    BY <1>2, <2>1, <2>2 DEF SessionIInv, WorkerFaithful, Faithful
<1>3. ASSUME reception.observed # None
      PROVE  reception.observed \in StartInstruction /\ Faithful(reception.observed)
  BY <1>1, <1>3 DEF SessionIInv, WorkerFaithful, Receptions
<1>4. ASSUME reception.update # None
      PROVE  Says(UpdateAnswer(reception.update))
  <2> DEFINE u == reception.update
             e == UpdateAnswer(u)
             f == [seq |-> 0, event |-> e]
  <2>1. /\ u.generation \in Nat \ {0} /\ u.acceptance \in AcceptanceStates
        /\ u.instruction \in StartInstruction \cup {None}
    BY <1>1, <1>4 DEF Receptions
  <2>2. /\ e.type = "generation_updated" /\ e.generation = u.generation
        /\ e.acceptance = u.acceptance /\ e.instruction = u.instruction
    BY DEF UpdateAnswer
  <2>3. f \in ToHost /\ e = f.event
    BY <2>1 DEF UpdateAnswer, ToHost
  <2>4. Faithful(u.instruction) /\ (u.acceptance = "not_accepted" => Refused(u.generation))
    BY <1>4 DEF SessionIInv, WorkerFaithful, UpdateIsTrue
  <2> HIDE DEF e, f
  <2>5. Truthful(e)
    BY <2>2, <2>4 DEF Truthful
  <2> QED
    BY <2>2, <2>3, <2>5 DEF Says, e
<1> QED
  BY <1>1, <1>2, <1>3, <1>4

LEMMA StoppedOK ==
  ASSUME NEW t, TurnOK(t) PROVE TurnOK(Stopped(t))
  BY FlagsOK DEF Stopped

LEMMA SettleOK ==
  ASSUME NEW t, TurnOK(t) PROVE TurnOK(Settle(t))
<1> DEFINE c == [t EXCEPT !.bridge.completionSent = TRUE]
           d == [c EXCEPT !.bridge.stopped = TRUE]
           r == [type |-> "result", result |-> TheResult]
<1>1. TurnOK(c)
  BY FlagsOK
<1>2. TurnOK(d)
  <2> HIDE DEF c
  <2> QED
    BY <1>1, FlagsOK
<1>3. \/ Settle(t) = t
      \/ Settle(t) = Stopped(Send(d, Plain("cancelled")))
      \/ Settle(t) = Send(Send(c, r), Plain("done"))
      \/ Settle(t) = Send(c, Plain("failed"))
  BY Zenon DEF Settle
<1> HIDE DEF c, d
<1>4. /\ Says(Plain("cancelled")) /\ Says(Plain("done")) /\ Says(Plain("failed"))
      /\ Says(r)
  BY Sayable
<1> HIDE DEF r
<1>5. TurnOK(Send(d, Plain("cancelled")))
  BY <1>2, <1>4, SendOK
<1>6. TurnOK(Stopped(Send(d, Plain("cancelled"))))
  BY <1>5, StoppedOK
<1>7. TurnOK(Send(c, r))
  BY <1>1, <1>4, SendOK
<1>8. TurnOK(Send(Send(c, r), Plain("done")))
  BY <1>4, <1>7, SendOK
<1>9. TurnOK(Send(c, Plain("failed")))
  BY <1>1, <1>4, SendOK
<1> QED
  BY <1>3, <1>6, <1>8, <1>9

LEMMA FailRunOK ==
  ASSUME NEW t, TurnOK(t) PROVE TurnOK(FailRun(t))
<1> DEFINE c == [t EXCEPT !.bridge.completionSent = TRUE]
<1>1. TurnOK(c)
  BY FlagsOK
<1>2. FailRun(t) = t \/ FailRun(t) = Send(c, Plain("failed"))
  BY DEF FailRun
<1> HIDE DEF c
<1> QED
  BY <1>1, <1>2, SendOK, Sayable

LEMMA AnswersOK ==
  ASSUME SessionIInv, NEW t, TurnOK(t)
  PROVE  /\ TurnOK(AnswerUpdate(t)) /\ TurnOK(AnswerCancel(t))
         /\ TurnOK(AnswerBegin(t)) /\ TurnOK(AnswerObservation(t))
<1>1. TurnOK(AnswerUpdate(t))
  <2> DEFINE s == Send(t, UpdateAnswer(reception.update))
             c == [s EXCEPT !.bridge.completionSent = FALSE]
  <2>1. CASE reception.update = None
    BY <2>1 DEF AnswerUpdate
  <2>2. CASE reception.update # None
    <3>1. TurnOK(s)
      BY <2>2, ReceptionFields, SendOK
    <3>2. AnswerUpdate(t) = s \/ AnswerUpdate(t) = Settle(c)
      BY <2>2 DEF AnswerUpdate
    <3> HIDE DEF s
    <3>3. TurnOK(c)
      BY <3>1, FlagsOK
    <3> HIDE DEF c
    <3> QED
      BY <3>1, <3>2, <3>3, SettleOK
  <2> QED
    BY <2>1, <2>2
<1>2. TurnOK(AnswerCancel(t))
  <2> DEFINE c == [t EXCEPT !.bridge.cancelled = TRUE]
  <2>1. TurnOK(c)
    BY FlagsOK
  <2>2. AnswerCancel(t) = t \/ AnswerCancel(t) = c \/ AnswerCancel(t) = Settle(c)
    BY DEF AnswerCancel
  <2> HIDE DEF c
  <2> QED
    BY <2>1, <2>2, SettleOK
<1>3. TurnOK(AnswerBegin(t))
  <2>1. CASE reception.start = None
    BY <2>1 DEF AnswerBegin
  <2>2. CASE reception.start # None
    <3> DEFINE r == reception.start
    <3>1. r.instruction \in StartInstruction
      BY <2>2, ReceptionFields
    <3>2. CASE r.status \in {"accepted", "duplicate"}
      <4>1. Says(About("begin_accepted", r.instruction))
        BY <2>2, <3>1, <3>2, ReceptionFields, SayableAbout
      <4>2. AnswerBegin(t) = Send(t, About("begin_accepted", r.instruction))
        BY <2>2, <3>2 DEF AnswerBegin
      <4> QED
        BY <4>1, <4>2, SendOK
    <3>3. CASE r.status \notin {"accepted", "duplicate"}
      <4>1. Says(About("begin_rejected", r.instruction))
        BY <3>1, SayableAbout
      <4>2. AnswerBegin(t) = Send(t, About("begin_rejected", r.instruction))
        BY <2>2, <3>3 DEF AnswerBegin
      <4> QED
        BY <4>1, <4>2, SendOK
    <3> QED
      BY <3>2, <3>3
  <2> QED
    BY <2>1, <2>2
<1>4. TurnOK(AnswerObservation(t))
  <2>1. CASE reception.observed = None
    BY <2>1 DEF AnswerObservation
  <2>2. CASE reception.observed # None
    <3>1. Says(About("begin_ack", reception.observed))
      BY <2>2, ReceptionFields, SayableAbout
    <3>2. AnswerObservation(t) = Send(t, About("begin_ack", reception.observed))
      BY <2>2 DEF AnswerObservation
    <3> QED
      BY <3>1, <3>2, SendOK
  <2> QED
    BY <2>1, <2>2
<1> QED
  BY <1>1, <1>2, <1>3, <1>4

LEMMA BeginRunOK ==
  ASSUME SessionIInv, NEW t, TurnOK(t) PROVE TurnOK(BeginRun(t))
<1>1. CASE ~(/\ ~t.thrown /\ reception.start # None /\ reception.start.status = "accepted"
             /\ ~t.bridge.cancelled /\ ~t.bridge.began)
  <2>1. BeginRun(t) = t
    BY <1>1 DEF BeginRun
  <2> QED
    BY <2>1
<1>2. CASE /\ ~t.thrown /\ reception.start # None /\ reception.start.status = "accepted"
           /\ ~t.bridge.cancelled /\ ~t.bridge.began
  <2> DEFINE b == t.bridge
             a == [b EXCEPT !.began = TRUE]
             c == [a EXCEPT !.agent = "reading"]
  <2>1. stored.acceptance # None
    BY <1>2, ReceptionFields
  <2>2. t \in Turns /\ b \in Bridges /\ BegunOnce(b)
    BY DEF TurnOK, Turns
  <2>3. b.prompts = 0
    BY <1>2, <2>2 DEF BegunOnce
  <2>4. BeginRun(t) = [t EXCEPT !.bridge = c]
    BY <1>2, <2>2, Zenon DEF BeginRun, Turns
  <2>5. a \in Bridges /\ a.began = TRUE /\ a.prompts = b.prompts
    BY <2>2, Zenon DEF Bridges
  <2> HIDE DEF b, a
  <2>6. c \in Bridges /\ c.began = a.began /\ c.prompts = a.prompts /\ c.agent = "reading"
    <3>1. c.began = a.began /\ c.prompts = a.prompts /\ c.agent = "reading"
      BY <2>5, Zenon DEF Bridges
    <3>2. c \in Bridges
      BY <2>5 DEF Bridges
    <3> QED
      BY <3>1, <3>2
  <2> HIDE DEF c
  <2>7. BegunOnce(c)
    BY <2>1, <2>3, <2>5, <2>6 DEF BegunOnce
  <2> QED
    BY <2>4, <2>6, <2>7, BridgeOK
<1> QED
  BY <1>1, <1>2

-----------------------------------------------------------------------------
(* The steps of the worker.                                                *)

\* An acceptance is stored once, for the authority's generation, which only grows.
StoreMoves ==
  /\ stored' \in Stores
  /\ stored.acceptance # None => stored'.acceptance = stored.acceptance
  /\ stored'.authority.generation >= stored.authority.generation
  /\ stored.acceptance = None /\ stored'.acceptance # None =>
       stored'.acceptance.deliveryGeneration >= stored'.authority.generation

LEMMA StoreKeeps ==
  ASSUME SessionIInv, StoreMoves
  PROVE  /\ \A i : Faithful(i) => Faithful(i)'
         /\ \A g \in Nat : Refused(g) => Refused(g)'
         /\ \A f \in ToHost : Truthful(f.event) => Truthful(f.event)'
         /\ HandoffsTrue(op) => (op' = op => HandoffsTrue(op)')
         /\ stored.acceptance # None => stored'.acceptance # None
<1>1. stored \in Stores /\ stored' \in Stores
  BY DEF SessionIInv, SessionTypeOK, StoreMoves
<1>2. /\ stored.authority.generation \in Nat /\ stored'.authority.generation \in Nat
      /\ stored.acceptance # None => stored.acceptance.deliveryGeneration \in Nat
      /\ stored'.acceptance # None => stored'.acceptance.deliveryGeneration \in Nat
  BY <1>1 DEF Stores, StartInstruction
<1>3. \A i : Faithful(i) => Faithful(i)'
  BY DEF Faithful, StoreMoves
<1>4. ASSUME NEW g \in Nat, Refused(g) PROVE Refused(g)'
  <2>1. /\ stored.authority.generation >= g
        /\ stored.acceptance # None => stored.acceptance.deliveryGeneration >= g
        /\ stored'.authority.generation >= stored.authority.generation
    BY <1>4 DEF Refused, StoreMoves
  <2>2. stored'.authority.generation >= g
    BY <1>2, <2>1
  <2>3. ASSUME stored'.acceptance # None
        PROVE  stored'.acceptance.deliveryGeneration >= g
    <3>1. CASE stored.acceptance # None
      BY <2>1, <3>1 DEF StoreMoves
    <3>2. CASE stored.acceptance = None
      <4>1. stored'.acceptance.deliveryGeneration >= stored'.authority.generation
        BY <2>3, <3>2 DEF StoreMoves
      <4> QED
        BY <1>2, <2>2, <2>3, <4>1
    <3> QED
      BY <3>1, <3>2
  <2> QED
    BY <2>2, <2>3 DEF Refused
<1>5. ASSUME NEW f \in ToHost, Truthful(f.event) PROVE Truthful(f.event)'
  <2>1. f.event.type = "generation_updated" => f.event.generation \in Nat
    BY ToHostFields
  <2> QED
    BY <1>3, <1>4, <1>5, <2>1 DEF Truthful
<1>6. ASSUME HandoffsTrue(op), op' = op PROVE HandoffsTrue(op)'
  <2>1. op.startDeliveryHandoffs \in Seq(Handoff)
    BY OpFacts DEF Operation
  <2>2. ASSUME NEW n \in 1 .. Len(op.startDeliveryHandoffs)
        PROVE  op.startDeliveryHandoffs[n].deliveryGeneration \in Nat
    <3>1. op.startDeliveryHandoffs[n] \in Handoff
      BY <2>1
    <3> QED
      BY <3>1 DEF Handoff
  <2> QED
    BY <1>4, <1>6, <2>2 DEF HandoffsTrue
<1> QED
  BY <1>3, <1>4, <1>5, <1>6 DEF StoreMoves

\* What a step of the worker may do to the host's side, and to its own.
WorkerMoves ==
  /\ UNCHANGED <<op, run, host, heard>>
  /\ process' \in {"running", "exited", "stopped"}
  /\ budget' \in Budgets /\ budget'.crashes = budget.crashes /\ mishap' \in BOOLEAN
  /\ StoreMoves
  /\ worker' \in WorkerProtocolPeers /\ Faithful(worker.accepted)'
  /\ worker'.acknowledged # None => op.result # None
  /\ bridge' \in Bridges /\ BegunOnce(bridge)'
  /\ reception' \in Receptions /\ WorkerFaithful' /\ UpdateIsTrue'
  /\ run.at \in BeforeSend /\ socket'.state = "up" => reception'.start = None

LEMMA WorkerMovesKeeps ==
  ASSUME SessionIInv, WorkerMoves, NEW frames,
         Continues(socket, socket', frames, {}),
         \A f \in frames : f \in ToHost /\ Truthful(f.event)',
         run.at \in BeforeSend /\ socket.state = "up" =>
           \A f \in frames : f.event.type # "begin_accepted"
  PROVE  SessionIInv'
<1> USE DEF SessionIInv
<1>1. UNCHANGED <<op, run, host, heard>> /\ StoreMoves
  BY DEF WorkerMoves
<1>2. SocketOK(socket) /\ Carried(socket.toHost) \subseteq ToHost
  BY InvSocket, CarriedFrames, SocketFields DEF SocketOK
<1>3. SessionTypeOK'
  BY <1>1 DEF SessionTypeOK, WorkerMoves, StoreMoves, Continues, Budgets
<1>4. ConnectionIsOpen'
  BY <1>1 DEF ConnectionIsOpen, Continues
<1>5. GenerationsBounded'
  BY <1>1 DEF GenerationsBounded, WorkerMoves
<1>6. WorkerFaithful' /\ UpdateIsTrue' /\ BegunOnce(bridge)'
  BY DEF WorkerMoves
<1>7. FramesTrue'
  BY <1>1, <1>2, StoreKeeps DEF FramesTrue, Continues
<1>8. AcknowledgesRecorded'
  BY <1>1 DEF AcknowledgesRecorded, Continues, WorkerMoves
<1>9. BeginsAreSent'
  <2>1. ASSUME run.at \in BeforeSend
        PROVE  /\ heard'.acceptance # "accepted"
               /\ \A f \in Carried(socket'.toHost) : f.event.type # "begin_accepted"
               /\ socket'.state = "up" =>
                    /\ reception'.start = None
                    /\ \A f \in Carried(socket'.toWorker) : f.event.type # "begin"
    BY <1>1, <2>1 DEF BeginsAreSent, Continues, WorkerMoves
  <2> QED
    BY <1>1, <2>1 DEF BeginsAreSent
<1>10. HostFaithful'
  <2>1. \A i : Faithful(i) => Faithful(i)'
    BY <1>1, StoreKeeps
  <2> HIDE DEF Faithful
  <2> QED
    BY <1>1, <2>1 DEF HostFaithful
<1>11. AnswerIsTrue'
  <2>1. ASSUME run.at \in {"awaitGeneration", "confirm"}
        PROVE  run.instruction.deliveryGeneration \in Nat
    BY <2>1, InstructionThere
  <2>2. \A g \in Nat : Refused(g) => Refused(g)'
    BY <1>1, StoreKeeps
  <2> HIDE DEF Refused
  <2> QED
    BY <1>1, <2>1, <2>2 DEF AnswerIsTrue
<1>12. HandoffsTrue(op)'
  BY <1>1, StoreKeeps
<1> QED
  BY <1>3, <1>4, <1>5, <1>6, <1>7, <1>8, <1>9, <1>10, <1>11, <1>12

LEMMA WorkerFacts ==
  ASSUME SessionIInv
  PROVE  /\ worker \in WorkerProtocolPeers /\ bridge \in Bridges /\ reception \in Receptions
         /\ stored \in Stores /\ SocketOK(socket)
         /\ process \in {"running", "exited", "stopped"}
         /\ budget \in Budgets /\ mishap \in BOOLEAN
         /\ Faithful(worker.accepted) /\ BegunOnce(bridge)
         /\ WorkerFaithful /\ UpdateIsTrue
         /\ worker.acknowledged # None => op.result # None
         /\ run.at \in BeforeSend /\ socket.state = "up" => reception.start = None
  BY InvSocket
  DEF SessionIInv, SessionTypeOK, Budgets, WorkerFaithful, AcknowledgesRecorded, BeginsAreSent

LEMMA StoreStays == SessionIInv /\ stored' = stored => StoreMoves
<1> SUFFICES ASSUME SessionIInv, stored' = stored PROVE StoreMoves
  OBVIOUS
<1>1. stored \in Stores /\ stored.authority.generation \in Nat
  BY DEF SessionIInv, SessionTypeOK, Stores
<1> QED
  BY <1>1 DEF StoreMoves

LEMMA FaultTyped ==
  ASSUME SessionIInv, Fault \/ NoFault
  PROVE  budget' \in Budgets /\ budget'.crashes = budget.crashes /\ mishap' \in BOOLEAN
<1>1. budget \in Budgets /\ mishap \in BOOLEAN
  BY WorkerFacts
<1>2. CASE Fault
  <2> DEFINE m == budget.faults - 1
  <2>2. m \in Nat
    BY <1>1, <1>2 DEF Fault, Budgets
  <2>3. budget' = [budget EXCEPT !.faults = m] /\ mishap' = TRUE
    BY <1>2 DEF Fault
  <2> HIDE DEF m
  <2> QED
    BY <1>1, <2>2, <2>3 DEF Budgets
<1> QED
  BY <1>1, <1>2 DEF NoFault

LEMMA ConnectToHostKeeps ==
  ASSUME SessionIInv, ConnectToHost PROVE SessionIInv'
<1> USE DEF SessionIInv
<1>1. /\ UNCHANGED <<op, run, host, bridge, stored, process, budget, mishap>>
      /\ heard.open /\ worker' = FreshWorker /\ reception' = NoReception
      /\ heard' = [heard EXCEPT !.connected = TRUE]
      /\ socket' = [NoSocket EXCEPT !.state = "up"]
  BY DEF ConnectToHost
<1>2. /\ heard' \in Hearings /\ heard'.open = heard.open /\ heard'.connected = TRUE
      /\ heard'.said = heard.said /\ heard'.acceptance = heard.acceptance
      /\ heard'.generation = heard.generation
  BY <1>1, OpFacts DEF Hearings
<1>3. /\ socket' \in Sockets /\ socket'.state = "up"
      /\ socket'.toHost = <<>> /\ socket'.toWorker = <<>>
  <2>1. socket' = [state |-> "up", toHost |-> <<>>, toWorker |-> <<>>]
    BY <1>1 DEF NoSocket
  <2> QED
    BY <2>1 DEF Sockets
<1>4. Carried(socket'.toHost) = {} /\ Carried(socket'.toWorker) = {}
  BY <1>3 DEF Carried
<1>5. /\ reception'.start = None /\ reception'.observed = None /\ reception'.update = None
      /\ worker'.accepted = None /\ worker'.acknowledged = None
  BY <1>1 DEF NoReception, FreshWorker
<1>6. SessionTypeOK'
  BY <1>1, <1>2, <1>3, FreshTyped DEF SessionTypeOK
<1>7. ConnectionIsOpen'
  BY <1>1, <1>2, <1>3 DEF ConnectionIsOpen
<1>8. GenerationsBounded'
  BY <1>1 DEF GenerationsBounded
<1>9. WorkerFaithful' /\ UpdateIsTrue'
  BY <1>5 DEF WorkerFaithful, UpdateIsTrue, Faithful
<1>10. BegunOnce(bridge)' /\ HandoffsTrue(op)'
  BY <1>1 DEF BegunOnce, HandoffsTrue, Refused
<1>11. FramesTrue' /\ AcknowledgesRecorded'
  BY <1>1, <1>4, <1>5 DEF FramesTrue, AcknowledgesRecorded
<1>12. BeginsAreSent'
  BY <1>1, <1>2, <1>4, <1>5 DEF BeginsAreSent
<1>13. HostFaithful' /\ AnswerIsTrue'
  BY <1>1, <1>2 DEF HostFaithful, AnswerIsTrue, Faithful, Refused
<1> QED
  BY <1>6, <1>7, <1>8, <1>9, <1>10, <1>11, <1>12, <1>13

LEMMA IdentifyKeeps ==
  ASSUME SessionIInv, Identify PROVE SessionIInv'
<1> DEFINE hello == Plain("hello")
           started == Plain("started")
           w == AfterSend(worker, hello)
           q1 == FramesOf(worker, hello)
           q2 == FramesOf(w, started)
           q == q1 \o q2
<1>1. /\ worker.state = "new" /\ worker' = AfterSend(w, started)
      /\ socket' = WrittenToHost(q)
      /\ UNCHANGED <<hostSide, bridge, reception, stored, process, budget, mishap>>
  BY DEF Identify
<1>2. UNCHANGED <<op, run, host, heard>>
  BY <1>1 DEF hostSide
<1>3. Says(hello) /\ Says(started)
  BY Sayable
<1>4. worker \in WorkerProtocolPeers
  BY WorkerFacts
<1>5. /\ q1 \in Seq(ToHost) /\ Len(q1) \in Nat
      /\ \A f \in Carried(q1) :
           Truthful(f.event) /\ (f.event.type = "begin_accepted" => reception.start # None)
  BY <1>3, <1>4, FramesTyped
<1>6. CanSend(worker, hello)
  BY <1>1 DEF CanSend, Plain
<1>7. /\ w \in WorkerProtocolPeers /\ w.accepted = worker.accepted
      /\ w.acknowledged = worker.acknowledged
  BY <1>4, <1>5, <1>6, AfterSendTyped
<1>8. CanSend(w, started)
  <2>1. AfterSend(worker, hello) = [Numbered(worker, Len(q1)) EXCEPT !.state = "identified"]
    BY DEF AfterSend, Plain
  <2>2. Numbered(worker, Len(q1)) \in WorkerProtocolPeers
    BY <1>4, <1>5, NumberedWorker
  <2>3. w.state = "identified"
    BY <2>1, <2>2 DEF WorkerProtocolPeers
  <2> HIDE DEF w
  <2> QED
    BY <2>3 DEF CanSend, Plain
<1> HIDE DEF w
<1>9. /\ q2 \in Seq(ToHost) /\ Len(q2) \in Nat
      /\ \A f \in Carried(q2) :
           Truthful(f.event) /\ (f.event.type = "begin_accepted" => reception.start # None)
  BY <1>3, <1>7, FramesTyped
<1>10. /\ worker' \in WorkerProtocolPeers /\ worker'.accepted = worker.accepted
       /\ worker'.acknowledged = worker.acknowledged
  BY <1>1, <1>7, <1>8, <1>9, AfterSendTyped
<1> HIDE DEF q1, q2
<1>11. q \in Seq(ToHost) /\ Carried(q) \subseteq Carried(q1) \cup Carried(q2)
  BY <1>5, <1>9, CarriedFrames
<1> HIDE DEF q
<1>12. Continues(socket, socket', Carried(q), {})
  BY <1>1, <1>11, WrittenContinues, WorkerFacts
<1>13. Carried(q) \subseteq ToHost
  BY <1>11, CarriedFrames
<1>14. \A f \in Carried(q) : Truthful(f.event)'
  BY <1>1, <1>5, <1>9, <1>11 DEF Truthful, Faithful, Refused
<1>15. WorkerMoves
  <2>1. WorkerFaithful' /\ UpdateIsTrue' /\ BegunOnce(bridge)' /\ Faithful(worker.accepted)'
    BY <1>1, <1>10, WorkerFacts DEF WorkerFaithful, UpdateIsTrue, BegunOnce, Faithful, Refused
  <2>2. StoreMoves
    BY <1>1, StoreStays
  <2>3. run.at \in BeforeSend /\ socket'.state = "up" => reception'.start = None
    BY <1>1, <1>12, WorkerFacts DEF Continues
  <2> QED
    BY <1>1, <1>2, <1>10, <2>1, <2>2, <2>3, WorkerFacts DEF WorkerMoves
<1>16. run.at \in BeforeSend /\ socket.state = "up" =>
         \A f \in Carried(q) : f.event.type # "begin_accepted"
  BY <1>5, <1>9, <1>11, WorkerFacts
<1> QED
  BY <1>12, <1>13, <1>14, <1>15, <1>16, WorkerMovesKeeps

LEMMA WorkerSeesEndKeeps ==
  ASSUME SessionIInv, WorkerSeesEnd PROVE SessionIInv'
<1>1. socket' = NoSocket /\ UNCHANGED <<hostSide, workerSide, process, budget, mishap>>
  BY DEF WorkerSeesEnd
<1>2. UNCHANGED <<op, run, host, heard, worker, bridge, reception, stored>>
  BY <1>1 DEF hostSide, workerSide
<1>3. Continues(socket, socket', {}, {}) /\ socket'.state # "up"
  BY <1>1, NoSocketContinues
<1>4. WorkerFaithful' /\ UpdateIsTrue' /\ BegunOnce(bridge)' /\ Faithful(worker.accepted)'
  BY <1>2, WorkerFacts DEF WorkerFaithful, UpdateIsTrue, BegunOnce, Faithful, Refused
<1>5. WorkerMoves
  BY <1>1, <1>2, <1>3, <1>4, StoreStays, WorkerFacts DEF WorkerMoves
<1> QED
  BY <1>3, <1>5, WorkerMovesKeeps

LEMMA PiExitsKeeps ==
  ASSUME SessionIInv, PiExits PROVE SessionIInv'
<1>1. process' = "exited" /\ UNCHANGED <<hostSide, workerSide, socket, budget, mishap>>
  BY DEF PiExits
<1>2. UNCHANGED <<op, run, host, heard, worker, bridge, reception, stored>>
  BY <1>1 DEF hostSide, workerSide
<1>3. Continues(socket, socket', {}, {})
  BY <1>1, ContinuesItself, WorkerFacts
<1>4. WorkerFaithful' /\ UpdateIsTrue' /\ BegunOnce(bridge)' /\ Faithful(worker.accepted)'
  BY <1>2, WorkerFacts DEF WorkerFaithful, UpdateIsTrue, BegunOnce, Faithful, Refused
<1>5. WorkerMoves
  BY <1>1, <1>2, <1>4, StoreStays, WorkerFacts DEF WorkerMoves
<1> QED
  BY <1>3, <1>5, WorkerMovesKeeps

LEMMA WorkerDiesKeeps ==
  ASSUME SessionIInv, WorkerDies PROVE SessionIInv'
<1>1. /\ process' = "exited" /\ Fault /\ socket' = WorkerCloses(socket)
      /\ UNCHANGED <<hostSide, workerSide>>
  BY DEF WorkerDies
<1>2. UNCHANGED <<op, run, host, heard, worker, bridge, reception, stored>>
  BY <1>1 DEF hostSide, workerSide
<1>3. Continues(socket, socket', {}, {}) /\ socket'.state # "up"
  BY <1>1, WorkerClosesContinues, WorkerFacts
<1>4. WorkerFaithful' /\ UpdateIsTrue' /\ BegunOnce(bridge)' /\ Faithful(worker.accepted)'
  BY <1>2, WorkerFacts DEF WorkerFaithful, UpdateIsTrue, BegunOnce, Faithful, Refused
<1>5. WorkerMoves
  BY <1>1, <1>2, <1>3, <1>4, FaultTyped, StoreStays, WorkerFacts DEF WorkerMoves
<1> QED
  BY <1>3, <1>5, WorkerMovesKeeps

\* The end of a turn.
LEMMA TurnEndsKeeps ==
  ASSUME SessionIInv, NEW t, TurnOK(t), NEW closes \in BOOLEAN, TurnEnds(t, closes),
         budget' \in Budgets, budget'.crashes = budget.crashes, mishap' \in BOOLEAN
  PROVE  SessionIInv'
<1> DEFINE q == t.frames
<1>1. /\ worker' = t.peer /\ bridge' = t.bridge /\ reception' = NoReception
      /\ socket' \in {WorkerCloses(WrittenToHost(q)), WrittenToHost(q)}
      /\ UNCHANGED <<hostSide, stored, process>>
  BY DEF TurnEnds
<1>2. UNCHANGED <<op, run, host, heard>>
  BY <1>1 DEF hostSide
<1>3. /\ t \in Turns /\ t.peer \in WorkerProtocolPeers /\ q \in Seq(ToHost)
      /\ t.bridge \in Bridges /\ BegunOnce(t.bridge) /\ Faithful(t.peer.accepted)
      /\ t.peer.acknowledged = worker.acknowledged
      /\ \A f \in Carried(q) :
           Truthful(f.event) /\ (f.event.type = "begin_accepted" => reception.start # None)
  BY DEF TurnOK, Turns
<1>4. Continues(socket, socket', Carried(q), {})
  BY <1>1, <1>3, WrittenContinues, ThenCloses, WorkerFacts
<1>5. Carried(q) \subseteq ToHost
  BY <1>3, CarriedFrames
<1> HIDE DEF q
<1>6. \A f \in Carried(q) : Truthful(f.event)'
  BY <1>1, <1>3 DEF Truthful, Faithful, Refused
<1>7. BegunOnce(bridge)' /\ Faithful(worker.accepted)'
  BY <1>1, <1>3 DEF BegunOnce, Faithful
<1>8. reception'.start = None /\ reception'.observed = None /\ reception'.update = None
  BY <1>1 DEF NoReception
<1>9. WorkerFaithful' /\ UpdateIsTrue'
  BY <1>7, <1>8 DEF WorkerFaithful, UpdateIsTrue, Faithful
<1>10. WorkerMoves
  BY <1>1, <1>2, <1>3, <1>7, <1>8, <1>9, StoreStays, WorkerFacts, FreshTyped DEF WorkerMoves
<1>11. run.at \in BeforeSend /\ socket.state = "up" =>
         \A f \in Carried(q) : f.event.type # "begin_accepted"
  BY <1>3, WorkerFacts
<1> QED
  BY <1>4, <1>5, <1>6, <1>10, <1>11, WorkerMovesKeeps

LEMMA AfterReceptionOK ==
  ASSUME SessionIInv
  PROVE  TurnOK(Turn(worker)) /\ TurnOK(Turn(AfterReception(worker)))
<1>1. ASSUME NEW w \in WorkerProtocolPeers, w.accepted = worker.accepted,
             w.acknowledged = worker.acknowledged
      PROVE  TurnOK(Turn(w))
  <2> DEFINE t == Turn(w)
  <2>1. /\ t.peer = w /\ t.bridge = bridge /\ t.frames = <<>> /\ t.thrown = FALSE
        /\ Carried(t.frames) = {}
    BY DEF Turn, Carried
  <2>2. t \in Turns
    BY <1>1, WorkerFacts DEF Turn, Turns
  <2> HIDE DEF t
  <2> QED
    BY <1>1, <2>1, <2>2, WorkerFacts DEF TurnOK, t
<1>2. /\ AfterReception(worker) \in WorkerProtocolPeers
      /\ AfterReception(worker).accepted = worker.accepted
      /\ AfterReception(worker).acknowledged = worker.acknowledged
  <2>1. worker \in WorkerProtocolPeers
    BY WorkerFacts
  <2>2. CASE AcknowledgementsComplete(worker)
    <3>1. AfterReception(worker) = [worker EXCEPT !.state = "acknowledged"]
      BY <2>2 DEF AfterReception
    <3> QED
      BY <2>1, <3>1 DEF WorkerProtocolPeers
  <2>3. CASE ~AcknowledgementsComplete(worker)
    BY <2>1, <2>3 DEF AfterReception
  <2> QED
    BY <2>2, <2>3
<1> QED
  BY <1>1, <1>2, WorkerFacts

LEMMA ReceiveControlKeeps ==
  ASSUME SessionIInv, ReceiveControl PROVE SessionIInv'
<1> DEFINE t0 == Turn(AfterReception(worker))
           t1 == AnswerUpdate(t0)
           t2 == AnswerCancel(t1)
           t3 == AnswerBegin(t2)
           t4 == AnswerObservation(t3)
           t  == BeginRun(t4)
           n  == IF AcknowledgementsComplete(worker) THEN Stopped(t) ELSE t
<1>1. TurnEnds(n, t.thrown) /\ NoFault
  BY DEF ReceiveControl
<1>2. TurnOK(t0)
  BY AfterReceptionOK
<1> HIDE DEF t0
<1>3. TurnOK(t1)
  BY <1>2, AnswersOK
<1> HIDE DEF t1
<1>4. TurnOK(t2)
  BY <1>3, AnswersOK
<1> HIDE DEF t2
<1>5. TurnOK(t3)
  BY <1>4, AnswersOK
<1> HIDE DEF t3
<1>6. TurnOK(t4)
  BY <1>5, AnswersOK
<1> HIDE DEF t4
<1>7. TurnOK(t)
  BY <1>6, BeginRunOK
<1> HIDE DEF t
<1>8. TurnOK(n)
  BY <1>7, StoppedOK
<1> HIDE DEF n
<1>9. t.thrown \in BOOLEAN
  BY <1>7 DEF TurnOK, Turns
<1>10. budget' \in Budgets /\ budget'.crashes = budget.crashes /\ mishap' \in BOOLEAN
  BY <1>1, FaultTyped
<1> QED
  BY <1>1, <1>8, <1>9, <1>10, TurnEndsKeeps

\* Turns that begin with the bridge b.
LEMMA TurnWithBridge ==
  ASSUME SessionIInv, NEW b \in Bridges, BegunOnce(b)
  PROVE  TurnOK([Turn(worker) EXCEPT !.bridge = b])
  BY AfterReceptionOK, BridgeOK

LEMMA AgentMoves ==
  ASSUME SessionIInv, bridge.agent \in {"reading", "running"}
  PROVE  /\ [bridge EXCEPT !.agent = "settled"] \in Bridges
         /\ BegunOnce([bridge EXCEPT !.agent = "settled"])
         /\ \A final \in {"result", "error"} :
              /\ [bridge EXCEPT !.agent = "settled", !.final = final] \in Bridges
              /\ BegunOnce([bridge EXCEPT !.agent = "settled", !.final = final])
         /\ bridge.agent = "reading" =>
              /\ [bridge EXCEPT !.agent = "running", !.prompts = 1] \in Bridges
              /\ BegunOnce([bridge EXCEPT !.agent = "running", !.prompts = 1])
              /\ bridge.prompts = 0
<1> DEFINE s == [bridge EXCEPT !.agent = "settled"]
           r == [bridge EXCEPT !.agent = "running"]
<1>1. bridge \in Bridges /\ BegunOnce(bridge)
  BY WorkerFacts
<1>2. bridge.began /\ stored.acceptance # None /\ bridge.prompts <= 1
  BY <1>1 DEF BegunOnce
<1>3. /\ s \in Bridges /\ s.began = bridge.began /\ s.prompts = bridge.prompts
      /\ s.agent = "settled"
  <2>1. s \in Bridges
    BY <1>1 DEF Bridges
  <2>2. s.began = bridge.began /\ s.prompts = bridge.prompts /\ s.agent = "settled"
    BY <1>1, Zenon DEF Bridges
  <2> QED
    BY <2>1, <2>2
<1>4. /\ r \in Bridges /\ r.began = bridge.began /\ r.prompts = bridge.prompts
      /\ r.agent = "running"
  <2>1. r \in Bridges
    BY <1>1 DEF Bridges
  <2>2. r.began = bridge.began /\ r.prompts = bridge.prompts /\ r.agent = "running"
    BY <1>1, Zenon DEF Bridges
  <2> QED
    BY <2>1, <2>2
<1> HIDE DEF s, r
<1>5. BegunOnce(s)
  BY <1>2, <1>3 DEF BegunOnce
<1>6. ASSUME NEW final \in {"result", "error"}
      PROVE  /\ [s EXCEPT !.final = final] \in Bridges
             /\ BegunOnce([s EXCEPT !.final = final])
  <2> DEFINE c == [s EXCEPT !.final = final]
  <2>1. c \in Bridges
    BY <1>3 DEF Bridges
  <2>2. c.began = s.began /\ c.prompts = s.prompts /\ c.agent = s.agent
    BY <1>3, Zenon DEF Bridges
  <2> HIDE DEF c
  <2>3. BegunOnce(c)
    BY <1>5, <2>2 DEF BegunOnce
  <2> QED
    BY <2>1, <2>3 DEF c
<1>7. /\ [r EXCEPT !.prompts = 1] \in Bridges
      /\ BegunOnce([r EXCEPT !.prompts = 1])
  <2> DEFINE c == [r EXCEPT !.prompts = 1]
  <2>1. c \in Bridges
    BY <1>4 DEF Bridges
  <2>2. c.began = r.began /\ c.prompts = 1 /\ c.agent = r.agent
    BY <1>4, Zenon DEF Bridges
  <2> HIDE DEF c
  <2>3. BegunOnce(c)
    BY <1>2, <1>4, <2>2 DEF BegunOnce
  <2> QED
    BY <2>1, <2>3 DEF c
<1>8. bridge.agent = "reading" => bridge.prompts = 0
  BY <1>1 DEF BegunOnce
<1> QED
  BY <1>3, <1>5, <1>6, <1>7, <1>8 DEF s, r

LEMMA PromptReadKeeps ==
  ASSUME SessionIInv, PromptRead PROVE SessionIInv'
<1> DEFINE settled == [Turn(worker) EXCEPT !.bridge.agent = "settled"]
           prompted == [Turn(worker) EXCEPT !.bridge.agent = "running", !.bridge.prompts = @ + 1]
<1>1. bridge.agent = "reading" /\ (Fault \/ NoFault)
  BY DEF PromptRead
<1>2. budget' \in Budgets /\ budget'.crashes = budget.crashes /\ mishap' \in BOOLEAN
  BY <1>1, FaultTyped
<1>3. TurnOK(settled)
  <2>1. settled = [Turn(worker) EXCEPT !.bridge = [bridge EXCEPT !.agent = "settled"]]
    BY DEF Turn
  <2> QED
    BY <1>1, <2>1, AgentMoves, TurnWithBridge
<1>4. TurnOK(prompted)
  <2>1. bridge.prompts = 0
    BY <1>1, AgentMoves
  <2>2. prompted = [Turn(worker) EXCEPT !.bridge = [bridge EXCEPT !.agent = "running", !.prompts = 1]]
    <3> DEFINE b == [bridge EXCEPT !.agent = "running"]
    <3>1. b.prompts = 0
      BY <2>1, WorkerFacts, Zenon DEF Bridges
    <3>2. prompted = [Turn(worker) EXCEPT !.bridge = [b EXCEPT !.prompts = b.prompts + 1]]
      BY DEF Turn
    <3>3. [b EXCEPT !.prompts = b.prompts + 1] = [b EXCEPT !.prompts = 1]
      <4> HIDE DEF b
      <4> QED
        BY <3>1
    <3>4. [b EXCEPT !.prompts = 1] = [bridge EXCEPT !.agent = "running", !.prompts = 1]
      OBVIOUS
    <3> QED
      BY <3>2, <3>3, <3>4
  <2> QED
    BY <1>1, <2>2, AgentMoves, TurnWithBridge
<1>5. \/ TurnEnds(Settle(settled), FALSE)
      \/ TurnEnds(prompted, FALSE)
      \/ TurnEnds(FailRun(settled), FALSE)
  BY DEF PromptRead
<1> HIDE DEF settled, prompted
<1> QED
  BY <1>2, <1>3, <1>4, <1>5, SettleOK, FailRunOK, TurnEndsKeeps

LEMMA AgentSettlesKeeps ==
  ASSUME SessionIInv, AgentSettles PROVE SessionIInv'
<1>1. PICK final \in {"result", "error"} :
        TurnEnds(Settle([Turn(worker) EXCEPT !.bridge.agent = "settled", !.bridge.final = final]), FALSE)
  BY DEF AgentSettles
<1> DEFINE t == [Turn(worker) EXCEPT !.bridge.agent = "settled", !.bridge.final = final]
<1>2. TurnOK(t)
  <2>1. t = [Turn(worker) EXCEPT !.bridge = [bridge EXCEPT !.agent = "settled", !.final = final]]
    BY DEF Turn
  <2>2. bridge.agent = "running"
    BY DEF AgentSettles
  <2> QED
    BY <2>1, <2>2, AgentMoves, TurnWithBridge
<1>3. budget' \in Budgets /\ budget'.crashes = budget.crashes /\ mishap' \in BOOLEAN
  BY WorkerFacts DEF AgentSettles
<1> HIDE DEF t
<1> QED
  BY <1>1, <1>2, <1>3, SettleOK, TurnEndsKeeps DEF t

-----------------------------------------------------------------------------
(* The worker reads a frame.                                               *)

LEMMA ToWorkerFields ==
  ASSUME NEW f \in ToWorker
  PROVE  /\ f.event.type \in {"begin", "begin_acceptance_observed"} =>
              f.event.instruction \in StartInstruction
         /\ f.event.type = "delivery_generation_update" =>
              f.event.generation \in Nat \ {0} /\ f.event.dispatcher \in Dispatcher
         /\ f.event.type = "ack" => f.event.proof \in Result
  BY DEF ToWorker

\* What the bridge has read of a chunk is true of what is on disk.
ReceptionTrue(r) ==
  /\ r.start # None /\ r.start.status \in {"accepted", "duplicate"} =>
       stored.acceptance = r.start.instruction
  /\ Faithful(r.observed)
  /\ r.update # None =>
       /\ Faithful(r.update.instruction)
       /\ r.update.acceptance = "not_accepted" => Refused(r.update.generation)

LEMMA ReceptionStays ==
  ASSUME SessionIInv, StoreMoves
  PROVE  \A r : r = reception => ReceptionTrue(r)'
<1>1. ReceptionTrue(reception)
  BY DEF SessionIInv, WorkerFaithful, UpdateIsTrue, ReceptionTrue
<1>2. ASSUME reception.update # None
      PROVE  reception.update.generation \in Nat
  BY <1>2, WorkerFacts DEF Receptions
<1>3. ASSUME reception.start # None, reception.start.status \in {"accepted", "duplicate"}
      PROVE  stored'.acceptance = reception.start.instruction
  <2>1. stored.acceptance = reception.start.instruction /\ stored.acceptance # None
    BY <1>1, <1>3, ReceptionFields DEF ReceptionTrue
  <2> QED
    BY <2>1 DEF StoreMoves
<1> SUFFICES ASSUME NEW r, r = reception PROVE ReceptionTrue(r)'
  OBVIOUS
<1>4. Faithful(r.observed)'
  BY <1>1, StoreKeeps DEF ReceptionTrue
<1>5. ASSUME r.update # None
      PROVE  /\ Faithful(r.update.instruction)'
             /\ r.update.acceptance = "not_accepted" => Refused(r.update.generation)'
  BY <1>1, <1>2, <1>5, StoreKeeps DEF ReceptionTrue
<1> QED
  BY <1>3, <1>4, <1>5 DEF ReceptionTrue

LEMMA ReceiveKeeps ==
  ASSUME SessionIInv, StoreMoves, Fault \/ NoFault,
         NEW type, NEW admitted \in BOOLEAN, NEW next, NEW told,
         Receive(type, admitted, next, told),
         admitted => /\ next \in WorkerProtocolPeers /\ Faithful(next.accepted)'
                     /\ next.acknowledged # None => op.result # None
                     /\ told \in Receptions /\ ReceptionTrue(told)'
                     /\ run.at \in BeforeSend /\ socket.state = "up" => told.start = None
  PROVE  SessionIInv'
<1>1. /\ socket.toWorker # <<>>
      /\ UNCHANGED <<op, run, host, heard, bridge, process>>
  BY DEF Receive, hostSide
<1>2. budget' \in Budgets /\ budget'.crashes = budget.crashes /\ mishap' \in BOOLEAN
  BY FaultTyped
<1>3. BegunOnce(bridge)'
  BY <1>1, WorkerFacts, StoreKeeps DEF BegunOnce
<1>4. CASE admitted
  <2> DEFINE r == [told EXCEPT !.active = TRUE]
             n == [socket EXCEPT !.toWorker = Tail(@)]
  <2>1. \/ ~admitted
        \/ worker' = next /\ reception' = r /\ socket' = n
    BY DEF Receive
  <2>2. worker' = next /\ reception' = r /\ socket' = n
    BY <1>4, <2>1
  <2>3. /\ r \in Receptions /\ r.start = told.start /\ r.observed = told.observed
        /\ r.update = told.update
    BY <1>4 DEF Receptions
  <2>4. Continues(socket, n, {}, {}) /\ n.state = socket.state
    BY <1>1, ReadContinues, WorkerFacts
  <2> HIDE DEF r, n
  <2>5. WorkerFaithful' /\ UpdateIsTrue'
    BY <1>4, <2>2, <2>3 DEF WorkerFaithful, UpdateIsTrue, ReceptionTrue, Faithful, Refused
  <2>6. WorkerMoves
    BY <1>1, <1>2, <1>3, <1>4, <2>2, <2>3, <2>4, <2>5, WorkerFacts DEF WorkerMoves, Faithful
  <2> QED
    BY <2>2, <2>4, <2>6, WorkerMovesKeeps
<1>5. CASE ~admitted
  <2> DEFINE w == [worker EXCEPT !.state = "failed"]
  <2>1. \/ admitted
        \/ worker' = w /\ reception' = NoReception /\ socket' = WorkerCloses(socket)
    BY DEF Receive
  <2>2. worker' = w /\ reception' = NoReception /\ socket' = WorkerCloses(socket)
    BY <1>5, <2>1
  <2>3. w \in WorkerProtocolPeers /\ w.accepted = worker.accepted
        /\ w.acknowledged = worker.acknowledged
    BY WorkerFacts DEF WorkerProtocolPeers
  <2> HIDE DEF w
  <2>4. Continues(socket, socket', {}, {}) /\ socket'.state # "up"
    BY <2>2, WorkerClosesContinues, WorkerFacts
  <2>5. Faithful(worker.accepted)'
    <3>1. worker'.accepted = worker.accepted
      BY <2>2, <2>3
    <3>2. worker.accepted # None => stored.acceptance = worker.accepted
      BY WorkerFacts DEF Faithful
    <3> QED
      BY <3>1, <3>2 DEF Faithful, StoreMoves
  <2>6. reception'.start = None /\ reception'.observed = None /\ reception'.update = None
    BY <2>2 DEF NoReception
  <2>7. WorkerFaithful' /\ UpdateIsTrue'
    BY <2>5, <2>6 DEF WorkerFaithful, UpdateIsTrue, Faithful
  <2>8. WorkerMoves
    BY <1>1, <1>2, <1>3, <2>2, <2>3, <2>4, <2>5, <2>7, WorkerFacts, FreshTyped DEF WorkerMoves
  <2> QED
    BY <2>4, <2>8, WorkerMovesKeeps
<1> QED
  BY <1>4, <1>5

LEMMA PeerOnReception ==
  ASSUME NEW w \in WorkerProtocolPeers
  PROVE  /\ LET n == [w EXCEPT !.last = @ + 1] IN
            /\ n \in WorkerProtocolPeers /\ n.accepted = w.accepted
            /\ n.acknowledged = w.acknowledged
         /\ \A a \in [generation : Nat \ {0}, dispatcher : Dispatcher \cup {None}] :
              LET n == WithAuthority(w, a) IN
              /\ n \in WorkerProtocolPeers /\ n.accepted = w.accepted
              /\ n.acknowledged = w.acknowledged
              /\ n.generation = a.generation /\ n.dispatcher = a.dispatcher
         /\ \A i \in StartInstruction :
              LET n == [w EXCEPT !.accepted = i, !.dispatcher = i.dispatcherId, !.state = "running"] IN
              /\ n \in WorkerProtocolPeers /\ n.accepted = i
              /\ n.acknowledged = w.acknowledged
<1>1. LET n == [w EXCEPT !.last = @ + 1] IN
      /\ n \in WorkerProtocolPeers /\ n.accepted = w.accepted
      /\ n.acknowledged = w.acknowledged
  <2> DEFINE m == w.last + 1
             n == [w EXCEPT !.last = m]
  <2>1. m \in Nat
    BY WorkerFields
  <2> HIDE DEF m
  <2>2. n \in WorkerProtocolPeers /\ n.accepted = w.accepted /\ n.acknowledged = w.acknowledged
    BY <2>1 DEF WorkerProtocolPeers
  <2>3. n = [w EXCEPT !.last = @ + 1]
    BY DEF m
  <2> QED
    BY <2>2, <2>3
<1>2. ASSUME NEW a \in [generation : Nat \ {0}, dispatcher : Dispatcher \cup {None}]
      PROVE  LET n == WithAuthority(w, a) IN
             /\ n \in WorkerProtocolPeers /\ n.accepted = w.accepted
             /\ n.acknowledged = w.acknowledged
             /\ n.generation = a.generation /\ n.dispatcher = a.dispatcher
  BY DEF WithAuthority, WorkerProtocolPeers
<1>3. ASSUME NEW i \in StartInstruction
      PROVE  LET n == [w EXCEPT !.accepted = i, !.dispatcher = i.dispatcherId, !.state = "running"] IN
             /\ n \in WorkerProtocolPeers /\ n.accepted = i
             /\ n.acknowledged = w.acknowledged
  <2>1. i.dispatcherId \in Dispatcher
    BY DEF StartInstruction
  <2> QED
    BY <2>1 DEF WorkerProtocolPeers
<1> QED
  BY <1>1, <1>2, <1>3

LEMMA CountedTyped ==
  ASSUME SessionIInv
  PROVE  /\ Counted \in WorkerProtocolPeers /\ Counted.accepted = worker.accepted
         /\ Counted.acknowledged = worker.acknowledged
  BY PeerOnReception, WorkerFacts DEF Counted

\* What restoring makes of a peer whose acceptance is on disk.
LEMMA RestoredTyped ==
  ASSUME SessionIInv, NEW w \in WorkerProtocolPeers, w.accepted = worker.accepted,
         w.acknowledged = worker.acknowledged, NEW disk
  PROVE  LET n == Restored(w, Load(disk)) IN
         /\ n \in WorkerProtocolPeers /\ n.acknowledged = worker.acknowledged
         /\ n.accepted # None => n.accepted = stored.acceptance
         /\ n.accepted \in StartInstruction \cup {None}
         /\ Load(disk).known /\ n.accepted = None => stored.acceptance = None
<1> DEFINE n == Restored(w, Load(disk))
           a == stored.acceptance
           m == [w EXCEPT !.accepted = a, !.state = "running"]
<1>1. Load(disk).instruction = a
  BY DEF Load, Loaded
<1>2. a \in StartInstruction \cup {None}
  BY WorkerFacts DEF Stores
<1>3. w.accepted # None => w.accepted = a
  BY WorkerFacts DEF Faithful
<1>4. CASE w.accepted # None \/ ~Load(disk).known \/ a = None
  <2>1. n = w
    BY <1>1, <1>4 DEF Restored
  <2> QED
    BY <1>2, <1>3, <1>4, <2>1, WorkerFields
<1>5. CASE ~(w.accepted # None \/ ~Load(disk).known \/ a = None)
  <2>1. n = m
    BY <1>1, <1>5 DEF Restored
  <2>2. m \in WorkerProtocolPeers /\ m.accepted = a /\ m.acknowledged = w.acknowledged
    BY <1>2 DEF WorkerProtocolPeers
  <2> QED
    BY <1>2, <1>5, <2>1, <2>2
<1> QED
  BY <1>4, <1>5

\* The file system during a begin, and what the store and the answer then are.
LEMMA BeginStored ==
  ASSUME SessionIInv, NEW disk, NEW i \in StartInstruction, NEW w \in WorkerProtocolPeers,
         w.accepted = worker.accepted, w.acknowledged = worker.acknowledged,
         disk # "authorityUnreadable" =>
           w.generation = stored.authority.generation /\ w.dispatcher = stored.authority.dispatcher
  PROVE  LET status == BeginStatus(w, i, disk)
             next   == StoredByBegin(w, i, disk)
         IN
         /\ status \in Statuses
         /\ next \in Stores
         /\ next.authority.generation = stored.authority.generation
         /\ stored.acceptance # None => next.acceptance = stored.acceptance
         /\ stored.acceptance = None /\ next.acceptance # None =>
              next.acceptance.deliveryGeneration = stored.authority.generation
         /\ status \in {"accepted", "duplicate"} => next.acceptance = i
<1> DEFINE status == BeginStatus(w, i, disk)
           next == StoredByBegin(w, i, disk)
           works == BeginStatus(w, i, "works")
           claims == /\ works = "accepted"
                     /\ disk \notin {"authorityUnreadable", "acceptanceUnreadable"}
                     /\ w.dispatcher = None => disk # "authorityRefused"
           saved == claims /\ disk \notin {"acceptanceRefused", "acceptanceTorn"}
           known == Restored(w, Load(disk)).accepted
<1>1. status \in Statuses
  BY Zenon DEF BeginStatus, Statuses
<1>2. /\ i # None /\ i.deliveryGeneration \in Nat \ {0} /\ i.dispatcherId \in Dispatcher
  BY InstructionIsSome DEF StartInstruction
<1>3. /\ stored.acceptance \in StartInstruction \cup {None} /\ stored.torn \in BOOLEAN
      /\ stored.authority \in [generation : Nat \ {0}, dispatcher : Dispatcher \cup {None}]
  BY WorkerFacts DEF Stores
<1>4. works = "accepted" => /\ ~Stale(w, i) /\ Load("works").known
                            /\ Restored(w, Load("works")).accepted = None
  BY DEF BeginStatus
<1>5. claims => stored.acceptance = None /\ i.deliveryGeneration = stored.authority.generation
  <2> SUFFICES ASSUME claims
               PROVE  stored.acceptance = None /\ i.deliveryGeneration = stored.authority.generation
    OBVIOUS
  <2>1. stored.acceptance = None
    BY <1>4, RestoredTyped
  <2>2. i.deliveryGeneration = w.generation
    BY <1>4 DEF Stale
  <2> QED
    BY <2>1, <2>2
<1>6. /\ next.acceptance = (IF saved THEN i ELSE stored.acceptance)
      /\ next.authority = (IF claims /\ w.dispatcher = None
                             THEN [generation |-> w.generation, dispatcher |-> i.dispatcherId]
                             ELSE stored.authority)
      /\ next.torn = (stored.torn \/ (claims /\ disk = "acceptanceTorn"))
      /\ next = [authority |-> next.authority, acceptance |-> next.acceptance, torn |-> next.torn]
  BY Zenon DEF StoredByBegin
<1>7. status = "accepted" => saved
  <2> SUFFICES ASSUME status = "accepted" PROVE saved
    OBVIOUS
  <2>1. /\ disk # "authorityUnreadable" /\ disk \notin {"acceptanceRefused", "acceptanceTorn"}
        /\ w.dispatcher = None => disk # "authorityRefused"
        /\ i.workerProcessInstanceId = TheWorker /\ ~Stale(w, i) /\ known = None
        /\ Load(disk).known /\ w.state = "ready"
    BY DEF BeginStatus
  <2>2. disk # "acceptanceUnreadable" /\ Load("works") = Load(disk)
    BY <2>1 DEF Load, Loaded
  <2>3. works = "accepted"
    BY <2>1, <2>2 DEF BeginStatus
  <2> QED
    BY <2>1, <2>2, <2>3
<1>8. status = "duplicate" => stored.acceptance = i
  <2> SUFFICES ASSUME status = "duplicate" PROVE stored.acceptance = i
    OBVIOUS
  <2>1. known # None /\ known = i
    BY DEF BeginStatus
  <2> QED
    BY <2>1, RestoredTyped
<1> HIDE DEF status, next, works, claims, known
<1>9. next.authority \in [generation : Nat \ {0}, dispatcher : Dispatcher \cup {None}]
      /\ next.authority.generation = stored.authority.generation
  <2>1. CASE claims /\ w.dispatcher = None
    <3>1. next.authority = [generation |-> w.generation, dispatcher |-> i.dispatcherId]
      BY <1>6, <2>1
    <3>2. w.generation = stored.authority.generation
      BY <2>1 DEF claims
    <3> QED
      BY <1>2, <1>3, <3>1, <3>2
  <2>2. CASE ~(claims /\ w.dispatcher = None)
    BY <1>3, <1>6, <2>2
  <2> QED
    BY <2>1, <2>2
<1>10. next.acceptance \in StartInstruction \cup {None}
  BY <1>3, <1>6
<1>11. next.torn \in BOOLEAN
  BY <1>3, <1>6
<1>12. next \in Stores
  <2> DEFINE a == next.authority
             c == next.acceptance
             t == next.torn
  <2>1. next = [authority |-> a, acceptance |-> c, torn |-> t]
    BY <1>6
  <2> HIDE DEF a, c, t
  <2> QED
    BY <1>9, <1>10, <1>11, <2>1 DEF Stores, a, c, t
<1>13. stored.acceptance # None => next.acceptance = stored.acceptance
  BY <1>5, <1>6
<1>14. stored.acceptance = None /\ next.acceptance # None =>
         next.acceptance.deliveryGeneration = stored.authority.generation
  BY <1>5, <1>6
<1>15. status \in {"accepted", "duplicate"} => next.acceptance = i
  BY <1>2, <1>6, <1>7, <1>8, <1>13
<1> QED
  BY <1>1, <1>9, <1>12, <1>13, <1>14, <1>15 DEF status, next

LEMMA AfterBeginTyped ==
  ASSUME SessionIInv, NEW disk, NEW i \in StartInstruction, NEW w \in WorkerProtocolPeers,
         w.accepted = worker.accepted, w.acknowledged = worker.acknowledged
  PROVE  LET n == AfterBegin(w, i, disk) IN
         /\ n \in WorkerProtocolPeers /\ n.acknowledged = worker.acknowledged
         /\ n.accepted # None =>
              n.accepted = IF BeginStatus(w, i, disk) = "accepted" THEN i ELSE stored.acceptance
<1> DEFINE n == AfterBegin(w, i, disk)
           m == [w EXCEPT !.accepted = i, !.dispatcher = i.dispatcherId, !.state = "running"]
<1>1. /\ m \in WorkerProtocolPeers /\ m.accepted = i /\ m.acknowledged = w.acknowledged
  BY PeerOnReception
<1>2. w.accepted # None => w.accepted = stored.acceptance
  BY WorkerFacts DEF Faithful
<1>3. CASE BeginStatus(w, i, disk) = "accepted"
  <2>1. /\ disk # "authorityUnreadable"
        /\ BeginStatus(w, i, disk) \notin {"worker_mismatch", "stale_generation"}
    BY <1>3 DEF BeginStatus
  <2>2. n = m
    BY <1>3, <2>1, Zenon DEF AfterBegin
  <2> QED
    BY <1>1, <1>3, <2>2
<1>4. CASE BeginStatus(w, i, disk) # "accepted"
  <2>1. n = w \/ n = Restored(w, Load(disk))
    BY <1>4, Zenon DEF AfterBegin
  <2> QED
    BY <1>2, <1>4, <2>1, RestoredTyped
<1> QED
  BY <1>3, <1>4

LEMMA ReceiveBeginKeeps ==
  ASSUME SessionIInv, NEW disk, ReceiveBegin(disk) PROVE SessionIInv'
<1> DEFINE i == NextEvent.instruction
           w == IF disk = "authorityUnreadable" THEN Counted
                                                ELSE WithAuthority(Counted, stored.authority)
           status == BeginStatus(w, i, disk)
           start == [status |-> status, instruction |-> i]
<1>1. PICK admitted, next, told :
        /\ admitted \in BOOLEAN /\ admitted = (InSequence /\ status # "violation")
        /\ next = AfterBegin(w, i, disk)
        /\ told = [reception EXCEPT !.start = start]
  OBVIOUS
<1>2. Receive("begin", admitted, next, told)
  BY <1>1 DEF ReceiveBegin
<1>3. /\ stored' = IF InSequence THEN StoredByBegin(w, i, disk) ELSE stored
      /\ Fault \/ NoFault
  BY DEF ReceiveBegin, DiskWorks
<1>4. socket.toWorker # <<>> /\ NextEvent.type = "begin"
  BY <1>2 DEF Receive
<1>5. /\ i \in StartInstruction /\ Head(socket.toWorker) \in Carried(socket.toWorker)
  BY <1>4, ReadContinues, WorkerFacts, ToWorkerFields DEF NextEvent
<1>6. ~(run.at \in BeforeSend /\ socket.state = "up")
  BY <1>4, <1>5 DEF SessionIInv, BeginsAreSent, NextEvent
<1>7. stored.authority \in [generation : Nat \ {0}, dispatcher : Dispatcher \cup {None}]
  BY WorkerFacts DEF Stores
<1>8. /\ w \in WorkerProtocolPeers /\ w.accepted = worker.accepted
      /\ w.acknowledged = worker.acknowledged
      /\ disk # "authorityUnreadable" =>
           w.generation = stored.authority.generation /\ w.dispatcher = stored.authority.dispatcher
  <2>1. CASE disk = "authorityUnreadable"
    BY <2>1, CountedTyped
  <2>2. CASE disk # "authorityUnreadable"
    <3>1. w = WithAuthority(Counted, stored.authority)
      BY <2>2
    <3>2. Counted \in WorkerProtocolPeers
      BY CountedTyped
    <3> HIDE DEF w
    <3> QED
      BY <1>7, <2>2, <3>1, <3>2, CountedTyped, PeerOnReception
  <2> QED
    BY <2>1, <2>2
<1> HIDE DEF i, w
<1>9. /\ status \in Statuses
      /\ StoredByBegin(w, i, disk) \in Stores
      /\ StoredByBegin(w, i, disk).authority.generation = stored.authority.generation
      /\ stored.acceptance # None => StoredByBegin(w, i, disk).acceptance = stored.acceptance
      /\ stored.acceptance = None /\ StoredByBegin(w, i, disk).acceptance # None =>
           StoredByBegin(w, i, disk).acceptance.deliveryGeneration = stored.authority.generation
      /\ status \in {"accepted", "duplicate"} => StoredByBegin(w, i, disk).acceptance = i
  BY <1>5, <1>8, BeginStored
<1>10. StoreMoves
  <2>1. CASE InSequence
    <3>1. stored' = StoredByBegin(w, i, disk)
      BY <1>3, <2>1
    <3>2. stored.authority.generation \in Nat
      BY <1>7
    <3> QED
      BY <1>9, <3>1, <3>2 DEF StoreMoves
  <2>2. CASE ~InSequence
    BY <1>3, <2>2, StoreStays
  <2> QED
    BY <2>1, <2>2
<1>11. ASSUME admitted
       PROVE  /\ next \in WorkerProtocolPeers /\ Faithful(next.accepted)'
              /\ next.acknowledged # None => op.result # None
              /\ told \in Receptions /\ ReceptionTrue(told)'
  <2>1. stored' = StoredByBegin(w, i, disk)
    BY <1>1, <1>3, <1>11
  <2>2. status \in {"accepted", "duplicate"} => stored'.acceptance = i
    BY <1>9, <2>1
  <2>3. /\ next \in WorkerProtocolPeers /\ next.acknowledged = worker.acknowledged
        /\ next.accepted # None =>
             next.accepted = IF status = "accepted" THEN i ELSE stored.acceptance
    BY <1>1, <1>5, <1>8, AfterBeginTyped
  <2>4. next.accepted # None => stored'.acceptance = next.accepted
    BY <1>10, <2>2, <2>3 DEF StoreMoves
  <2>5. start \in [status : Statuses, instruction : StartInstruction]
    BY <1>5, <1>9
  <2>6. start.status = status /\ start.instruction = i
    OBVIOUS
  <2> HIDE DEF status, start
  <2>7. /\ told \in Receptions /\ told.start = start
        /\ told.observed = reception.observed /\ told.update = reception.update
    BY <1>1, <2>5, WorkerFacts DEF Receptions
  <2>8. PICK r : r = reception
    OBVIOUS
  <2>9. ReceptionTrue(r)'
    BY <1>10, <2>8, ReceptionStays
  <2>10. told.start.status \in {"accepted", "duplicate"} => stored'.acceptance = told.start.instruction
    BY <2>2, <2>6, <2>7
  <2>11. ReceptionTrue(told)'
    BY <2>7, <2>8, <2>9, <2>10 DEF ReceptionTrue
  <2> QED
    BY <2>3, <2>4, <2>7, <2>11, WorkerFacts DEF Faithful
<1> QED
  BY <1>1, <1>2, <1>3, <1>6, <1>10, <1>11, ReceiveKeeps

LEMMA ReceiveUpdateKeeps ==
  ASSUME SessionIInv, NEW disk, ReceiveUpdate(disk) PROVE SessionIInv'
<1> DEFINE e == NextEvent
           proposed == [generation |-> e.generation, dispatcher |-> e.dispatcher]
           w == Restored(Counted, Load(disk))
           update == [generation  |-> e.generation,
                      acceptance  |-> AcceptanceState(worker, Load(disk)),
                      instruction |-> WithAuthority(w, proposed).accepted]
<1>1. PICK admitted, next, told :
        /\ admitted \in BOOLEAN /\ admitted = AdmitsUpdate(e, disk)
        /\ next = WithAuthority(w, proposed)
        /\ told = [reception EXCEPT !.update = update]
  BY DEF AdmitsUpdate
<1>2. /\ Receive("delivery_generation_update", admitted, next, told)
      /\ stored' = IF admitted THEN [stored EXCEPT !.authority = proposed] ELSE stored
      /\ Fault \/ NoFault
  BY <1>1 DEF ReceiveUpdate, DiskWorks
<1>3. socket.toWorker # <<>> /\ e.type = "delivery_generation_update"
  BY <1>2 DEF Receive
<1>4. e.generation \in Nat \ {0} /\ e.dispatcher \in Dispatcher
  BY <1>3, ReadContinues, WorkerFacts, ToWorkerFields DEF NextEvent
<1>5. stored \in Stores /\ stored.authority.generation \in Nat
  BY WorkerFacts DEF Stores
<1>6. /\ proposed \in [generation : Nat \ {0}, dispatcher : Dispatcher \cup {None}]
      /\ proposed.generation = e.generation
  BY <1>4
<1>7. /\ w \in WorkerProtocolPeers /\ w.acknowledged = worker.acknowledged
      /\ w.accepted # None => w.accepted = stored.acceptance
      /\ w.accepted \in StartInstruction \cup {None}
  BY CountedTyped, RestoredTyped
<1>8. /\ update.acceptance \in AcceptanceStates
      /\ update.acceptance = "not_accepted" => stored.acceptance = None
  <2>1. /\ worker \in WorkerProtocolPeers
        /\ Load(disk).known /\ Restored(worker, Load(disk)).accepted = None =>
             stored.acceptance = None
    BY RestoredTyped, WorkerFacts
  <2> QED
    BY <2>1 DEF AcceptanceState, AcceptanceStates
<1>9. update.generation = e.generation /\ update.instruction = WithAuthority(w, proposed).accepted
  OBVIOUS
<1> HIDE DEF e, proposed, w
<1>10. /\ next \in WorkerProtocolPeers /\ next.accepted = w.accepted
       /\ next.acknowledged = w.acknowledged
  BY <1>1, <1>6, <1>7, PeerOnReception
<1>11. update \in [generation : Nat \ {0}, acceptance : AcceptanceStates,
                   instruction : StartInstruction \cup {None}]
  <2>1. WithAuthority(w, proposed).accepted = w.accepted
    BY <1>1, <1>10
  <2> QED
    BY <1>4, <1>7, <1>8, <2>1
<1> HIDE DEF update
<1>12. CASE admitted
  <2> DEFINE n == [stored EXCEPT !.authority = proposed]
  <2>1. n \in Stores /\ n.acceptance = stored.acceptance /\ n.authority = proposed
    BY <1>5, <1>6 DEF Stores
  <2>2. stored' = n
    BY <1>2, <1>12
  <2> HIDE DEF n
  <2>3. /\ stored' \in Stores /\ stored'.acceptance = stored.acceptance
        /\ stored'.authority.generation = e.generation
    BY <1>6, <2>1, <2>2
  <2>4. e.generation >= stored.authority.generation
    <3>1. AdmitsUpdate(e, disk)
      BY <1>1, <1>12
    <3> QED
      BY <1>4, <1>5, <3>1 DEF AdmitsUpdate
  <2>5. StoreMoves
    BY <2>3, <2>4 DEF StoreMoves
  <2>6. next.accepted # None => stored'.acceptance = next.accepted
    BY <1>7, <1>10, <2>3
  <2>7. /\ told \in Receptions /\ told.update = update
        /\ told.start = reception.start /\ told.observed = reception.observed
    BY <1>1, <1>11, WorkerFacts DEF Receptions
  <2>8. PICK r : r = reception
    OBVIOUS
  <2>9. ReceptionTrue(r)'
    BY <2>5, <2>8, ReceptionStays
  <2>10. /\ told.update.instruction # None => stored'.acceptance = told.update.instruction
         /\ told.update.acceptance = "not_accepted" =>
              /\ stored'.acceptance = None
              /\ stored'.authority.generation >= told.update.generation
    BY <1>1, <1>4, <1>8, <1>9, <2>3, <2>6, <2>7
  <2>11. ReceptionTrue(told)'
    BY <2>7, <2>8, <2>9, <2>10 DEF ReceptionTrue, Faithful, Refused
  <2>12. run.at \in BeforeSend /\ socket.state = "up" => told.start = None
    BY <2>7, WorkerFacts
  <2>13. Faithful(next.accepted)' /\ (next.acknowledged # None => op.result # None)
    BY <1>7, <1>10, <2>6, WorkerFacts DEF Faithful
  <2> QED
    BY <1>1, <1>2, <1>10, <2>5, <2>7, <2>11, <2>12, <2>13, ReceiveKeeps
<1>13. CASE ~admitted
  BY <1>1, <1>2, <1>13, StoreStays, ReceiveKeeps
<1> QED
  BY <1>1, <1>12, <1>13

LEMMA ReceiveObservationKeeps ==
  ASSUME SessionIInv, ReceiveObservation PROVE SessionIInv'
<1> DEFINE i == NextEvent.instruction
           w == Restored(Counted, Load("works"))
<1>1. PICK admitted, next, told :
        /\ admitted \in BOOLEAN /\ admitted = (InSequence /\ w.accepted = i)
        /\ next = w
        /\ told = [reception EXCEPT !.observed = i]
  OBVIOUS
<1>2. Receive("begin_acceptance_observed", admitted, next, told) /\ stored' = stored /\ NoFault
  BY <1>1 DEF ReceiveObservation
<1>3. socket.toWorker # <<>> /\ NextEvent.type = "begin_acceptance_observed"
  BY <1>2 DEF Receive
<1>4. i \in StartInstruction /\ i # None
  BY <1>3, ReadContinues, WorkerFacts, ToWorkerFields, InstructionIsSome DEF NextEvent
<1>5. StoreMoves
  BY <1>2, StoreStays
<1>6. /\ w \in WorkerProtocolPeers /\ w.acknowledged = worker.acknowledged
      /\ w.accepted # None => w.accepted = stored.acceptance
  BY CountedTyped, RestoredTyped
<1> HIDE DEF i, w
<1>7. /\ told \in Receptions /\ told.observed = i
      /\ told.start = reception.start /\ told.update = reception.update
  BY <1>1, <1>4, WorkerFacts DEF Receptions
<1>8. PICK r : r = reception
  OBVIOUS
<1>9. ReceptionTrue(r)'
  BY <1>5, <1>8, ReceptionStays
<1>10. ASSUME admitted PROVE ReceptionTrue(told)'
  <2>1. stored'.acceptance = told.observed
    BY <1>1, <1>2, <1>4, <1>6, <1>7, <1>10
  <2> QED
    BY <1>7, <1>8, <1>9, <2>1 DEF ReceptionTrue, Faithful
<1>11. Faithful(next.accepted)' /\ (next.acknowledged # None => op.result # None)
  BY <1>1, <1>2, <1>6, WorkerFacts DEF Faithful
<1>12. run.at \in BeforeSend /\ socket.state = "up" => told.start = None
  BY <1>7, WorkerFacts
<1> QED
  BY <1>1, <1>2, <1>5, <1>6, <1>7, <1>10, <1>11, <1>12, ReceiveKeeps

LEMMA ReceiveCancelKeeps ==
  ASSUME SessionIInv, ReceiveCancel PROVE SessionIInv'
<1>1. PICK admitted, next, told :
        /\ admitted \in BOOLEAN /\ admitted = (InSequence /\ MayCancel(worker, NextEvent))
        /\ next = [Counted EXCEPT !.state = "cancelling"]
        /\ told = [reception EXCEPT !.cancel = TRUE]
  OBVIOUS
<1>2. Receive("cancel", admitted, next, told) /\ stored' = stored /\ NoFault
  BY <1>1 DEF ReceiveCancel
<1>3. StoreMoves
  BY <1>2, StoreStays
<1>4. Counted \in WorkerProtocolPeers
  BY CountedTyped
<1>5. /\ next \in WorkerProtocolPeers /\ next.accepted = Counted.accepted
      /\ next.acknowledged = Counted.acknowledged
  BY <1>1, <1>4 DEF WorkerProtocolPeers
<1>6. Faithful(next.accepted)' /\ (next.acknowledged # None => op.result # None)
  BY <1>2, <1>5, CountedTyped, WorkerFacts DEF Faithful
<1>7. /\ told \in Receptions /\ told.start = reception.start
      /\ told.observed = reception.observed /\ told.update = reception.update
  BY <1>1, WorkerFacts DEF Receptions
<1>8. PICK r : r = reception
  OBVIOUS
<1>9. ReceptionTrue(r)'
  BY <1>3, <1>8, ReceptionStays
<1>10. ReceptionTrue(told)'
  BY <1>7, <1>8, <1>9 DEF ReceptionTrue
<1>11. run.at \in BeforeSend /\ socket.state = "up" => told.start = None
  BY <1>7, WorkerFacts
<1> QED
  BY <1>1, <1>2, <1>3, <1>5, <1>6, <1>7, <1>10, <1>11, ReceiveKeeps

LEMMA ReceiveAcknowledgementKeeps ==
  ASSUME SessionIInv, ReceiveAcknowledgement PROVE SessionIInv'
<1> DEFINE proof == NextEvent.proof
<1>1. PICK admitted, next, told :
        /\ admitted \in BOOLEAN /\ admitted = AdmitsAcknowledgement(worker, proof)
        /\ next = [worker EXCEPT !.acknowledgementPending = FALSE, !.acknowledged = proof]
        /\ told = reception
  BY DEF AdmitsAcknowledgement
<1>2. Receive("ack", admitted, next, told) /\ stored' = stored /\ NoFault
  BY <1>1 DEF ReceiveAcknowledgement
<1>3. StoreMoves
  BY <1>2, StoreStays
<1>4. socket.toWorker # <<>> /\ NextEvent.type = "ack"
  BY <1>2 DEF Receive
<1>5. proof \in Result /\ Head(socket.toWorker) \in Carried(socket.toWorker)
  BY <1>4, ReadContinues, WorkerFacts, ToWorkerFields DEF NextEvent
<1>6. op.result # None
  BY <1>4, <1>5 DEF SessionIInv, AcknowledgesRecorded, NextEvent
<1> HIDE DEF proof
<1>7. next \in WorkerProtocolPeers /\ next.accepted = worker.accepted
  BY <1>1, <1>5, WorkerFacts DEF WorkerProtocolPeers
<1>8. Faithful(next.accepted)'
  BY <1>2, <1>7, WorkerFacts DEF Faithful
<1>9. ReceptionTrue(told)'
  BY <1>1, <1>3, ReceptionStays
<1>10. told \in Receptions /\ (run.at \in BeforeSend /\ socket.state = "up" => told.start = None)
  BY <1>1, WorkerFacts
<1> QED
  BY <1>1, <1>2, <1>3, <1>6, <1>7, <1>8, <1>9, <1>10, ReceiveKeeps

-----------------------------------------------------------------------------
(* The specification keeps the invariant.                                  *)

LEMMA StutterKeeps ==
  ASSUME SessionIInv, UNCHANGED vars PROVE SessionIInv'
<1>1. /\ UNCHANGED <<op, run, host, heard, worker, bridge, reception, stored>>
      /\ UNCHANGED <<socket, process, budget, mishap>>
  BY DEF vars, hostSide, workerSide
<1>2. Continues(socket, socket', {}, {})
  BY <1>1, ContinuesItself, WorkerFacts
<1>3. WorkerFaithful' /\ UpdateIsTrue' /\ BegunOnce(bridge)' /\ Faithful(worker.accepted)'
  BY <1>1, WorkerFacts DEF WorkerFaithful, UpdateIsTrue, BegunOnce, Faithful, Refused
<1>4. WorkerMoves
  BY <1>1, <1>3, StoreStays, WorkerFacts DEF WorkerMoves
<1> QED
  BY <1>2, <1>4, WorkerMovesKeeps

LEMMA RunStepKeeps ==
  ASSUME SessionIInv,
         \/ WaitForIdentification \/ WorkerIdentified \/ StartDeliveryAuthorityAcquired
         \/ StartDeliveryAuthorityRevoked \/ RequestDeliveryGenerationUpdate
         \/ CompleteDispatcherHandoff \/ StartDeliveryGenerationConfirmed
         \/ StartAcceptanceUnknown \/ CollectAcceptance \/ CollectAcknowledgement
         \/ CheckCancellation \/ StartDeliveryEntered \/ DispatchBegin
  PROVE  SessionIInv'
<1>1. CASE WaitForIdentification
  BY <1>1, WaitForIdentificationMoves, RunMovesKeeps
<1>2. CASE WorkerIdentified
  BY <1>2, FreshWorkerIdentifiedMoves, RunMovesKeeps, RecoveringWorkerIdentifiedKeeps
<1>3. CASE StartDeliveryAuthorityAcquired
  BY <1>3, StartDeliveryAuthorityAcquiredMoves, RunMovesKeeps
<1>4. CASE StartDeliveryAuthorityRevoked
  BY <1>4, StartDeliveryAuthorityRevokedMoves, RunMovesKeeps
<1>5. CASE RequestDeliveryGenerationUpdate
  BY <1>5, RequestDeliveryGenerationUpdateMoves, RunMovesKeeps
<1>6. CASE CompleteDispatcherHandoff
  BY <1>6, CompleteDispatcherHandoffMoves, RunMovesKeeps
<1>7. CASE StartDeliveryGenerationConfirmed
  BY <1>7, StartDeliveryGenerationConfirmedMoves, RunMovesKeeps
<1>8. CASE StartAcceptanceUnknown
  BY <1>8, StartAcceptanceUnknownMoves, RunMovesKeeps
<1>9. CASE CollectAcceptance
  BY <1>9, CollectAcceptanceMoves, RunMovesKeeps
<1>10. CASE CollectAcknowledgement
  BY <1>10, CollectAcknowledgementMoves, RunMovesKeeps
<1>11. CASE CheckCancellation
  BY <1>11, CheckCancellationMoves, RunMovesKeeps
<1>12. CASE StartDeliveryEntered
  BY <1>12, StartDeliveryEnteredMoves, RunMovesKeeps
<1>13. CASE DispatchBegin
  BY <1>13, DispatchBeginMoves, RunMovesKeeps
<1> QED
  BY <1>1, <1>2, <1>3, <1>4, <1>5, <1>6, <1>7, <1>8, <1>9, <1>10, <1>11, <1>12, <1>13

LEMMA LaterRunStepKeeps ==
  ASSUME SessionIInv,
         \/ StartInstructionDispatched \/ AwaitAcceptance \/ StartInstructionAccepted
         \/ SendStartAcceptanceObservation \/ AwaitAcknowledgement
         \/ StartInstructionAcknowledged \/ AwaitReception \/ OfferResult
         \/ SendAcknowledgement \/ ConfirmSuccessfulExit
         \/ RequestCancellationOfWorker \/ StopProcess
  PROVE  SessionIInv'
<1>1. CASE StartInstructionDispatched
  BY <1>1, StartInstructionDispatchedMoves, RunMovesKeeps
<1>2. CASE AwaitAcceptance \/ AwaitAcknowledgement \/ AwaitReception
  BY <1>2, AwaitsMove, RunMovesKeeps
<1>3. CASE StartInstructionAccepted
  BY <1>3, StartInstructionAcceptedMoves, RunMovesKeeps
<1>4. CASE SendStartAcceptanceObservation
  BY <1>4, SendStartAcceptanceObservationMoves, RunMovesKeeps
<1>5. CASE StartInstructionAcknowledged
  BY <1>5, StartInstructionAcknowledgedMoves, RunMovesKeeps
<1>6. CASE OfferResult
  BY <1>6, OfferResultMoves, RunMovesKeeps
<1>7. CASE SendAcknowledgement
  BY <1>7, SendAcknowledgementMoves, RunMovesKeeps
<1>8. CASE ConfirmSuccessfulExit
  BY <1>8, ConfirmSuccessfulExitMoves, RunMovesKeeps
<1>9. CASE RequestCancellationOfWorker
  BY <1>9, RequestCancellationOfWorkerMoves, RunMovesKeeps
<1>10. CASE StopProcess
  BY <1>10, StopProcessMoves, RunMovesKeeps
<1> QED
  BY <1>1, <1>2, <1>3, <1>4, <1>5, <1>6, <1>7, <1>8, <1>9, <1>10

LEMMA WorkerStepKeeps ==
  ASSUME SessionIInv, WorkerStep PROVE SessionIInv'
<1>1. CASE ConnectToHost
  BY <1>1, ConnectToHostKeeps
<1>2. CASE Identify
  BY <1>2, IdentifyKeeps
<1>3. CASE WorkerSeesEnd
  BY <1>3, WorkerSeesEndKeeps
<1>4. CASE WorkerReceives
  <2>1. ASSUME NEW disk \in Disks, ReceiveBegin(disk) PROVE SessionIInv'
    BY <2>1, ReceiveBeginKeeps
  <2>2. ASSUME NEW disk \in Disks, ReceiveUpdate(disk) PROVE SessionIInv'
    BY <2>2, ReceiveUpdateKeeps
  <2> QED
    BY <1>4, <2>1, <2>2, ReceiveObservationKeeps, ReceiveCancelKeeps, ReceiveAcknowledgementKeeps
    DEF WorkerReceives
<1>5. CASE ReceiveControl
  BY <1>5, ReceiveControlKeeps
<1>6. CASE PromptRead
  BY <1>6, PromptReadKeeps
<1>7. CASE AgentSettles
  BY <1>7, AgentSettlesKeeps
<1>8. CASE PiExits
  BY <1>8, PiExitsKeeps
<1> QED
  BY <1>1, <1>2, <1>3, <1>4, <1>5, <1>6, <1>7, <1>8 DEF WorkerStep

LEMMA NextKeeps == SessionIInv /\ [Next]_vars => SessionIInv'
<1> SUFFICES ASSUME SessionIInv, [Next]_vars PROVE SessionIInv'
  OBVIOUS
<1>1. CASE HostStep
  BY <1>1, HostReceivesKeeps, HostSeesEndKeeps, RunStepKeeps, LaterRunStepKeeps, RuntimeRecoversKeeps
  DEF HostStep
<1>2. CASE WorkerStep
  BY <1>2, WorkerStepKeeps
<1>3. CASE Cancelled
  BY <1>3, CancelledMoves, RunMovesKeeps
<1>4. CASE RuntimeDies
  BY <1>4, RuntimeDiesKeeps
<1>5. CASE WorkerDies
  BY <1>5, WorkerDiesKeeps
<1>6. CASE UNCHANGED vars
  BY <1>6, StutterKeeps
<1> QED
  BY <1>1, <1>2, <1>3, <1>4, <1>5, <1>6 DEF Next

LEMMA InitHolds == Init => SessionIInv
<1> SUFFICES ASSUME Init PROVE SessionIInv
  OBVIOUS
<1> DEFINE ws == CHOOSE w \in Workspace : TRUE
<1>1. /\ op = [Requested EXCEPT !.state = "starting", !.workerLaunched = TRUE, !.presentation = ws]
      /\ run = [at |-> "identify", recovering |-> FALSE, instruction |-> InstructionOf(1),
                cancel |-> "no"]
      /\ host = FreshHost /\ heard = FreshHeard /\ worker = FreshWorker
      /\ bridge = [agent |-> "idle", prompts |-> 0, final |-> "none", began |-> FALSE,
                   cancelled |-> FALSE, completionSent |-> FALSE, stopped |-> FALSE,
                   shutdown |-> FALSE]
      /\ reception = NoReception
      /\ stored = [acceptance |-> None, torn |-> FALSE,
                   authority |-> [generation |-> 1, dispatcher |-> None]]
      /\ socket = NoSocket /\ process = "running" /\ mishap = FALSE
      /\ budget = [faults |-> MaxFaults, crashes |-> MaxCrashes, cancels |-> MaxCancels]
  BY DEF Init
<1>2. ws \in Workspace
  BY OneOfEach
<1> HIDE DEF ws
<1>3. /\ op \in Operation /\ op.startDeliveryAuthority = None /\ op.startDeliveryHandoffs = <<>>
      /\ op.startInstructionAcceptance = None
  <2> DEFINE a == [Requested EXCEPT !.state = "starting"]
             b == [a EXCEPT !.workerLaunched = TRUE]
             Same(o) == /\ o \in Operation /\ o.startDeliveryAuthority = None
                        /\ o.startDeliveryHandoffs = <<>> /\ o.startInstructionAcceptance = None
  <2>1. Same(Requested)
    BY DEF Requested, Operation, States, OpenStates
  <2>2. Same(a)
    BY <2>1 DEF Operation, States, OpenStates
  <2>3. Same(b)
    <3> HIDE DEF a
    <3> QED
      BY <2>2, Zenon DEF Operation
  <2>4. Same([b EXCEPT !.presentation = ws])
    <3> HIDE DEF b
    <3> QED
      BY <1>2, <2>3 DEF Operation
  <2>5. op = [b EXCEPT !.presentation = ws]
    BY <1>1
  <2> QED
    BY <2>4, <2>5
<1>4. MaxCrashes \in Nat /\ 1 \in Nat \ {0} /\ 1 <= MaxCrashes + 1
  BY SessionBoundsAreNatural
<1>5. InstructionOf(1) \in StartInstruction /\ InstructionOf(1).deliveryGeneration = 1
  BY <1>4, InstructionTyped
<1>6. InstructionOf(1) # None
  BY <1>5, InstructionIsSome
<1>7. budget \in Budgets /\ budget.crashes = MaxCrashes
  BY <1>1, SessionBoundsAreNatural DEF Budgets
<1>8. SessionTypeOK
  <2>1. run \in Runs /\ bridge \in Bridges
    BY <1>1, <1>5 DEF Runs, Places, Bridges
  <2>2. stored \in Stores
    BY <1>1 DEF Stores
  <2> QED
    BY <1>1, <1>3, <1>7, <2>1, <2>2, FreshTyped DEF SessionTypeOK, Budgets
<1>9. /\ heard.open /\ heard.generation = "pending" /\ heard.acceptance = "pending" /\ heard.said = None
  BY <1>1 DEF FreshHeard
<1>10. /\ socket.state = "none" /\ socket.toHost = <<>> /\ socket.toWorker = <<>>
       /\ Carried(socket.toHost) = {} /\ Carried(socket.toWorker) = {}
  BY <1>1 DEF NoSocket, Carried
<1>11. /\ host.accepted = None /\ host.pending = 0
       /\ worker.accepted = None /\ worker.acknowledged = None
       /\ reception.start = None /\ reception.observed = None /\ reception.update = None
  BY <1>1 DEF FreshHost, FreshWorker, NoReception
<1>12. run.at = "identify" /\ ~run.recovering /\ run.instruction = InstructionOf(1)
  BY <1>1
<1>13. bridge.agent = "idle" /\ ~bridge.began /\ bridge.prompts = 0
  BY <1>1
<1>14. ConnectionIsOpen
  BY <1>10, <1>12 DEF ConnectionIsOpen
<1>15. GenerationsBounded
  BY <1>3, <1>4, <1>5, <1>6, <1>7, <1>12 DEF GenerationsBounded
<1>16. WorkerFaithful /\ UpdateIsTrue /\ BegunOnce(bridge)
  BY <1>11, <1>13 DEF WorkerFaithful, UpdateIsTrue, BegunOnce, Faithful
<1>17. FramesTrue /\ AcknowledgesRecorded
  BY <1>10, <1>11, <1>12 DEF FramesTrue, AcknowledgesRecorded
<1>18. BeginsAreSent
  BY <1>9, <1>10 DEF BeginsAreSent
<1>19. HostFaithful
  BY <1>3, <1>9, <1>11, <1>12 DEF HostFaithful, Faithful
<1>20. AnswerIsTrue
  BY <1>9, <1>11, <1>12 DEF AnswerIsTrue, AcceptanceStates
<1>21. HandoffsTrue(op)
  BY <1>3 DEF HandoffsTrue
<1> QED
  BY <1>8, <1>14, <1>15, <1>16, <1>17, <1>18, <1>19, <1>20, <1>21 DEF SessionIInv

-----------------------------------------------------------------------------
(* The theorems.                                                           *)

\* The inductive invariant holds: acceptances are on disk before anyone speaks of
\* them, and what the host and the worker hold, say and record agrees with it.
THEOREM SessionInvariant == Spec => []SessionIInv
<1>1. SessionIInv /\ [Next]_vars => SessionIInv'
  BY NextKeeps
<1> QED
  BY <1>1, InitHolds, PTL DEF Spec

\* The Operation, both peers, the bridge with its store and the frames under way
\* stay within their types over any number of connections and Runtimes.
THEOREM SessionTypeCorrect == Spec => []SessionTypeOK
<1>1. SessionIInv => SessionTypeOK
  BY DEF SessionIInv
<1> QED
  BY <1>1, SessionInvariant, PTL

\* PiWorkerBridge saves an acceptance before it answers begin_accepted: what the
\* host's peer, its record, the worker's memory and the frames under way say was
\* accepted is the one acceptance on disk.
THEOREM AcceptanceIsStoredHolds == Spec => []AcceptanceIsStored
<1>1. SessionIInv => AcceptanceIsStored
  <2> SUFFICES ASSUME SessionIInv PROVE AcceptanceIsStored
    OBVIOUS
  <2>1. \A n \in 1 .. Len(socket.toHost) : socket.toHost[n] \in Carried(socket.toHost)
    BY DEF Carried
  <2>2. \A n \in 1 .. Len(socket.toHost) :
          socket.toHost[n].event.type \in {"begin_accepted", "begin_ack"} =>
            Faithful(socket.toHost[n].event.instruction)
    BY <2>1 DEF SessionIInv, FramesTrue, Truthful
  <2> QED
    BY <2>2 DEF SessionIInv, AcceptanceIsStored, HostFaithful, WorkerFaithful
<1> QED
  BY <1>1, SessionInvariant, PTL

\* The bridge's begin gives the agent its prompt once at most, over all Runtimes
\* that deliver a start, and only for an acceptance on disk.
THEOREM StartsOnceHolds == Spec => []StartsOnce
<1>1. SessionIInv => StartsOnce
  <2> SUFFICES ASSUME SessionIInv, bridge.prompts # 0
               PROVE  bridge.prompts = 1 /\ stored.acceptance # None
    BY DEF StartsOnce
  <2>1. bridge \in Bridges /\ BegunOnce(bridge)
    BY WorkerFacts
  <2>2. bridge.prompts \in Nat /\ bridge.prompts <= 1
    BY <2>1 DEF Bridges, BegunOnce
  <2>3. bridge.began
    BY <2>1 DEF BegunOnce
  <2> QED
    BY <2>1, <2>2, <2>3 DEF BegunOnce
<1> QED
  BY <1>1, SessionInvariant, PTL

\* A worker that answered delivery_generation_update with not_accepted has the new
\* authority on disk first, and so never accepts what an older dispatcher sent.
THEOREM RefusedStaysRefusedHolds == Spec => []RefusedStaysRefused
<1>1. SessionIInv => RefusedStaysRefused
  <2> SUFFICES ASSUME SessionIInv, NEW n \in DOMAIN op.startDeliveryHandoffs,
                      op.startDeliveryHandoffs[n].acceptanceState = "not_accepted",
                      stored.acceptance # None
               PROVE  stored.acceptance.deliveryGeneration
                        >= op.startDeliveryHandoffs[n].deliveryGeneration
    BY DEF RefusedStaysRefused
  <2>1. op.startDeliveryHandoffs \in Seq(Handoff)
    BY DEF SessionIInv, SessionTypeOK, Operation
  <2>2. n \in 1 .. Len(op.startDeliveryHandoffs)
    BY <2>1
  <2> QED
    BY <2>2 DEF SessionIInv, HandoffsTrue, Refused
<1> QED
  BY <1>1, SessionInvariant, PTL

\* acceptResult is answered with an ack only once the result is on record: a worker
\* that leaves because of the ack leaves no result behind.
THEOREM AcknowledgedIsRecordedHolds == Spec => []AcknowledgedIsRecorded
<1>1. SessionIInv => AcknowledgedIsRecorded
  BY DEF SessionIInv, AcknowledgesRecorded, AcknowledgedIsRecorded
<1> QED
  BY <1>1, SessionInvariant, PTL

-----------------------------------------------------------------------------
(* The delivery of a start, as SingleStart states it.                      *)

DeliveryWaits == UNCHANGED Delivery!startVars

\* What a step that leaves the worker's side alone does to the record.
LEMMA RecordWaits ==
  ASSUME UNCHANGED workerSide,
         op'.startInstructionAcceptance = op.startInstructionAcceptance,
         op'.startDeliveryHandoffs = op.startDeliveryHandoffs
  PROVE  DeliveryWaits
<1>1. stored' = stored /\ bridge' = bridge
  BY DEF workerSide
<1>2. RecordedRefusals' = RecordedRefusals
  BY DEF RecordedRefusals
<1> QED
  BY <1>1, <1>2 DEF DeliveryWaits, Delivery!startVars

LEMMA RefusalsOf ==
  ASSUME op.startDeliveryHandoffs \in Seq(Handoff), op'.startDeliveryHandoffs \in Seq(Handoff)
  PROVE  /\ RecordedRefusals =
              {op.startDeliveryHandoffs[n].deliveryGeneration :
                 n \in {k \in 1 .. Len(op.startDeliveryHandoffs) :
                          op.startDeliveryHandoffs[k].acceptanceState = "not_accepted"}}
         /\ RecordedRefusals' =
              {op'.startDeliveryHandoffs[n].deliveryGeneration :
                 n \in {k \in 1 .. Len(op'.startDeliveryHandoffs) :
                          op'.startDeliveryHandoffs[k].acceptanceState = "not_accepted"}}
<1>1. /\ DOMAIN op.startDeliveryHandoffs = 1 .. Len(op.startDeliveryHandoffs)
      /\ DOMAIN op'.startDeliveryHandoffs = 1 .. Len(op'.startDeliveryHandoffs)
  OBVIOUS
<1> QED
  BY <1>1 DEF RecordedRefusals

\* An acceptance is recorded.
LEMMA AcceptanceRecorded ==
  ASSUME SessionIInv, NEW i \in StartInstruction, Faithful(i),
         op.startInstructionAcceptance = None, op' = AcceptStart(op, i), UNCHANGED workerSide
  PROVE  Delivery!Record
<1>1. op \in Operation
  BY OpFacts
<1>2. op'.startInstructionAcceptance = i /\ op'.startDeliveryHandoffs = op.startDeliveryHandoffs
  BY <1>1, ArmsKeep DEF Kept
<1>3. stored.acceptance = i /\ i # None
  BY InstructionIsSome DEF Faithful
<1>4. stored' = stored /\ bridge' = bridge
  BY DEF workerSide
<1>5. RecordedRefusals' = RecordedRefusals
  BY <1>2 DEF RecordedRefusals
<1> QED
  BY <1>2, <1>3, <1>4, <1>5 DEF Delivery!Record

Delivers == Delivery!StartNext \/ DeliveryWaits

LEMMA RecordedOnce ==
  ASSUME SessionIInv, NEW i \in StartInstruction, Faithful(i), CanAcceptStart(op, i),
         op' = AcceptStart(op, i), UNCHANGED workerSide
  PROVE  Delivers
<1>1. CASE op.startInstructionAcceptance = None
  BY <1>1, AcceptanceRecorded DEF Delivers, Delivery!StartNext
<1>2. CASE op.startInstructionAcceptance # None
  <2>1. op.startInstructionAcceptance = stored.acceptance /\ stored.acceptance = i
    BY <1>2, OpFacts, InstructionIsSome DEF Faithful
  <2> QED
    BY <1>2, <2>1 DEF CanAcceptStart, OfGeneration
<1> QED
  BY <1>1, <1>2

\* A handoff is begun: nothing is refused by it yet.
LEMMA HandoffWaits ==
  ASSUME SessionIInv, NEW d \in Dispatcher, NEW g \in Nat \ {0},
         CanRevokeAuthority(op, d, g), op' = RevokeAuthority(op, d, g), UNCHANGED workerSide
  PROVE  DeliveryWaits
<1> DEFINE q == AppendHandoff(op, d, g)
           h == op.startDeliveryHandoffs
<1>1. op \in Operation /\ h \in Seq(Handoff)
  BY OpFacts DEF Operation
<1>2. op' = [op EXCEPT !.startDeliveryHandoffs = q]
  BY DEF RevokeAuthority
<1>3. /\ op'.startInstructionAcceptance = op.startInstructionAcceptance
      /\ op'.startDeliveryHandoffs = q
  <2> HIDE DEF q
  <2> QED
    BY <1>1, <1>2 DEF Operation
<1>4. CASE ResumesHandoff(op, d, g)
  <2>1. q = h
    BY <1>4 DEF AppendHandoff
  <2> HIDE DEF q
  <2> QED
    BY <1>3, <2>1, RecordWaits
<1>5. CASE ~ResumesHandoff(op, d, g)
  <2>1. op.startDeliveryAuthority \in StartInstruction
    BY <1>1 DEF CanRevokeAuthority, Operation
  <2>2. /\ Len(h) \in Nat /\ q \in Seq(Handoff) /\ Len(q) = Len(h) + 1
        /\ \A k \in 1..Len(h) : q[k] = h[k]
        /\ q[Len(h) + 1].acceptanceState = "pending"
    <3>1. /\ Len(h) \in Nat /\ q \in Seq(Handoff) /\ Len(q) = Len(h) + 1
          /\ \A k \in 1..Len(h) : q[k] = h[k]
          /\ q[Len(h) + 1] =
               [previousDispatcherId       |-> op.startDeliveryAuthority.dispatcherId,
                previousDeliveryGeneration |-> op.startDeliveryAuthority.deliveryGeneration,
                successorDispatcherId      |-> d,
                deliveryGeneration         |-> g,
                acceptanceState            |-> "pending"]
      BY <1>1, <1>5, <2>1, AppendKeepsHandoffs
    <3> HIDE DEF q
    <3> QED
      BY <3>1
  <2> HIDE DEF q
  <2>3. \A k \in 1 .. Len(q) : q[k].acceptanceState = "not_accepted" => k \in 1 .. Len(h)
    BY <2>2
  <2>4. RecordedRefusals' = RecordedRefusals
    <3> DEFINE a == {k \in 1 .. Len(h) : h[k].acceptanceState = "not_accepted"}
               b == {k \in 1 .. Len(q) : q[k].acceptanceState = "not_accepted"}
    <3>1. a = b
      BY <2>2, <2>3
    <3>2. \A k \in a : q[k].deliveryGeneration = h[k].deliveryGeneration
      BY <2>2
    <3>3. /\ RecordedRefusals = {h[n].deliveryGeneration : n \in a}
          /\ RecordedRefusals' = {q[n].deliveryGeneration : n \in b}
      BY <1>1, <1>3, <2>2, RefusalsOf
    <3> HIDE DEF a, b
    <3> QED
      BY <3>1, <3>2, <3>3
  <2>5. stored' = stored /\ bridge' = bridge
    BY DEF workerSide
  <2> QED
    BY <1>3, <2>4, <2>5 DEF DeliveryWaits, Delivery!startVars
<1> QED
  BY <1>4, <1>5

\* A handoff is answered: its generation is recorded as refused, or not.
LEMMA AnswerDelivers ==
  ASSUME SessionIInv, NEW s \in AcceptanceStates, NEW d, NEW g \in Nat \ {0}, NEW i,
         CanConfirmGeneration(op, d, g, s, i), s = "not_accepted" => Refused(g),
         op' = ConfirmGeneration(op, s), UNCHANGED workerSide
  PROVE  Delivers
<1> DEFINE q == AnswerLastHandoff(op, s)
           h == op.startDeliveryHandoffs
           l == Len(h)
<1>1. op \in Operation /\ h \in Seq(Handoff) /\ stored \in Stores
  BY OpFacts, WorkerFacts DEF Operation
<1>2. op' = [op EXCEPT !.startDeliveryHandoffs = q]
  BY DEF ConfirmGeneration
<1>3. /\ op'.startInstructionAcceptance = op.startInstructionAcceptance
      /\ op'.startDeliveryHandoffs = q
  <2> HIDE DEF q
  <2> QED
    BY <1>1, <1>2 DEF Operation
<1>4. HandoffPending(op) /\ LastHandoffNames(op, d, g)
  BY DEF CanConfirmGeneration
<1>5. h[l].acceptanceState = "pending" /\ h[l].deliveryGeneration = g
  BY <1>4 DEF HandoffPending, LastHandoffNames, LastHandoff
<1>6. /\ q \in Seq(Handoff) /\ Len(q) = l /\ l \in Nat \ {0}
      /\ \A k \in 1..l : k # l => q[k] = h[k]
      /\ q[l] = [h[l] EXCEPT !.acceptanceState = s] /\ h[l] \in Handoff
  BY <1>1, <1>4, AnswerKeepsHandoffs DEF HandoffPending
<1> HIDE DEF q
<1>7. q[l].acceptanceState = s /\ q[l].deliveryGeneration = g
  <2> DEFINE x == h[l]
  <2>1. x \in Handoff /\ x.deliveryGeneration = g /\ q[l] = [x EXCEPT !.acceptanceState = s]
    BY <1>5, <1>6
  <2> HIDE DEF x
  <2> QED
    BY <2>1 DEF Handoff
<1> DEFINE a == {k \in 1 .. l : h[k].acceptanceState = "not_accepted"}
           b == {k \in 1 .. l : q[k].acceptanceState = "not_accepted"}
<1>8. /\ RecordedRefusals = {h[n].deliveryGeneration : n \in a}
      /\ RecordedRefusals' = {q[n].deliveryGeneration : n \in b}
  BY <1>1, <1>3, <1>6, RefusalsOf
<1>9. l \in 1 .. l /\ l \notin a
  BY <1>5, <1>6
<1>10. \A k \in 1 .. l : k # l => q[k] = h[k]
  BY <1>6
<1>11. stored' = stored /\ bridge' = bridge
  BY DEF workerSide
<1>12. CASE s = "not_accepted"
  <2>1. b = a \cup {l}
    BY <1>7, <1>9, <1>10, <1>12
  <2>2. \A k \in a : q[k].deliveryGeneration = h[k].deliveryGeneration
    BY <1>9, <1>10
  <2>3. RecordedRefusals' = RecordedRefusals \cup {g}
    <3> HIDE DEF a, b, l, h
    <3> QED
      BY <1>7, <1>8, <2>1, <2>2
  <2>4. /\ g \in 1 .. stored.authority.generation
        /\ stored.acceptance # None => stored.acceptance.deliveryGeneration >= g
    BY <1>1, <1>12 DEF Refused, Stores
  <2>5. Delivery!RecordRefusal
    BY <1>3, <1>11, <2>3, <2>4 DEF Delivery!RecordRefusal
  <2> QED
    BY <2>5 DEF Delivers, Delivery!StartNext
<1>13. CASE s # "not_accepted"
  <2>1. b = a
    BY <1>7, <1>9, <1>10, <1>13
  <2>2. \A k \in a : q[k].deliveryGeneration = h[k].deliveryGeneration
    BY <1>9, <1>10
  <2>3. RecordedRefusals' = RecordedRefusals
    <3> HIDE DEF a, b, l, h
    <3> QED
      BY <1>8, <2>1, <2>2
  <2> QED
    BY <1>3, <1>11, <2>3 DEF Delivers, DeliveryWaits, Delivery!startVars
<1> QED
  BY <1>12, <1>13

-----------------------------------------------------------------------------
(* The steps of the host.                                                  *)

LEMMA StaysDelivers ==
  ASSUME UNCHANGED op, UNCHANGED workerSide PROVE Delivers
  BY RecordWaits DEF Delivers

LEMMA KeptDelivers ==
  ASSUME Kept(op, op'), op'.startInstructionAcceptance = op.startInstructionAcceptance,
         UNCHANGED workerSide
  PROVE  Delivers
  BY RecordWaits DEF Delivers, Kept

\* A hook delivers what its event does to the record.
LEMMA HookDelivers ==
  ASSUME NEW place, NEW can, NEW next, NEW then, Hook(place, can, next, then),
         can /\ op' = next /\ run.at = place /\ UNCHANGED workerSide => Delivers
  PROVE  Delivers
<1>1. UNCHANGED workerSide /\ run.at = place
  BY DEF Hook, rest
<1>2. (can /\ op' = next) \/ UNCHANGED op
  BY DEF Hook
<1> QED
  BY <1>1, <1>2, StaysDelivers

LEMMA QuietHostDelivers ==
  ASSUME SessionIInv,
         \/ HostReceives \/ HostSeesEnd \/ WaitForIdentification
         \/ RequestDeliveryGenerationUpdate \/ CompleteDispatcherHandoff
         \/ CheckCancellation \/ DispatchBegin \/ AwaitAcceptance
         \/ SendStartAcceptanceObservation \/ AwaitAcknowledgement \/ AwaitReception
         \/ SendAcknowledgement \/ ConfirmSuccessfulExit
         \/ RequestCancellationOfWorker \/ StopProcess \/ RuntimeRecovers \/ RuntimeDies
  PROVE  Delivers
<1>1. UNCHANGED op /\ UNCHANGED workerSide
  BY Zenon DEF HostReceives, HostSeesEnd, WaitForIdentification, RequestDeliveryGenerationUpdate,
     CompleteDispatcherHandoff, CheckCancellation, DispatchBegin, AwaitAcceptance,
     SendStartAcceptanceObservation, AwaitAcknowledgement, AwaitReception,
     SendAcknowledgement, ConfirmSuccessfulExit, RequestCancellationOfWorker, StopProcess,
     RuntimeRecovers, RuntimeDies, Writes, Await, rest, NoFault
<1> QED
  BY <1>1, StaysDelivers

LEMMA WorkerIdentifiedDelivers ==
  ASSUME SessionIInv, WorkerIdentified PROVE Delivers
<1>1. CASE run.recovering
  BY <1>1, StaysDelivers DEF WorkerIdentified, rest
<1>2. CASE ~run.recovering
  <2>1. Hook("identified", CanIdentifyWorker(op, op.presentation),
             IdentifyWorker(op, TheWorker), "acquire")
    BY <1>2 DEF WorkerIdentified
  <2>2. ASSUME op' = IdentifyWorker(op, TheWorker), UNCHANGED workerSide PROVE Delivers
    <3>1. op \in Operation
      BY OpFacts
    <3>2. /\ op'.startInstructionAcceptance = op.startInstructionAcceptance
          /\ op'.startDeliveryHandoffs = op.startDeliveryHandoffs
      BY <2>2, <3>1 DEF IdentifyWorker, Operation
    <3> QED
      BY <2>2, <3>2, RecordWaits DEF Delivers
  <2> QED
    BY <2>1, <2>2, HookDelivers
<1> QED
  BY <1>1, <1>2

LEMMA AuthorityDelivers ==
  ASSUME SessionIInv, StartDeliveryAuthorityAcquired \/ StartDeliveryAuthorityRevoked
  PROVE  Delivers
<1>1. op \in Operation
  BY OpFacts
<1>2. CASE StartDeliveryAuthorityAcquired
  <2>1. ASSUME op' = AcquireAuthority(op, run.instruction), UNCHANGED workerSide PROVE Delivers
    <3>1. /\ op'.startInstructionAcceptance = op.startInstructionAcceptance
          /\ op'.startDeliveryHandoffs = op.startDeliveryHandoffs
      BY <1>1, <2>1 DEF AcquireAuthority, Operation
    <3> QED
      BY <2>1, <3>1, RecordWaits DEF Delivers
  <2> QED
    BY <1>2, <2>1, HookDelivers DEF StartDeliveryAuthorityAcquired
<1>3. CASE StartDeliveryAuthorityRevoked
  <2> DEFINE d == run.instruction.dispatcherId
             g == run.instruction.deliveryGeneration
  <2>1. Hook("revoke", CanRevokeAuthority(op, d, g), RevokeAuthority(op, d, g), "announce")
    BY <1>3 DEF StartDeliveryAuthorityRevoked
  <2>2. run.at = "revoke"
    BY <2>1 DEF Hook
  <2>3. d \in Dispatcher /\ g \in Nat \ {0}
    BY <2>2, InstructionThere
  <2> HIDE DEF d, g
  <2>4. ASSUME CanRevokeAuthority(op, d, g), op' = RevokeAuthority(op, d, g), UNCHANGED workerSide
        PROVE  Delivers
    BY <2>3, <2>4, HandoffWaits DEF Delivers
  <2> QED
    BY <2>1, <2>4, HookDelivers
<1> QED
  BY <1>2, <1>3

LEMMA GenerationConfirmedDelivers ==
  ASSUME SessionIInv, StartDeliveryGenerationConfirmed PROVE Delivers
<1> DEFINE d == run.instruction.dispatcherId
           g == run.instruction.deliveryGeneration
           s == heard.generation
           can == CanConfirmGeneration(op, d, g, s, heard.said)
           next == ConfirmGeneration(op, s)
           place == CASE s = "unknown"  -> "giveUp"
                      [] s = "accepted" -> "collectAcceptance"
                      [] OTHER          -> "acquire"
<1>1. Hook("confirm", can, next, place)
  BY DEF StartDeliveryGenerationConfirmed
<1> HIDE DEF place
<1>2. run.at = "confirm"
  BY <1>1 DEF Hook
<1>3. g \in Nat \ {0}
  BY <1>2, InstructionThere
<1>4. s \in AcceptanceStates /\ (s = "not_accepted" => Refused(g))
  BY <1>2 DEF SessionIInv, AnswerIsTrue
<1>5. can /\ op' = next /\ UNCHANGED workerSide => Delivers
  <2> HIDE DEF d, g, s
  <2> QED
    BY <1>3, <1>4, AnswerDelivers
<1> HIDE DEF can, next
<1> QED
  BY <1>1, <1>5, HookDelivers

LEMMA AcceptanceDelivers ==
  ASSUME SessionIInv, CollectAcceptance \/ StartInstructionAccepted PROVE Delivers
<1>1. CASE CollectAcceptance
  <2> DEFINE known == op.startInstructionAcceptance # None
             can == known \/ CanAcceptStart(op, heard.said)
             next == IF known THEN op ELSE AcceptStart(op, heard.said)
  <2>1. Hook("collectAcceptance", can, next, "collectAcknowledgement")
    BY <1>1 DEF CollectAcceptance
  <2>2. ASSUME can, op' = next, UNCHANGED workerSide PROVE Delivers
    <3>1. CASE known
      BY <2>2, <3>1, StaysDelivers
    <3>2. CASE ~known
      <4>1. CanAcceptStart(op, heard.said) /\ op' = AcceptStart(op, heard.said)
        BY <2>2, <3>2
      <4>2. heard.said \in StartInstruction /\ Faithful(heard.said)
        BY <4>1, OpFacts DEF Hearings, CanAcceptStart
      <4> QED
        BY <2>2, <4>1, <4>2, RecordedOnce
    <3> QED
      BY <3>1, <3>2
  <2> HIDE DEF can, next
  <2> QED
    BY <2>1, <2>2, HookDelivers
<1>2. CASE StartInstructionAccepted
  <2> DEFINE i == run.instruction
  <2>1. Hook("accepted", CanAcceptStart(op, i), AcceptStart(op, i), "observe")
    BY <1>2 DEF StartInstructionAccepted
  <2>2. run.at = "accepted"
    BY <2>1 DEF Hook
  <2>3. i \in StartInstruction /\ Faithful(i)
    BY <2>2, InstructionThere DEF SessionIInv, HostFaithful
  <2> HIDE DEF i
  <2> QED
    BY <2>1, <2>3, RecordedOnce, HookDelivers
<1> QED
  BY <1>1, <1>2

LEMMA ArmsDeliver ==
  ASSUME SessionIInv,
         \/ StartAcceptanceUnknown \/ CollectAcknowledgement \/ StartDeliveryEntered
         \/ StartInstructionDispatched \/ StartInstructionAcknowledged
         \/ OfferResult \/ Cancelled
  PROVE  Delivers
<1> DEFINE i == run.instruction
<1>1. op \in Operation /\ heard \in Hearings
  BY OpFacts
<1>2. CASE StartAcceptanceUnknown
  BY <1>1, <1>2, ArmsKeep, KeptDelivers, HookDelivers DEF StartAcceptanceUnknown
<1>3. CASE CollectAcknowledgement
  <2> DEFINE known == op.startInstructionAcknowledgement # None
             can == known \/ CanAcknowledgeStart(op, heard.said)
             next == IF known THEN op ELSE AcknowledgeStart(op, heard.said)
  <2>1. Hook("collectAcknowledgement", can, next, "check")
    BY <1>3 DEF CollectAcknowledgement
  <2>2. ASSUME can, op' = next, UNCHANGED workerSide PROVE Delivers
    <3>1. CASE known
      BY <2>2, <3>1, StaysDelivers
    <3>2. CASE ~known
      <4>1. CanAcknowledgeStart(op, heard.said) /\ op' = AcknowledgeStart(op, heard.said)
        BY <2>2, <3>2
      <4>2. heard.said \in StartInstruction
        BY <1>1, <4>1 DEF Hearings, CanAcknowledgeStart
      <4> QED
        BY <1>1, <2>2, <4>1, <4>2, ArmsKeep, KeptDelivers
    <3> QED
      BY <3>1, <3>2
  <2> HIDE DEF can, next
  <2> QED
    BY <2>1, <2>2, HookDelivers
<1>4. CASE StartDeliveryEntered
  <2>1. i \in StartInstruction
    BY <1>4, InstructionThere DEF StartDeliveryEntered, Hook
  <2> QED
    BY <1>1, <1>4, <2>1, ArmsKeep, KeptDelivers, HookDelivers DEF StartDeliveryEntered
<1>5. CASE StartInstructionDispatched
  <2>1. i \in StartInstruction
    BY <1>5, InstructionThere DEF StartInstructionDispatched, Hook
  <2> QED
    BY <1>1, <1>5, <2>1, ArmsKeep, KeptDelivers, HookDelivers DEF StartInstructionDispatched
<1>6. CASE StartInstructionAcknowledged
  <2>1. i \in StartInstruction
    BY <1>6, InstructionThere DEF StartInstructionAcknowledged, Hook
  <2> QED
    BY <1>1, <1>6, <2>1, ArmsKeep, KeptDelivers, HookDelivers DEF StartInstructionAcknowledged
<1>7. CASE OfferResult
  <2>1. UNCHANGED workerSide /\ (op' = op \/ op' = AcceptResult(op, TheResult))
    BY <1>7 DEF OfferResult, rest
  <2> QED
    BY <1>1, <2>1, ArmsKeep, Chosen, KeptDelivers, StaysDelivers
<1>8. CASE Cancelled
  BY <1>1, <1>8, ArmsKeep, KeptDelivers DEF Cancelled
<1> QED
  BY <1>2, <1>3, <1>4, <1>5, <1>6, <1>7, <1>8

LEMMA HostDelivers ==
  ASSUME SessionIInv, HostStep \/ Cancelled \/ RuntimeDies PROVE Delivers
  BY QuietHostDelivers, WorkerIdentifiedDelivers, AuthorityDelivers, GenerationConfirmedDelivers,
     AcceptanceDelivers, ArmsDeliver, Zenon DEF HostStep

-----------------------------------------------------------------------------
(* The steps of the worker.                                                *)

LEMMA HostWaits ==
  ASSUME UNCHANGED hostSide
  PROVE  op' = op /\ RecordedRefusals' = RecordedRefusals
  BY DEF hostSide, RecordedRefusals

\* A turn that begins with n prompts given.
Prompts(t, n) == TurnOK(t) /\ t.bridge.prompts = n

LEMMA FlagsPrompt ==
  ASSUME NEW n, NEW t, Prompts(t, n)
  PROVE  /\ Prompts([t EXCEPT !.bridge.completionSent = TRUE], n)
         /\ Prompts([t EXCEPT !.bridge.completionSent = FALSE], n)
         /\ Prompts([t EXCEPT !.bridge.cancelled = TRUE], n)
         /\ Prompts([t EXCEPT !.bridge.stopped = TRUE], n)
         /\ Prompts([t EXCEPT !.bridge.stopped = TRUE, !.bridge.shutdown = TRUE], n)
<1> DEFINE b == t.bridge
           Same(c) == c \in Bridges /\ c.prompts = b.prompts
<1>1. TurnOK(t) /\ b \in Bridges /\ t \in Turns /\ b.prompts = n
  BY DEF Prompts, TurnOK, Turns
<1>2. /\ TurnOK([t EXCEPT !.bridge.completionSent = TRUE])
      /\ TurnOK([t EXCEPT !.bridge.completionSent = FALSE])
      /\ TurnOK([t EXCEPT !.bridge.cancelled = TRUE])
      /\ TurnOK([t EXCEPT !.bridge.stopped = TRUE])
      /\ TurnOK([t EXCEPT !.bridge.stopped = TRUE, !.bridge.shutdown = TRUE])
  BY <1>1, FlagsOK
<1>3. [t EXCEPT !.bridge.completionSent = TRUE].bridge.prompts = n
  <2>1. [b EXCEPT !.completionSent = TRUE].prompts = n
    BY <1>1, Zenon DEF Bridges
  <2> QED
    BY <1>1, <2>1, Zenon DEF Turns
<1>4. [t EXCEPT !.bridge.completionSent = FALSE].bridge.prompts = n
  <2>1. [b EXCEPT !.completionSent = FALSE].prompts = n
    BY <1>1, Zenon DEF Bridges
  <2> QED
    BY <1>1, <2>1, Zenon DEF Turns
<1>5. [t EXCEPT !.bridge.cancelled = TRUE].bridge.prompts = n
  <2>1. [b EXCEPT !.cancelled = TRUE].prompts = n
    BY <1>1, Zenon DEF Bridges
  <2> QED
    BY <1>1, <2>1, Zenon DEF Turns
<1>6. /\ [t EXCEPT !.bridge.stopped = TRUE].bridge.prompts = n
      /\ [t EXCEPT !.bridge.stopped = TRUE, !.bridge.shutdown = TRUE].bridge.prompts = n
  <2> DEFINE c == [b EXCEPT !.stopped = TRUE]
  <2>1. Same(c)
    <3>1. c \in Bridges
      BY <1>1 DEF Bridges
    <3>2. c.prompts = b.prompts
      BY <1>1, Zenon DEF Bridges
    <3> QED
      BY <3>1, <3>2
  <2>2. [t EXCEPT !.bridge.stopped = TRUE].bridge = c
    BY <1>1, Zenon DEF Turns
  <2>3. [t EXCEPT !.bridge.stopped = TRUE, !.bridge.shutdown = TRUE].bridge
          = [c EXCEPT !.shutdown = TRUE]
    BY <1>1, Zenon DEF Turns
  <2> HIDE DEF c
  <2>4. [c EXCEPT !.shutdown = TRUE].prompts = c.prompts
    BY <2>1, Zenon DEF Bridges
  <2> QED
    BY <1>1, <2>1, <2>2, <2>3, <2>4
<1> QED
  BY <1>2, <1>3, <1>4, <1>5, <1>6 DEF Prompts

LEMMA SendPrompts ==
  ASSUME NEW n, NEW t, Prompts(t, n), NEW e, Says(e) PROVE Prompts(Send(t, e), n)
  BY SendOK DEF Prompts

LEMMA SettlePrompts ==
  ASSUME NEW n, NEW t, Prompts(t, n)
  PROVE  Prompts(Stopped(t), n) /\ Prompts(Settle(t), n) /\ Prompts(FailRun(t), n)
<1> DEFINE c == [t EXCEPT !.bridge.completionSent = TRUE]
           d == [c EXCEPT !.bridge.stopped = TRUE]
           r == [type |-> "result", result |-> TheResult]
<1>1. ASSUME NEW u, Prompts(u, n) PROVE Prompts(Stopped(u), n)
  BY <1>1, FlagsPrompt DEF Stopped
<1>2. Prompts(c, n)
  BY FlagsPrompt
<1>3. Prompts(d, n)
  <2> HIDE DEF c
  <2> QED
    BY <1>2, FlagsPrompt
<1>4. \/ Settle(t) = t
      \/ Settle(t) = Stopped(Send(d, Plain("cancelled")))
      \/ Settle(t) = Send(Send(c, r), Plain("done"))
      \/ Settle(t) = Send(c, Plain("failed"))
  BY Zenon DEF Settle
<1>5. FailRun(t) = t \/ FailRun(t) = Send(c, Plain("failed"))
  BY DEF FailRun
<1> HIDE DEF c, d
<1>6. /\ Says(Plain("cancelled")) /\ Says(Plain("done")) /\ Says(Plain("failed"))
      /\ Says(r)
  BY Sayable
<1> HIDE DEF r
<1>7. Prompts(Stopped(Send(d, Plain("cancelled"))), n)
  BY <1>1, <1>3, <1>6, SendPrompts
<1>8. Prompts(Send(Send(c, r), Plain("done")), n) /\ Prompts(Send(c, Plain("failed")), n)
  BY <1>2, <1>6, SendPrompts
<1> QED
  BY <1>1, <1>4, <1>5, <1>7, <1>8

LEMMA AnswersPrompt ==
  ASSUME SessionIInv, NEW n, NEW t, Prompts(t, n)
  PROVE  /\ Prompts(AnswerUpdate(t), n) /\ Prompts(AnswerCancel(t), n)
         /\ Prompts(AnswerBegin(t), n) /\ Prompts(AnswerObservation(t), n)
<1>1. Prompts(AnswerUpdate(t), n)
  <2> DEFINE s == Send(t, UpdateAnswer(reception.update))
             c == [s EXCEPT !.bridge.completionSent = FALSE]
  <2>1. CASE reception.update = None
    BY <2>1 DEF AnswerUpdate
  <2>2. CASE reception.update # None
    <3>1. Prompts(s, n)
      BY <2>2, ReceptionFields, SendPrompts
    <3>2. AnswerUpdate(t) = s \/ AnswerUpdate(t) = Settle(c)
      BY <2>2 DEF AnswerUpdate
    <3> HIDE DEF s
    <3>3. Prompts(c, n)
      BY <3>1, FlagsPrompt
    <3> HIDE DEF c
    <3> QED
      BY <3>1, <3>2, <3>3, SettlePrompts
  <2> QED
    BY <2>1, <2>2
<1>2. Prompts(AnswerCancel(t), n)
  <2> DEFINE c == [t EXCEPT !.bridge.cancelled = TRUE]
  <2>1. Prompts(c, n)
    BY FlagsPrompt
  <2>2. AnswerCancel(t) = t \/ AnswerCancel(t) = c \/ AnswerCancel(t) = Settle(c)
    BY DEF AnswerCancel
  <2> HIDE DEF c
  <2> QED
    BY <2>1, <2>2, SettlePrompts
<1>3. ASSUME NEW e PROVE Send(t, e).bridge = t.bridge
  <2> DEFINE p == AfterSend(t.peer, e)
             z == [t EXCEPT !.peer = p].frames \o FramesOf(t.peer, e)
  <2>1. t \in Turns
    BY DEF Prompts, TurnOK
  <2>2. \/ Send(t, e) = t
        \/ Send(t, e) = [t EXCEPT !.thrown = TRUE]
        \/ Send(t, e) = [t EXCEPT !.peer = p, !.frames = z]
    <3>1. [t EXCEPT !.peer = p].frames = t.frames
      <4> HIDE DEF p
      <4> QED
        BY <2>1 DEF Turns
    <3> QED
      BY <3>1 DEF Send
  <2> HIDE DEF p, z
  <2> QED
    BY <2>1, <2>2, Zenon DEF Turns
<1>4. AnswerBegin(t).bridge = t.bridge /\ AnswerObservation(t).bridge = t.bridge
  <2> DEFINE i == reception.start.instruction
             accepted == About("begin_accepted", i)
             rejected == About("begin_rejected", i)
             observed == About("begin_ack", reception.observed)
  <2>1. /\ AnswerBegin(t) \in {t, Send(t, accepted), Send(t, rejected)}
        /\ AnswerObservation(t) \in {t, Send(t, observed)}
    BY DEF AnswerBegin, AnswerObservation
  <2> HIDE DEF accepted, rejected, observed
  <2> QED
    BY <1>3, <2>1
<1>5. Prompts(AnswerBegin(t), n) /\ Prompts(AnswerObservation(t), n)
  BY <1>4, AnswersOK DEF Prompts
<1> QED
  BY <1>1, <1>2, <1>5

LEMMA BeginRunPrompts ==
  ASSUME SessionIInv, NEW n, NEW t, Prompts(t, n) PROVE Prompts(BeginRun(t), n)
<1> DEFINE b == t.bridge
           c == [b EXCEPT !.began = TRUE, !.agent = "reading"]
<1>1. TurnOK(BeginRun(t)) /\ t \in Turns /\ b \in Bridges /\ b.prompts = n
  BY BeginRunOK DEF Prompts, TurnOK, Turns
<1>2. BeginRun(t) = t \/ BeginRun(t).bridge = c
  BY <1>1, Zenon DEF BeginRun, Turns
<1>3. c.prompts = b.prompts
  BY <1>1, Zenon DEF Bridges
<1> QED
  BY <1>1, <1>2, <1>3 DEF Prompts

LEMMA TurnPrompts ==
  ASSUME SessionIInv
  PROVE  /\ Prompts(Turn(worker), bridge.prompts)
         /\ Prompts(Turn(AfterReception(worker)), bridge.prompts)
  BY AfterReceptionOK DEF Prompts, Turn

\* The turn ends without a prompt.
LEMMA TurnDelivers ==
  ASSUME NEW t, NEW closes, TurnEnds(t, closes), t.bridge.prompts = bridge.prompts
  PROVE  Delivers
<1>1. bridge' = t.bridge /\ stored' = stored /\ UNCHANGED hostSide
  BY DEF TurnEnds
<1> QED
  BY <1>1, HostWaits DEF Delivers, DeliveryWaits, Delivery!startVars, hostSide

LEMMA ReceiveControlDelivers ==
  ASSUME SessionIInv, ReceiveControl PROVE Delivers
<1> DEFINE n  == bridge.prompts
           t0 == Turn(AfterReception(worker))
           t1 == AnswerUpdate(t0)
           t2 == AnswerCancel(t1)
           t3 == AnswerBegin(t2)
           t4 == AnswerObservation(t3)
           t  == BeginRun(t4)
           u  == IF AcknowledgementsComplete(worker) THEN Stopped(t) ELSE t
<1>1. TurnEnds(u, t.thrown)
  BY DEF ReceiveControl
<1>2. Prompts(t0, n)
  BY TurnPrompts
<1> HIDE DEF t0
<1>3. Prompts(t1, n)
  BY <1>2, AnswersPrompt
<1> HIDE DEF t1
<1>4. Prompts(t2, n)
  BY <1>3, AnswersPrompt
<1> HIDE DEF t2
<1>5. Prompts(t3, n)
  BY <1>4, AnswersPrompt
<1> HIDE DEF t3
<1>6. Prompts(t4, n)
  BY <1>5, AnswersPrompt
<1> HIDE DEF t4
<1>7. Prompts(t, n)
  BY <1>6, BeginRunPrompts
<1> HIDE DEF t
<1>8. Prompts(u, n)
  BY <1>7, SettlePrompts
<1> HIDE DEF u
<1> QED
  BY <1>1, <1>8, TurnDelivers DEF Prompts

\* The agent's bridge, with what begin and agent_settled make of it.
LEMMA AgentPrompts ==
  ASSUME SessionIInv, bridge.agent \in {"reading", "running"}
  PROVE  /\ Prompts([Turn(worker) EXCEPT !.bridge.agent = "settled"], bridge.prompts)
         /\ \A final \in {"result", "error"} :
              Prompts([Turn(worker) EXCEPT !.bridge.agent = "settled", !.bridge.final = final],
                      bridge.prompts)
<1>1. bridge \in Bridges
  BY WorkerFacts
<1>2. [Turn(worker) EXCEPT !.bridge.agent = "settled"]
        = [Turn(worker) EXCEPT !.bridge = [bridge EXCEPT !.agent = "settled"]]
  BY DEF Turn
<1>3. ASSUME NEW b \in Bridges, BegunOnce(b), b.prompts = bridge.prompts
      PROVE  Prompts([Turn(worker) EXCEPT !.bridge = b], bridge.prompts)
  BY <1>3, AfterReceptionOK, BridgeOK DEF Prompts
<1>4. [bridge EXCEPT !.agent = "settled"].prompts = bridge.prompts
  BY <1>1, Zenon DEF Bridges
<1>5. Prompts([Turn(worker) EXCEPT !.bridge.agent = "settled"], bridge.prompts)
  BY <1>2, <1>3, <1>4, AgentMoves
<1>6. ASSUME NEW final \in {"result", "error"}
      PROVE  Prompts([Turn(worker) EXCEPT !.bridge.agent = "settled", !.bridge.final = final],
                     bridge.prompts)
  <2>1. [Turn(worker) EXCEPT !.bridge.agent = "settled", !.bridge.final = final]
          = [Turn(worker) EXCEPT !.bridge = [bridge EXCEPT !.agent = "settled", !.final = final]]
    BY DEF Turn
  <2>2. [bridge EXCEPT !.agent = "settled", !.final = final].prompts = bridge.prompts
    BY <1>1, Zenon DEF Bridges
  <2> QED
    BY <1>3, <2>1, <2>2, AgentMoves
<1> QED
  BY <1>5, <1>6

LEMMA PromptReadDelivers ==
  ASSUME SessionIInv, PromptRead PROVE Delivers
<1> DEFINE settled == [Turn(worker) EXCEPT !.bridge.agent = "settled"]
           prompted == [Turn(worker) EXCEPT !.bridge.agent = "running", !.bridge.prompts = @ + 1]
<1>1. bridge.agent = "reading"
  BY DEF PromptRead
<1>2. \/ TurnEnds(Settle(settled), FALSE)
      \/ TurnEnds(prompted, FALSE)
      \/ TurnEnds(FailRun(settled), FALSE)
  BY DEF PromptRead
<1>3. Prompts(settled, bridge.prompts)
  BY <1>1, AgentPrompts
<1>4. /\ Settle(settled).bridge.prompts = bridge.prompts
      /\ FailRun(settled).bridge.prompts = bridge.prompts
  <2> HIDE DEF settled
  <2> QED
    BY <1>3, SettlePrompts DEF Prompts
<1>5. prompted.bridge.prompts = bridge.prompts + 1
  <2>1. bridge \in Bridges
    BY WorkerFacts
  <2> DEFINE b == [bridge EXCEPT !.agent = "running"]
  <2>2. b \in Bridges
    BY <2>1 DEF Bridges
  <2>3. b.prompts = bridge.prompts
    BY <2>1, Zenon DEF Bridges
  <2>4. prompted = [Turn(worker) EXCEPT !.bridge = [b EXCEPT !.prompts = b.prompts + 1]]
    BY DEF Turn
  <2> HIDE DEF b
  <2>5. [b EXCEPT !.prompts = b.prompts + 1].prompts = b.prompts + 1
    BY <2>2 DEF Bridges
  <2>6. prompted.bridge = [b EXCEPT !.prompts = b.prompts + 1]
    BY <2>4 DEF Turn
  <2> QED
    BY <2>3, <2>5, <2>6
<1> HIDE DEF settled, prompted
<1>6. CASE TurnEnds(prompted, FALSE)
  <2>1. bridge' = prompted.bridge /\ stored' = stored /\ UNCHANGED hostSide
    BY <1>6 DEF TurnEnds
  <2>2. bridge.prompts = 0
    BY <1>1, AgentMoves
  <2>3. stored.acceptance # None
    BY <1>1, WorkerFacts DEF BegunOnce
  <2> QED
    BY <1>5, <2>1, <2>2, <2>3, HostWaits DEF Delivers, Delivery!StartNext, Delivery!Prompt
<1> QED
  BY <1>2, <1>4, <1>6, TurnDelivers

LEMMA AgentSettlesDelivers ==
  ASSUME SessionIInv, AgentSettles PROVE Delivers
<1> DEFINE t(final) == [Turn(worker) EXCEPT !.bridge.agent = "settled", !.bridge.final = final]
<1>1. bridge.agent = "running"
  BY DEF AgentSettles
<1>2. PICK final \in {"result", "error"} : TurnEnds(Settle(t(final)), FALSE)
  BY DEF AgentSettles
<1>3. Prompts(t(final), bridge.prompts)
  BY <1>1, AgentPrompts
<1> HIDE DEF t
<1> QED
  BY <1>2, <1>3, SettlePrompts, TurnDelivers DEF Prompts

\* The worker takes up a start that the governing generation allows.
LEMMA ReceiveBeginDelivers ==
  ASSUME SessionIInv, NEW disk, ReceiveBegin(disk) PROVE Delivers
<1> DEFINE i == NextEvent.instruction
           w == IF disk = "authorityUnreadable" THEN Counted
                                                ELSE WithAuthority(Counted, stored.authority)
           next == StoredByBegin(w, i, disk)
<1>1. /\ stored' = IF InSequence THEN next ELSE stored
      /\ UNCHANGED <<hostSide, bridge>> /\ socket.toWorker # <<>> /\ NextEvent.type = "begin"
  BY DEF ReceiveBegin, Receive
<1>2. i \in StartInstruction
  BY <1>1, ReadContinues, WorkerFacts, ToWorkerFields DEF NextEvent
<1>3. stored.authority \in [generation : Nat \ {0}, dispatcher : Dispatcher \cup {None}]
  BY WorkerFacts DEF Stores
<1>4. /\ w \in WorkerProtocolPeers /\ w.accepted = worker.accepted
      /\ w.acknowledged = worker.acknowledged
      /\ disk # "authorityUnreadable" =>
           w.generation = stored.authority.generation /\ w.dispatcher = stored.authority.dispatcher
  <2>1. CASE disk = "authorityUnreadable"
    BY <2>1, CountedTyped
  <2>2. CASE disk # "authorityUnreadable"
    <3>1. w = WithAuthority(Counted, stored.authority)
      BY <2>2
    <3>2. Counted \in WorkerProtocolPeers
      BY CountedTyped
    <3> HIDE DEF w
    <3> QED
      BY <1>3, <2>2, <3>1, <3>2, CountedTyped, PeerOnReception
  <2> QED
    BY <2>1, <2>2
<1> HIDE DEF i, w
<1>5. /\ next.authority.generation = stored.authority.generation
      /\ stored.acceptance # None => next.acceptance = stored.acceptance
      /\ stored.acceptance = None /\ next.acceptance # None =>
           next.acceptance.deliveryGeneration = stored.authority.generation
  BY <1>2, <1>4, BeginStored
<1> HIDE DEF next
<1>6. op' = op /\ RecordedRefusals' = RecordedRefusals
  BY <1>1, HostWaits
<1>7. CASE stored.acceptance = None /\ stored'.acceptance # None
  BY <1>1, <1>5, <1>6, <1>7 DEF Delivers, Delivery!StartNext, Delivery!TakeUp
<1>8. CASE stored'.acceptance = stored.acceptance
  BY <1>1, <1>5, <1>6, <1>8 DEF Delivers, DeliveryWaits, Delivery!startVars
<1> QED
  BY <1>1, <1>5, <1>7, <1>8

\* The worker is governed by a later generation.
LEMMA ReceiveUpdateDelivers ==
  ASSUME SessionIInv, NEW disk, ReceiveUpdate(disk) PROVE Delivers
<1> DEFINE e == NextEvent
           proposed == [generation |-> e.generation, dispatcher |-> e.dispatcher]
<1>1. /\ stored' = IF AdmitsUpdate(e, disk) THEN [stored EXCEPT !.authority = proposed] ELSE stored
      /\ UNCHANGED <<hostSide, bridge>>
  BY DEF ReceiveUpdate, Receive
<1>2. op' = op /\ RecordedRefusals' = RecordedRefusals
  BY <1>1, HostWaits
<1>3. CASE ~AdmitsUpdate(e, disk)
  BY <1>1, <1>2, <1>3 DEF Delivers, DeliveryWaits, Delivery!startVars
<1>4. CASE AdmitsUpdate(e, disk)
  <2>1. proposed.generation = e.generation
    OBVIOUS
  <2>2. stored'.authority = proposed /\ stored'.acceptance = stored.acceptance
    <3> HIDE DEF proposed
    <3> QED
      BY <1>1, <1>4, WorkerFacts DEF Stores
  <2>3. e.generation = stored.authority.generation \/ e.generation > stored.authority.generation
    BY <1>4 DEF AdmitsUpdate
  <2> HIDE DEF e, proposed
  <2> QED
    BY <1>1, <1>2, <2>1, <2>2, <2>3
    DEF Delivers, DeliveryWaits, Delivery!startVars, Delivery!StartNext, Delivery!Govern
<1> QED
  BY <1>3, <1>4

LEMMA QuietWorkerDelivers ==
  ASSUME \/ ConnectToHost \/ Identify \/ WorkerSeesEnd \/ ReceiveObservation
         \/ ReceiveCancel \/ ReceiveAcknowledgement \/ PiExits \/ WorkerDies
  PROVE  Delivers
<1>1. UNCHANGED <<op, bridge, stored>>
  BY DEF ConnectToHost, Identify, WorkerSeesEnd, ReceiveObservation, ReceiveCancel,
         ReceiveAcknowledgement, PiExits, WorkerDies, Receive, hostSide, workerSide
<1>2. RecordedRefusals' = RecordedRefusals
  BY <1>1 DEF RecordedRefusals
<1> QED
  BY <1>1, <1>2 DEF Delivers, DeliveryWaits, Delivery!startVars

LEMMA NextDelivers ==
  SessionIInv /\ [Next]_vars => [Delivery!StartNext]_(Delivery!startVars)
<1> SUFFICES ASSUME SessionIInv, [Next]_vars PROVE Delivers
  BY DEF Delivers, DeliveryWaits
<1>1. CASE HostStep \/ Cancelled \/ RuntimeDies
  BY <1>1, HostDelivers
<1>2. CASE WorkerStep
  <2>1. CASE WorkerReceives
    <3>1. ASSUME NEW disk \in Disks, ReceiveBegin(disk) PROVE Delivers
      BY <3>1, ReceiveBeginDelivers
    <3>2. ASSUME NEW disk \in Disks, ReceiveUpdate(disk) PROVE Delivers
      BY <3>2, ReceiveUpdateDelivers
    <3> QED
      BY <2>1, <3>1, <3>2, QuietWorkerDelivers DEF WorkerReceives
  <2> QED
    BY <1>2, <2>1, QuietWorkerDelivers, ReceiveControlDelivers, PromptReadDelivers,
       AgentSettlesDelivers DEF WorkerStep
<1>3. CASE WorkerDies
  BY <1>3, QuietWorkerDelivers
<1>4. CASE UNCHANGED vars
  BY <1>4, StaysDelivers DEF vars, hostSide
<1> QED
  BY <1>1, <1>2, <1>3, <1>4 DEF Next

\* PiWorkerBridge and the runs of visible-worker.ts that succeed one another deliver
\* a start as SingleStart promises: one instruction is taken up, by the generation
\* that governs then, prompted once and recorded as it was taken up, and a generation
\* that is on record as refused is followed by no older start.
THEOREM WorkerSessionImplements == Spec => ImplementsSingleStart
<1>1. Init => Delivery!StartInit
  <2> SUFFICES ASSUME Init PROVE Delivery!StartInit
    OBVIOUS
  <2>1. /\ stored.authority.generation = 1 /\ stored.acceptance = None
        /\ bridge.prompts = 0
    BY DEF Init
  <2>2. op.startInstructionAcceptance = None /\ op.startDeliveryHandoffs = <<>>
    BY DEF Init, Requested
  <2>3. RecordedRefusals = {}
    BY <2>2 DEF RecordedRefusals
  <2> QED
    BY <2>1, <2>2, <2>3 DEF Delivery!StartInit
<1>2. SessionIInv /\ [Next]_vars => [Delivery!StartNext]_(Delivery!startVars)
  BY NextDelivers
<1> QED
  BY <1>1, <1>2, SessionInvariant, PTL DEF Spec, ImplementsSingleStart, Delivery!StartSpec

=============================================================================
