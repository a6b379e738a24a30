--------------------------- MODULE RuntimeProofs ---------------------------
(* Theorems about Runtime, for any number of failures and deaths, of        *)
(* generations, dispatchers and workers.                                    *)
(*                                                                          *)
(* Every function goes on with the Operation it was last given, while the   *)
(* others record events; what it has checked before an await need no        *)
(* longer be so after it.  The invariant says, place by place, what is      *)
(* still so: the record has only gone on (Follows), evidence that the       *)
(* worker has stopped speaks of a worker that was launched, and is never    *)
(* launched again (StopEvidenceTrue), and before dispatchBegin no start     *)
(* instruction is on its way or taken up (Unsent).                          *)
EXTENDS Runtime, OperationReducerProofs

-----------------------------------------------------------------------------
(* The inductive invariant.                                                *)

\* What the arms of the reducer keep of an Operation.
Sound(o) ==
  /\ o.workerIdentity # None => o.workerLaunched
  /\ o.workerStopConfirmed => o.workerLaunched
  /\ o.presentationCleanup # None => PresentationCleanupEligible(o)

\* An Operation that events may have turned o into.
Follows(o, p) ==
  /\ o.workerLaunched => p.workerLaunched
  /\ o.workerIdentity # None => p.workerIdentity # None
  /\ Terminal(o) => p.state = o.state
  /\ o.state \notin OpenStates => p.state \notin OpenStates
  /\ o.presentationCleanup # None => p.presentationCleanup # None

Recording == op \in Operation

\* A function at a place has what the code has checked on the way there, however
\* old the Operation is that it was last given.
Placed(t) ==
  /\ seen[t] \in Operation => Recording /\ Follows(seen[t], op)
  /\ at[t] \notin {"idle", "cleanups"} => Recording
  /\ at[t] = "cleanups" => t = "recoverWorkers"
  /\ at[t] \in {"recover", "request"} => seen[t] \in Operation
  /\ at[t] = "acknowledgeCancel" => memory.cancelEvidence
  /\ at[t] \in SettlePlaces \cup {"cleaned"} =>
       seen[t] \in Operation /\ Terminal(op) /\ seen[t].state = op.state
  /\ at[t] = "readResult" => op.state = "completed"
  /\ at[t] \in {"inspect", "close", "recordClose", "unconfirm"} =>
       op.presentationCleanup # None
  /\ t \in CancellationRecovery \cup {"recoverCleanups"} /\ at[t] # "idle" =>
       op.state \notin OpenStates

\* No instruction is on its way, and the worker has accepted none.
Unsent == sent = None /\ began = None

BeforeLaunch == {"present", "own", "start", "launch", "launched"}

BeforeSend ==
  BeforeLaunch \cup {"identify", "identified", "acquire", "reacquire", "enter", "send"}

WithInstruction ==
  {"check", "enter", "send", "dispatch", "awaitAcceptance", "accepted",
   "awaitAcknowledgement", "acknowledged", "revoke", "announce", "confirmGeneration",
   "giveUpStart", "collectAcceptance", "collectAcknowledgement", "reacquire"}

\* What a run of the worker knows where it stands.
RunPlaced ==
  LET here == at["execute"] IN
  /\ here \in BeforeLaunch => Recording /\ ~op.workerLaunched
  /\ here = "identify" => op.workerLaunched
  /\ here \in BeforeSend => Unsent
  /\ here = "check" /\ run.acceptance # "accepted" => Unsent
  /\ here = "confirmGeneration" =>
       run.acceptance \in Answers /\ (run.acceptance = "not_accepted" => Unsent)
  /\ here \in {"collectAcceptance", "collectAcknowledgement"} => run.acceptance = "accepted"
  /\ here \in WithInstruction => run.instruction \in StartInstruction
  /\ here = "confirmExit" => memory.observedOutcome.exit

\* Whatever says that the worker has stopped, the record included, is right, and
\* speaks of a worker that was launched: it is not started again.
StopEvidenceTrue ==
  /\ memory.known => Recording /\ op.workerLaunched
  /\ \/ memory.observedOutcome.exit
     \/ memory.cancelEvidence
     \/ Recording /\ op.workerStopConfirmed
     => Recording /\ op.workerLaunched /\ process # "running"

NothingBeforeRecord ==
  ~Recording => Unsent /\ ~memory.handle /\ ~memory.recoverable

ClosedAfterCleanup ==
  workspace = "closed" => Recording /\ op.presentationCleanup # None

ToldWhatIsRecorded ==
  /\ answer \in TerminalStates => Recording /\ op.state = answer
  /\ reply \in TerminalStates => Recording /\ op.state = reply

\* A recovery that meets the run of an open Operation finds it busy, and is not
\* in the midst of settling the Operation itself.
RunIsBusy ==
  Recording /\ op.state \in OpenStates /\ at["execute"] # "idle" =>
    /\ Busy(memory)
    /\ at["recoverWorkers"] \in {"idle", "recover", "cleanups", "cleaning"}

RuntimeIInv ==
  /\ RuntimeTypeOK
  /\ Recording => Sound(op)
  /\ \A t \in Thread : Placed(t)
  /\ RunPlaced
  /\ StopEvidenceTrue /\ NothingBeforeRecord /\ ClosedAfterCleanup
  /\ ToldWhatIsRecorded /\ RunIsBusy

-----------------------------------------------------------------------------
(* What the arms of the reducer do to a sound Operation.                   *)

\* p is a sound Operation that o may turn into.
Moves(o, p) == p \in Operation /\ Sound(p) /\ Follows(o, p)

\* The event between them tells nothing of the worker's process.
SaysNothingOfWorker(o, p) ==
  p.workerLaunched = o.workerLaunched /\ p.workerStopConfirmed = o.workerStopConfirmed

Mild(o, p) == Moves(o, p) /\ SaysNothingOfWorker(o, p)

LEMMA FollowsItself ==
  ASSUME NEW o PROVE Follows(o, o)
  BY DEF Follows

LEMMA FollowsOn ==
  ASSUME NEW o, NEW p, NEW q, Follows(o, p), Follows(p, q)
  PROVE  Follows(o, q)
  BY DEF Follows, Terminal, TerminalStates, OpenStates

LEMMA RequestedSound == Requested \in Operation /\ Sound(Requested)
  BY RequestedTyped DEF Requested, Sound

LEMMA StateArmsMild ==
  ASSUME NEW o \in Operation, Sound(o)
  PROVE  /\ CanStart(o) => Mild(o, Start(o))
         /\ CanComplete(o) => Mild(o, Complete(o)) /\ Terminal(Complete(o))
         /\ CanFail(o) => Mild(o, Fail(o)) /\ Terminal(Fail(o))
         /\ \A e : CanCancel(o, e) => Mild(o, Cancel(o)) /\ Terminal(Cancel(o))
         /\ \A r, e : CanGiveUp(o, r, e) => Mild(o, GiveUp(o)) /\ Terminal(GiveUp(o))
<1> DEFINE p(s) == [o EXCEPT !.state = s]
<1>1. ASSUME NEW s \in States
      PROVE  /\ p(s).state = s
             /\ p(s).workerIdentity = o.workerIdentity
             /\ p(s).workerLaunched = o.workerLaunched
             /\ p(s).workerStopConfirmed = o.workerStopConfirmed
             /\ p(s).presentationCleanup = o.presentationCleanup
             /\ p(s) \in Operation
  BY WithState, SMT DEF Operation
<1>2. ASSUME NEW s \in States, ~Terminal(o), s \in OpenStates => o.state \in OpenStates
      PROVE  Mild(o, p(s))
  <2>1. o.presentationCleanup = None
    BY <1>2 DEF Sound, PresentationCleanupEligible, Terminal, TerminalStates
  <2> HIDE DEF p
  <2> QED
    BY <1>1, <1>2, <2>1
    DEF Mild, Moves, SaysNothingOfWorker, Sound, Follows
<1>3. CanStart(o) => Mild(o, Start(o))
  BY <1>2 DEF CanStart, Start, Terminal, TerminalStates, OpenStates, States
<1>4. CanComplete(o) => Mild(o, Complete(o)) /\ Terminal(Complete(o))
  BY <1>1, <1>2 DEF CanComplete, Complete, Terminal, TerminalStates, OpenStates, States
<1>5. CanFail(o) => Mild(o, Fail(o)) /\ Terminal(Fail(o))
  BY <1>1, <1>2 DEF CanFail, Starting, Fail, Terminal, TerminalStates, OpenStates, States
<1>6. ASSUME NEW e, CanCancel(o, e) PROVE Mild(o, Cancel(o)) /\ Terminal(Cancel(o))
  BY <1>1, <1>2, <1>6
  DEF CanCancel, OfCancellation, Cancel, Terminal, TerminalStates, OpenStates, States
<1>7. ASSUME NEW r, NEW e, CanGiveUp(o, r, e) PROVE Mild(o, GiveUp(o)) /\ Terminal(GiveUp(o))
  BY <1>1, <1>2, <1>7
  DEF CanGiveUp, OfCancellation, GiveUp, Terminal, TerminalStates, OpenStates, States
<1> QED
  BY <1>3, <1>4, <1>5, <1>6, <1>7

LEMMA RequestCancellationMild ==
  ASSUME NEW o \in Operation, Sound(o), NEW e \in Nat, CanRequestCancellation(o, e)
  PROVE  Mild(o, RequestCancellation(o, e)) /\ RequestCancellation(o, e).state = "cancelling"
<1> DEFINE p == RequestCancellation(o, e)
<1>1. /\ p.state = "cancelling"
      /\ p.workerIdentity = o.workerIdentity
      /\ p.workerLaunched = o.workerLaunched
      /\ p.workerStopConfirmed = o.workerStopConfirmed
      /\ p.presentationCleanup = o.presentationCleanup
  BY SMT DEF RequestCancellation, Operation
<1>2. p \in Operation
  BY RequestCancellationTyped
<1>3. o.state \in OpenStates /\ ~Terminal(o) /\ o.presentationCleanup = None
  BY DEF CanRequestCancellation, Sound, PresentationCleanupEligible, Terminal,
         TerminalStates, OpenStates
<1>4. "cancelling" \notin OpenStates
  BY DEF OpenStates
<1> HIDE DEF p
<1>5. Mild(o, p)
  BY <1>1, <1>2, <1>3, <1>4 DEF Mild, Moves, SaysNothingOfWorker, Sound, Follows
<1> QED
  BY <1>1, <1>5 DEF p

\* Arms that write one field of a starting or running Operation.
LEMMA FieldMild ==
  ASSUME NEW o \in Operation, Sound(o), ~Terminal(o),
         NEW p \in Operation,
         p.state = o.state, p.workerLaunched = o.workerLaunched,
         p.workerStopConfirmed = o.workerStopConfirmed,
         p.presentationCleanup = o.presentationCleanup,
         p.workerIdentity = o.workerIdentity
           \/ (o.workerLaunched /\ p.workerIdentity # None)
  PROVE  Mild(o, p)
<1>1. o.presentationCleanup = None
  BY DEF Sound, PresentationCleanupEligible, Terminal, TerminalStates
<1> QED
  BY <1>1 DEF Mild, Moves, SaysNothingOfWorker, Sound, Follows

LEMMA ValueArmsMild ==
  ASSUME NEW o \in Operation, Sound(o)
  PROVE  /\ \A w \in Workspace : CanOwnPresentation(o) => Mild(o, OwnPresentation(o, w))
         /\ \A w \in Worker : \A x : CanIdentifyWorker(o, x) => Mild(o, IdentifyWorker(o, w))
         /\ \A r \in Result : CanAcceptResult(o) => Mild(o, AcceptResult(o, r))
         /\ CanSettleAgent(o) => Mild(o, SettleAgent(o))
<1>1. ASSUME NEW w \in Workspace, CanOwnPresentation(o) PROVE Mild(o, OwnPresentation(o, w))
  <2> DEFINE p == OwnPresentation(o, w)
  <2>1. p \in Operation
    BY ValueArmsTyped
  <2>2. /\ p.state = o.state /\ p.workerLaunched = o.workerLaunched
        /\ p.workerStopConfirmed = o.workerStopConfirmed
        /\ p.presentationCleanup = o.presentationCleanup
        /\ p.workerIdentity = o.workerIdentity
    BY SMT DEF OwnPresentation, Operation
  <2>3. ~Terminal(o)
    BY <1>1 DEF CanOwnPresentation, Terminal, TerminalStates
  <2> HIDE DEF p
  <2>9. Mild(o, p)
    BY <2>1, <2>2, <2>3, FieldMild
  <2> QED
    BY <2>9 DEF p
<1>2. ASSUME NEW w \in Worker, NEW x, CanIdentifyWorker(o, x)
      PROVE  Mild(o, IdentifyWorker(o, w))
  <2> DEFINE p == IdentifyWorker(o, w)
  <2>1. p \in Operation
    BY ValueArmsTyped
  <2>2. /\ p.state = o.state /\ p.workerLaunched = o.workerLaunched
        /\ p.workerStopConfirmed = o.workerStopConfirmed
        /\ p.presentationCleanup = o.presentationCleanup
        /\ p.workerIdentity = w
    BY SMT DEF IdentifyWorker, Operation
  <2>3. ~Terminal(o) /\ o.workerLaunched
    BY <1>2 DEF CanIdentifyWorker, Starting, Terminal, TerminalStates
  <2>4. w # None
    BY NoneIsNoValue
  <2> HIDE DEF p
  <2>9. Mild(o, p)
    BY <2>1, <2>2, <2>3, <2>4, FieldMild
  <2> QED
    BY <2>9 DEF p
<1>3. ASSUME NEW r \in Result, CanAcceptResult(o) PROVE Mild(o, AcceptResult(o, r))
  <2> DEFINE p == AcceptResult(o, r)
  <2>1. p \in Operation
    BY ValueArmsTyped
  <2>2. /\ p.state = o.state /\ p.workerLaunched = o.workerLaunched
        /\ p.workerStopConfirmed = o.workerStopConfirmed
        /\ p.presentationCleanup = o.presentationCleanup
        /\ p.workerIdentity = o.workerIdentity
    BY SMT DEF AcceptResult, Operation
  <2>3. ~Terminal(o)
    BY <1>3 DEF CanAcceptResult, Terminal, TerminalStates
  <2> HIDE DEF p
  <2>9. Mild(o, p)
    BY <2>1, <2>2, <2>3, FieldMild
  <2> QED
    BY <2>9 DEF p
<1>4. ASSUME CanSettleAgent(o) PROVE Mild(o, SettleAgent(o))
  <2> DEFINE p == SettleAgent(o)
  <2>1. p \in Operation
    BY FlagArmsTyped
  <2>2. /\ p.state = o.state /\ p.workerLaunched = o.workerLaunched
        /\ p.workerStopConfirmed = o.workerStopConfirmed
        /\ p.presentationCleanup = o.presentationCleanup
        /\ p.workerIdentity = o.workerIdentity
    BY SMT DEF SettleAgent, Operation
  <2>3. ~Terminal(o)
    BY <1>4 DEF CanSettleAgent, Terminal, TerminalStates
  <2> HIDE DEF p
  <2>9. Mild(o, p)
    BY <2>1, <2>2, <2>3, FieldMild
  <2> QED
    BY <2>9 DEF p
<1> QED
  BY <1>1, <1>2, <1>3, <1>4

LEMMA InstructionArmsMild ==
  ASSUME NEW o \in Operation, Sound(o), NEW i \in StartInstruction
  PROVE  /\ CanAcquireAuthority(o, i) => Mild(o, AcquireAuthority(o, i))
         /\ CanEnterDelivery(o, i) => Mild(o, EnterDelivery(o, i))
         /\ CanDispatchStart(o, i) => Mild(o, DispatchStart(o, i))
         /\ CanAcceptStart(o, i) => Mild(o, AcceptStart(o, i))
         /\ CanAcknowledgeStart(o, i) => Mild(o, AcknowledgeStart(o, i))
<1> DEFINE Same(p) ==
      /\ p.workerLaunched = o.workerLaunched
      /\ p.workerStopConfirmed = o.workerStopConfirmed
      /\ p.presentationCleanup = o.presentationCleanup
      /\ p.workerIdentity = o.workerIdentity
<1>1. Same(AcquireAuthority(o, i)) /\ AcquireAuthority(o, i).state = o.state
  BY SMT DEF AcquireAuthority, Operation
<1>2. Same(EnterDelivery(o, i)) /\ EnterDelivery(o, i).state = o.state
  BY SMT DEF EnterDelivery, Operation
<1>3. Same(DispatchStart(o, i)) /\ DispatchStart(o, i).state = o.state
  BY SMT DEF DispatchStart, Operation
<1>4. Same(AcceptStart(o, i)) /\ AcceptStart(o, i).state = o.state
  BY SMT DEF AcceptStart, Operation
<1>5. Same(AcknowledgeStart(o, i)) /\ AcknowledgeStart(o, i).state = "running"
  BY SMT DEF AcknowledgeStart, Operation
<1>6. CanAcquireAuthority(o, i) => Mild(o, AcquireAuthority(o, i))
  <2> SUFFICES ASSUME CanAcquireAuthority(o, i) PROVE Mild(o, AcquireAuthority(o, i))
    OBVIOUS
  <2>1. ~Terminal(o)
    BY DEF CanAcquireAuthority, Starting, Terminal, TerminalStates
  <2> QED
    BY <1>1, <2>1, FieldMild, InstructionArmsTyped
<1>7. CanEnterDelivery(o, i) => Mild(o, EnterDelivery(o, i))
  <2> SUFFICES ASSUME CanEnterDelivery(o, i) PROVE Mild(o, EnterDelivery(o, i))
    OBVIOUS
  <2>1. ~Terminal(o)
    BY DEF CanEnterDelivery, Terminal, TerminalStates
  <2> QED
    BY <1>2, <2>1, FieldMild, InstructionArmsTyped
<1>8. CanDispatchStart(o, i) => Mild(o, DispatchStart(o, i))
  <2> SUFFICES ASSUME CanDispatchStart(o, i) PROVE Mild(o, DispatchStart(o, i))
    OBVIOUS
  <2>1. ~Terminal(o)
    BY DEF CanDispatchStart, Terminal, TerminalStates
  <2> QED
    BY <1>3, <2>1, FieldMild, InstructionArmsTyped
<1>9. CanAcceptStart(o, i) => Mild(o, AcceptStart(o, i))
  <2> SUFFICES ASSUME CanAcceptStart(o, i) PROVE Mild(o, AcceptStart(o, i))
    OBVIOUS
  <2>1. ~Terminal(o)
    BY DEF CanAcceptStart, Terminal, TerminalStates
  <2> QED
    BY <1>4, <2>1, FieldMild, InstructionArmsTyped
<1>10. CanAcknowledgeStart(o, i) => Mild(o, AcknowledgeStart(o, i))
  <2> SUFFICES ASSUME CanAcknowledgeStart(o, i) PROVE Mild(o, AcknowledgeStart(o, i))
    OBVIOUS
  <2>1. o.state = "starting"
    BY DEF CanAcknowledgeStart
  <2>2. o.presentationCleanup = None
    BY <2>1 DEF Sound, PresentationCleanupEligible
  <2>3. AcknowledgeStart(o, i) \in Operation
    BY InstructionArmsTyped
  <2> DEFINE p == AcknowledgeStart(o, i)
  <2>4. Same(p) /\ p.state = "running" /\ p \in Operation
    BY <1>5, <2>3
  <2> HIDE DEF p
  <2>5. Mild(o, p)
    BY <2>1, <2>2, <2>4
    DEF Mild, Moves, SaysNothingOfWorker, Sound, Follows, Terminal, TerminalStates, OpenStates
  <2> QED
    BY <2>5 DEF p
<1> QED
  BY <1>6, <1>7, <1>8, <1>9, <1>10

LEMMA HandoffArmsMild ==
  ASSUME NEW o \in Operation, Sound(o)
  PROVE  /\ \A d \in Dispatcher, g \in Nat \ {0} :
              CanRevokeAuthority(o, d, g) => Mild(o, RevokeAuthority(o, d, g))
         /\ \A d, g, i : \A s \in AcceptanceStates :
              CanConfirmGeneration(o, d, g, s, i) => Mild(o, ConfirmGeneration(o, s))
<1>1. ASSUME NEW d \in Dispatcher, NEW g \in Nat \ {0}, CanRevokeAuthority(o, d, g)
      PROVE  Mild(o, RevokeAuthority(o, d, g))
  <2> DEFINE p == RevokeAuthority(o, d, g)
  <2>1. o.startDeliveryAuthority \in StartInstruction
    BY <1>1, SMT DEF CanRevokeAuthority, Operation
  <2>2. p \in Operation
    BY <2>1, RevokeAuthorityTyped
  <2>3. /\ p.state = o.state /\ p.workerLaunched = o.workerLaunched
        /\ p.workerStopConfirmed = o.workerStopConfirmed
        /\ p.presentationCleanup = o.presentationCleanup
        /\ p.workerIdentity = o.workerIdentity
    BY SMT DEF RevokeAuthority, Operation
  <2>4. ~Terminal(o)
    BY <1>1 DEF CanRevokeAuthority, Starting, Terminal, TerminalStates
  <2> HIDE DEF p
  <2>5. Mild(o, p)
    BY <2>2, <2>3, <2>4, FieldMild
  <2> QED
    BY <2>5 DEF p
<1>2. ASSUME NEW d, NEW g, NEW i, NEW s \in AcceptanceStates,
             CanConfirmGeneration(o, d, g, s, i)
      PROVE  Mild(o, ConfirmGeneration(o, s))
  <2> DEFINE p == ConfirmGeneration(o, s)
  <2>1. HasHandoff(o)
    BY <1>2 DEF CanConfirmGeneration, HandoffPending
  <2>2. p \in Operation
    BY <2>1, ConfirmGenerationTyped
  <2>3. /\ p.state = o.state /\ p.workerLaunched = o.workerLaunched
        /\ p.workerStopConfirmed = o.workerStopConfirmed
        /\ p.presentationCleanup = o.presentationCleanup
        /\ p.workerIdentity = o.workerIdentity
    BY SMT DEF ConfirmGeneration, Operation
  <2>4. ~Terminal(o)
    BY <1>2 DEF CanConfirmGeneration, Starting, Terminal, TerminalStates
  <2> HIDE DEF p
  <2>5. Mild(o, p)
    BY <2>2, <2>3, <2>4, FieldMild
  <2> QED
    BY <2>5 DEF p
<1> QED
  BY <1>1, <1>2

LEMMA CleanupArmsMild ==
  ASSUME NEW o \in Operation, Sound(o)
  PROVE  /\ \A id \in CleanupId, w \in Workspace : CanStartCleanup(o, w) =>
              Mild(o, StartCleanup(o, id, w)) /\ StartCleanup(o, id, w).presentationCleanup # None
         /\ \A id, w : \A s \in {"completed", "unconfirmed"} : CanFinishCleanup(o, id, w) =>
              Mild(o, FinishCleanup(o, s))
<1>1. ASSUME NEW id \in CleanupId, NEW w \in Workspace, CanStartCleanup(o, w)
      PROVE  /\ Mild(o, StartCleanup(o, id, w))
             /\ StartCleanup(o, id, w).presentationCleanup # None
  <2> DEFINE p == StartCleanup(o, id, w)
             c == [cleanupId |-> id, workspaceId |-> w, state |-> "pending"]
  <2>1. p \in Operation
    BY CleanupArmsTyped
  <2>2. c \in Cleanup
    BY DEF Cleanup
  <2>3. /\ p.state = o.state /\ p.workerLaunched = o.workerLaunched
        /\ p.workerStopConfirmed = o.workerStopConfirmed
        /\ p.result = o.result
        /\ p.presentationCleanup = c
        /\ p.workerIdentity = o.workerIdentity
    BY SMT DEF StartCleanup, Operation
  <2>4. PresentationCleanupEligible(o)
    BY <1>1 DEF CanStartCleanup
  <2>5. c # None
    BY <2>2, NoneIsNoRecord
  <2> HIDE DEF p, c
  <2>6. Mild(o, p) /\ p.presentationCleanup # None
    BY <2>1, <2>3, <2>4, <2>5
    DEF Mild, Moves, SaysNothingOfWorker, Sound, Follows, PresentationCleanupEligible
  <2> QED
    BY <2>6 DEF p
<1>2. ASSUME NEW id, NEW w, NEW s \in {"completed", "unconfirmed"}, CanFinishCleanup(o, id, w)
      PROVE  Mild(o, FinishCleanup(o, s))
  <2> DEFINE p == FinishCleanup(o, s)
             c == [o.presentationCleanup EXCEPT !.state = s]
  <2>1. o.presentationCleanup # None /\ PresentationCleanupEligible(o)
    BY <1>2 DEF CanFinishCleanup
  <2>2. p \in Operation
    BY <2>1, CleanupArmsTyped
  <2>3. o.presentationCleanup \in Cleanup
    BY <2>1, SMT DEF Operation
  <2>4. c \in Cleanup
    BY <2>3, SMT DEF Cleanup
  <2>5. /\ p.state = o.state /\ p.workerLaunched = o.workerLaunched
        /\ p.workerStopConfirmed = o.workerStopConfirmed
        /\ p.result = o.result
        /\ p.presentationCleanup = c
        /\ p.workerIdentity = o.workerIdentity
    BY SMT DEF FinishCleanup, Operation
  <2>6. c # None
    BY <2>4, NoneIsNoRecord
  <2> HIDE DEF p, c
  <2>7. Mild(o, p)
    BY <2>1, <2>2, <2>5, <2>6
    DEF Mild, Moves, SaysNothingOfWorker, Sound, Follows, PresentationCleanupEligible
  <2> QED
    BY <2>7 DEF p
<1> QED
  BY <1>1, <1>2

\* The three events that tell of the worker's process.
LEMMA WorkerArmsMove ==
  ASSUME NEW o \in Operation, Sound(o)
  PROVE  /\ CanLaunchWorker(o) =>
              /\ Moves(o, LaunchWorker(o))
              /\ LaunchWorker(o).workerLaunched
              /\ LaunchWorker(o).workerStopConfirmed = o.workerStopConfirmed
         /\ CanConfirmWorkerStop(o) =>
              Moves(o, ConfirmWorkerStop(o)) /\ ConfirmWorkerStop(o).workerLaunched
         /\ o.workerLaunched /\ o.state = "cancelling" =>
              Moves(o, AcknowledgeCancel(o)) /\ AcknowledgeCancel(o).workerLaunched
         /\ ConfirmWorkerStop(o).workerLaunched = o.workerLaunched
         /\ AcknowledgeCancel(o).workerLaunched = o.workerLaunched
<1>1. /\ LaunchWorker(o) \in Operation /\ ConfirmWorkerStop(o) \in Operation
      /\ AcknowledgeCancel(o) = ConfirmWorkerStop(o)
  BY FlagArmsTyped DEF AcknowledgeCancel, ConfirmWorkerStop
<1> DEFINE l == LaunchWorker(o)
           c == ConfirmWorkerStop(o)
<1>2. /\ l.state = o.state /\ l.workerLaunched
      /\ l.workerStopConfirmed = o.workerStopConfirmed
      /\ l.presentationCleanup = o.presentationCleanup
      /\ l.workerIdentity = o.workerIdentity
  BY SMT DEF LaunchWorker, Operation
<1>3. /\ c.state = o.state /\ c.workerLaunched = o.workerLaunched
      /\ c.workerStopConfirmed
      /\ c.presentationCleanup = o.presentationCleanup
      /\ c.workerIdentity = o.workerIdentity
  BY SMT DEF ConfirmWorkerStop, Operation
<1>4. l \in Operation /\ c \in Operation
  BY <1>1
<1>5. ~Terminal(o) => o.presentationCleanup = None
  BY DEF Sound, PresentationCleanupEligible, Terminal, TerminalStates
<1> HIDE DEF l, c
<1>6. CanLaunchWorker(o) => Moves(o, l)
  BY <1>2, <1>4, <1>5 DEF CanLaunchWorker, Moves, Sound, Follows, Terminal, TerminalStates
<1>7. o.workerLaunched /\ ~Terminal(o) => Moves(o, c) /\ c.workerLaunched
  BY <1>3, <1>4, <1>5 DEF Moves, Sound, Follows
<1>8. /\ CanConfirmWorkerStop(o) => o.workerLaunched /\ ~Terminal(o)
      /\ o.state = "cancelling" => ~Terminal(o)
  BY DEF CanConfirmWorkerStop, Starting, Terminal, TerminalStates
<1> QED
  BY <1>1, <1>2, <1>3, <1>6, <1>7, <1>8 DEF l, c

-----------------------------------------------------------------------------
(* What a step keeps, by the parts of the state that it leaves alone.      *)

Memories ==
  [record : BOOLEAN, handle : BOOLEAN, worker : BOOLEAN, requested : BOOLEAN,
   known : BOOLEAN, observedOutcome : [state : OutcomeStates, exit : BOOLEAN],
   recoverable : BOOLEAN, cancelEvidence : BOOLEAN,
   workersRecovered : BOOLEAN, cleanupsRecovered : BOOLEAN]

Runs ==
  [recovering : BOOLEAN, caught : BOOLEAN,
   instruction : StartInstruction \cup {None},
   restored : StartInstruction \cup {None},
   acceptance : Answers \cup {None}]

AnswerKinds == {"pending", "error"} \cup TerminalStates
ReplyKinds   == {"none", "pending", "error"} \cup TerminalStates

\* Places at which a run has no claim to what was sent or recorded.
Outside == Places \ (BeforeSend \cup WithInstruction \cup {"confirmExit"})

\* The record stays as it is or moves on.
Goes == op' = op \/ (Recording /\ Moves(op, op'))

\* ... and tells no more of the worker than before.
GoesMildly == op' = op \/ (Recording /\ Mild(op, op'))

\* What every step is shown to do: the invariant holds after it, and an Operation
\* that is on record stays there.
Keeps == RuntimeIInv' /\ (Recording => Recording')

LEMMA MildlyGoes == GoesMildly => Goes
  BY DEF GoesMildly, Goes, Mild

LEMMA GoesOn ==
  ASSUME RuntimeIInv, Goes
  PROVE  /\ Recording => Recording' /\ Follows(op, op') /\ Sound(op')
         /\ Recording' => Recording /\ Follows(op, op') /\ Sound(op')
         /\ op' \in Operation \cup {None}
<1>1. op \in Operation \cup {None} /\ (Recording => Sound(op))
  BY DEF RuntimeIInv, RuntimeTypeOK
<1>2. CASE op' = op
  BY <1>1, <1>2, FollowsItself DEF Recording
<1>3. CASE Recording /\ Moves(op, op')
  BY <1>3 DEF Moves, Recording
<1> QED
  BY <1>2, <1>3 DEF Goes

LEMMA PlacedKept ==
  ASSUME RuntimeIInv, Goes, NEW T \in SUBSET Thread,
         \A u \in Thread \ T : at'[u] = at[u] /\ seen'[u] = seen[u],
         memory.cancelEvidence => memory'.cancelEvidence,
         \A u \in T : Placed(u)'
  PROVE  \A u \in Thread : Placed(u)'
<1> SUFFICES ASSUME NEW u \in Thread \ T PROVE Placed(u)'
  OBVIOUS
<1>1. Placed(u) /\ at'[u] = at[u] /\ seen'[u] = seen[u]
  BY DEF RuntimeIInv
<1>2. Recording => Recording' /\ Follows(op, op')
  BY GoesOn
<1>3. seen[u] \in Operation => Recording' /\ Follows(seen[u], op')
  BY <1>1, <1>2, FollowsOn DEF Placed
<1>4. at[u] \notin {"idle", "cleanups"} => Recording'
  BY <1>1, <1>2 DEF Placed
<1>5. at[u] \in SettlePlaces \cup {"cleaned"} =>
        seen[u] \in Operation /\ Terminal(op') /\ seen[u].state = op'.state
  <2>1. ASSUME at[u] \in SettlePlaces \cup {"cleaned"}
        PROVE  seen[u] \in Operation /\ Terminal(op) /\ seen[u].state = op.state /\ Recording
    BY <1>1, <2>1 DEF Placed
  <2> QED
    BY <2>1, <1>2 DEF Follows, Terminal
<1>6. at[u] = "readResult" => op'.state = "completed"
  BY <1>1, <1>2 DEF Placed, Follows, Terminal, TerminalStates
<1>7. at[u] \in {"inspect", "close", "recordClose", "unconfirm"} =>
        op'.presentationCleanup # None
  BY <1>1, <1>2 DEF Placed, Follows
<1>8. u \in CancellationRecovery \cup {"recoverCleanups"} /\ at[u] # "idle" =>
        op'.state \notin OpenStates
  <2> SUFFICES ASSUME u \in CancellationRecovery \cup {"recoverCleanups"}, at[u] # "idle"
               PROVE  op'.state \notin OpenStates
    OBVIOUS
  <2>1. op.state \notin OpenStates
    BY <1>1 DEF Placed
  <2>2. CASE Recording
    BY <1>2, <2>1, <2>2 DEF Follows
  <2>3. CASE ~Recording
    BY <2>1, <2>3 DEF Goes
  <2> QED
    BY <2>2, <2>3
<1> QED
  BY <1>1, <1>3, <1>4, <1>5, <1>6, <1>7, <1>8 DEF Placed

LEMMA PlacedKeptByOne ==
  ASSUME RuntimeIInv, Goes, NEW t \in Thread,
         \A u \in Thread \ {t} : at'[u] = at[u] /\ seen'[u] = seen[u],
         memory.cancelEvidence => memory'.cancelEvidence,
         Placed(t)'
  PROVE  \A u \in Thread : Placed(u)'
<1> DEFINE T == {t}
<1>1. T \in SUBSET Thread /\ \A u \in T : u = t
  OBVIOUS
<1>2. \A u \in T : Placed(u)'
  BY <1>1
<1>3. \A u \in Thread \ T : at'[u] = at[u] /\ seen'[u] = seen[u]
  OBVIOUS
<1> HIDE DEF T
<1> QED
  BY <1>1, <1>2, <1>3, PlacedKept

LEMMA OutsideRun ==
  ASSUME at'["execute"] \in Outside
  PROVE  RunPlaced'
  BY DEF RunPlaced, Outside, BeforeSend, BeforeLaunch, WithInstruction

LEMMA RunPlacedKept ==
  ASSUME RuntimeIInv, Goes, op'.workerLaunched = op.workerLaunched,
         at'["execute"] = at["execute"], UNCHANGED <<run, sent, began>>,
         memory'.observedOutcome = memory.observedOutcome
  PROVE  RunPlaced'
<1>1. RunPlaced /\ (Recording => Recording')
  BY GoesOn DEF RuntimeIInv
<1> QED
  BY <1>1 DEF RunPlaced, Unsent

\* New evidence is about a worker that was launched and has stopped.
LEMMA EvidenceKept ==
  ASSUME RuntimeIInv, GoesMildly, process' \in {process, "stopped"},
         memory'.known => memory.known \/ (Recording /\ op.workerLaunched),
         memory'.observedOutcome.exit \/ memory'.cancelEvidence =>
           \/ memory.observedOutcome.exit \/ memory.cancelEvidence
           \/ Recording /\ op.workerLaunched /\ process' # "running"
  PROVE  StopEvidenceTrue'
<1>1. StopEvidenceTrue
  BY DEF RuntimeIInv
<1>2. Recording => /\ Recording'
                   /\ op'.workerLaunched = op.workerLaunched
                   /\ op'.workerStopConfirmed = op.workerStopConfirmed
  BY GoesOn, MildlyGoes DEF GoesMildly, Mild, SaysNothingOfWorker
<1>3. Recording' => Recording
  BY GoesOn, MildlyGoes
<1> QED
  BY <1>1, <1>2, <1>3 DEF StopEvidenceTrue

LEMMA ToldKept ==
  ASSUME RuntimeIInv, Goes, answer' \in {answer, "error"},
         reply' \in {reply, "error", "pending", "none"}
  PROVE  ToldWhatIsRecorded'
<1>1. ToldWhatIsRecorded
  BY DEF RuntimeIInv
<1>2. Recording => Recording' /\ Follows(op, op')
  BY GoesOn
<1>3. {"error", "pending", "none"} \cap TerminalStates = {}
  BY DEF TerminalStates
<1> QED
  BY <1>1, <1>2, <1>3 DEF ToldWhatIsRecorded, Follows, Terminal

LEMMA ClosedKept ==
  ASSUME RuntimeIInv, Goes, workspace' \in {workspace, "open", "absent"}
  PROVE  ClosedAfterCleanup'
<1>1. ClosedAfterCleanup
  BY DEF RuntimeIInv
<1>2. Recording => Recording' /\ Follows(op, op')
  BY GoesOn
<1> QED
  BY <1>1, <1>2 DEF ClosedAfterCleanup, Follows

LEMMA BusyKept ==
  ASSUME RuntimeIInv, Goes, NEW t \in Thread,
         \A u \in Thread \ {t} : at'[u] = at[u],
         at'["execute"] # "idle" =>
           /\ at["execute"] # "idle"
           /\ memory'.record = memory.record
           /\ memory'.recoverable = memory.recoverable,
         t = "recoverWorkers" => at[t] \notin {"idle", "recover", "cleanups", "cleaning"}
  PROVE  RunIsBusy'
<1> SUFFICES ASSUME Recording', op'.state \in OpenStates, at'["execute"] # "idle"
             PROVE  /\ Busy(memory')
                    /\ at'["recoverWorkers"] \in {"idle", "recover", "cleanups", "cleaning"}
  BY DEF RunIsBusy
<1>1. Recording /\ op.state \in OpenStates
  BY GoesOn DEF Follows
<1>2. RunIsBusy
  BY DEF RuntimeIInv
<1>3. /\ Busy(memory)
      /\ at["recoverWorkers"] \in {"idle", "recover", "cleanups", "cleaning"}
  BY <1>1, <1>2 DEF RunIsBusy
<1>4. "recoverWorkers" \in Thread
  BY DEF Thread
<1> QED
  BY <1>3, <1>4 DEF Busy

LEMMA DecidedIsNotBusy ==
  ASSUME op'.state \notin OpenStates
  PROVE  RunIsBusy'
  BY DEF RunIsBusy

\* The parts put together.
LEMMA Assembled ==
  ASSUME RuntimeIInv, Goes, Recording \/ op' = op, RuntimeTypeOK',
         \A u \in Thread : Placed(u)', RunPlaced', StopEvidenceTrue',
         NothingBeforeRecord', ClosedAfterCleanup', ToldWhatIsRecorded', RunIsBusy'
  PROVE  Keeps
<1>1. (Recording => Sound(op))' /\ (Recording => Recording')
  BY GoesOn
<1> QED
  BY <1>1 DEF RuntimeIInv, Keeps

LEMMA TypeParts ==
  ASSUME RuntimeTypeOK
  PROVE  /\ op \in Operation \cup {None}
         /\ Recording <=> op # None
         /\ at \in [Thread -> Places]
         /\ seen \in [Thread -> Operation \cup {None}]
         /\ memory \in Memories /\ run \in Runs
         /\ answer \in AnswerKinds /\ reply \in ReplyKinds
         /\ process \in {"absent", "running", "stopped"}
         /\ sent \in StartInstruction \cup {None}
         /\ began \in StartInstruction \cup {None}
         /\ workspace \in {"absent", "open", "closed"}
         /\ faults \in 0..MaxFaults /\ crashes \in 0..MaxCrashes
  BY NoneIsNoOperation
  DEF RuntimeTypeOK, Memories, Runs, AnswerKinds, ReplyKinds, Recording

LEMMA TypesTogether ==
  ASSUME op' \in Operation \cup {None}, at' \in [Thread -> Places],
         seen' \in [Thread -> Operation \cup {None}],
         memory' \in Memories, run' \in Runs, answer' \in AnswerKinds, reply' \in ReplyKinds,
         process' \in {"absent", "running", "stopped"},
         sent' \in StartInstruction \cup {None}, began' \in StartInstruction \cup {None},
         workspace' \in {"absent", "open", "closed"},
         faults' \in 0..MaxFaults, crashes' \in 0..MaxCrashes
  PROVE  RuntimeTypeOK'
  BY DEF RuntimeTypeOK, Memories, Runs, AnswerKinds, ReplyKinds

LEMMA FaultTyped ==
  ASSUME RuntimeTypeOK, Fault
  PROVE  faults' \in 0..MaxFaults
  BY RuntimeBoundsAreNatural DEF RuntimeTypeOK, Fault

\* Where an error takes a function, whether it was recorded or not.
LEMMA ThrowFacts ==
  ASSUME RuntimeTypeOK, NEW t \in Thread, Throw(t)
  PROVE  /\ \E h \in {"caught", "stopSession", "stopUncertain"} :
              /\ at' = [at EXCEPT ![t] = h]
              /\ t # "execute" => h = "caught"
         /\ seen' = [seen EXCEPT ![t] = None]
         /\ answer' \in {answer, "error"}
  BY DEF Throw, Goto, Handler, Answered

-----------------------------------------------------------------------------
(* Kinds of steps.                                                         *)

\* Places at which nothing is claimed of what a function was last given.
RunPlaces ==
  Places \ (SettlePlaces \cup {"recover", "request", "acknowledgeCancel", "cleaned", "cleanups"})

\* A step of execute, from one await of the run to the next.
LEMMA RunStep ==
  ASSUME RuntimeIInv, Goes, Recording, at["execute"] # "idle",
         NEW then \in RunPlaces, at' = [at EXCEPT !["execute"] = then],
         seen' = seen \/ seen' = [seen EXCEPT !["execute"] = None],
         answer' \in {answer, "error"}, reply' = reply,
         memory' \in Memories,
         memory'.cancelEvidence = memory.cancelEvidence,
         then # "idle" => /\ memory'.record = memory.record
                          /\ memory'.recoverable = memory.recoverable,
         run' \in Runs,
         process' \in {"absent", "running", "stopped"},
         sent' \in StartInstruction \cup {None}, began' \in StartInstruction \cup {None},
         workspace' \in {workspace, "open", "absent"},
         faults' \in 0..MaxFaults, crashes' = crashes,
         RunPlaced', StopEvidenceTrue'
  PROVE  Keeps
<1>1. RuntimeTypeOK /\ Placed("execute") /\ "execute" \in Thread
  BY DEF RuntimeIInv, Thread
<1>2. RuntimeTypeOK'
  <2>1. op' \in Operation \cup {None}
    BY GoesOn
  <2>2. at' \in [Thread -> Places] /\ seen' \in [Thread -> Operation \cup {None}]
    BY <1>1, TypeParts DEF RunPlaces
  <2>3. /\ answer' \in AnswerKinds /\ reply' \in ReplyKinds
        /\ workspace' \in {"absent", "open", "closed"} /\ crashes' \in 0..MaxCrashes
    BY <1>1, TypeParts DEF AnswerKinds
  <2> QED
    BY <2>1, <2>2, <2>3, TypesTogether
<1>3. at' \in [Thread -> Places] /\ at'["execute"] = then
  BY <1>1, TypeParts DEF RunPlaces
<1>4. Placed("execute")'
  <2>1. Recording' /\ Follows(op, op')
    BY GoesOn
  <2>2. seen'["execute"] \in {seen["execute"], None}
    BY <1>1, TypeParts
  <2>3. seen'["execute"] \in Operation => Follows(seen'["execute"], op')
    <3>1. CASE seen'["execute"] = None
      BY <3>1, NoneIsNoOperation
    <3>2. CASE seen'["execute"] = seen["execute"]
      BY <1>1, <2>1, <3>2, FollowsOn DEF Placed
    <3> QED
      BY <2>2, <3>1, <3>2
  <2>4. then \notin SettlePlaces
                     \cup {"recover", "request", "acknowledgeCancel", "cleaned", "cleanups"}
    BY DEF RunPlaces
  <2>5. "execute" \notin CancellationRecovery \cup {"recoverCleanups"}
    BY DEF CancellationRecovery
  <2>6. {"readResult", "inspect", "close", "recordClose", "unconfirm"} \subseteq SettlePlaces
    BY DEF SettlePlaces
  <2> QED
    BY <1>3, <2>1, <2>3, <2>4, <2>5, <2>6 DEF Placed
<1>5. \A u \in Thread \ {"execute"} : at'[u] = at[u] /\ seen'[u] = seen[u]
  BY <1>1, TypeParts
<1>6. \A u \in Thread : Placed(u)'
  BY <1>1, <1>4, <1>5, PlacedKeptByOne
<1>7. RunIsBusy'
  BY <1>1, <1>3, <1>5, BusyKept
<1>8. ToldWhatIsRecorded' /\ ClosedAfterCleanup'
  BY ToldKept, ClosedKept
<1>9. NothingBeforeRecord'
  BY GoesOn DEF NothingBeforeRecord
<1> QED
  BY <1>2, <1>6, <1>7, <1>8, <1>9, Assembled

\* A hook of the run records its event, or fails.
HookRecords(then) ==
  /\ Goto("execute", then)
  /\ UNCHANGED <<seen, answer, faults>>

HookFails ==
  /\ Throw("execute")
  /\ UNCHANGED run
  /\ faults' = faults \/ Fault

LEMMA HookStep ==
  ASSUME RuntimeIInv, Goes, Recording, NEW then \in RunPlaces, then # "idle",
         at["execute"] # "idle",
         UNCHANGED <<memory, world, rest>>, run' \in Runs,
         \/ HookRecords(then) /\ RunPlaced'
         \/ HookFails,
         StopEvidenceTrue'
  PROVE  Keeps
<1>1. RuntimeTypeOK /\ "execute" \in Thread
  BY DEF RuntimeIInv, Thread
<1>2. /\ UNCHANGED <<memory, process, sent, began, workspace, reply, crashes>>
      /\ memory' \in Memories
      /\ process' \in {"absent", "running", "stopped"}
      /\ sent' \in StartInstruction \cup {None}
      /\ began' \in StartInstruction \cup {None}
  BY <1>1, TypeParts DEF world, rest
<1>3. CASE HookRecords(then) /\ RunPlaced'
  <2>1. /\ at' = [at EXCEPT !["execute"] = then] /\ seen' = seen /\ answer' = answer
        /\ faults' \in 0..MaxFaults
    BY <1>1, <1>3, TypeParts DEF HookRecords, Goto
  <2> QED
    BY <1>2, <1>3, <2>1, RunStep
<1>4. CASE HookFails
  <2>1. PICK h \in {"caught", "stopSession", "stopUncertain"} :
          at' = [at EXCEPT !["execute"] = h]
    BY <1>1, <1>4, ThrowFacts DEF HookFails
  <2>2. seen' = [seen EXCEPT !["execute"] = None] /\ answer' \in {answer, "error"}
    BY <1>1, <1>4, ThrowFacts DEF HookFails
  <2>3. faults' \in 0..MaxFaults
    BY <1>1, <1>4, FaultTyped, TypeParts DEF HookFails
  <2>4. h \in RunPlaces /\ h \in Outside
    BY DEF RunPlaces, Outside, Places, SettlePlaces, BeforeSend, BeforeLaunch, WithInstruction
  <2>5. at'["execute"] = h
    BY <1>1, <2>1, TypeParts
  <2>6. RunPlaced'
    BY <2>4, <2>5, OutsideRun
  <2> QED
    BY <1>2, <2>1, <2>2, <2>3, <2>4, <2>6, RunStep
<1> QED
  BY <1>3, <1>4

\* A step of a function that has found the Operation on record.
LEMMA ThreadStep ==
  ASSUME RuntimeIInv, Goes, Recording, NEW t \in Thread,
         t # "cancel" => at[t] \notin {"idle", "recover", "cleanups", "cleaning"},
         NEW place \in Places, at' = [at EXCEPT ![t] = place],
         NEW s \in Operation \cup {None}, seen' = [seen EXCEPT ![t] = s],
         answer' \in AnswerKinds, reply' \in ReplyKinds, faults' \in 0..MaxFaults,
         run' \in Runs, t # "execute" => run' = run,
         memory' \in Memories, memory'.observedOutcome = memory.observedOutcome,
         memory.cancelEvidence => memory'.cancelEvidence,
         op'.state \in OpenStates /\ at["execute"] # "idle" =>
           memory'.record = memory.record /\ memory'.recoverable = memory.recoverable,
         process' \in {process, "stopped"},
         workspace' \in {"absent", "open", "closed"},
         UNCHANGED <<sent, began, crashes>>,
         place = "cleanups" => t = "recoverWorkers",
         place = "acknowledgeCancel" => memory'.cancelEvidence,
         place \in {"recover", "request"} => s \in Operation,
         s \in Operation => Follows(s, op'),
         place \in SettlePlaces \cup {"cleaned"} =>
           s \in Operation /\ Terminal(op') /\ s.state = op'.state,
         place = "readResult" => op'.state = "completed",
         place \in {"inspect", "close", "recordClose", "unconfirm"} =>
           op'.presentationCleanup # None,
         t = "execute" => RunPlaced',
         t # "execute" => op'.workerLaunched = op.workerLaunched,
         StopEvidenceTrue', ToldWhatIsRecorded', ClosedAfterCleanup'
  PROVE  Keeps
<1>1. RuntimeTypeOK /\ Placed(t)
  BY DEF RuntimeIInv
<1>2. Recording' /\ Follows(op, op') /\ op' \in Operation \cup {None}
  BY GoesOn
<1>3. /\ at' \in [Thread -> Places] /\ at'[t] = place
      /\ seen' \in [Thread -> Operation \cup {None}] /\ seen'[t] = s
      /\ \A u \in Thread \ {t} : at'[u] = at[u] /\ seen'[u] = seen[u]
  BY <1>1, TypeParts
<1>4. RuntimeTypeOK'
  <2>1. process' \in {"absent", "running", "stopped"}
    BY <1>1, TypeParts
  <2> QED
    BY <1>1, <1>2, <1>3, <2>1, TypeParts, TypesTogether
<1>5. Placed(t)'
  <2>1. t \in CancellationRecovery \cup {"recoverCleanups"} => op'.state \notin OpenStates
    BY <1>1, <1>2 DEF Placed, Follows, CancellationRecovery
  <2> QED
    BY <1>2, <1>3, <2>1 DEF Placed
<1>6. \A u \in Thread : Placed(u)'
  BY <1>3, <1>5, PlacedKeptByOne
<1>7. RunPlaced'
  <2>1. CASE t = "execute"
    BY <2>1
  <2>2. CASE t # "execute"
    <3>1. at'["execute"] = at["execute"]
      BY <1>3, <2>2 DEF Thread
    <3> QED
      BY <2>2, <3>1, RunPlacedKept
  <2> QED
    BY <2>1, <2>2
<1>8. RunIsBusy'
  <2>1. at'["execute"] # "idle" => at["execute"] # "idle"
    BY <1>3 DEF Thread
  <2>2. CASE op'.state \notin OpenStates
    BY <2>2, DecidedIsNotBusy
  <2>3. CASE op'.state \in OpenStates
    BY <1>3, <2>1, <2>3, BusyKept
  <2> QED
    BY <2>2, <2>3
<1>9. NothingBeforeRecord'
  BY <1>2 DEF NothingBeforeRecord
<1> QED
  BY <1>4, <1>6, <1>7, <1>8, <1>9, Assembled

\* ... that records an event, reads or throws, and leaves the memory and the world
\* alone.
LEMMA RecordingStep ==
  ASSUME RuntimeIInv, Goes, Recording, NEW t \in Thread,
         t # "cancel" => at[t] \notin {"idle", "recover", "cleanups", "cleaning"},
         NEW place \in Places, at' = [at EXCEPT ![t] = place],
         NEW s \in Operation \cup {None}, seen' = [seen EXCEPT ![t] = s],
         answer' \in {answer, "error"}, faults' \in 0..MaxFaults,
         UNCHANGED <<memory, run, reply, world, crashes>>,
         place \notin {"recover", "request", "acknowledgeCancel", "cleanups"},
         s \in Operation => Follows(s, op'),
         place \in SettlePlaces \cup {"cleaned"} =>
           s \in Operation /\ Terminal(op') /\ s.state = op'.state,
         place = "readResult" => op'.state = "completed",
         place \in {"inspect", "close", "recordClose", "unconfirm"} =>
           op'.presentationCleanup # None,
         t = "execute" => RunPlaced',
         t # "execute" => op'.workerLaunched = op.workerLaunched,
         StopEvidenceTrue'
  PROVE  Keeps
<1>1. RuntimeTypeOK
  BY DEF RuntimeIInv
<1>2. UNCHANGED <<memory, run, reply, process, sent, began, workspace, crashes>>
  BY DEF world
<1>3. /\ answer' \in AnswerKinds /\ reply' \in ReplyKinds /\ run' \in Runs /\ memory' \in Memories
      /\ process' \in {process, "stopped"} /\ workspace' \in {"absent", "open", "closed"}
  BY <1>1, <1>2, TypeParts DEF AnswerKinds
<1>4. ToldWhatIsRecorded' /\ ClosedAfterCleanup'
  BY <1>2, ToldKept, ClosedKept
<1> QED
  BY <1>2, <1>3, <1>4, ThreadStep

\* The places of a settlement say what they have to.
LEMMA SettlePlaceFacts ==
  ASSUME NEW t, NEW o, Terminal(o)
  PROVE  LET p == SettlePlace(t, o)
             q == AfterCleanup(t, o)
         IN /\ p \in {"startCleanup", "inspect", "cleaned", "readResult", "answer"}
            /\ q \in {"cleaned", "readResult", "answer"}
            /\ p = "inspect" => o.presentationCleanup # None
            /\ p = "readResult" => o.state = "completed"
            /\ q = "readResult" => o.state = "completed"
  BY DEF SettlePlace, AfterCleanup

\* A write of the settlement, or of a function before it.
WriteGoes(t, s, place) ==
  /\ Goto(t, place)
  /\ seen' = [seen EXCEPT ![t] = s]
  /\ UNCHANGED <<answer, faults>>

WriteFails(t) ==
  /\ Throw(t)
  /\ faults' = faults \/ Fault

LEMMA WriteStep ==
  ASSUME RuntimeIInv, Goes, Recording, NEW t \in Thread,
         at[t] \notin {"idle", "recover", "cleanups", "cleaning"},
         NEW place \in Outside \ {"recover", "request", "acknowledgeCancel", "cleanups"},
         \/ WriteGoes(t, op', place)
         \/ WriteFails(t),
         Records,
         place \in SettlePlaces \cup {"cleaned"} => Terminal(op'),
         place = "readResult" => op'.state = "completed",
         place \in {"inspect", "close", "recordClose", "unconfirm"} =>
           op'.presentationCleanup # None,
         t # "execute" => op'.workerLaunched = op.workerLaunched,
         StopEvidenceTrue'
  PROVE  Keeps
<1>1. RuntimeTypeOK /\ place \in Places
  BY DEF RuntimeIInv, Outside
<1>2. op' \in Operation /\ Follows(op', op')
  BY GoesOn, FollowsItself DEF Recording
<1>3. CASE WriteGoes(t, op', place)
  <2>1. /\ at' = [at EXCEPT ![t] = place] /\ seen' = [seen EXCEPT ![t] = op']
        /\ answer' = answer /\ faults' \in 0..MaxFaults
    BY <1>1, <1>3, TypeParts DEF WriteGoes, Goto
  <2>2. t = "execute" => RunPlaced'
    <3>1. t = "execute" => at'["execute"] \in Outside
      BY <1>1, <2>1, TypeParts
    <3> QED
      BY <3>1, OutsideRun
  <2> HIDE DEF Outside
  <2> QED
    BY <1>1, <1>2, <2>1, <2>2, RecordingStep DEF Records
<1>4. CASE WriteFails(t)
  <2>1. PICK h \in {"caught", "stopSession", "stopUncertain"} : at' = [at EXCEPT ![t] = h]
    BY <1>1, <1>4, ThrowFacts DEF WriteFails
  <2>2. seen' = [seen EXCEPT ![t] = None] /\ answer' \in {answer, "error"}
    BY <1>1, <1>4, ThrowFacts DEF WriteFails
  <2>3. faults' \in 0..MaxFaults
    BY <1>1, <1>4, FaultTyped, TypeParts DEF WriteFails
  <2>4. /\ h \in Places /\ h \in Outside
        /\ h \notin SettlePlaces \cup {"cleaned", "recover", "request", "acknowledgeCancel",
                                       "cleanups", "readResult"}
        /\ h \notin {"inspect", "close", "recordClose", "unconfirm"}
    BY DEF Outside, Places, SettlePlaces, BeforeSend, BeforeLaunch, WithInstruction
  <2>5. t = "execute" => RunPlaced'
    <3>1. t = "execute" => at'["execute"] \in Outside
      BY <1>1, <2>1, <2>4, TypeParts
    <3> QED
      BY <3>1, OutsideRun
  <2>6. None \notin Operation
    BY NoneIsNoOperation
  <2> QED
    BY <1>1, <2>1, <2>2, <2>3, <2>4, <2>5, <2>6, RecordingStep DEF Records
<1> QED
  BY <1>3, <1>4

-----------------------------------------------------------------------------
(* The hooks of a run.                                                     *)

LEMMA RunFacts ==
  ASSUME RuntimeIInv
  PROVE  /\ RuntimeTypeOK /\ RunPlaced /\ StopEvidenceTrue /\ "execute" \in Thread
         /\ at["execute"] \notin {"idle", "cleanups"} =>
              Recording /\ op \in Operation /\ Sound(op)
  BY DEF RuntimeIInv, Placed, Recording, Thread

LEMMA MildHookStep ==
  ASSUME RuntimeIInv, at["execute"] \notin {"idle", "cleanups"},
         NEW then \in RunPlaces, then # "idle",
         UNCHANGED <<memory, world, rest>>, run' \in Runs,
         \/ HookRecords(then) /\ Mild(op, op') /\ RunPlaced'
         \/ HookFails /\ (op' = op \/ Mild(op, op'))
  PROVE  Keeps
<1>1. Recording
  BY RunFacts
<1>2. GoesMildly /\ Goes
  BY <1>1, MildlyGoes DEF GoesMildly
<1>3. StopEvidenceTrue'
  BY <1>2, EvidenceKept DEF world
<1> QED
  BY <1>1, <1>2, <1>3, HookStep

LEMMA WorkerIdentifiedKeeps ==
  ASSUME RuntimeIInv, WorkerIdentified
  PROVE  Keeps
<1>1. at["execute"] = "identified"
  BY DEF WorkerIdentified, Hook
<1>2. RunPlaced /\ op \in Operation /\ Sound(op) /\ RuntimeTypeOK
  BY <1>1, RunFacts
<1> DEFINE can  == CanIdentifyWorker(op, op.presentation)
           next == IdentifyWorker(op, TheWorker)
<1>3. can => Mild(op, next)
  <2>1. TheWorker \in Worker
    BY OneOfEach DEF TheWorker
  <2> QED
    BY <1>2, <2>1, ValueArmsMild
<1>4. /\ UNCHANGED <<memory, world, rest, run>>
      /\ \/ HookRecords("acquire") /\ can /\ op' = next
         \/ HookFails /\ (op' = op \/ (can /\ op' = next))
  BY DEF WorkerIdentified, Hook, Recorded, NotRecorded, HookRecords, HookFails
<1> HIDE DEF can, next
<1>5. "acquire" \in RunPlaces /\ "acquire" # "idle" /\ run \in Runs
  BY <1>2, TypeParts DEF RunPlaces, Places, SettlePlaces, HookPlaces
<1>6. HookRecords("acquire") => RunPlaced'
  <2> SUFFICES ASSUME HookRecords("acquire") PROVE RunPlaced'
    OBVIOUS
  <2>1. at'["execute"] = "acquire"
    BY <1>2, RunFacts, TypeParts DEF HookRecords, Goto
  <2> QED
    BY <1>1, <1>2, <1>3, <1>4, <2>1
    DEF RunPlaced, Unsent, BeforeSend, BeforeLaunch, WithInstruction, world, Recording
<1> QED
  BY <1>1, <1>3, <1>4, <1>5, <1>6, MildHookStep

LEMMA StartDeliveryAuthorityRevokedKeeps ==
  ASSUME RuntimeIInv, StartDeliveryAuthorityRevoked
  PROVE  Keeps
<1>1. at["execute"] = "revoke"
  BY DEF StartDeliveryAuthorityRevoked, Hook
<1>2. RunPlaced /\ op \in Operation /\ Sound(op) /\ RuntimeTypeOK
  BY <1>1, RunFacts
<1> DEFINE can  == CanRevokeAuthority(op, run.instruction.dispatcherId,
                                      run.instruction.deliveryGeneration)
           next == RevokeAuthority(op, run.instruction.dispatcherId,
                                   run.instruction.deliveryGeneration)
<1>3. can => Mild(op, next)
  <2>1. run.instruction \in StartInstruction
    BY <1>1, <1>2 DEF RunPlaced, WithInstruction
  <2>2. /\ run.instruction.dispatcherId \in Dispatcher
        /\ run.instruction.deliveryGeneration \in Nat \ {0}
    BY <2>1 DEF StartInstruction
  <2> QED
    BY <1>2, <2>2, HandoffArmsMild
<1>4. /\ UNCHANGED <<memory, world, rest, run>>
      /\ \/ HookRecords("announce") /\ can /\ op' = next
         \/ HookFails /\ (op' = op \/ (can /\ op' = next))
  BY DEF StartDeliveryAuthorityRevoked, Hook, Recorded, NotRecorded, HookRecords, HookFails
<1> HIDE DEF can, next
<1>5. "announce" \in RunPlaces /\ "announce" # "idle" /\ run \in Runs
  BY <1>2, TypeParts DEF RunPlaces, Places, SettlePlaces, HookPlaces
<1>6. HookRecords("announce") => RunPlaced'
  <2> SUFFICES ASSUME HookRecords("announce") PROVE RunPlaced'
    OBVIOUS
  <2>1. at'["execute"] = "announce"
    BY <1>2, RunFacts, TypeParts DEF HookRecords, Goto
  <2> QED
    BY <1>1, <1>2, <1>3, <1>4, <2>1
    DEF RunPlaced, Unsent, BeforeSend, BeforeLaunch, WithInstruction, world, Recording
<1> QED
  BY <1>1, <1>3, <1>4, <1>5, <1>6, MildHookStep

LEMMA StartAcceptanceUnknownKeeps ==
  ASSUME RuntimeIInv, StartAcceptanceUnknown
  PROVE  Keeps
<1>1. at["execute"] = "giveUpStart"
  BY DEF StartAcceptanceUnknown, Hook
<1>2. RunPlaced /\ op \in Operation /\ Sound(op) /\ RuntimeTypeOK
  BY <1>1, RunFacts
<1> DEFINE can  == CanGiveUp(op, "start-acceptance-unknown", 0)
           next == GiveUp(op)
<1>3. can => Mild(op, next)
  BY <1>2, StateArmsMild
<1>4. /\ UNCHANGED <<memory, world, rest, run>>
      /\ \/ HookRecords("stopUncertain") /\ can /\ op' = next
         \/ HookFails /\ (op' = op \/ (can /\ op' = next))
  BY DEF StartAcceptanceUnknown, Hook, Recorded, NotRecorded, HookRecords, HookFails
<1> HIDE DEF can, next
<1>5. "stopUncertain" \in RunPlaces /\ "stopUncertain" # "idle" /\ run \in Runs
  BY <1>2, TypeParts DEF RunPlaces, Places, SettlePlaces, HookPlaces
<1>6. HookRecords("stopUncertain") => RunPlaced'
  <2> SUFFICES ASSUME HookRecords("stopUncertain") PROVE RunPlaced'
    OBVIOUS
  <2>1. at'["execute"] = "stopUncertain"
    BY <1>2, RunFacts, TypeParts DEF HookRecords, Goto
  <2>2. "stopUncertain" \in Outside
    BY DEF Outside, Places, SettlePlaces, HookPlaces, BeforeSend, BeforeLaunch, WithInstruction
  <2> QED
    BY <2>1, <2>2, OutsideRun
<1> QED
  BY <1>1, <1>3, <1>4, <1>5, <1>6, MildHookStep

LEMMA StartDeliveryGenerationConfirmedKeeps ==
  ASSUME RuntimeIInv, StartDeliveryGenerationConfirmed
  PROVE  Keeps
<1>1. at["execute"] = "confirmGeneration"
  BY DEF StartDeliveryGenerationConfirmed, Hook
<1>2. RunPlaced /\ op \in Operation /\ Sound(op) /\ RuntimeTypeOK
  BY <1>1, RunFacts
<1> DEFINE can  == CanConfirmGeneration(op, run.instruction.dispatcherId,
                                        run.instruction.deliveryGeneration, run.acceptance,
                                        IF run.acceptance = "accepted" THEN began ELSE None)
           next == ConfirmGeneration(op, run.acceptance)
<1>3. can => Mild(op, next)
  <2>1. run.acceptance \in AcceptanceStates
    BY <1>1, <1>2, AnswersAreAcceptances DEF RunPlaced
  <2>2. \A d, g, x : \A s \in AcceptanceStates :
          CanConfirmGeneration(op, d, g, s, x) => Mild(op, ConfirmGeneration(op, s))
    BY <1>2, HandoffArmsMild
  <2> QED
    BY <2>1, <2>2
<1>4. /\ UNCHANGED <<memory, world, rest, run>>
      /\ \/ HookRecords(AfterConfirmation) /\ can /\ op' = next
         \/ HookFails /\ (op' = op \/ (can /\ op' = next))
  BY DEF StartDeliveryGenerationConfirmed, Hook, Recorded, NotRecorded, HookRecords, HookFails
<1> HIDE DEF can, next
<1>5. AfterConfirmation \in RunPlaces /\ AfterConfirmation # "idle" /\ run \in Runs
  BY <1>2, TypeParts DEF RunPlaces, Places, SettlePlaces, HookPlaces, AfterConfirmation
<1>6. HookRecords(AfterConfirmation) => RunPlaced'
  <2> SUFFICES ASSUME HookRecords(AfterConfirmation) PROVE RunPlaced'
    OBVIOUS
  <2>1. at'["execute"] = AfterConfirmation
    BY <1>2, RunFacts, TypeParts DEF HookRecords, Goto
  <2>2. run.acceptance \in AcceptanceStates
    BY <1>1, <1>2, AnswersAreAcceptances DEF RunPlaced
  <2>3. /\ AfterConfirmation \in {"giveUpStart", "collectAcceptance", "reacquire"}
        /\ AfterConfirmation = "collectAcceptance" => run.acceptance = "accepted"
        /\ AfterConfirmation = "reacquire" => run.acceptance = "not_accepted"
    BY <2>2 DEF AfterConfirmation, AcceptanceStates
  <2> QED
    BY <1>1, <1>2, <1>4, <2>1, <2>3
    DEF RunPlaced, Unsent, BeforeSend, BeforeLaunch, WithInstruction, world
<1> QED
  BY <1>1, <1>3, <1>4, <1>5, <1>6, MildHookStep

LEMMA ReacquireAuthorityKeeps ==
  ASSUME RuntimeIInv, ReacquireAuthority
  PROVE  Keeps
<1>1. at["execute"] = "reacquire"
  BY DEF ReacquireAuthority, Hook
<1>2. RunPlaced /\ op \in Operation /\ Sound(op) /\ RuntimeTypeOK
  BY <1>1, RunFacts
<1> DEFINE can  == CanAcquireAuthority(op, run.instruction)
           next == AcquireAuthority(op, run.instruction)
<1>3. can => Mild(op, next)
  <2>1. run.instruction \in StartInstruction
    BY <1>1, <1>2 DEF RunPlaced, WithInstruction
  <2> QED
    BY <1>2, <2>1, InstructionArmsMild
<1>4. /\ UNCHANGED <<memory, world, rest, run>>
      /\ \/ HookRecords("check") /\ can /\ op' = next
         \/ HookFails /\ (op' = op \/ (can /\ op' = next))
  BY DEF ReacquireAuthority, Hook, Recorded, NotRecorded, HookRecords, HookFails
<1> HIDE DEF can, next
<1>5. "check" \in RunPlaces /\ "check" # "idle" /\ run \in Runs
  BY <1>2, TypeParts DEF RunPlaces, Places, SettlePlaces, HookPlaces
<1>6. HookRecords("check") => RunPlaced'
  <2> SUFFICES ASSUME HookRecords("check") PROVE RunPlaced'
    OBVIOUS
  <2>1. at'["execute"] = "check"
    BY <1>2, RunFacts, TypeParts DEF HookRecords, Goto
  <2> QED
    BY <1>1, <1>2, <1>3, <1>4, <2>1
    DEF RunPlaced, Unsent, BeforeSend, BeforeLaunch, WithInstruction, world, Recording
<1> QED
  BY <1>1, <1>3, <1>4, <1>5, <1>6, MildHookStep

LEMMA StartDeliveryEnteredKeeps ==
  ASSUME RuntimeIInv, StartDeliveryEntered
  PROVE  Keeps
<1>1. at["execute"] = "enter"
  BY DEF StartDeliveryEntered, Hook
<1>2. RunPlaced /\ op \in Operation /\ Sound(op) /\ RuntimeTypeOK
  BY <1>1, RunFacts
<1> DEFINE can  == CanEnterDelivery(op, run.instruction)
           next == EnterDelivery(op, run.instruction)
<1>3. can => Mild(op, next)
  <2>1. run.instruction \in StartInstruction
    BY <1>1, <1>2 DEF RunPlaced, WithInstruction
  <2> QED
    BY <1>2, <2>1, InstructionArmsMild
<1>4. /\ UNCHANGED <<memory, world, rest, run>>
      /\ \/ HookRecords("send") /\ can /\ op' = next
         \/ HookFails /\ (op' = op \/ (can /\ op' = next))
  BY DEF StartDeliveryEntered, Hook, Recorded, NotRecorded, HookRecords, HookFails
<1> HIDE DEF can, next
<1>5. "send" \in RunPlaces /\ "send" # "idle" /\ run \in Runs
  BY <1>2, TypeParts DEF RunPlaces, Places, SettlePlaces, HookPlaces
<1>6. HookRecords("send") => RunPlaced'
  <2> SUFFICES ASSUME HookRecords("send") PROVE RunPlaced'
    OBVIOUS
  <2>1. at'["execute"] = "send"
    BY <1>2, RunFacts, TypeParts DEF HookRecords, Goto
  <2> QED
    BY <1>1, <1>2, <1>3, <1>4, <2>1
    DEF RunPlaced, Unsent, BeforeSend, BeforeLaunch, WithInstruction, world, Recording
<1> QED
  BY <1>1, <1>3, <1>4, <1>5, <1>6, MildHookStep

LEMMA StartInstructionDispatchedKeeps ==
  ASSUME RuntimeIInv, StartInstructionDispatched
  PROVE  Keeps
<1>1. at["execute"] = "dispatch"
  BY DEF StartInstructionDispatched, Hook
<1>2. RunPlaced /\ op \in Operation /\ Sound(op) /\ RuntimeTypeOK
  BY <1>1, RunFacts
<1> DEFINE can  == CanDispatchStart(op, run.instruction)
           next == DispatchStart(op, run.instruction)
<1>3. can => Mild(op, next)
  <2>1. run.instruction \in StartInstruction
    BY <1>1, <1>2 DEF RunPlaced, WithInstruction
  <2> QED
    BY <1>2, <2>1, InstructionArmsMild
<1>4. /\ UNCHANGED <<memory, world, rest, run>>
      /\ \/ HookRecords("awaitAcceptance") /\ can /\ op' = next
         \/ HookFails /\ (op' = op \/ (can /\ op' = next))
  BY DEF StartInstructionDispatched, Hook, Recorded, NotRecorded, HookRecords, HookFails
<1> HIDE DEF can, next
<1>5. "awaitAcceptance" \in RunPlaces /\ "awaitAcceptance" # "idle" /\ run \in Runs
  BY <1>2, TypeParts DEF RunPlaces, Places, SettlePlaces, HookPlaces
<1>6. HookRecords("awaitAcceptance") => RunPlaced'
  <2> SUFFICES ASSUME HookRecords("awaitAcceptance") PROVE RunPlaced'
    OBVIOUS
  <2>1. at'["execute"] = "awaitAcceptance"
    BY <1>2, RunFacts, TypeParts DEF HookRecords, Goto
  <2> QED
    BY <1>1, <1>2, <1>3, <1>4, <2>1
    DEF RunPlaced, Unsent, BeforeSend, BeforeLaunch, WithInstruction, world, Recording
<1> QED
  BY <1>1, <1>3, <1>4, <1>5, <1>6, MildHookStep

LEMMA StartInstructionAcceptedKeeps ==
  ASSUME RuntimeIInv, StartInstructionAccepted
  PROVE  Keeps
<1>1. at["execute"] = "accepted"
  BY DEF StartInstructionAccepted, Hook
<1>2. RunPlaced /\ op \in Operation /\ Sound(op) /\ RuntimeTypeOK
  BY <1>1, RunFacts
<1> DEFINE can  == CanAcceptStart(op, run.instruction)
           next == AcceptStart(op, run.instruction)
<1>3. can => Mild(op, next)
  <2>1. run.instruction \in StartInstruction
    BY <1>1, <1>2 DEF RunPlaced, WithInstruction
  <2> QED
    BY <1>2, <2>1, InstructionArmsMild
<1>4. /\ UNCHANGED <<memory, world, rest, run>>
      /\ \/ HookRecords("awaitAcknowledgement") /\ can /\ op' = next
         \/ HookFails /\ (op' = op \/ (can /\ op' = next))
  BY DEF StartInstructionAccepted, Hook, Recorded, NotRecorded, HookRecords, HookFails
<1> HIDE DEF can, next
<1>5. "awaitAcknowledgement" \in RunPlaces /\ "awaitAcknowledgement" # "idle" /\ run \in Runs
  BY <1>2, TypeParts DEF RunPlaces, Places, SettlePlaces, HookPlaces
<1>6. HookRecords("awaitAcknowledgement") => RunPlaced'
  <2> SUFFICES ASSUME HookRecords("awaitAcknowledgement") PROVE RunPlaced'
    OBVIOUS
  <2>1. at'["execute"] = "awaitAcknowledgement"
    BY <1>2, RunFacts, TypeParts DEF HookRecords, Goto
  <2> QED
    BY <1>1, <1>2, <1>3, <1>4, <2>1
    DEF RunPlaced, Unsent, BeforeSend, BeforeLaunch, WithInstruction, world, Recording
<1> QED
  BY <1>1, <1>3, <1>4, <1>5, <1>6, MildHookStep

LEMMA StartInstructionAcknowledgedKeeps ==
  ASSUME RuntimeIInv, StartInstructionAcknowledged
  PROVE  Keeps
<1>1. at["execute"] = "acknowledged"
  BY DEF StartInstructionAcknowledged, Hook
<1>2. RunPlaced /\ op \in Operation /\ Sound(op) /\ RuntimeTypeOK
  BY <1>1, RunFacts
<1> DEFINE can  == CanAcknowledgeStart(op, run.instruction)
           next == AcknowledgeStart(op, run.instruction)
<1>3. can => Mild(op, next)
  <2>1. run.instruction \in StartInstruction
    BY <1>1, <1>2 DEF RunPlaced, WithInstruction
  <2> QED
    BY <1>2, <2>1, InstructionArmsMild
<1>4. /\ UNCHANGED <<memory, world, rest, run>>
      /\ \/ HookRecords("work") /\ can /\ op' = next
         \/ HookFails /\ (op' = op \/ (can /\ op' = next))
  BY DEF StartInstructionAcknowledged, Hook, Recorded, NotRecorded, HookRecords, HookFails
<1> HIDE DEF can, next
<1>5. "work" \in RunPlaces /\ "work" # "idle" /\ run \in Runs
  BY <1>2, TypeParts DEF RunPlaces, Places, SettlePlaces, HookPlaces
<1>6. HookRecords("work") => RunPlaced'
  <2> SUFFICES ASSUME HookRecords("work") PROVE RunPlaced'
    OBVIOUS
  <2>1. at'["execute"] = "work"
    BY <1>2, RunFacts, TypeParts DEF HookRecords, Goto
  <2>2. "work" \in Outside
    BY DEF Outside, Places, SettlePlaces, HookPlaces, BeforeSend, BeforeLaunch, WithInstruction
  <2> QED
    BY <2>1, <2>2, OutsideRun
<1> QED
  BY <1>1, <1>3, <1>4, <1>5, <1>6, MildHookStep

\* The launch is the first that the record says of the worker.
LEMMA WorkerLaunchedKeeps ==
  ASSUME RuntimeIInv, WorkerLaunched
  PROVE  Keeps
<1>1. at["execute"] = "launched"
  BY DEF WorkerLaunched, Hook
<1>2. RunPlaced /\ op \in Operation /\ Sound(op) /\ RuntimeTypeOK /\ Recording
      /\ StopEvidenceTrue
  BY <1>1, RunFacts
<1>3. /\ UNCHANGED <<memory, world, rest, run>>
      /\ \/ HookRecords("identify") /\ CanLaunchWorker(op) /\ op' = LaunchWorker(op)
         \/ HookFails /\ (op' = op \/ (CanLaunchWorker(op) /\ op' = LaunchWorker(op)))
  BY DEF WorkerLaunched, Hook, Recorded, NotRecorded, HookRecords, HookFails
<1>4. CanLaunchWorker(op) /\ op' = LaunchWorker(op) =>
        Moves(op, op') /\ op'.workerLaunched /\ op'.workerStopConfirmed = op.workerStopConfirmed
  BY <1>2, WorkerArmsMove
<1>5. Goes
  BY <1>2, <1>3, <1>4 DEF Goes
<1>6. StopEvidenceTrue'
  <2>1. Recording'
    BY <1>2, <1>5, GoesOn
  <2>2. UNCHANGED <<memory, process>>
    BY <1>3 DEF world
  <2> QED
    BY <1>2, <1>3, <1>4, <2>1, <2>2 DEF StopEvidenceTrue
<1>7. "identify" \in RunPlaces /\ run' \in Runs
  BY <1>2, <1>3, TypeParts DEF RunPlaces, Places, SettlePlaces, HookPlaces
<1>8. HookRecords("identify") /\ op'.workerLaunched => RunPlaced'
  <2> SUFFICES ASSUME HookRecords("identify"), op'.workerLaunched PROVE RunPlaced'
    OBVIOUS
  <2>1. at'["execute"] = "identify"
    BY <1>2, RunFacts, TypeParts DEF HookRecords, Goto
  <2> QED
    BY <1>1, <1>2, <1>3, <2>1
    DEF RunPlaced, Unsent, BeforeSend, BeforeLaunch, WithInstruction, world
<1> QED
  BY <1>1, <1>2, <1>3, <1>4, <1>5, <1>6, <1>7, <1>8, HookStep

LEMMA InstructionTyped ==
  /\ InstructionOf(1) \in StartInstruction
  /\ \A o \in Operation :
       o.startDeliveryAuthority # None /\ SuccessorOf(o).dispatcherId \in Dispatcher =>
         SuccessorOf(o) \in StartInstruction
<1>1. TheWorker \in Worker /\ 1 \in Dispatcher
  BY OneOfEach DEF TheWorker
<1>2. InstructionOf(1) \in StartInstruction
  BY <1>1 DEF InstructionOf, StartInstruction
<1>3. ASSUME NEW o \in Operation, o.startDeliveryAuthority # None,
             SuccessorOf(o).dispatcherId \in Dispatcher
      PROVE  SuccessorOf(o) \in StartInstruction
  <2> DEFINE n == o.startDeliveryAuthority.deliveryGeneration + 1
             i == InstructionOf(n)
             d == IF HandoffPending(o) /\ LastHandoff(o).deliveryGeneration = n
                    THEN LastHandoff(o).successorDispatcherId ELSE i.dispatcherId
  <2>1. o.startDeliveryAuthority \in StartInstruction
    BY <1>3, SMT DEF Operation
  <2>2. n \in Nat \ {0}
    BY <2>1 DEF StartInstruction
  <2>3. SuccessorOf(o) = [i EXCEPT !.dispatcherId = d]
    BY Zenon DEF SuccessorOf
  <2>4. i = [dispatcherId |-> n, workerProcessInstanceId |-> TheWorker,
             deliveryGeneration |-> n]
    BY DEF InstructionOf
  <2> HIDE DEF n, d, i
  <2>5. SuccessorOf(o) = [dispatcherId |-> d, workerProcessInstanceId |-> TheWorker,
                          deliveryGeneration |-> n]
    BY <2>3, <2>4
  <2>6. d \in Dispatcher
    BY <1>3, <2>5
  <2> QED
    BY <1>1, <2>2, <2>5, <2>6 DEF StartInstruction
<1> QED
  BY <1>2, <1>3

LEMMA RunWithInstruction ==
  ASSUME RuntimeTypeOK, NEW i \in StartInstruction
  PROVE  /\ [run EXCEPT !.instruction = i] \in Runs
         /\ [run EXCEPT !.instruction = i].instruction = i
         /\ [run EXCEPT !.instruction = i].acceptance = run.acceptance
<1>1. run \in Runs
  BY TypeParts
<1> QED
  BY <1>1 DEF Runs

LEMMA StartDeliveryAuthorityAcquiredKeeps ==
  ASSUME RuntimeIInv, StartDeliveryAuthorityAcquired
  PROVE  Keeps
<1> DEFINE i == InstructionOf(1)
<1> HIDE DEF i
<1>1. at["execute"] = "acquire"
  BY DEF StartDeliveryAuthorityAcquired
<1>2. RunPlaced /\ op \in Operation /\ Sound(op) /\ RuntimeTypeOK
  BY <1>1, RunFacts
<1>3. i \in StartInstruction
  BY InstructionTyped DEF i
<1>4. CanAcquireAuthority(op, i) => Mild(op, AcquireAuthority(op, i))
  BY <1>2, <1>3, InstructionArmsMild
<1>5. /\ UNCHANGED <<memory, world, rest>>
      /\ \/ /\ HookRecords("check") /\ CanAcquireAuthority(op, i)
            /\ op' = AcquireAuthority(op, i) /\ run' = [run EXCEPT !.instruction = i]
         \/ /\ HookFails /\ run' = run
            /\ op' = op \/ (CanAcquireAuthority(op, i) /\ op' = AcquireAuthority(op, i))
  BY DEF StartDeliveryAuthorityAcquired, Recorded, NotRecorded, HookRecords, HookFails, i
<1>6. "check" \in RunPlaces /\ run' \in Runs
  BY <1>2, <1>3, <1>5, TypeParts, RunWithInstruction
  DEF RunPlaces, Places, SettlePlaces, HookPlaces
<1>7. HookRecords("check") /\ run' = [run EXCEPT !.instruction = i] => RunPlaced'
  <2> SUFFICES ASSUME HookRecords("check"), run' = [run EXCEPT !.instruction = i]
               PROVE  RunPlaced'
    OBVIOUS
  <2>1. at'["execute"] = "check" /\ run'.instruction \in StartInstruction
    BY <1>2, <1>3, RunFacts, TypeParts, RunWithInstruction DEF HookRecords, Goto
  <2>2. Unsent'
    BY <1>1, <1>2, <1>5 DEF RunPlaced, BeforeSend, Unsent, world
  <2> QED
    BY <2>1, <2>2 DEF RunPlaced, BeforeSend, BeforeLaunch
<1> QED
  BY <1>1, <1>4, <1>5, <1>6, <1>7, MildHookStep

LEMMA SucceedKeeps ==
  ASSUME RuntimeIInv, Succeed
  PROVE  Keeps
<1> DEFINE i == SuccessorOf(op)
<1> HIDE DEF i
<1>1. at["execute"] = "succeed"
  BY DEF Succeed
<1>2. op \in Operation /\ RuntimeTypeOK /\ Recording
  BY <1>1, RunFacts
<1>3. /\ UNCHANGED <<op, memory, world, rest>>
      /\ \/ /\ HookRecords("revoke") /\ run' = [run EXCEPT !.instruction = i]
            /\ op.startDeliveryAuthority # None /\ i.dispatcherId \in Dispatcher
         \/ HookFails /\ run' = run
  BY DEF Succeed, HookRecords, HookFails, i
<1>4. op.startDeliveryAuthority # None /\ i.dispatcherId \in Dispatcher => i \in StartInstruction
  BY <1>2, InstructionTyped DEF i
<1>5. "revoke" \in RunPlaces /\ run' \in Runs
  BY <1>2, <1>3, <1>4, TypeParts, RunWithInstruction
  DEF RunPlaces, Places, SettlePlaces, HookPlaces
<1>6. ASSUME HookRecords("revoke"), run' = [run EXCEPT !.instruction = i],
             i \in StartInstruction
      PROVE  RunPlaced'
  <2>1. at'["execute"] = "revoke" /\ run'.instruction \in StartInstruction
    BY <1>2, <1>6, RunFacts, TypeParts, RunWithInstruction DEF HookRecords, Goto
  <2> QED
    BY <2>1 DEF RunPlaced, BeforeSend, BeforeLaunch
<1>7. Goes /\ GoesMildly
  BY <1>3 DEF Goes, GoesMildly
<1>8. StopEvidenceTrue'
  BY <1>3, <1>7, EvidenceKept DEF world
<1> QED
  BY <1>1, <1>2, <1>3, <1>4, <1>5, <1>6, <1>7, <1>8, HookStep

LEMMA OperationStartingKeeps ==
  ASSUME RuntimeIInv, OperationStarting
  PROVE  Keeps
<1>1. at["execute"] = "start"
  BY DEF OperationStarting
<1>2. RunPlaced /\ op \in Operation /\ Sound(op) /\ RuntimeTypeOK
  BY <1>1, RunFacts
<1>3. CanStart(op) => Mild(op, Start(op))
  BY <1>2, StateArmsMild
<1>4. /\ UNCHANGED <<memory, world, rest, run>>
      /\ \/ HookRecords("launch") /\ CanStart(op) /\ op' = Start(op)
         \/ HookFails /\ (op' = op \/ (CanStart(op) /\ op' = Start(op)))
  BY DEF OperationStarting, Recorded, NotRecorded, HookRecords, HookFails
<1>5. "launch" \in RunPlaces /\ run \in Runs
  BY <1>2, TypeParts DEF RunPlaces, Places, SettlePlaces, HookPlaces
<1>6. HookRecords("launch") /\ Mild(op, op') => RunPlaced'
  <2> SUFFICES ASSUME HookRecords("launch"), Mild(op, op') PROVE RunPlaced'
    OBVIOUS
  <2>1. at'["execute"] = "launch"
    BY <1>2, RunFacts, TypeParts DEF HookRecords, Goto
  <2>2. Recording' /\ ~op'.workerLaunched
    BY <1>1, <1>2 DEF RunPlaced, BeforeLaunch, Mild, Moves, SaysNothingOfWorker, Recording
  <2> QED
    BY <1>1, <1>2, <1>4, <2>1, <2>2
    DEF RunPlaced, Unsent, BeforeSend, BeforeLaunch, WithInstruction, world
<1> QED
  BY <1>1, <1>3, <1>4, <1>5, <1>6, MildHookStep

LEMMA CollectAcceptanceKeeps ==
  ASSUME RuntimeIInv, CollectAcceptance
  PROVE  Keeps
<1>1. at["execute"] = "collectAcceptance"
  BY DEF CollectAcceptance
<1>2. RunPlaced /\ op \in Operation /\ Sound(op) /\ RuntimeTypeOK
  BY <1>1, RunFacts
<1>3. CanAcceptStart(op, began) => Mild(op, AcceptStart(op, began))
  <2> SUFFICES ASSUME CanAcceptStart(op, began) PROVE Mild(op, AcceptStart(op, began))
    OBVIOUS
  <2>1. began # None /\ began \in StartInstruction \cup {None}
    BY <1>2, TypeParts DEF CanAcceptStart
  <2> QED
    BY <1>2, <2>1, InstructionArmsMild
<1>4. /\ UNCHANGED <<memory, world, rest, run>>
      /\ \/ /\ HookRecords("collectAcknowledgement")
            /\ op' = op \/ (CanAcceptStart(op, began) /\ op' = AcceptStart(op, began))
         \/ HookFails /\ (op' = op \/ (CanAcceptStart(op, began) /\ op' = AcceptStart(op, began)))
  BY DEF CollectAcceptance, Proceeds, Hook, Recorded, NotRecorded, HookRecords, HookFails,
         rest
<1>5. "collectAcknowledgement" \in RunPlaces /\ run' \in Runs
  BY <1>2, <1>4, TypeParts DEF RunPlaces, Places, SettlePlaces, HookPlaces
<1>6. HookRecords("collectAcknowledgement") => RunPlaced'
  <2> SUFFICES ASSUME HookRecords("collectAcknowledgement") PROVE RunPlaced'
    OBVIOUS
  <2>1. at'["execute"] = "collectAcknowledgement"
    BY <1>2, RunFacts, TypeParts DEF HookRecords, Goto
  <2> QED
    BY <1>1, <1>2, <1>4, <2>1 DEF RunPlaced, BeforeSend, BeforeLaunch, WithInstruction
<1>7. Goes /\ GoesMildly /\ Recording
  BY <1>2, <1>3, <1>4, MildlyGoes DEF GoesMildly, Recording
<1>8. StopEvidenceTrue'
  BY <1>4, <1>7, EvidenceKept DEF world
<1> QED
  BY <1>1, <1>4, <1>5, <1>6, <1>7, <1>8, HookStep

LEMMA CollectAcknowledgementKeeps ==
  ASSUME RuntimeIInv, CollectAcknowledgement
  PROVE  Keeps
<1>1. at["execute"] = "collectAcknowledgement"
  BY DEF CollectAcknowledgement
<1>2. RunPlaced /\ op \in Operation /\ Sound(op) /\ RuntimeTypeOK
  BY <1>1, RunFacts
<1>3. CanAcknowledgeStart(op, began) => Mild(op, AcknowledgeStart(op, began))
  <2> SUFFICES ASSUME CanAcknowledgeStart(op, began) PROVE Mild(op, AcknowledgeStart(op, began))
    OBVIOUS
  <2>1. began # None /\ began \in StartInstruction \cup {None}
    BY <1>2, TypeParts DEF CanAcknowledgeStart
  <2> QED
    BY <1>2, <2>1, InstructionArmsMild
<1>4. /\ UNCHANGED <<memory, world, rest, run>>
      /\ \/ /\ HookRecords("check")
            /\ op' = op
                 \/ (CanAcknowledgeStart(op, began) /\ op' = AcknowledgeStart(op, began))
         \/ /\ HookFails
            /\ op' = op
                 \/ (CanAcknowledgeStart(op, began) /\ op' = AcknowledgeStart(op, began))
  BY DEF CollectAcknowledgement, Proceeds, Hook, Recorded, NotRecorded, HookRecords,
         HookFails, rest
<1>5. "check" \in RunPlaces /\ run' \in Runs
  BY <1>2, <1>4, TypeParts DEF RunPlaces, Places, SettlePlaces, HookPlaces
<1>6. HookRecords("check") => RunPlaced'
  <2> SUFFICES ASSUME HookRecords("check") PROVE RunPlaced'
    OBVIOUS
  <2>1. at'["execute"] = "check"
    BY <1>2, RunFacts, TypeParts DEF HookRecords, Goto
  <2> QED
    BY <1>1, <1>2, <1>4, <2>1 DEF RunPlaced, BeforeSend, BeforeLaunch, WithInstruction
<1>7. Goes /\ GoesMildly /\ Recording
  BY <1>2, <1>3, <1>4, MildlyGoes DEF GoesMildly, Recording
<1>8. StopEvidenceTrue'
  BY <1>4, <1>7, EvidenceKept DEF world
<1> QED
  BY <1>1, <1>4, <1>5, <1>6, <1>7, <1>8, HookStep

-----------------------------------------------------------------------------
(* The other steps of a run.                                               *)

\* The run goes on, or ends with what it has observed.
LEMMA ProceedStep ==
  ASSUME RuntimeIInv, at["execute"] \notin {"idle", "cleanups"},
         NEW then \in RunPlaces, then # "idle", Proceeds(then),
         at'["execute"] = then => RunPlaced'
  PROVE  Keeps
<1>1. RuntimeTypeOK /\ Recording
  BY RunFacts
<1>2. at' = [at EXCEPT !["execute"] = then] /\ at'["execute"] = then
  BY <1>1, RunFacts, TypeParts DEF Proceeds, Goto
<1>3. UNCHANGED <<op, seen, memory, run, answer, process, sent, began, workspace, faults,
                  reply, crashes>>
  BY DEF Proceeds, world, rest
<1>4. Goes /\ GoesMildly
  BY <1>3 DEF Goes, GoesMildly
<1>5. StopEvidenceTrue'
  BY <1>3, <1>4, EvidenceKept
<1> QED
  BY <1>1, <1>2, <1>3, <1>4, <1>5, TypeParts, RunStep

LEMMA ProceedOutside ==
  ASSUME RuntimeIInv, at["execute"] \notin {"idle", "cleanups"},
         NEW then \in RunPlaces \cap Outside, then # "idle", Proceeds(then)
  PROVE  Keeps
  BY ProceedStep, OutsideRun

LEMMA OutcomeTyped ==
  /\ \A s \in OutcomeStates, b \in BOOLEAN :
       /\ Outcome(s, b) \in [state : OutcomeStates, exit : BOOLEAN]
       /\ Outcome(s, b).exit = b
  /\ NoOutcome \in [state : OutcomeStates, exit : BOOLEAN] /\ ~NoOutcome.exit
  /\ \A o \in Failed \cup Unproven \cup {Outcome("agent_failed", FALSE)} :
       o \in [state : OutcomeStates, exit : BOOLEAN] /\ ~o.exit
  BY DEF Outcome, OutcomeStates, NoOutcome, Failed, Unproven

LEMMA ObservedMemory ==
  ASSUME RuntimeTypeOK, NEW o \in [state : OutcomeStates, exit : BOOLEAN]
  PROVE  LET m == [memory EXCEPT !.observedOutcome = o] IN
         /\ m \in Memories /\ m.observedOutcome = o
         /\ m.recoverable = memory.recoverable /\ m.record = memory.record
         /\ m.cancelEvidence = memory.cancelEvidence /\ m.known = memory.known
  BY TypeParts DEF Memories

\* The run ends with an outcome; one that tells of an exit has seen the stop.
LEMMA ObserveStep ==
  ASSUME RuntimeIInv, Goes, at["execute"] \notin {"idle", "cleanups"},
         NEW o \in [state : OutcomeStates, exit : BOOLEAN], Observe(o),
         seen' = seen, run' = run, answer' = answer, reply' = reply, crashes' = crashes,
         UNCHANGED <<sent, began, workspace>>, faults' \in 0..MaxFaults,
         process' \in {"absent", "running", "stopped"},
         StopEvidenceTrue'
  PROVE  Keeps
<1>1. RuntimeTypeOK /\ Recording
  BY RunFacts
<1>2. /\ at' = [at EXCEPT !["execute"] = "observed"] /\ at'["execute"] = "observed"
      /\ memory' = [memory EXCEPT !.observedOutcome = o]
  BY <1>1, RunFacts, TypeParts DEF Observe, Goto
<1>3. /\ memory' \in Memories /\ memory'.recoverable = memory.recoverable
      /\ memory'.record = memory.record /\ memory'.cancelEvidence = memory.cancelEvidence
  BY <1>1, <1>2, ObservedMemory
<1>4. "observed" \in RunPlaces /\ "observed" \in Outside
  BY DEF RunPlaces, Outside, Places, SettlePlaces, BeforeSend, BeforeLaunch, WithInstruction
<1>5. RunPlaced'
  BY <1>2, <1>4, OutsideRun
<1> QED
  BY <1>1, <1>2, <1>3, <1>4, <1>5, TypeParts, RunStep

LEMMA ObserveMildly ==
  ASSUME RuntimeIInv, GoesMildly, at["execute"] \notin {"idle", "cleanups"},
         NEW o \in [state : OutcomeStates, exit : BOOLEAN], Observe(o),
         seen' = seen, run' = run, answer' = answer, reply' = reply, crashes' = crashes,
         UNCHANGED <<sent, began, workspace>>, faults' \in 0..MaxFaults,
         process' \in {process, "stopped"},
         o.exit => op.workerLaunched /\ process' # "running"
  PROVE  Keeps
<1>1. RuntimeTypeOK /\ Recording
  BY RunFacts
<1>2. /\ memory'.observedOutcome = o
      /\ memory'.cancelEvidence = memory.cancelEvidence /\ memory'.known = memory.known
  BY <1>1, ObservedMemory DEF Observe
<1>3. StopEvidenceTrue'
  BY <1>1, <1>2, EvidenceKept
<1>4. process' \in {"absent", "running", "stopped"}
  BY <1>1, TypeParts
<1> QED
  BY <1>3, <1>4, MildlyGoes, ObserveStep

LEMMA EndsStep ==
  ASSUME RuntimeIInv, at["execute"] \notin {"idle", "cleanups"}, NEW S,
         \A o \in S : o \in [state : OutcomeStates, exit : BOOLEAN] /\ ~o.exit,
         Ends(S)
  PROVE  Keeps
<1>1. PICK o \in S : Observe(o)
  BY DEF Ends
<1>2. UNCHANGED <<op, seen, run, answer, process, sent, began, workspace, faults,
                  reply, crashes>>
  BY DEF Ends, world, rest
<1>3. GoesMildly /\ faults' \in 0..MaxFaults
  BY <1>2, RunFacts, TypeParts DEF GoesMildly
<1> QED
  BY <1>1, <1>2, <1>3, ObserveMildly

\* Only a worker that can be named, and so was launched, is proved to have stopped.
LEMMA StopFacts ==
  ASSUME RuntimeIInv, NEW proved \in BOOLEAN, StopProcess(proved)
  PROVE  /\ process' \in {process, "stopped"}
         /\ proved => Recording /\ op.workerLaunched /\ process' = "stopped"
  BY RunFacts DEF StopProcess, StopEvidenceTrue

LEMMA StopAndObserveStep ==
  ASSUME RuntimeIInv, at["execute"] \notin {"idle", "cleanups"}, StopAndObserve
  PROVE  Keeps
<1>1. PICK proved \in BOOLEAN : StopProcess(proved) /\ Observe(StopOutcome(proved))
  BY DEF StopAndObserve
<1>2. UNCHANGED <<op, seen, run, answer, sent, began, workspace, faults, reply, crashes>>
  BY DEF StopAndObserve, rest
<1>3. GoesMildly /\ faults' \in 0..MaxFaults
  BY <1>2, RunFacts, TypeParts DEF GoesMildly
<1>4. /\ StopOutcome(proved) \in [state : OutcomeStates, exit : BOOLEAN]
      /\ StopOutcome(proved).exit => proved
  BY DEF StopOutcome, Outcome, OutcomeStates
<1>5. /\ process' \in {process, "stopped"}
      /\ proved => op.workerLaunched /\ process' # "running"
  BY <1>1, StopFacts
<1> QED
  BY <1>1, <1>2, <1>3, <1>4, <1>5, ObserveMildly

LEMMA StopUncertainKeeps ==
  ASSUME RuntimeIInv, StopUncertain
  PROVE  Keeps
  BY StopAndObserveStep DEF StopUncertain

LEMMA StopSessionKeeps ==
  ASSUME RuntimeIInv, StopSession
  PROVE  Keeps
<1>1. at["execute"] = "stopSession"
  BY DEF StopSession
<1>2. RuntimeTypeOK /\ Recording
  BY <1>1, RunFacts
<1>3. PICK proved \in BOOLEAN : StopProcess(proved)
  BY DEF StopSession
<1>4. UNCHANGED <<op, seen, memory, run, answer, sent, began, workspace, faults, reply, crashes>>
  BY DEF StopSession, rest
<1>5. at' = [at EXCEPT !["execute"] = "caught"] /\ at'["execute"] = "caught"
  BY <1>2, RunFacts, TypeParts DEF StopSession, Goto
<1>6. Goes /\ GoesMildly
  BY <1>4 DEF Goes, GoesMildly
<1>7. process' \in {process, "stopped"}
  BY <1>3, StopFacts
<1>8. StopEvidenceTrue'
  BY <1>4, <1>6, <1>7, EvidenceKept
<1>9. "caught" \in RunPlaces /\ "caught" \in Outside
  BY DEF RunPlaces, Outside, Places, SettlePlaces, BeforeSend, BeforeLaunch, WithInstruction
<1>10. RunPlaced'
  BY <1>5, <1>9, OutsideRun
<1>11. process' \in {"absent", "running", "stopped"}
  BY <1>2, <1>7, TypeParts
<1> QED
  BY <1>1, <1>2, <1>4, <1>5, <1>6, <1>8, <1>9, <1>10, <1>11, TypeParts, RunStep

\* Where a run may go on to.
LEMMA RunOutside ==
  {"succeed", "stopUncertain", "offer", "exit", "work", "awaitStop"}
    \subseteq (RunPlaces \cap Outside) \ {"idle"}
  BY DEF RunPlaces, Outside, Places, SettlePlaces, HookPlaces, BeforeSend, BeforeLaunch,
         WithInstruction

LEMMA RejoinKeeps ==
  ASSUME RuntimeIInv, Rejoin
  PROVE  Keeps
<1>1. at["execute"] = "rejoin"
  BY DEF Rejoin
<1>2. CASE Ends(Failed)
  BY <1>1, <1>2, EndsStep, OutcomeTyped
<1>3. CASE Proceeds("succeed")
  BY <1>1, <1>3, RunOutside, ProceedOutside
<1>4. CASE StopAndObserve
  BY <1>1, <1>4, StopAndObserveStep
<1>5. CASE /\ Fault /\ Throw("execute")
           /\ UNCHANGED <<op, memory, run, world, rest>>
  <2>1. HookFails /\ run' \in Runs
    BY <1>5, RunFacts, TypeParts DEF HookFails
  <2>2. UNCHANGED <<memory, world, rest>> /\ op' = op
    BY <1>5
  <2>3. "succeed" \in RunPlaces /\ "succeed" # "idle"
    BY RunOutside
  <2> QED
    BY <1>1, <2>1, <2>2, <2>3, MildHookStep
<1> QED
  BY <1>2, <1>3, <1>4, <1>5 DEF Rejoin

LEMMA RequestDeliveryGenerationUpdateKeeps ==
  ASSUME RuntimeIInv, RequestDeliveryGenerationUpdate
  PROVE  Keeps
<1>1. at["execute"] = "announce"
  BY DEF RequestDeliveryGenerationUpdate
<1>2. CASE Proceeds("stopUncertain")
  BY <1>1, <1>2, RunOutside, ProceedOutside
<1>3. ASSUME NEW a \in Answers, AnswersGeneration(a), sent' = None
      PROVE  Keeps
  <2>1. RuntimeTypeOK /\ Recording /\ RunPlaced
    BY <1>1, RunFacts
  <2>2. UNCHANGED <<op, seen, memory, answer, process, began, workspace, faults,
                    reply, crashes>>
    BY <1>3 DEF AnswersGeneration, rest
  <2>3. /\ at' = [at EXCEPT !["execute"] = "confirmGeneration"]
        /\ at'["execute"] = "confirmGeneration"
    BY <1>3, <2>1, RunFacts, TypeParts DEF AnswersGeneration, Goto
  <2>4. /\ run' \in Runs /\ run'.acceptance = a
        /\ run'.instruction = run.instruction
    BY <1>3, <2>1, TypeParts DEF AnswersGeneration, Runs
  <2>5. a = "not_accepted" => Unsent'
    BY <1>3, <2>2 DEF AnswersGeneration, Unsent
  <2>6. run'.instruction \in StartInstruction
    BY <1>1, <2>1, <2>4 DEF RunPlaced, WithInstruction
  <2>7. RunPlaced'
    BY <2>3, <2>4, <2>5, <2>6 DEF RunPlaced, BeforeSend, BeforeLaunch
  <2>8. Goes /\ GoesMildly
    BY <2>2 DEF Goes, GoesMildly
  <2>9. StopEvidenceTrue'
    BY <2>2, <2>8, EvidenceKept
  <2>10. "confirmGeneration" \in RunPlaces
    BY DEF RunPlaces, Places, SettlePlaces, HookPlaces
  <2> QED
    BY <1>1, <1>3, <2>1, <2>2, <2>3, <2>4, <2>7, <2>8, <2>9, <2>10, TypeParts, RunStep
<1> QED
  BY <1>2, <1>3 DEF RequestDeliveryGenerationUpdate

LEMMA CheckCancellationKeeps ==
  ASSUME RuntimeIInv, CheckCancellation
  PROVE  Keeps
<1>1. at["execute"] = "check"
  BY DEF CheckCancellation
<1>2. RunPlaced
  BY RunFacts
<1>3. CASE Ends(Failed)
  BY <1>1, <1>3, EndsStep, OutcomeTyped
<1>4. CASE Proceeds("work")
  BY <1>1, <1>4, RunOutside, ProceedOutside
<1>5. CASE Proceeds("enter") /\ run.acceptance # "accepted"
  <2>1. at'["execute"] = "enter" => RunPlaced'
    BY <1>1, <1>2, <1>5
    DEF Proceeds, RunPlaced, BeforeSend, BeforeLaunch, WithInstruction, Unsent, world
  <2>2. "enter" \in RunPlaces /\ "enter" # "idle"
    BY DEF RunPlaces, Places, SettlePlaces, HookPlaces
  <2> QED
    BY <1>1, <1>5, <2>1, <2>2, ProceedStep
<1> QED
  BY <1>3, <1>4, <1>5 DEF CheckCancellation

LEMMA DispatchBeginKeeps ==
  ASSUME RuntimeIInv, DispatchBegin
  PROVE  Keeps
<1>1. at["execute"] = "send"
  BY DEF DispatchBegin
<1>2. RuntimeTypeOK /\ Recording /\ RunPlaced
  BY <1>1, RunFacts
<1>3. CASE Proceeds("stopUncertain")
  BY <1>1, <1>3, RunOutside, ProceedOutside
<1>4. CASE /\ sent' = run.instruction /\ Goto("execute", "dispatch")
           /\ UNCHANGED <<op, seen, memory, run, answer, process, began, workspace, faults, rest>>
  <2>1. UNCHANGED <<op, seen, memory, run, answer, process, began, workspace, faults,
                    reply, crashes>>
    BY <1>4 DEF rest
  <2>2. at' = [at EXCEPT !["execute"] = "dispatch"] /\ at'["execute"] = "dispatch"
    BY <1>2, <1>4, RunFacts, TypeParts DEF Goto
  <2>3. run.instruction \in StartInstruction
    BY <1>1, <1>2 DEF RunPlaced, WithInstruction
  <2>4. RunPlaced'
    BY <2>1, <2>2, <2>3 DEF RunPlaced, BeforeSend, BeforeLaunch
  <2>5. Goes /\ GoesMildly
    BY <2>1 DEF Goes, GoesMildly
  <2>6. StopEvidenceTrue'
    BY <2>1, <2>5, EvidenceKept
  <2>7. "dispatch" \in RunPlaces
    BY DEF RunPlaces, Places, SettlePlaces, HookPlaces
  <2> QED
    BY <1>1, <1>2, <1>4, <2>1, <2>2, <2>3, <2>4, <2>5, <2>6, <2>7, TypeParts, RunStep
<1> QED
  BY <1>3, <1>4 DEF DispatchBegin

LEMMA AwaitsKeep ==
  ASSUME RuntimeIInv, AwaitAcceptance \/ AwaitAcknowledgement \/ AwaitResult
  PROVE  Keeps
<1>1. at["execute"] \in {"awaitAcceptance", "awaitAcknowledgement", "work"}
  BY DEF AwaitAcceptance, AwaitAcknowledgement, AwaitResult
<1>2. CASE Proceeds("stopUncertain") \/ Proceeds("offer")
  BY <1>1, <1>2, RunOutside, ProceedOutside
<1>3. CASE Ends({Outcome("agent_failed", FALSE)}) \/ Ends(Failed) \/ Ends(Unproven)
  <2>1. CASE Ends({Outcome("agent_failed", FALSE)})
    BY <1>1, <2>1, EndsStep, OutcomeTyped
  <2>2. CASE Ends(Failed)
    BY <1>1, <2>2, EndsStep, OutcomeTyped
  <2>3. CASE Ends(Unproven)
    BY <1>1, <2>3, EndsStep, OutcomeTyped
  <2> QED
    BY <1>3, <2>1, <2>2, <2>3
<1>4. CASE at["execute"] = "awaitAcceptance" /\ Proceeds("accepted")
  <2>1. run.instruction \in StartInstruction
    BY <1>4, RunFacts DEF RunPlaced, WithInstruction
  <2>2. at'["execute"] = "accepted" => RunPlaced'
    BY <1>4, <2>1 DEF Proceeds, RunPlaced, BeforeSend, BeforeLaunch
  <2>3. "accepted" \in RunPlaces /\ "accepted" # "idle"
    BY DEF RunPlaces, Places, SettlePlaces, HookPlaces
  <2> QED
    BY <1>1, <1>4, <2>2, <2>3, ProceedStep
<1>5. CASE at["execute"] = "awaitAcknowledgement" /\ Proceeds("acknowledged")
  <2>1. run.instruction \in StartInstruction
    BY <1>5, RunFacts DEF RunPlaced, WithInstruction
  <2>2. at'["execute"] = "acknowledged" => RunPlaced'
    BY <1>5, <2>1 DEF Proceeds, RunPlaced, BeforeSend, BeforeLaunch
  <2>3. "acknowledged" \in RunPlaces /\ "acknowledged" # "idle"
    BY DEF RunPlaces, Places, SettlePlaces, HookPlaces
  <2> QED
    BY <1>1, <1>5, <2>2, <2>3, ProceedStep
<1> QED
  BY <1>2, <1>3, <1>4, <1>5 DEF AwaitAcceptance, AwaitAcknowledgement, AwaitResult

LEMMA OfferResultKeeps ==
  ASSUME RuntimeIInv, OfferResult
  PROVE  Keeps
<1> DEFINE next == AcceptResult(op, TheResult)
<1>1. at["execute"] = "offer"
  BY DEF OfferResult
<1>2. RuntimeTypeOK /\ Recording /\ op \in Operation /\ Sound(op)
  BY <1>1, RunFacts
<1>3. CanAcceptResult(op) => Mild(op, next)
  <2>1. TheResult \in Result
    BY OneOfEach DEF TheResult
  <2> QED
    BY <1>2, <2>1, ValueArmsMild
<1> HIDE DEF next
<1>4. CASE Ends(Failed)
  BY <1>1, <1>4, EndsStep, OutcomeTyped
<1>5. CASE Proceeds("exit")
  BY <1>1, <1>5, RunOutside, ProceedOutside
<1>6. CASE /\ Recorded(CanAcceptResult(op), next) /\ Goto("execute", "exit")
           /\ UNCHANGED <<memory, seen, run, answer, world, rest>>
  <2>1. HookRecords("exit") /\ Mild(op, op') /\ run' \in Runs
    BY <1>2, <1>3, <1>6, TypeParts DEF Recorded, HookRecords
  <2>2. "exit" \in RunPlaces /\ "exit" \in Outside /\ "exit" # "idle"
    BY RunOutside
  <2>3. at'["execute"] = "exit"
    BY <1>2, <2>1, RunFacts, TypeParts DEF HookRecords, Goto
  <2>4. RunPlaced'
    BY <2>2, <2>3, OutsideRun
  <2> QED
    BY <1>1, <1>6, <2>1, <2>2, <2>4, MildHookStep
<1>7. ASSUME NEW o \in Failed, NotRecorded(CanAcceptResult(op), next), Observe(o),
             UNCHANGED <<seen, run, answer, world, rest>>
      PROVE  Keeps
  <2>1. op' = op \/ (CanAcceptResult(op) /\ op' = next)
    BY <1>7 DEF NotRecorded
  <2>2. GoesMildly
    BY <1>2, <1>3, <2>1 DEF GoesMildly
  <2>3. faults' = faults \/ Fault
    BY <1>7 DEF NotRecorded
  <2>4. faults' \in 0..MaxFaults
    BY <1>2, <2>3, FaultTyped, TypeParts
  <2>5. UNCHANGED <<seen, run, answer, process, sent, began, workspace, reply, crashes>>
    BY <1>7 DEF world, rest
  <2>6. o \in [state : OutcomeStates, exit : BOOLEAN] /\ ~o.exit
    BY OutcomeTyped
  <2> QED
    BY <1>1, <1>7, <2>2, <2>4, <2>5, <2>6, ObserveMildly
<1> QED
  BY <1>4, <1>5, <1>6, <1>7 DEF OfferResult, next

LEMMA ConfirmSuccessfulExitKeeps ==
  ASSUME RuntimeIInv, ConfirmSuccessfulExit
  PROVE  Keeps
<1>1. at["execute"] = "exit"
  BY DEF ConfirmSuccessfulExit
<1>2. CASE Ends(Unproven)
  BY <1>1, <1>2, EndsStep, OutcomeTyped
<1>3. CASE /\ StopProcess(TRUE)
           /\ Observe(Outcome("result_acknowledged", ~memory.requested))
           /\ UNCHANGED <<op, seen, run, answer, sent, began, workspace, faults, rest>>
  <2> DEFINE o == Outcome("result_acknowledged", ~memory.requested)
  <2>1. o \in [state : OutcomeStates, exit : BOOLEAN]
    BY DEF Outcome, OutcomeStates
  <2>2. UNCHANGED <<op, seen, run, answer, sent, began, workspace, faults, reply, crashes>>
    BY <1>3 DEF rest
  <2>3. GoesMildly /\ faults' \in 0..MaxFaults
    BY <2>2, RunFacts, TypeParts DEF GoesMildly
  <2>4. process' \in {process, "stopped"} /\ op.workerLaunched /\ process' # "running"
    BY <1>3, StopFacts
  <2>5. Observe(o)
    BY <1>3
  <2> HIDE DEF o
  <2> QED
    BY <1>1, <2>1, <2>2, <2>3, <2>4, <2>5, ObserveMildly
<1> QED
  BY <1>2, <1>3 DEF ConfirmSuccessfulExit

\* A worker that is started has not been told of before.
LEMMA StartWorkerKeeps ==
  ASSUME RuntimeIInv, StartWorker
  PROVE  Keeps
<1>1. at["execute"] = "launch"
  BY DEF StartWorker
<1>2. /\ RuntimeTypeOK /\ Recording /\ RunPlaced /\ StopEvidenceTrue
      /\ ~op.workerLaunched /\ Unsent
  BY <1>1, RunFacts DEF RunPlaced, BeforeSend, BeforeLaunch
<1>3. /\ ~memory.known /\ ~memory.observedOutcome.exit /\ ~memory.cancelEvidence
      /\ ~op.workerStopConfirmed
  BY <1>2 DEF StopEvidenceTrue
<1>4. /\ UNCHANGED <<op, seen, run, answer, sent, began, workspace, faults, reply, crashes>>
      /\ process' \in {"absent", "running", "stopped"}
  BY DEF StartWorker, rest
<1>5. Goes
  BY <1>4 DEF Goes
<1>6. CASE Goto("execute", "launched") /\ UNCHANGED memory
  <2>1. at' = [at EXCEPT !["execute"] = "launched"] /\ at'["execute"] = "launched"
    BY <1>2, <1>6, RunFacts, TypeParts DEF Goto
  <2>2. RunPlaced'
    BY <1>2, <1>4, <2>1
    DEF RunPlaced, BeforeSend, BeforeLaunch, WithInstruction, Unsent, Recording
  <2>3. StopEvidenceTrue'
    BY <1>3, <1>4, <1>6 DEF StopEvidenceTrue
  <2>4. "launched" \in RunPlaces
    BY DEF RunPlaces, Places, SettlePlaces, HookPlaces
  <2> QED
    BY <1>1, <1>2, <1>4, <1>5, <1>6, <2>1, <2>2, <2>3, <2>4, TypeParts, RunStep
<1>7. ASSUME NEW o \in Failed, Observe(o)
      PROVE  Keeps
  <2>1. o \in [state : OutcomeStates, exit : BOOLEAN] /\ ~o.exit
    BY OutcomeTyped
  <2>2. /\ memory'.observedOutcome = o /\ memory'.known = memory.known
        /\ memory'.cancelEvidence = memory.cancelEvidence
    BY <1>2, <1>7, <2>1, ObservedMemory DEF Observe
  <2>3. StopEvidenceTrue'
    BY <1>3, <1>4, <2>1, <2>2 DEF StopEvidenceTrue
  <2> QED
    BY <1>1, <1>2, <1>4, <1>5, <1>7, <2>1, <2>3, TypeParts, ObserveStep
<1> QED
  BY <1>6, <1>7 DEF StartWorker

LEMMA WaitForIdentificationKeeps ==
  ASSUME RuntimeIInv, WaitForIdentification
  PROVE  Keeps
<1>1. at["execute"] = "identify"
  BY DEF WaitForIdentification
<1>2. RuntimeTypeOK /\ Recording /\ RunPlaced
  BY <1>1, RunFacts
<1>3. CASE Ends(Failed \cup Unproven)
  BY <1>1, <1>3, EndsStep, OutcomeTyped
<1>4. CASE /\ memory' = [memory EXCEPT !.known = TRUE]
           /\ Goto("execute", "identified")
           /\ UNCHANGED <<op, seen, run, answer, world, faults, rest>>
  <2>1. UNCHANGED <<op, seen, run, answer, process, sent, began, workspace, faults,
                    reply, crashes>>
    BY <1>4 DEF world, rest
  <2>2. at' = [at EXCEPT !["execute"] = "identified"] /\ at'["execute"] = "identified"
    BY <1>2, <1>4, RunFacts, TypeParts DEF Goto
  <2>3. /\ memory' \in Memories /\ memory'.recoverable = memory.recoverable
        /\ memory'.record = memory.record /\ memory'.cancelEvidence = memory.cancelEvidence
        /\ memory'.observedOutcome = memory.observedOutcome
    BY <1>2, <1>4, TypeParts DEF Memories
  <2>4. Goes /\ GoesMildly
    BY <2>1 DEF Goes, GoesMildly
  <2>5. "identified" \in RunPlaces
    BY DEF RunPlaces, Places, SettlePlaces, HookPlaces
  <2>6. RunPlaced'
    BY <1>1, <1>2, <2>1, <2>2
    DEF RunPlaced, BeforeSend, BeforeLaunch, WithInstruction, Unsent
  <2>7. op.workerLaunched
    BY <1>1, <1>2 DEF RunPlaced
  <2>8. StopEvidenceTrue'
    BY <1>2, <2>1, <2>3, <2>4, <2>7, EvidenceKept
  <2> QED
    BY <1>1, <1>2, <2>1, <2>2, <2>3, <2>4, <2>5, <2>6, <2>8, TypeParts, RunStep
<1> QED
  BY <1>3, <1>4 DEF WaitForIdentification

-----------------------------------------------------------------------------
(* The creation of an Operation.                                           *)

LEMMA CreateOperationKeeps ==
  ASSUME RuntimeIInv, CreateOperation
  PROVE  Keeps
<1>1. RuntimeTypeOK /\ ~Recording
  BY NoneIsNoOperation DEF RuntimeIInv, CreateOperation, Recording
<1>2. /\ Unsent /\ ~memory.handle /\ ~memory.recoverable
      /\ ~memory.known /\ ~memory.observedOutcome.exit /\ ~memory.cancelEvidence
      /\ workspace # "closed" /\ answer \notin TerminalStates /\ reply \notin TerminalStates
  BY <1>1 DEF RuntimeIInv, NothingBeforeRecord, StopEvidenceTrue, ClosedAfterCleanup,
              ToldWhatIsRecorded
<1>3. \A u \in Thread : /\ seen[u] \notin Operation
                        /\ at[u] \in {"idle", "cleanups"}
                        /\ at[u] = "cleanups" => u = "recoverWorkers"
  BY <1>1 DEF RuntimeIInv, Placed
<1>4. /\ UNCHANGED <<seen, run, answer, process, sent, began, workspace, reply, crashes>>
      /\ at["execute"] = "idle" /\ at["recoverWorkers"] = "idle"
  BY DEF CreateOperation, world, rest
<1>5. faults' \in 0..MaxFaults
  BY <1>1, FaultTyped, TypeParts DEF CreateOperation
<1>6. CASE /\ op' = Requested /\ memory' = [memory EXCEPT !.record = TRUE]
           /\ Goto("execute", "present")
  <2>1. /\ op' \in Operation /\ Sound(op') /\ ~op'.workerLaunched /\ ~op'.workerStopConfirmed
    BY <1>6, RequestedSound DEF Requested
  <2>2. /\ memory' \in Memories /\ memory'.record
        /\ memory'.recoverable = memory.recoverable /\ memory'.known = memory.known
        /\ memory'.observedOutcome = memory.observedOutcome
        /\ memory'.cancelEvidence = memory.cancelEvidence
    BY <1>1, <1>6, TypeParts DEF Memories
  <2>3. at' = [at EXCEPT !["execute"] = "present"] /\ "present" \in Places
    BY <1>6 DEF Goto, Places
  <2>4. /\ at' \in [Thread -> Places] /\ at'["execute"] = "present"
        /\ \A u \in Thread \ {"execute"} : at'[u] = at[u]
    BY <1>1, <2>3, RunFacts, TypeParts
  <2>5. RuntimeTypeOK'
    BY <1>1, <1>4, <1>5, <2>1, <2>2, <2>4, TypeParts, TypesTogether
  <2>6. \A u \in Thread : Placed(u)'
    <3> SUFFICES ASSUME NEW u \in Thread PROVE Placed(u)'
      OBVIOUS
    <3>1. CASE u = "execute"
      BY <1>3, <1>4, <2>1, <2>4, <3>1 DEF Placed, Recording, SettlePlaces, CancellationRecovery
    <3>2. CASE u # "execute"
      BY <1>3, <1>4, <2>1, <2>4, <3>2 DEF Placed, Recording, SettlePlaces, CancellationRecovery
    <3> QED
      BY <3>1, <3>2
  <2>7. RunPlaced'
    BY <1>2, <1>4, <2>1, <2>4 DEF RunPlaced, Unsent, Recording, BeforeSend, WithInstruction
  <2>8. StopEvidenceTrue' /\ NothingBeforeRecord' /\ ClosedAfterCleanup' /\ ToldWhatIsRecorded'
    BY <1>2, <1>4, <2>1, <2>2
    DEF StopEvidenceTrue, NothingBeforeRecord, ClosedAfterCleanup, ToldWhatIsRecorded, Recording
  <2>9. RunIsBusy'
    <3>1. at'["recoverWorkers"] = "idle"
      BY <1>4, <2>4 DEF Thread
    <3> QED
      BY <1>2, <2>2, <3>1 DEF RunIsBusy, Busy
  <2> QED
    BY <1>1, <2>1, <2>5, <2>6, <2>7, <2>8, <2>9 DEF RuntimeIInv, Keeps
<1>7. CASE op' \in {None, Requested} /\ UNCHANGED <<at, memory>>
  <2>1. op' \in Operation \cup {None}
    BY <1>7, RequestedSound
  <2>2. RuntimeTypeOK'
    BY <1>1, <1>4, <1>5, <1>7, <2>1, TypeParts, TypesTogether
  <2>3. Recording' => Sound(op') /\ ~op'.workerStopConfirmed
    <3>1. ASSUME op' = Requested PROVE Sound(op') /\ ~op'.workerStopConfirmed
      BY <3>1, RequestedSound DEF Requested
    <3>2. Recording' => op' = Requested
      BY <1>7, NoneIsNoOperation DEF Recording
    <3> QED
      BY <3>1, <3>2
  <2>4. \A u \in Thread : Placed(u)'
    BY <1>3, <1>4, <1>7 DEF Placed, SettlePlaces, CancellationRecovery
  <2>5. RunPlaced'
    BY <1>4, <1>7 DEF RunPlaced, BeforeSend, BeforeLaunch, WithInstruction
  <2>6. StopEvidenceTrue' /\ NothingBeforeRecord' /\ ClosedAfterCleanup' /\ ToldWhatIsRecorded'
    BY <1>2, <1>4, <1>7, <2>3
    DEF StopEvidenceTrue, NothingBeforeRecord, ClosedAfterCleanup, ToldWhatIsRecorded, Unsent
  <2>7. RunIsBusy'
    BY <1>4, <1>7 DEF RunIsBusy
  <2> QED
    BY <1>1, <2>2, <2>3, <2>4, <2>5, <2>6, <2>7 DEF RuntimeIInv, Keeps
<1> QED
  BY <1>6, <1>7 DEF CreateOperation

LEMMA CreatePresentationKeeps ==
  ASSUME RuntimeIInv, CreatePresentation
  PROVE  Keeps
<1>1. at["execute"] = "present"
  BY DEF CreatePresentation
<1>2. RuntimeTypeOK /\ Recording /\ RunPlaced
  BY <1>1, RunFacts
<1>3. /\ UNCHANGED <<op, seen, memory, run, answer, process, sent, began, reply, crashes>>
      /\ workspace' \in {workspace, "open", "absent"}
  BY DEF CreatePresentation, rest
<1>4. PICK then \in {"own", "idle"} : at' = [at EXCEPT !["execute"] = then]
  BY DEF CreatePresentation, Goto
<1>5. at'["execute"] = then
  BY <1>2, <1>4, RunFacts, TypeParts
<1>6. faults' \in 0..MaxFaults
  BY <1>2, FaultTyped, TypeParts DEF CreatePresentation
<1>7. RunPlaced'
  BY <1>1, <1>2, <1>3, <1>5
  DEF RunPlaced, BeforeSend, BeforeLaunch, WithInstruction, Unsent, Recording
<1>8. Goes /\ GoesMildly
  BY <1>3 DEF Goes, GoesMildly
<1>9. StopEvidenceTrue'
  BY <1>3, <1>8, EvidenceKept
<1>10. then \in RunPlaces
  BY DEF RunPlaces, Places, SettlePlaces, HookPlaces
<1> QED
  BY <1>1, <1>2, <1>3, <1>4, <1>6, <1>7, <1>8, <1>9, <1>10, TypeParts, RunStep

LEMMA OwnCreatedPresentationKeeps ==
  ASSUME RuntimeIInv, OwnCreatedPresentation
  PROVE  Keeps
<1> DEFINE next == OwnPresentation(op, TheWorkspace)
<1>1. at["execute"] = "own"
  BY DEF OwnCreatedPresentation
<1>2. RuntimeTypeOK /\ Recording /\ RunPlaced /\ op \in Operation /\ Sound(op)
  BY <1>1, RunFacts
<1>3. CanOwnPresentation(op) => Mild(op, next)
  <2>1. TheWorkspace \in Workspace
    BY OneOfEach DEF TheWorkspace
  <2> QED
    BY <1>2, <2>1, ValueArmsMild
<1> HIDE DEF next
<1>4. /\ UNCHANGED <<seen, run, answer, process, sent, began, reply, crashes>>
      /\ workspace' \in {workspace, "open", "absent"}
  BY DEF OwnCreatedPresentation, rest
<1>5. op' = op \/ (CanOwnPresentation(op) /\ op' = next)
  BY DEF OwnCreatedPresentation, Recorded, NotRecorded, next
<1>6. GoesMildly /\ Goes
  BY <1>2, <1>3, <1>5, MildlyGoes DEF GoesMildly
<1>7. faults' \in 0..MaxFaults
  BY <1>2, FaultTyped, TypeParts DEF OwnCreatedPresentation, Recorded, NotRecorded
<1>8. \/ /\ memory' = [memory EXCEPT !.handle = TRUE, !.worker = TRUE]
         /\ at' = [at EXCEPT !["execute"] = "start"]
      \/ /\ memory' = [memory EXCEPT !.record = FALSE]
         /\ at' = [at EXCEPT !["execute"] = "idle"]
  BY DEF OwnCreatedPresentation, Goto
<1>9. PICK then \in {"start", "idle"} :
        /\ at' = [at EXCEPT !["execute"] = then]
        /\ then = "start" => memory' = [memory EXCEPT !.handle = TRUE, !.worker = TRUE]
        /\ then = "idle" => memory' = [memory EXCEPT !.record = FALSE]
  BY <1>8
<1>10. /\ memory' \in Memories /\ memory'.recoverable = memory.recoverable
       /\ then # "idle" => memory'.record = memory.record
       /\ memory'.cancelEvidence = memory.cancelEvidence /\ memory'.known = memory.known
       /\ memory'.observedOutcome = memory.observedOutcome
  <2>1. memory \in Memories
    BY <1>2, TypeParts
  <2> QED
    BY <1>9, <2>1 DEF Memories
<1>11. at'["execute"] = then
  BY <1>2, <1>9, RunFacts, TypeParts
<1>12. StopEvidenceTrue'
  BY <1>4, <1>6, <1>10, EvidenceKept
<1>13. RunPlaced'
  <2>1. Recording' /\ ~op'.workerLaunched
    BY <1>1, <1>2, <1>6, GoesOn DEF GoesMildly, Mild, SaysNothingOfWorker, RunPlaced, BeforeLaunch
  <2> QED
    BY <1>1, <1>2, <1>4, <1>11, <2>1
    DEF RunPlaced, BeforeSend, BeforeLaunch, WithInstruction, Unsent
<1>14. then \in RunPlaces
  BY DEF RunPlaces, Places, SettlePlaces, HookPlaces
<1> QED
  BY <1>1, <1>2, <1>4, <1>6, <1>7, <1>9, <1>10, <1>12, <1>13, <1>14, TypeParts, RunStep

-----------------------------------------------------------------------------
(* What a run comes to.                                                    *)

LEMMA ThreadFacts ==
  ASSUME RuntimeIInv, NEW t \in Thread
  PROVE  /\ RuntimeTypeOK /\ Placed(t) /\ StopEvidenceTrue
         /\ at[t] \notin {"idle", "cleanups"} => Recording /\ op \in Operation /\ Sound(op)
  BY DEF RuntimeIInv, Placed, Recording

\* The places behind a decision: nothing more is asked of a function there.
LEMMA DecidedPlaces ==
  {"judge", "complete", "doubt", "fail", "idle", "caught", "giveUp", "dispatchCancel",
   "awaitStop", "confirmCancel", "settleAgent", "cleaned"} \cup SettlePlaces
    \subseteq Outside \ {"recover", "request", "acknowledgeCancel", "cleanups"}
  BY DEF Outside, Places, SettlePlaces, HookPlaces, BeforeSend, BeforeLaunch, WithInstruction

\* The event that ends an Operation, and the settlement that follows.
LEMMA DecideStep ==
  ASSUME RuntimeIInv, NEW t \in Thread,
         at[t] \notin {"idle", "recover", "cleanups", "cleaning"},
         \/ WriteGoes(t, op', SettlePlace(t, op')) /\ Mild(op, op') /\ Terminal(op')
         \/ WriteFails(t) /\ (op' = op \/ Mild(op, op')),
         Records
  PROVE  Keeps
<1>1. Recording
  BY ThreadFacts
<1>2. GoesMildly /\ Goes
  BY <1>1, MildlyGoes DEF GoesMildly
<1>3. StopEvidenceTrue'
  BY <1>2, EvidenceKept DEF Records, world
<1>4. op'.workerLaunched = op.workerLaunched
  BY DEF Mild, SaysNothingOfWorker
<1>5. CASE WriteGoes(t, op', SettlePlace(t, op')) /\ Mild(op, op') /\ Terminal(op')
  <2>1. PICK place \in {"startCleanup", "inspect", "cleaned", "readResult", "answer"} :
          /\ place = SettlePlace(t, op')
          /\ place = "inspect" => op'.presentationCleanup # None
          /\ place = "readResult" => op'.state = "completed"
    BY <1>5, SettlePlaceFacts
  <2>2. place \in SettlePlaces \cup {"cleaned"}
    BY DEF SettlePlaces
  <2>3. place \in Outside \ {"recover", "request", "acknowledgeCancel", "cleanups"}
    BY <2>2, DecidedPlaces
  <2> QED
    BY <1>1, <1>2, <1>3, <1>4, <1>5, <2>1, <2>3, WriteStep
<1>6. CASE WriteFails(t) /\ (op' = op \/ Mild(op, op'))
  <2>1. "idle" \in Outside \ {"recover", "request", "acknowledgeCancel", "cleanups"}
    BY DecidedPlaces
  <2>2. "idle" \notin SettlePlaces \cup {"cleaned"}
    BY DEF SettlePlaces
  <2> QED
    BY <1>1, <1>2, <1>3, <1>4, <1>6, <2>1, <2>2, WriteStep
<1> QED
  BY <1>5, <1>6

\* A write before the decision.
LEMMA PassStep ==
  ASSUME RuntimeIInv, NEW t \in Thread,
         at[t] \notin {"idle", "recover", "cleanups", "cleaning"},
         NEW place \in {"judge", "complete", "doubt", "fail", "awaitStop", "confirmCancel",
                        "dispatchCancel", "giveUp"},
         \/ WriteGoes(t, op', place) /\ (op' = op \/ Mild(op, op'))
         \/ WriteFails(t) /\ (op' = op \/ Mild(op, op')),
         Records
  PROVE  Keeps
<1>1. Recording
  BY ThreadFacts
<1>2. GoesMildly /\ Goes
  BY <1>1, MildlyGoes DEF GoesMildly
<1>3. StopEvidenceTrue'
  BY <1>2, EvidenceKept DEF Records, world
<1>4. op'.workerLaunched = op.workerLaunched
  BY DEF Mild, SaysNothingOfWorker
<1>5. place \in Outside \ {"recover", "request", "acknowledgeCancel", "cleanups"}
  BY DecidedPlaces
<1>6. place \notin SettlePlaces \cup {"cleaned"}
  BY DEF SettlePlaces
<1>7. place \notin {"readResult", "inspect", "close", "recordClose", "unconfirm"}
  OBVIOUS
<1> QED
  BY <1>1, <1>2, <1>3, <1>4, <1>5, <1>6, <1>7, WriteStep

LEMMA ConfirmObservedExitKeeps ==
  ASSUME RuntimeIInv, ConfirmObservedExit
  PROVE  Keeps
<1>1. at["execute"] = "observed" /\ Records /\ op' = op
  BY DEF ConfirmObservedExit, Read
<1>2. RuntimeTypeOK /\ Recording /\ op \in Operation /\ "execute" \in Thread
  BY <1>1, RunFacts
<1>3. Goes /\ GoesMildly
  BY <1>1 DEF Goes, GoesMildly
<1>4. StopEvidenceTrue'
  BY <1>1, <1>3, EvidenceKept DEF Records, world
<1>5. CASE WriteFails("execute")
  BY <1>1, <1>2, <1>5, PassStep
<1>6. ASSUME NEW place \in {"confirmExit", "judge"}, WriteGoes("execute", op, place),
             place = "confirmExit" => memory.observedOutcome.exit
      PROVE  Keeps
  <2>1. /\ at' = [at EXCEPT !["execute"] = place] /\ at'["execute"] = place
        /\ seen' = [seen EXCEPT !["execute"] = op]
        /\ answer' = answer /\ faults' \in 0..MaxFaults
    BY <1>2, <1>6, TypeParts DEF WriteGoes, Goto
  <2>2. RunPlaced'
    BY <1>1, <1>6, <2>1 DEF RunPlaced, BeforeSend, BeforeLaunch, WithInstruction, Records
  <2>3. place \in Places /\ place \notin SettlePlaces \cup {"cleaned"}
    BY DEF Places, SettlePlaces
  <2>4. Follows(op, op')
    BY <1>1, FollowsItself
  <2>5. place \notin {"recover", "request", "acknowledgeCancel", "cleanups",
                      "readResult", "inspect", "close", "recordClose", "unconfirm"}
    OBVIOUS
  <2>6. UNCHANGED <<memory, run, reply, world, crashes>>
    BY <1>1 DEF Records
  <2> QED
    BY <1>1, <1>2, <1>3, <1>4, <2>1, <2>2, <2>3, <2>4, <2>5, <2>6, RecordingStep
<1>7. \/ WriteFails("execute")
      \/ \E place \in {"confirmExit", "judge"} :
           /\ WriteGoes("execute", op, place)
           /\ place = "confirmExit" => memory.observedOutcome.exit
  BY DEF ConfirmObservedExit, Read, WriteGoes, WriteFails
<1> QED
  BY <1>5, <1>6, <1>7

LEMMA WorkerStopConfirmedKeeps ==
  ASSUME RuntimeIInv, WorkerStopConfirmed
  PROVE  Keeps
<1>1. at["execute"] = "confirmExit" /\ Records
  BY DEF WorkerStopConfirmed
<1>2. /\ RuntimeTypeOK /\ Recording /\ op \in Operation /\ Sound(op) /\ "execute" \in Thread
      /\ RunPlaced /\ StopEvidenceTrue
  BY <1>1, RunFacts
<1>3. op.workerLaunched /\ process # "running" /\ memory.observedOutcome.exit
  BY <1>1, <1>2 DEF RunPlaced, StopEvidenceTrue
<1>4. \/ WriteGoes("execute", op', "judge")
           /\ CanConfirmWorkerStop(op) /\ op' = ConfirmWorkerStop(op)
      \/ WriteFails("execute")
           /\ (op' = op \/ (CanConfirmWorkerStop(op) /\ op' = ConfirmWorkerStop(op)))
  BY DEF WorkerStopConfirmed, Write, Recorded, NotRecorded, WriteGoes, WriteFails
<1>5. op' = op \/ (Moves(op, op') /\ op'.workerLaunched)
  BY <1>2, <1>4, WorkerArmsMove
<1>6. Goes /\ Recording' /\ op'.workerLaunched
  BY <1>2, <1>3, <1>5 DEF Goes, Moves, Recording
<1>7. StopEvidenceTrue'
  BY <1>1, <1>2, <1>3, <1>6 DEF StopEvidenceTrue, Records, world
<1>8. "judge" \in Outside \ {"recover", "request", "acknowledgeCancel", "cleanups"}
  BY DecidedPlaces
<1>9. "judge" \notin SettlePlaces \cup {"cleaned"}
  BY DEF SettlePlaces
<1> QED
  BY <1>1, <1>2, <1>4, <1>6, <1>7, <1>8, <1>9, WriteStep

LEMMA JudgeObservedKeeps ==
  ASSUME RuntimeIInv, JudgeObserved
  PROVE  Keeps
<1>1. at["execute"] = "judge" /\ UNCHANGED <<memory, reply, world, crashes>> /\ op' = op
  BY DEF JudgeObserved, LeftToOthers, Read
<1>2. RuntimeTypeOK /\ Recording /\ op \in Operation /\ "execute" \in Thread
  BY <1>1, RunFacts
<1>3. Goes /\ GoesMildly
  BY <1>1 DEF Goes, GoesMildly
<1>4. StopEvidenceTrue'
  BY <1>1, <1>3, EvidenceKept DEF world
<1>5. CASE LeftToOthers
  <2>1. /\ at' = [at EXCEPT !["execute"] = "idle"] /\ at'["execute"] = "idle"
        /\ seen' = [seen EXCEPT !["execute"] = None]
        /\ run' = FreshRun /\ answer' = answer /\ faults' = faults
    BY <1>2, <1>5, TypeParts DEF LeftToOthers, Goto
  <2>2. run' \in Runs
    BY <2>1 DEF FreshRun, Runs
  <2>3. "idle" \in RunPlaces /\ "idle" \in Outside
    BY DEF RunPlaces, Outside, Places, SettlePlaces, BeforeSend, BeforeLaunch, WithInstruction
  <2>4. RunPlaced'
    BY <2>1, <2>3, OutsideRun
  <2>5. UNCHANGED <<process, sent, began, workspace>>
    BY <1>1 DEF world
  <2> QED
    BY <1>1, <1>2, <1>3, <1>4, <2>1, <2>2, <2>3, <2>4, <2>5, TypeParts, RunStep
<1>6. CASE Read("execute", IF SettlesAgent(op) THEN "settleAgent" ELSE Verdict(op))
           /\ UNCHANGED run
  <2>1. Records
    BY <1>1, <1>6 DEF Records
  <2>2. CASE WriteFails("execute")
    BY <1>1, <1>2, <2>1, <2>2, PassStep
  <2>3. ASSUME NEW place \in {"settleAgent", "complete", "doubt", "fail"},
               WriteGoes("execute", op, place)
        PROVE  Keeps
    <3>1. place \in Outside \ {"recover", "request", "acknowledgeCancel", "cleanups"}
      BY DecidedPlaces
    <3>2. place \notin SettlePlaces \cup {"cleaned"}
      BY DEF SettlePlaces
    <3>3. place \notin {"readResult", "inspect", "close", "recordClose", "unconfirm"}
      OBVIOUS
    <3>4. WriteGoes("execute", op', place)
      BY <1>1, <2>3
    <3> QED
      BY <1>1, <1>2, <1>3, <1>4, <2>1, <3>1, <3>2, <3>3, <3>4, WriteStep
  <2>4. \/ WriteFails("execute")
        \/ \E place \in {"settleAgent", "complete", "doubt", "fail"} :
             WriteGoes("execute", op, place)
    BY <1>6 DEF Read, WriteGoes, WriteFails, Verdict
  <2> QED
    BY <2>2, <2>3, <2>4
<1> QED
  BY <1>5, <1>6 DEF JudgeObserved

LEMMA AgentSettledKeeps ==
  ASSUME RuntimeIInv, AgentSettled
  PROVE  Keeps
<1>1. at["execute"] = "settleAgent" /\ Records
  BY DEF AgentSettled
<1>2. op \in Operation /\ Sound(op) /\ "execute" \in Thread
  BY <1>1, RunFacts
<1>3. CanSettleAgent(op) => Mild(op, SettleAgent(op))
  BY <1>2, ValueArmsMild
<1>4. PICK place \in {"complete", "doubt", "fail"} : place = Verdict(seen["execute"])
  BY DEF Verdict
<1>5. \/ WriteGoes("execute", op', place) /\ CanSettleAgent(op) /\ op' = SettleAgent(op)
      \/ WriteFails("execute")
           /\ (op' = op \/ (CanSettleAgent(op) /\ op' = SettleAgent(op)))
  BY <1>4 DEF AgentSettled, Write, Recorded, NotRecorded, WriteGoes, WriteFails
<1> QED
  BY <1>1, <1>2, <1>3, <1>4, <1>5, PassStep

LEMMA OperationFailedKeeps ==
  ASSUME RuntimeIInv, OperationFailed
  PROVE  Keeps
<1>1. at["execute"] = "fail" /\ Records
  BY DEF OperationFailed
<1>2. op \in Operation /\ Sound(op) /\ "execute" \in Thread
  BY <1>1, RunFacts
<1>3. CanFail(op) => Mild(op, Fail(op)) /\ Terminal(Fail(op))
  BY <1>2, StateArmsMild
<1>4. \/ WriteGoes("execute", op', SettlePlace("execute", op')) /\ CanFail(op) /\ op' = Fail(op)
      \/ WriteFails("execute") /\ (op' = op \/ (CanFail(op) /\ op' = Fail(op)))
  BY DEF OperationFailed, Write, Recorded, NotRecorded, WriteGoes, WriteFails
<1> QED
  BY <1>1, <1>2, <1>3, <1>4, DecideStep

LEMMA LivenessUnprovenKeeps ==
  ASSUME RuntimeIInv, LivenessUnproven
  PROVE  Keeps
<1> DEFINE can == CanGiveUp(op, "liveness-unproven", 0)
<1>1. at["execute"] = "doubt" /\ Records
  BY DEF LivenessUnproven
<1>2. op \in Operation /\ Sound(op) /\ "execute" \in Thread
  BY <1>1, RunFacts
<1>3. can => Mild(op, GiveUp(op)) /\ Terminal(GiveUp(op))
  BY <1>2, StateArmsMild
<1>4. \/ WriteGoes("execute", op', SettlePlace("execute", op')) /\ can /\ op' = GiveUp(op)
      \/ WriteFails("execute") /\ (op' = op \/ (can /\ op' = GiveUp(op)))
  BY DEF LivenessUnproven, Write, Recorded, NotRecorded, WriteGoes, WriteFails
<1> HIDE DEF can
<1> QED
  BY <1>1, <1>2, <1>3, <1>4, DecideStep

LEMMA DeferredMemory ==
  ASSUME RuntimeTypeOK
  PROVE  LET m == Deferred(memory)
             n == [m EXCEPT !.cleanupsRecovered = FALSE]
         IN /\ m \in Memories /\ n \in Memories
            /\ m.cancelEvidence = memory.cancelEvidence /\ m.known = memory.known
            /\ m.observedOutcome = memory.observedOutcome
            /\ n.cancelEvidence = memory.cancelEvidence /\ n.known = memory.known
            /\ n.observedOutcome = memory.observedOutcome
<1>1. memory \in Memories
  BY TypeParts
<1> DEFINE m == Deferred(memory)
           n == [m EXCEPT !.cleanupsRecovered = FALSE]
<1>2. /\ m \in Memories /\ m.cancelEvidence = memory.cancelEvidence /\ m.known = memory.known
      /\ m.observedOutcome = memory.observedOutcome
  BY <1>1 DEF Deferred, Memories
<1> HIDE DEF m
<1>3. /\ n \in Memories /\ n.cancelEvidence = m.cancelEvidence /\ n.known = m.known
      /\ n.observedOutcome = m.observedOutcome
  BY <1>2 DEF Memories
<1> QED
  BY <1>2, <1>3 DEF m

LEMMA ExecuteCaughtKeeps ==
  ASSUME RuntimeIInv, ExecuteCaught
  PROVE  Keeps
<1>1. /\ at["execute"] = "caught" /\ op' = op
      /\ UNCHANGED <<process, sent, began, workspace, reply, crashes>>
  BY DEF ExecuteCaught, world
<1>2. RuntimeTypeOK /\ Recording /\ op \in Operation /\ "execute" \in Thread
  BY <1>1, RunFacts
<1>3. Goes /\ GoesMildly
  BY <1>1 DEF Goes, GoesMildly
<1>4. CASE /\ Terminal(op)
           /\ seen' = [seen EXCEPT !["execute"] = op]
           /\ run' = [run EXCEPT !.caught = TRUE]
           /\ Goto("execute", SettlePlace("execute", op))
           /\ UNCHANGED <<memory, answer, faults>>
  <2>1. PICK place \in {"startCleanup", "inspect", "cleaned", "readResult", "answer"} :
          /\ place = SettlePlace("execute", op)
          /\ place = "inspect" => op.presentationCleanup # None
          /\ place = "readResult" => op.state = "completed"
    BY <1>4, SettlePlaceFacts
  <2>2. place \in SettlePlaces \cup {"cleaned"}
    BY DEF SettlePlaces
  <2>3. place \in Outside /\ place \in Places
    BY <2>2, DecidedPlaces DEF Outside
  <2>4. at' = [at EXCEPT !["execute"] = place] /\ at'["execute"] = place
    BY <1>2, <1>4, <2>1, <2>3, TypeParts DEF Goto
  <2>5. RunPlaced'
    BY <2>3, <2>4, OutsideRun
  <2>6. run' \in Runs
    BY <1>2, <1>4, TypeParts DEF Runs
  <2>7. StopEvidenceTrue'
    BY <1>1, <1>3, <1>4, EvidenceKept
  <2>8. ToldWhatIsRecorded' /\ ClosedAfterCleanup'
    BY <1>1, <1>3, <1>4, ToldKept, ClosedKept
  <2>9. Follows(op, op')
    BY <1>1, FollowsItself
  <2>10. place \notin {"recover", "request", "acknowledgeCancel", "cleanups"}
    OBVIOUS
  <2> QED
    BY <1>1, <1>2, <1>3, <1>4, <2>1, <2>3, <2>4, <2>5, <2>6, <2>7, <2>8, <2>9, <2>10,
       TypeParts, ThreadStep
<1>5. CASE /\ answer' = Answered("error") /\ memory' \in {memory, Deferred(memory)}
           /\ seen' = [seen EXCEPT !["execute"] = None]
           /\ Goto("execute", "idle") /\ run' = FreshRun
           /\ UNCHANGED faults \/ Fault
  <2>1. at' = [at EXCEPT !["execute"] = "idle"] /\ at'["execute"] = "idle"
    BY <1>2, <1>5, TypeParts DEF Goto
  <2>2. run' \in Runs
    BY <1>5 DEF FreshRun, Runs
  <2>3. "idle" \in RunPlaces /\ "idle" \in Outside
    BY DEF RunPlaces, Outside, Places, SettlePlaces, BeforeSend, BeforeLaunch, WithInstruction
  <2>4. RunPlaced'
    BY <2>1, <2>3, OutsideRun
  <2>5. /\ memory' \in Memories
        /\ memory'.cancelEvidence = memory.cancelEvidence /\ memory'.known = memory.known
        /\ memory'.observedOutcome = memory.observedOutcome
    BY <1>2, <1>5, DeferredMemory, TypeParts
  <2>6. StopEvidenceTrue'
    BY <1>1, <1>3, <2>5, EvidenceKept
  <2>7. faults' \in 0..MaxFaults
    BY <1>2, <1>5, FaultTyped, TypeParts
  <2>8. answer' \in {answer, "error"}
    BY <1>5 DEF Answered
  <2> QED
    BY <1>1, <1>2, <1>3, <1>5, <2>1, <2>2, <2>3, <2>4, <2>5, <2>6, <2>7, <2>8,
       TypeParts, RunStep
<1> QED
  BY <1>4, <1>5 DEF ExecuteCaught

LEMMA OperationCompletedKeeps ==
  ASSUME RuntimeIInv, NEW t \in Thread, OperationCompleted(t)
  PROVE  Keeps
<1>1. at[t] = "complete" /\ Records
  BY DEF OperationCompleted
<1>2. op \in Operation /\ Sound(op)
  BY <1>1, ThreadFacts
<1>3. CanComplete(op) => Mild(op, Complete(op)) /\ Terminal(Complete(op))
  BY <1>2, StateArmsMild
<1>4. \/ WriteGoes(t, op', SettlePlace(t, op')) /\ CanComplete(op) /\ op' = Complete(op)
      \/ WriteFails(t) /\ (op' = op \/ (CanComplete(op) /\ op' = Complete(op)))
  BY DEF OperationCompleted, Write, Recorded, NotRecorded, WriteGoes, WriteFails
<1> QED
  BY <1>1, <1>2, <1>3, <1>4, DecideStep

-----------------------------------------------------------------------------
(* The settlement, whichever function runs it.                             *)

LEMMA FinalIsDecided ==
  ASSUME NEW o, Terminal(o) PROVE o.state \notin OpenStates
  BY DEF Terminal, TerminalStates, OpenStates

\* What a function in the midst of a settlement knows.
LEMMA SettlementFacts ==
  ASSUME RuntimeIInv, NEW t \in Thread, at[t] \in SettlePlaces
  PROVE  /\ RuntimeTypeOK /\ Recording /\ op \in Operation /\ Sound(op)
         /\ at[t] \notin {"idle", "recover", "cleanups", "cleaning"}
         /\ seen[t] \in Operation /\ Follows(seen[t], op)
         /\ Terminal(op) /\ op.state \notin OpenStates /\ seen[t].state = op.state
         /\ Terminal(seen[t])
         /\ at[t] = "readResult" => op.state = "completed"
         /\ at[t] \in {"inspect", "close", "recordClose", "unconfirm"} =>
              op.presentationCleanup # None
<1>1. SettlePlaces \cap {"idle", "recover", "cleanups", "cleaning"} = {}
  BY DEF SettlePlaces
<1>2. /\ RuntimeTypeOK /\ Recording /\ op \in Operation /\ Sound(op) /\ Placed(t)
  BY <1>1, ThreadFacts
<1> QED
  BY <1>1, <1>2, FinalIsDecided DEF Placed, Terminal

\* A step within a settlement that leaves record, promises and run alone.
LEMMA SettlementGoes ==
  ASSUME RuntimeIInv, NEW t \in Thread, at[t] \in SettlePlaces, GoesMildly,
         NEW place \in SettlePlaces \cup {"cleaned"}, at' = [at EXCEPT ![t] = place],
         NEW s \in Operation, seen' = [seen EXCEPT ![t] = s],
         s.state = op.state, Follows(s, op'),
         UNCHANGED <<answer, reply, run, process, sent, began, crashes>>,
         faults' \in 0..MaxFaults,
         memory' \in Memories, memory'.cancelEvidence = memory.cancelEvidence,
         memory'.known = memory.known, memory'.observedOutcome = memory.observedOutcome,
         workspace' \in {"absent", "open", "closed"}, ClosedAfterCleanup',
         place = "readResult" => op.state = "completed",
         place \in {"inspect", "close", "recordClose", "unconfirm"} =>
           op'.presentationCleanup # None
  PROVE  Keeps
<1>1. /\ RuntimeTypeOK /\ Recording /\ Terminal(op)
      /\ at[t] \notin {"idle", "recover", "cleanups", "cleaning"}
  BY SettlementFacts
<1>2. Goes /\ Follows(op, op')
  BY <1>1, MildlyGoes, GoesOn
<1>3. op'.state = op.state /\ Terminal(op')
  BY <1>1, <1>2 DEF Follows, Terminal
<1>4. op'.state \notin OpenStates
  BY <1>3, FinalIsDecided
<1>5. op'.workerLaunched = op.workerLaunched
  BY DEF GoesMildly, Mild, SaysNothingOfWorker
<1>6. place \in Outside \ {"recover", "request", "acknowledgeCancel", "cleanups"}
      /\ place \in Places
  BY DecidedPlaces DEF Outside
<1>7. t = "execute" => RunPlaced'
  <2>1. t = "execute" => at'["execute"] \in Outside
    BY <1>1, <1>6, TypeParts
  <2> QED
    BY <2>1, OutsideRun
<1>8. StopEvidenceTrue'
  BY EvidenceKept
<1>9. ToldWhatIsRecorded'
  BY <1>2, ToldKept
<1>10. answer' \in AnswerKinds /\ reply' \in ReplyKinds /\ run' \in Runs
       /\ process' \in {process, "stopped"}
  BY <1>1, TypeParts
<1> QED
  BY <1>1, <1>2, <1>3, <1>4, <1>5, <1>6, <1>7, <1>8, <1>9, <1>10, ThreadStep

\* A settlement that fails.
LEMMA SettlementFails ==
  ASSUME RuntimeIInv, NEW t \in Thread, at[t] \in SettlePlaces, GoesMildly,
         WriteFails(t), UNCHANGED <<memory, run, reply, world, crashes>>
  PROVE  Keeps
<1>1. RuntimeTypeOK /\ Recording /\ at[t] \notin {"idle", "recover", "cleanups", "cleaning"}
  BY SettlementFacts
<1>2. op' = op \/ Mild(op, op')
  BY DEF GoesMildly
<1>3. Records
  BY DEF Records
<1> QED
  BY <1>1, <1>2, <1>3, PassStep

LEMMA CleanupWriteKeeps ==
  ASSUME RuntimeIInv, NEW t \in Thread, at[t] \in SettlePlaces,
         NEW can \in BOOLEAN, NEW next, can => Mild(op, next),
         NEW place \in SettlePlaces \cup {"cleaned"},
         CleanupWrite(t, can, next, place),
         place = "readResult" => op.state = "completed",
         can /\ place \in {"inspect", "close", "recordClose", "unconfirm"} =>
           next.presentationCleanup # None,
         UNCHANGED <<run, reply, world, crashes>>
  PROVE  Keeps
<1>1. /\ RuntimeTypeOK /\ Recording /\ Terminal(op) /\ op \in Operation
      /\ seen[t] \in Operation /\ Follows(seen[t], op) /\ seen[t].state = op.state
      /\ Terminal(seen[t])
  BY SettlementFacts
<1>2. op' = op \/ (can /\ op' = next)
  BY DEF CleanupWrite, Recorded, NotRecorded
<1>3. GoesMildly
  BY <1>1, <1>2 DEF GoesMildly
<1>4. Goes /\ Follows(op, op') /\ op' \in Operation /\ Recording'
  BY <1>1, <1>3, MildlyGoes, GoesOn DEF Recording
<1>5. op'.state = op.state
  BY <1>1, <1>4 DEF Follows
<1>6. faults' \in 0..MaxFaults
  BY <1>1, FaultTyped, TypeParts DEF CleanupWrite, Recorded, NotRecorded
<1>7. UNCHANGED <<process, sent, began, workspace>>
  BY DEF world
<1>8. ClosedAfterCleanup' /\ workspace' \in {"absent", "open", "closed"}
  BY <1>1, <1>4, <1>7, ClosedKept, TypeParts
<1>9. CASE /\ can /\ op' = next /\ Goto(t, place) /\ seen' = [seen EXCEPT ![t] = next]
           /\ UNCHANGED <<memory, answer>>
  <2>1. at' = [at EXCEPT ![t] = place] /\ seen' = [seen EXCEPT ![t] = op']
    BY <1>9 DEF Goto
  <2>2. place \in {"inspect", "close", "recordClose", "unconfirm"} =>
          op'.presentationCleanup # None
    BY <1>9
  <2>3. Follows(op', op')
    BY FollowsItself
  <2>4. memory' \in Memories
    BY <1>1, <1>9, TypeParts
  <2> QED
    BY <1>3, <1>4, <1>5, <1>6, <1>7, <1>8, <1>9, <2>1, <2>2, <2>3, <2>4, SettlementGoes
<1>10. CASE /\ memory' = [Deferred(memory) EXCEPT !.cleanupsRecovered = FALSE]
            /\ Goto(t, AfterCleanup(t, seen[t]))
            /\ UNCHANGED <<seen, answer>>
  <2>1. PICK q \in {"cleaned", "readResult", "answer"} :
          /\ q = AfterCleanup(t, seen[t])
          /\ q = "readResult" => seen[t].state = "completed"
    BY <1>1, SettlePlaceFacts
  <2>2. q \in SettlePlaces \cup {"cleaned"}
    BY DEF SettlePlaces
  <2>3. /\ memory' \in Memories /\ memory'.cancelEvidence = memory.cancelEvidence
        /\ memory'.known = memory.known /\ memory'.observedOutcome = memory.observedOutcome
    BY <1>1, <1>10, DeferredMemory
  <2>4. at' = [at EXCEPT ![t] = q]
    BY <1>10, <2>1 DEF Goto
  <2>5. seen' = [seen EXCEPT ![t] = seen[t]]
    BY <1>1, <1>10, TypeParts
  <2>6. Follows(seen[t], op')
    BY <1>1, <1>4, FollowsOn
  <2>7. q = "readResult" => op.state = "completed"
    BY <1>1, <2>1
  <2>8. q \notin {"inspect", "close", "recordClose", "unconfirm"}
    OBVIOUS
  <2> QED
    BY <1>1, <1>3, <1>6, <1>7, <1>8, <1>10, <2>2, <2>3, <2>4, <2>5, <2>6, <2>7, <2>8,
       SettlementGoes
<1>11. CASE Throw(t) /\ UNCHANGED memory
  <2>1. faults' = faults \/ Fault
    BY DEF CleanupWrite, Recorded, NotRecorded
  <2> QED
    BY <1>3, <1>11, <2>1, SettlementFails DEF WriteFails
<1> QED
  BY <1>9, <1>10, <1>11 DEF CleanupWrite, Recorded

LEMMA StartPresentationCleanupKeeps ==
  ASSUME RuntimeIInv, NEW t \in Thread, StartPresentationCleanup(t)
  PROVE  Keeps
<1> DEFINE w    == seen[t].presentation
           can  == CanStartCleanup(op, w)
           next == StartCleanup(op, TheCleanup, w)
<1>1. at[t] = "startCleanup" /\ CleanupWrite(t, can, next, "inspect")
      /\ UNCHANGED <<run, reply, world, crashes>>
  BY DEF StartPresentationCleanup
<1>2. "startCleanup" \in SettlePlaces /\ "inspect" \in SettlePlaces
  BY DEF SettlePlaces
<1>3. op \in Operation /\ Sound(op)
  BY <1>1, <1>2, SettlementFacts
<1>4. TheCleanup \in CleanupId
  BY OneOfEach DEF TheCleanup
<1>5. can \in BOOLEAN
  BY DEF CanStartCleanup
<1>6. can => Mild(op, next) /\ next.presentationCleanup # None
  <2>1. can => w \in Workspace
    <3>1. can => op.presentation = w /\ w # None
      BY DEF CanStartCleanup
    <3>2. op.presentation \in Workspace \cup {None}
      BY <1>3, SMT DEF Operation
    <3> QED
      BY <3>1, <3>2
  <2> QED
    BY <1>3, <1>4, <2>1, CleanupArmsMild
<1> HIDE DEF can, next
<1> QED
  BY <1>1, <1>2, <1>5, <1>6, CleanupWriteKeeps

LEMMA RecordCleanupKeeps ==
  ASSUME RuntimeIInv, NEW t \in Thread, NEW place \in {"recordClose", "unconfirm"},
         NEW outcome \in {"completed", "unconfirmed"}, RecordCleanup(t, place, outcome)
  PROVE  Keeps
<1> DEFINE can  == CanFinishCleanup(op, TheCleanup, seen[t].presentation)
           next == FinishCleanup(op, outcome)
<1>1. at[t] = place /\ CleanupWrite(t, can, next, AfterCleanup(t, seen[t]))
      /\ UNCHANGED <<run, reply, world, crashes>>
  BY DEF RecordCleanup
<1>2. at[t] \in SettlePlaces
  BY <1>1 DEF SettlePlaces
<1>3. /\ op \in Operation /\ Sound(op) /\ Terminal(seen[t]) /\ seen[t].state = op.state
  BY <1>2, SettlementFacts
<1>4. can \in BOOLEAN
  BY DEF CanFinishCleanup
<1>5. can => Mild(op, next)
  BY <1>3, CleanupArmsMild
<1>6. PICK q \in {"cleaned", "readResult", "answer"} :
        /\ q = AfterCleanup(t, seen[t])
        /\ q = "readResult" => seen[t].state = "completed"
  BY <1>3, SettlePlaceFacts
<1>7. /\ q \in SettlePlaces \cup {"cleaned"}
      /\ q \notin {"inspect", "close", "recordClose", "unconfirm"}
  BY DEF SettlePlaces
<1> HIDE DEF can, next
<1> QED
  BY <1>1, <1>2, <1>3, <1>4, <1>5, <1>6, <1>7, CleanupWriteKeeps

LEMMA WorkspaceStepsKeep ==
  ASSUME RuntimeIInv, NEW t \in Thread,
         InspectOwnedWorkspace(t) \/ CloseOwnedWorkspace(t)
  PROVE  Keeps
<1>1. /\ at[t] \in {"inspect", "close"}
      /\ UNCHANGED <<op, seen, memory, run, answer, reply, process, sent, began, crashes>>
      /\ workspace' \in {workspace, "closed"}
      /\ faults' = faults \/ Fault
  BY DEF InspectOwnedWorkspace, CloseOwnedWorkspace, world
<1>2. PICK place \in {"close", "unconfirm", "recordClose"} : at' = [at EXCEPT ![t] = place]
  BY DEF InspectOwnedWorkspace, CloseOwnedWorkspace, Goto
<1>3. at[t] \in SettlePlaces /\ place \in SettlePlaces /\ place # "readResult"
  BY <1>1 DEF SettlePlaces
<1>4. /\ RuntimeTypeOK /\ Recording /\ op.presentationCleanup # None
      /\ seen[t] \in Operation /\ Follows(seen[t], op) /\ seen[t].state = op.state
  BY <1>1, <1>3, SettlementFacts
<1>5. GoesMildly /\ faults' \in 0..MaxFaults
  BY <1>1, <1>4, FaultTyped, TypeParts DEF GoesMildly
<1>6. ClosedAfterCleanup'
  BY <1>1, <1>4 DEF ClosedAfterCleanup, Recording
<1>7. seen' = [seen EXCEPT ![t] = seen[t]] /\ memory' \in Memories
      /\ workspace' \in {"absent", "open", "closed"}
  BY <1>1, <1>4, TypeParts
<1> QED
  BY <1>1, <1>2, <1>3, <1>4, <1>5, <1>6, <1>7, SettlementGoes

LEMMA AnswerTerminalKeeps ==
  ASSUME RuntimeIInv, NEW t \in Thread, AnswerTerminal(t)
  PROVE  Keeps
<1>1. /\ at[t] \in {"readResult", "answer"}
      /\ UNCHANGED <<op, memory, world, crashes>>
  BY DEF AnswerTerminal
<1>2. at[t] \in SettlePlaces
  BY <1>1 DEF SettlePlaces
<1>3. /\ RuntimeTypeOK /\ Recording /\ Terminal(op) /\ op.state \notin OpenStates
      /\ seen[t].state = op.state
      /\ at[t] \notin {"idle", "recover", "cleanups", "cleaning"}
      /\ at[t] = "readResult" => op.state = "completed"
  BY <1>2, SettlementFacts
<1>4. GoesMildly /\ Goes
  BY <1>1 DEF GoesMildly, Goes
<1>5. CASE Throw(t) /\ Fault /\ UNCHANGED <<reply, run>>
  BY <1>1, <1>2, <1>4, <1>5, SettlementFails DEF WriteFails
<1>6. CASE Settled(t, op.state) /\ UNCHANGED faults
  <2>1. PICK place \in {"idle", "cleanups"} :
          /\ at' = [at EXCEPT ![t] = place]
          /\ place = "cleanups" => t = "recoverWorkers"
    BY <1>6 DEF Settled, Returned, AfterWorkers, Goto
  <2>2. /\ seen' = [seen EXCEPT ![t] = None]
        /\ answer' \in {answer, op.state} /\ reply' \in {reply, op.state}
        /\ run' \in {run, FreshRun} /\ (t # "execute" => run' = run)
    BY <1>3, <1>6 DEF Settled, Answered
  <2>3. op.state \in TerminalStates
    BY <1>3 DEF Terminal
  <2>4. answer' \in AnswerKinds /\ reply' \in ReplyKinds /\ run' \in Runs
    <3>1. FreshRun \in Runs
      BY DEF FreshRun, Runs
    <3>2. answer \in AnswerKinds /\ reply \in ReplyKinds /\ run \in Runs
      BY <1>3, TypeParts
    <3>3. op.state \in AnswerKinds /\ op.state \in ReplyKinds
      BY <2>3 DEF AnswerKinds, ReplyKinds
    <3> QED
      BY <2>2, <3>1, <3>2, <3>3
  <2>5. ToldWhatIsRecorded'
    <3>1. ToldWhatIsRecorded
      BY DEF RuntimeIInv
    <3> QED
      BY <1>1, <1>3, <2>2, <3>1 DEF ToldWhatIsRecorded, Recording
  <2>6. UNCHANGED <<process, sent, began, workspace>>
    BY <1>1 DEF world
  <2>7. StopEvidenceTrue' /\ ClosedAfterCleanup'
    BY <1>1, <1>4, <2>6, EvidenceKept, ClosedKept
  <2>8. place \in Places /\ place \notin SettlePlaces \cup {"cleaned"}
        /\ place \notin {"recover", "request", "acknowledgeCancel", "readResult",
                         "inspect", "close", "recordClose", "unconfirm"}
    BY DEF Places, SettlePlaces
  <2>9. t = "execute" => RunPlaced'
    <3>1. t = "execute" => at'["execute"] = "idle"
      BY <1>3, <2>1, TypeParts
    <3>2. "idle" \in Outside
      BY DecidedPlaces
    <3> QED
      BY <3>1, <3>2, OutsideRun
  <2>10. faults' \in 0..MaxFaults /\ memory' \in Memories
         /\ workspace' \in {"absent", "open", "closed"}
    BY <1>1, <1>3, <1>6, <2>6, TypeParts
  <2>11. None \notin Operation
    BY NoneIsNoOperation
  <2> QED
    BY <1>1, <1>3, <1>4, <2>1, <2>2, <2>4, <2>5, <2>6, <2>7, <2>8, <2>9, <2>10, <2>11,
       ThreadStep
<1> QED
  BY <1>1, <1>3, <1>5, <1>6 DEF AnswerTerminal

LEMMA SettlementStepKeeps ==
  ASSUME RuntimeIInv, NEW t \in Thread, SettlementStep(t)
  PROVE  Keeps
  BY StartPresentationCleanupKeeps, WorkspaceStepsKeep, RecordCleanupKeeps, AnswerTerminalKeeps
  DEF SettlementStep

-----------------------------------------------------------------------------
(* Cancellations, and what ends an Operation without one.                  *)

LEMMA OperationUnknownKeeps ==
  ASSUME RuntimeIInv, NEW t \in Thread, OperationUnknown(t)
  PROVE  Keeps
<1>1. PICK reason \in {"cancel-unproven", "liveness-unproven"} :
        /\ at[t] = "giveUp" /\ Records
        /\ Write(t, CanGiveUp(op, reason, Epoch(t)), GiveUp(op), SettlePlace(t, GiveUp(op)))
  BY DEF OperationUnknown
<1> DEFINE can == CanGiveUp(op, reason, Epoch(t))
<1>2. op \in Operation /\ Sound(op)
  BY <1>1, ThreadFacts
<1>3. can => Mild(op, GiveUp(op)) /\ Terminal(GiveUp(op))
  BY <1>2, StateArmsMild
<1>4. \/ WriteGoes(t, op', SettlePlace(t, op')) /\ can /\ op' = GiveUp(op)
      \/ WriteFails(t) /\ (op' = op \/ (can /\ op' = GiveUp(op)))
  BY <1>1 DEF Write, Recorded, NotRecorded, WriteGoes, WriteFails
<1> HIDE DEF can
<1> QED
  BY <1>1, <1>2, <1>3, <1>4, DecideStep

LEMMA OperationCancelledKeeps ==
  ASSUME RuntimeIInv, NEW t \in Thread, OperationCancelled(t)
  PROVE  Keeps
<1> DEFINE can == CanCancel(op, Epoch(t))
<1>1. at[t] = "confirmCancel" /\ Records
  BY DEF OperationCancelled
<1>2. op \in Operation /\ Sound(op)
  BY <1>1, ThreadFacts
<1>3. can => Mild(op, Cancel(op)) /\ Terminal(Cancel(op))
  BY <1>2, StateArmsMild
<1>4. \/ WriteGoes(t, op', SettlePlace(t, op')) /\ can /\ op' = Cancel(op)
      \/ WriteFails(t) /\ (op' = op \/ (can /\ op' = Cancel(op)))
  BY DEF OperationCancelled, Write, Recorded, NotRecorded, WriteGoes, WriteFails
<1> HIDE DEF can
<1> QED
  BY <1>1, <1>2, <1>3, <1>4, DecideStep

LEMMA CancelDispatchedKeeps ==
  ASSUME RuntimeIInv, NEW t \in Thread, CancelDispatched(t)
  PROVE  Keeps
<1>1. at[t] = "dispatchCancel" /\ UNCHANGED <<run, reply, world, crashes>>
  BY DEF CancelDispatched
<1>2. RuntimeTypeOK /\ Recording /\ op \in Operation
  BY <1>1, ThreadFacts
<1>3. op' = op
  BY DEF CancelDispatched, Write, Recorded, NotRecorded, DispatchCancel
<1>4. GoesMildly /\ Goes
  BY <1>3 DEF GoesMildly, Goes
<1>5. CASE WriteGoes(t, op, "awaitStop")
  <2>1. /\ at' = [at EXCEPT ![t] = "awaitStop"] /\ seen' = [seen EXCEPT ![t] = op]
        /\ UNCHANGED <<answer, faults>> /\ "awaitStop" \in Places
    BY <1>5 DEF WriteGoes, Goto, Places
  <2>2. memory' = [memory EXCEPT !.requested = @ \/ memory.worker]
    <3>1. at'[t] = "awaitStop"
      BY <1>2, <2>1, TypeParts
    <3> QED
      BY <3>1 DEF CancelDispatched
  <2>3. memory' \in Memories /\ memory'.cancelEvidence = memory.cancelEvidence
        /\ memory'.known = memory.known /\ memory'.observedOutcome = memory.observedOutcome
        /\ memory'.record = memory.record /\ memory'.recoverable = memory.recoverable
    <3>1. memory \in Memories
      BY <1>2, TypeParts
    <3> QED
      BY <2>2, <3>1 DEF Memories
  <2>4. UNCHANGED <<process, sent, began, workspace>>
    BY <1>1 DEF world
  <2>5. StopEvidenceTrue' /\ ToldWhatIsRecorded' /\ ClosedAfterCleanup'
    BY <1>1, <1>4, <2>1, <2>3, <2>4, EvidenceKept, ToldKept, ClosedKept
  <2>6. t = "execute" => RunPlaced'
    <3>1. t = "execute" => at'["execute"] = "awaitStop"
      BY <1>2, <2>1, TypeParts
    <3>2. "awaitStop" \in Outside
      BY DecidedPlaces
    <3> QED
      BY <3>1, <3>2, OutsideRun
  <2>7. Follows(op, op')
    BY <1>3, FollowsItself
  <2>8. "awaitStop" \notin SettlePlaces \cup {"cleaned"}
    BY DEF SettlePlaces
  <2> QED
    BY <1>1, <1>2, <1>3, <1>4, <2>1, <2>3, <2>4, <2>5, <2>6, <2>7, <2>8, TypeParts, ThreadStep
<1>6. CASE WriteFails(t)
  <2>1. PICK h \in {"caught", "stopSession", "stopUncertain"} : at' = [at EXCEPT ![t] = h]
    BY <1>2, <1>6, ThrowFacts DEF WriteFails
  <2>2. at'[t] # "awaitStop"
    BY <1>2, <2>1, TypeParts
  <2>3. memory' = memory
    BY <2>2 DEF CancelDispatched
  <2> QED
    BY <1>1, <1>3, <1>6, <2>3, PassStep DEF Records
<1>7. WriteGoes(t, op, "awaitStop") \/ WriteFails(t)
  BY DEF CancelDispatched, Write, Recorded, NotRecorded, WriteGoes, WriteFails, DispatchCancel
<1> QED
  BY <1>5, <1>6, <1>7

LEMMA AwaitStopKeeps ==
  ASSUME RuntimeIInv, NEW t \in Thread, AwaitStop(t)
  PROVE  Keeps
<1>1. /\ at[t] = "awaitStop"
      /\ UNCHANGED <<op, seen, run, answer, sent, began, workspace, faults, reply, crashes>>
  BY DEF AwaitStop, rest
<1>2. RuntimeTypeOK /\ Recording /\ op \in Operation /\ Placed(t)
  BY <1>1, ThreadFacts
<1>3. GoesMildly /\ Goes
  BY <1>1 DEF GoesMildly, Goes
<1>4. PICK place \in {"acknowledgeCancel", "giveUp"} :
        /\ at' = [at EXCEPT ![t] = place]
        /\ place = "acknowledgeCancel" =>
             StopProcess(TRUE) /\ memory' = [memory EXCEPT !.cancelEvidence = TRUE]
        /\ place = "giveUp" => UNCHANGED <<memory, process>>
  BY DEF AwaitStop, Goto
<1>5. process' \in {process, "stopped"}
      /\ (place = "acknowledgeCancel" => op.workerLaunched /\ process' # "running")
  BY <1>4, StopFacts
<1>6. /\ memory' \in Memories /\ memory'.known = memory.known
      /\ memory'.observedOutcome = memory.observedOutcome
      /\ memory'.record = memory.record /\ memory'.recoverable = memory.recoverable
      /\ memory'.cancelEvidence =>
           memory.cancelEvidence \/ place = "acknowledgeCancel"
      /\ memory.cancelEvidence => memory'.cancelEvidence
      /\ place = "acknowledgeCancel" => memory'.cancelEvidence
  <2>1. memory \in Memories
    BY <1>2, TypeParts
  <2> QED
    BY <1>4, <2>1 DEF Memories
<1>7. StopEvidenceTrue'
  BY <1>2, <1>3, <1>5, <1>6, EvidenceKept
<1>8. ToldWhatIsRecorded' /\ ClosedAfterCleanup'
  BY <1>1, <1>3, ToldKept, ClosedKept
<1>9. seen' = [seen EXCEPT ![t] = seen[t]] /\ seen[t] \in Operation \cup {None}
  BY <1>1, <1>2, TypeParts
<1>10. seen[t] \in Operation => Follows(seen[t], op')
  BY <1>1, <1>2 DEF Placed
<1>11. t = "execute" => RunPlaced'
  <2>1. t = "execute" => at'["execute"] = place
    BY <1>2, <1>4, TypeParts
  <2>2. {"giveUp", "acknowledgeCancel"} \subseteq Outside
    BY DEF Outside, Places, SettlePlaces, BeforeSend, BeforeLaunch, WithInstruction
  <2> QED
    BY <2>1, <2>2, OutsideRun
<1>12. place \in Places /\ place \notin SettlePlaces \cup {"cleaned", "cleanups"}
       /\ place \notin {"recover", "request", "readResult",
                        "inspect", "close", "recordClose", "unconfirm"}
  BY DEF Places, SettlePlaces
<1>13. /\ answer' \in AnswerKinds /\ reply' \in ReplyKinds /\ faults' \in 0..MaxFaults
       /\ run' \in Runs /\ run' = run /\ workspace' \in {"absent", "open", "closed"}
       /\ UNCHANGED <<sent, began, crashes>>
  BY <1>1, <1>2, TypeParts
<1>14. /\ op'.workerLaunched = op.workerLaunched
       /\ process' \in {process, "stopped"}
       /\ place = "acknowledgeCancel" => memory'.cancelEvidence
       /\ t # "cancel" => at[t] \notin {"idle", "recover", "cleanups", "cleaning"}
  BY <1>1, <1>5, <1>6
<1> QED
  BY <1>2, <1>3, <1>4, <1>6, <1>7, <1>8, <1>9, <1>10, <1>11, <1>12, <1>13, <1>14,
     ThreadStep

LEMMA CancelAcknowledgedKeeps ==
  ASSUME RuntimeIInv, NEW t \in Thread, CancelAcknowledged(t)
  PROVE  Keeps
<1> DEFINE can == OfCancellation(op, Epoch(t))
<1>1. at[t] = "acknowledgeCancel" /\ Records
  BY DEF CancelAcknowledged
<1>2. /\ RuntimeTypeOK /\ Recording /\ op \in Operation /\ Sound(op)
      /\ StopEvidenceTrue /\ Placed(t)
  BY <1>1, ThreadFacts
<1>3. op.workerLaunched /\ process # "running"
  BY <1>1, <1>2 DEF Placed, StopEvidenceTrue
<1>4. \/ WriteGoes(t, op', "confirmCancel") /\ can /\ op' = AcknowledgeCancel(op)
      \/ WriteFails(t) /\ (op' = op \/ (can /\ op' = AcknowledgeCancel(op)))
  BY DEF CancelAcknowledged, Write, Recorded, NotRecorded, WriteGoes, WriteFails
<1>5. can => op.state = "cancelling"
  BY DEF OfCancellation
<1> HIDE DEF can
<1>6. op' = op \/ (Moves(op, op') /\ op'.workerLaunched)
  BY <1>2, <1>3, <1>4, <1>5, WorkerArmsMove
<1>7. Goes /\ Recording' /\ op'.workerLaunched
  BY <1>2, <1>3, <1>6 DEF Goes, Moves, Recording
<1>8. StopEvidenceTrue'
  BY <1>1, <1>2, <1>3, <1>7 DEF StopEvidenceTrue, Records, world
<1>9. "confirmCancel" \in Outside \ {"recover", "request", "acknowledgeCancel", "cleanups"}
  BY DecidedPlaces
<1>10. "confirmCancel" \notin SettlePlaces \cup {"cleaned"}
  BY DEF SettlePlaces
<1> QED
  BY <1>1, <1>2, <1>3, <1>4, <1>7, <1>8, <1>9, <1>10, WriteStep

LEMMA CancellationStepKeeps ==
  ASSUME RuntimeIInv, NEW t \in Thread, CancellationStep(t)
  PROVE  Keeps
  BY CancelDispatchedKeeps, AwaitStopKeeps, CancelAcknowledgedKeeps, OperationCancelledKeeps
  DEF CancellationStep

LEMMA CallCancelKeeps ==
  ASSUME RuntimeIInv, CallCancel
  PROVE  Keeps
<1> DEFINE asked == [Requested EXCEPT !.cancellationEpoch = op.cancellationEpoch]
<1>1. /\ at["cancel"] = "idle" /\ memory.handle /\ reply' = "pending"
      /\ UNCHANGED <<op, memory, run, process, sent, began, workspace, crashes>>
  BY DEF CallCancel, world
<1>2. RuntimeTypeOK /\ Recording /\ op \in Operation /\ "cancel" \in Thread
  BY <1>1 DEF RuntimeIInv, NothingBeforeRecord, Recording, Thread
<1>3. GoesMildly /\ Goes
  BY <1>1 DEF GoesMildly, Goes
<1>4. asked \in Operation /\ Follows(asked, op)
  <2>1. op.cancellationEpoch \in Nat
    BY <1>2, SMT DEF Operation
  <2>2. asked \in Operation
    BY <2>1, RequestedSound, WithEpoch
  <2>3. /\ asked.state = "queued" /\ ~asked.workerLaunched /\ asked.workerIdentity = None
        /\ asked.presentationCleanup = None
    BY DEF Requested
  <2> HIDE DEF asked
  <2>4. Follows(asked, op)
    BY <2>3 DEF Follows, Terminal, TerminalStates, OpenStates
  <2> QED
    BY <2>2, <2>4
<1>5. \/ /\ seen' = [seen EXCEPT !["cancel"] = asked]
         /\ at' = [at EXCEPT !["cancel"] = "request"]
         /\ UNCHANGED <<answer, faults>>
      \/ Fault /\ Throw("cancel")
  BY DEF CallCancel, Goto
<1> HIDE DEF asked
<1>6. PICK place \in {"request", "caught"}, s \in {asked, None} :
        /\ at' = [at EXCEPT !["cancel"] = place] /\ seen' = [seen EXCEPT !["cancel"] = s]
        /\ place = "request" => s = asked
        /\ answer' \in {answer, "error"} /\ faults' \in 0..MaxFaults
  <2>1. CASE Fault /\ Throw("cancel")
    <3>1. at' = [at EXCEPT !["cancel"] = "caught"]
      BY <1>2, <2>1, ThrowFacts
    <3>2. seen' = [seen EXCEPT !["cancel"] = None] /\ answer' \in {answer, "error"}
      BY <1>2, <2>1, ThrowFacts
    <3>3. faults' \in 0..MaxFaults
      BY <1>2, <2>1, FaultTyped
    <3> QED
      BY <3>1, <3>2, <3>3
  <2>2. CASE /\ seen' = [seen EXCEPT !["cancel"] = asked]
             /\ at' = [at EXCEPT !["cancel"] = "request"]
             /\ UNCHANGED <<answer, faults>>
    BY <1>2, <2>2, TypeParts
  <2> QED
    BY <1>5, <2>1, <2>2
<1>7. StopEvidenceTrue' /\ ToldWhatIsRecorded' /\ ClosedAfterCleanup'
  BY <1>1, <1>3, <1>6, EvidenceKept, ToldKept, ClosedKept
<1>8. place \in Places /\ place \notin SettlePlaces \cup {"cleaned", "cleanups"}
      /\ place \notin {"recover", "acknowledgeCancel", "readResult",
                       "inspect", "close", "recordClose", "unconfirm"}
  BY DEF Places, SettlePlaces
<1>9. s \in Operation \cup {None} /\ (s \in Operation => Follows(s, op'))
      /\ (place = "request" => s \in Operation)
  BY <1>1, <1>4, <1>6, NoneIsNoOperation
<1>10. answer' \in AnswerKinds /\ reply' \in ReplyKinds
  BY <1>1, <1>2, <1>6, TypeParts DEF AnswerKinds, ReplyKinds
<1>11. /\ run' \in Runs /\ memory' \in Memories /\ process' \in {process, "stopped"}
       /\ workspace' \in {"absent", "open", "closed"}
       /\ UNCHANGED <<sent, began, crashes>> /\ run' = run
       /\ memory' = memory /\ op'.workerLaunched = op.workerLaunched
  BY <1>1, <1>2, TypeParts
<1> QED
  BY <1>2, <1>3, <1>6, <1>7, <1>8, <1>9, <1>10, <1>11, ThreadStep

LEMMA CancellationRequestedKeeps ==
  ASSUME RuntimeIInv, CancellationRequested
  PROVE  Keeps
<1> DEFINE epoch == Epoch("cancel") + 1
           can   == CanRequestCancellation(op, epoch)
<1>1. at["cancel"] = "request" /\ Records /\ "cancel" \in Thread
  BY DEF CancellationRequested, Thread
<1>2. op \in Operation /\ Sound(op) /\ Placed("cancel")
  BY <1>1, ThreadFacts
<1>3. epoch \in Nat
  <2>1. seen["cancel"] \in Operation
    BY <1>1, <1>2 DEF Placed
  <2>2. seen["cancel"].cancellationEpoch \in Nat
    BY <2>1, SMT DEF Operation
  <2> QED
    BY <2>2 DEF Epoch
<1>4. \/ /\ WriteGoes("cancel", op', "dispatchCancel")
         /\ can /\ op' = RequestCancellation(op, epoch)
      \/ /\ WriteFails("cancel")
         /\ op' = op \/ (can /\ op' = RequestCancellation(op, epoch))
  BY DEF CancellationRequested, Write, Recorded, NotRecorded, WriteGoes, WriteFails
<1> HIDE DEF epoch
<1>5. can => Mild(op, RequestCancellation(op, epoch))
  BY <1>2, <1>3, RequestCancellationMild
<1> HIDE DEF can
<1> QED
  BY <1>1, <1>4, <1>5, PassStep

\* The end of a function that has failed.
LEMMA CaughtStep ==
  ASSUME RuntimeIInv, NEW t \in Thread \ {"execute"}, at[t] = "caught",
         at' = [at EXCEPT ![t] = "idle"], seen' = [seen EXCEPT ![t] = None],
         UNCHANGED <<op, run, world, crashes>>, faults' \in 0..MaxFaults,
         answer' \in {answer, "error"}, reply' \in {reply, "error"},
         memory' \in Memories, memory'.cancelEvidence = memory.cancelEvidence,
         memory'.known = memory.known, memory'.observedOutcome = memory.observedOutcome,
         op.state \in OpenStates /\ at["execute"] # "idle" =>
           memory'.record = memory.record /\ memory'.recoverable = memory.recoverable
  PROVE  Keeps
<1>1. RuntimeTypeOK /\ Recording
  BY ThreadFacts
<1>2. GoesMildly /\ Goes /\ UNCHANGED <<process, sent, began, workspace>>
  BY DEF GoesMildly, Goes, world
<1>3. StopEvidenceTrue' /\ ToldWhatIsRecorded' /\ ClosedAfterCleanup'
  BY <1>2, EvidenceKept, ToldKept, ClosedKept
<1>4. "idle" \in Places /\ "idle" \notin SettlePlaces \cup {"cleaned"}
  BY DEF Places, SettlePlaces
<1>5. None \notin Operation
  BY NoneIsNoOperation
<1>6. answer' \in AnswerKinds /\ reply' \in ReplyKinds
  BY <1>1, TypeParts DEF AnswerKinds, ReplyKinds
<1>7. /\ run' \in Runs /\ process' \in {process, "stopped"}
      /\ workspace' \in {"absent", "open", "closed"}
      /\ UNCHANGED <<sent, began, crashes>> /\ run' = run
      /\ op' = op /\ op'.workerLaunched = op.workerLaunched
  BY <1>1, <1>2, TypeParts
<1>8. /\ at[t] \notin {"idle", "recover", "cleanups", "cleaning"}
      /\ None \in Operation \cup {None} /\ t # "execute" /\ t \in Thread
      /\ "idle" \notin {"cleanups", "acknowledgeCancel", "recover", "request", "readResult",
                       "inspect", "close", "recordClose", "unconfirm"}
  OBVIOUS
<1> DEFINE place == "idle"
<1> HIDE DEF place
<1>9. /\ place = "idle" /\ place \in Places /\ place \notin SettlePlaces \cup {"cleaned"}
      /\ at' = [at EXCEPT ![t] = place]
  BY <1>4 DEF place
<1> QED
  BY <1>1, <1>2, <1>3, <1>5, <1>6, <1>7, <1>8, <1>9, ThreadStep

LEMMA CancelCaughtKeeps ==
  ASSUME RuntimeIInv, CancelCaught
  PROVE  Keeps
<1>1. /\ at["cancel"] = "caught" /\ at' = [at EXCEPT !["cancel"] = "idle"]
      /\ seen' = [seen EXCEPT !["cancel"] = None] /\ reply' = "error"
      /\ UNCHANGED <<op, run, answer, world, crashes>>
      /\ "cancel" \in Thread \ {"execute"}
  BY DEF CancelCaught, Goto, Thread
<1>2. RuntimeTypeOK
  BY DEF RuntimeIInv
<1>3. LeftToRecovery(op) => op.state \notin OpenStates
  BY FinalIsDecided DEF LeftToRecovery, OpenStates
<1>4. memory' = memory \/ (memory' = Deferred(memory) /\ op.state \notin OpenStates)
  BY <1>3 DEF CancelCaught
<1>5. /\ memory' \in Memories
      /\ memory'.cancelEvidence = memory.cancelEvidence /\ memory'.known = memory.known
      /\ memory'.observedOutcome = memory.observedOutcome
  BY <1>2, <1>4, DeferredMemory, TypeParts
<1>6. faults' \in 0..MaxFaults
  BY <1>2, FaultTyped, TypeParts DEF CancelCaught
<1> QED
  BY <1>1, <1>4, <1>5, <1>6, CaughtStep

LEMMA RecoverCancellationCaughtKeeps ==
  ASSUME RuntimeIInv, NEW t \in CancellationRecovery, RecoverCancellationCaught(t)
  PROVE  Keeps
<1>1. /\ at[t] = "caught" /\ at' = [at EXCEPT ![t] = "idle"]
      /\ seen' = [seen EXCEPT ![t] = None] /\ memory' = Deferred(memory)
      /\ UNCHANGED <<op, run, reply, world, faults, crashes>>
      /\ t \in Thread \ {"execute"} /\ answer' \in {answer, "error"}
  BY DEF RecoverCancellationCaught, Goto, Thread, CancellationRecovery, Answered
<1>2. RuntimeTypeOK /\ op.state \notin OpenStates
  BY <1>1 DEF RuntimeIInv, Placed
<1> QED
  BY <1>1, <1>2, DeferredMemory, TypeParts, CaughtStep

LEMMA RecoverWorkersCaughtKeeps ==
  ASSUME RuntimeIInv, RecoverWorkersCaught
  PROVE  Keeps
<1>1. /\ at["recoverWorkers"] = "caught" /\ at' = [at EXCEPT !["recoverWorkers"] = "idle"]
      /\ seen' = [seen EXCEPT !["recoverWorkers"] = None]
      /\ memory' = [memory EXCEPT !.recoverable = TRUE, !.workersRecovered = FALSE]
      /\ UNCHANGED <<op, run, answer, reply, world, faults, crashes>>
      /\ "recoverWorkers" \in Thread \ {"execute"}
  BY DEF RecoverWorkersCaught, Goto, Thread
<1>2. RuntimeTypeOK /\ RunIsBusy /\ Recording
  BY <1>1, ThreadFacts DEF RuntimeIInv
<1>3. ~(op.state \in OpenStates /\ at["execute"] # "idle")
  BY <1>1, <1>2 DEF RunIsBusy
<1>4. /\ memory' \in Memories
      /\ memory'.cancelEvidence = memory.cancelEvidence /\ memory'.known = memory.known
      /\ memory'.observedOutcome = memory.observedOutcome
  <2>1. memory \in Memories
    BY <1>2, TypeParts
  <2> QED
    BY <1>1, <2>1 DEF Memories
<1> QED
  BY <1>1, <1>2, <1>3, <1>4, TypeParts, CaughtStep

-----------------------------------------------------------------------------
(* Recovery, and what happens around the Runtime.                          *)

\* A step that records no event; the functions of T move.
LEMMA QuietStep ==
  ASSUME RuntimeIInv, op' = op, NEW T \in SUBSET Thread,
         at' \in [Thread -> Places], seen' \in [Thread -> Operation \cup {None}],
         \A u \in Thread \ T : at'[u] = at[u] /\ seen'[u] = seen[u],
         \A u \in T : Placed(u)',
         memory' \in Memories, memory'.cancelEvidence = memory.cancelEvidence,
         memory'.observedOutcome = memory.observedOutcome,
         memory'.known => memory.known \/ (Recording /\ op.workerLaunched),
         (memory'.handle => memory.handle) \/ Recording,
         (memory'.recoverable => memory.recoverable) \/ Recording,
         run' \in Runs, process' \in {process, "stopped"},
         UNCHANGED <<answer, reply, sent, began, workspace, crashes>>,
         faults' \in 0..MaxFaults,
         RunPlaced', RunIsBusy'
  PROVE  Keeps
<1>1. RuntimeTypeOK /\ NothingBeforeRecord
  BY DEF RuntimeIInv
<1>2. GoesMildly /\ Goes
  BY DEF GoesMildly, Goes
<1>3. op' \in Operation \cup {None} /\ process' \in {"absent", "running", "stopped"}
  BY <1>1, TypeParts
<1>4. RuntimeTypeOK'
  BY <1>1, <1>3, TypeParts, TypesTogether
<1>5. \A u \in Thread : Placed(u)'
  BY <1>2, PlacedKept
<1>6. StopEvidenceTrue' /\ ClosedAfterCleanup' /\ ToldWhatIsRecorded'
  BY <1>2, EvidenceKept, ClosedKept, ToldKept
<1>7. NothingBeforeRecord'
  BY <1>1 DEF NothingBeforeRecord, Unsent, Recording
<1> QED
  BY <1>2, <1>4, <1>5, <1>6, <1>7, Assembled

\* ... and the run stays where it is, with all that it knows.
LEMMA RunStays ==
  ASSUME RuntimeIInv, op' = op, at'["execute"] = at["execute"],
         UNCHANGED <<run, sent, began>>,
         memory'.observedOutcome = memory.observedOutcome
  PROVE  RunPlaced'
  BY RunPlacedKept DEF Goes

\* A function whose place claims nothing of the Operation.
LEMMA PlainlyPlaced ==
  ASSUME NEW u \in Thread, op' = op, seen'[u] \in Operation => Recording /\ Follows(seen'[u], op),
         at'[u] \notin SettlePlaces \cup {"cleaned", "recover", "request", "acknowledgeCancel"},
         at'[u] \notin {"idle", "cleanups"} => Recording,
         at'[u] = "cleanups" => u = "recoverWorkers",
         u \in CancellationRecovery \cup {"recoverCleanups"} /\ at'[u] # "idle" =>
           op.state \notin OpenStates
  PROVE  Placed(u)'
  BY DEF Placed, Recording, SettlePlaces

LEMMA RecoverKeeps ==
  ASSUME RuntimeIInv, Recover
  PROVE  Keeps
<1> DEFINE w == "recoverWorkers"
<1>1. /\ at[w] = "idle" /\ w \in Thread /\ w # "execute"
      /\ w \notin CancellationRecovery \cup {"recoverCleanups"}
      /\ UNCHANGED <<op, run, answer, reply, process, sent, began, workspace, crashes>>
  BY DEF Recover, Thread, CancellationRecovery, world
<1>2. RuntimeTypeOK /\ Placed(w) /\ RunIsBusy
  BY <1>1 DEF RuntimeIInv
<1>3. PICK place \in {"idle", "cleanups", "recover"} :
        /\ at' = [at EXCEPT ![w] = place]
        /\ place = "recover" => op # None /\ seen' = [seen EXCEPT ![w] = op]
        /\ place # "recover" => seen' = seen
        /\ memory' \in {memory, [memory EXCEPT !.workersRecovered = TRUE]}
        /\ faults' \in 0..MaxFaults
  <2>1. at = [at EXCEPT ![w] = "idle"]
    BY <1>1, <1>2, TypeParts
  <2>2. faults' \in 0..MaxFaults
    BY <1>2, FaultTyped, TypeParts DEF Recover
  <2> QED
    BY <2>1, <2>2 DEF Recover, Recoverable, AfterWorkers, Goto
<1>4. /\ memory' \in Memories /\ memory'.cancelEvidence = memory.cancelEvidence
      /\ memory'.observedOutcome = memory.observedOutcome /\ memory'.known = memory.known
      /\ memory'.handle = memory.handle /\ memory'.recoverable = memory.recoverable
      /\ memory'.record = memory.record
      /\ (memory'.handle => memory.handle) /\ (memory'.recoverable => memory.recoverable)
      /\ (memory'.known => memory.known)
  <2>1. memory \in Memories
    BY <1>2, TypeParts
  <2> QED
    BY <1>3, <2>1 DEF Memories
<1>5. /\ at' \in [Thread -> Places] /\ at'[w] = place
      /\ \A u \in Thread \ {w} : at'[u] = at[u]
  <2>1. place \in Places
    BY DEF Places
  <2> QED
    BY <1>1, <1>2, <1>3, <2>1, TypeParts
<1>6. CASE place = "recover"
  <2>1. op \in Operation /\ Recording
    BY <1>2, <1>3, <1>6, TypeParts
  <2>2. /\ seen' \in [Thread -> Operation \cup {None}] /\ seen'[w] = op
        /\ \A u \in Thread \ {w} : seen'[u] = seen[u]
    BY <1>1, <1>2, <1>3, <1>6, <2>1, TypeParts
  <2>3. Follows(op, op)
    BY FollowsItself
  <2>4. Placed(w)'
    BY <1>1, <1>5, <1>6, <2>1, <2>2, <2>3 DEF Placed, Recording, SettlePlaces
  <2>5. RunPlaced'
    BY <1>1, <1>4, <1>5, RunStays DEF Thread
  <2>6. RunIsBusy'
    BY <1>1, <1>2, <1>4, <1>5, <1>6 DEF RunIsBusy, Busy, Recording, Thread
  <2>7. /\ {w} \in SUBSET Thread /\ \A u \in {w} : Placed(u)'
        /\ \A u \in Thread \ {w} : at'[u] = at[u] /\ seen'[u] = seen[u]
    BY <1>1, <1>5, <2>2, <2>4
  <2> QED
    BY <1>1, <1>2, <1>3, <1>4, <1>5, <2>2, <2>5, <2>6, <2>7, TypeParts, QuietStep
<1>7. CASE place # "recover"
  <2>1. seen' \in [Thread -> Operation \cup {None}] /\ seen' = seen
    BY <1>2, <1>3, <1>7, TypeParts
  <2>2. seen[w] \in Operation => Recording /\ Follows(seen[w], op)
    BY <1>2 DEF Placed
  <2>3. place \notin SettlePlaces \cup {"cleaned"}
    BY DEF SettlePlaces
  <2>4. Placed(w)'
    BY <1>1, <1>5, <1>7, <2>1, <2>2, <2>3, PlainlyPlaced
  <2>5. RunPlaced'
    BY <1>1, <1>4, <1>5, RunStays DEF Thread
  <2>6. RunIsBusy'
    BY <1>1, <1>2, <1>4, <1>5 DEF RunIsBusy, Busy, Recording, Thread
  <2>7. /\ {w} \in SUBSET Thread /\ \A u \in {w} : Placed(u)'
        /\ \A u \in Thread \ {w} : at'[u] = at[u] /\ seen'[u] = seen[u]
    BY <1>1, <1>5, <2>1, <2>4
  <2> QED
    BY <1>1, <1>2, <1>3, <1>4, <1>5, <2>1, <2>5, <2>6, <2>7, TypeParts, QuietStep
<1> QED
  BY <1>6, <1>7

\* What recovery finds when it turns to the Operation it has listed.
LEMMA ListedFacts ==
  ASSUME RuntimeIInv, at["recoverWorkers"] = "recover"
  PROVE  LET o == seen["recoverWorkers"] IN
         /\ RuntimeTypeOK /\ Recording /\ op \in Operation
         /\ o \in Operation /\ Follows(o, op)
         /\ o.workerIdentity # None => op.workerLaunched
         /\ Terminal(o) => Terminal(op) /\ op.state = o.state
         /\ o.state = "cancelling" => op.state \notin OpenStates
         /\ ~Busy(memory) => op.state \notin OpenStates \/ at["execute"] = "idle"
<1> DEFINE o == seen["recoverWorkers"]
<1>1. "recoverWorkers" \in Thread
  BY DEF Thread
<1>2. /\ RuntimeTypeOK /\ Recording /\ op \in Operation /\ Sound(op)
      /\ Placed("recoverWorkers") /\ RunIsBusy
  BY <1>1, ThreadFacts DEF RuntimeIInv
<1>3. o \in Operation /\ Follows(o, op)
  BY <1>2 DEF Placed
<1>4. o.workerIdentity # None => op.workerLaunched
  BY <1>2, <1>3 DEF Follows, Sound
<1>5. Terminal(o) => Terminal(op) /\ op.state = o.state
  BY <1>3 DEF Follows, Terminal
<1>6. o.state = "cancelling" => op.state \notin OpenStates
  BY <1>3 DEF Follows, OpenStates
<1> QED
  BY <1>2, <1>3, <1>4, <1>5, <1>6 DEF RunIsBusy

LEMMA TakenUpMemory ==
  ASSUME RuntimeTypeOK, NEW o
  PROVE  LET m == TakenUp(o)
             n == RecoveredWorker(o)
         IN /\ m \in Memories /\ n \in Memories
            /\ m.cancelEvidence = memory.cancelEvidence /\ m.known = memory.known
            /\ m.observedOutcome = memory.observedOutcome /\ Busy(m)
            /\ n.cancelEvidence = memory.cancelEvidence
            /\ n.observedOutcome = memory.observedOutcome /\ Busy(n)
            /\ ~m.recoverable /\ ~n.recoverable
<1>1. memory \in Memories
  BY TypeParts
<1> DEFINE m == TakenUp(o)
<1>2. (~Terminal(o)) \in BOOLEAN
  BY DEF Terminal
<1>3. /\ m \in Memories /\ m.cancelEvidence = memory.cancelEvidence
      /\ m.known = memory.known /\ m.observedOutcome = memory.observedOutcome
      /\ m.record /\ ~m.recoverable
  BY <1>1, <1>2 DEF TakenUp, Memories
<1> DEFINE n == [m EXCEPT !.worker = TRUE, !.known = TRUE, !.requested = FALSE]
<1> HIDE DEF m
<1>4. /\ n \in Memories /\ n.cancelEvidence = m.cancelEvidence
      /\ n.observedOutcome = m.observedOutcome /\ n.record /\ ~n.recoverable
  BY <1>3 DEF Memories
<1> QED
  BY <1>3, <1>4 DEF m, Busy, RecoveredWorker

LEMMA SettlingPlaces ==
  ASSUME NEW o
  PROVE  /\ SettlingPlace(o) = "rejoin" =>
              ~Terminal(o) /\ (Retained(o) \/ Rejoinable(o))
         /\ Terminal(o) => SettlingPlace(o) = SettlePlace("recoverWorkers", o)
         /\ ~Terminal(o) => SettlingPlace(o) \in
              {"confirmCancel", "complete", "reexecute", "giveUp", "rejoin"}
<1>1. SettlePlace("recoverWorkers", o) # "rejoin"
  BY DEF SettlePlace, AfterCleanup
<1> QED
  BY <1>1 DEF SettlingPlace

\* Recovery leaves the Operation to execute, at another place or where it is.
LEMMA HandedOver ==
  ASSUME RuntimeIInv, at["recoverWorkers"] = "recover", NEW place,
         HandsOver("execute", place), op' = op,
         place \in Outside \/ place = at["execute"],
         place \in Places \ (SettlePlaces \cup {"cleaned", "recover", "request",
                                                "acknowledgeCancel", "cleanups"})
           \/ place = at["execute"]
  PROVE  /\ at' \in [Thread -> Places] /\ seen' \in [Thread -> Operation \cup {None}]
         /\ at'["execute"] = place /\ at'["recoverWorkers"] \in {"idle", "cleanups"}
         /\ \A u \in Thread \ {"recoverWorkers", "execute"} :
              at'[u] = at[u] /\ seen'[u] = seen[u]
         /\ memory'.cancelEvidence = memory.cancelEvidence =>
              \A u \in {"recoverWorkers", "execute"} : Placed(u)'
<1>1. {"recoverWorkers", "execute"} \subseteq Thread
  BY DEF Thread
<1>2. RuntimeTypeOK /\ Recording /\ Placed("execute")
  BY <1>1, ListedFacts DEF RuntimeIInv
<1>3. AfterWorkers \in {"idle", "cleanups"} /\ AfterWorkers \in Places
  BY DEF AfterWorkers, Places
<1>4. place \in Places
  BY <1>1, <1>2, TypeParts
<1>5. /\ at' \in [Thread -> Places] /\ seen' \in [Thread -> Operation \cup {None}]
      /\ at'["execute"] = place /\ at'["recoverWorkers"] \in {"idle", "cleanups"}
      /\ seen'["execute"] = seen["execute"] /\ seen'["recoverWorkers"] = None
      /\ \A u \in Thread \ {"recoverWorkers", "execute"} :
           at'[u] = at[u] /\ seen'[u] = seen[u]
  BY <1>1, <1>2, <1>3, <1>4, TypeParts DEF HandsOver
<1>6. Placed("recoverWorkers")'
  <2>1. {"idle", "cleanups"} \cap SettlePlaces = {}
    BY DEF SettlePlaces
  <2>2. "recoverWorkers" \notin CancellationRecovery \cup {"recoverCleanups"}
    BY DEF CancellationRecovery
  <2> QED
    BY <1>1, <1>5, <2>1, <2>2, NoneIsNoOperation, PlainlyPlaced
<1>7. ASSUME memory'.cancelEvidence = memory.cancelEvidence PROVE Placed("execute")'
  <2>1. CASE place = at["execute"]
    BY <1>2, <1>5, <1>7, <2>1 DEF Placed, Recording
  <2>2. CASE place # at["execute"]
    <3>1. "execute" \notin CancellationRecovery \cup {"recoverCleanups"}
      BY DEF CancellationRecovery
    <3>2. seen["execute"] \in Operation => Recording /\ Follows(seen["execute"], op)
      BY <1>2 DEF Placed
    <3> QED
      BY <1>1, <1>2, <1>5, <2>2, <3>1, <3>2, PlainlyPlaced
  <2> QED
    BY <2>1, <2>2
<1> QED
  BY <1>5, <1>6, <1>7

LEMMA LeaveAloneKeeps ==
  ASSUME RuntimeIInv, RecoverOperation, LeaveAlone
  PROVE  Keeps
<1> DEFINE T == {"recoverWorkers", "execute"}
<1>1. /\ at["recoverWorkers"] = "recover" /\ HandsOver("execute", at["execute"]) /\ op' = op
      /\ UNCHANGED <<memory, run, process, answer, reply, sent, began, workspace, faults,
                     crashes>>
  BY DEF RecoverOperation, LeaveAlone
<1>2. RuntimeTypeOK /\ T \in SUBSET Thread /\ RunIsBusy
  BY DEF RuntimeIInv, Thread
<1>3. /\ at' \in [Thread -> Places] /\ seen' \in [Thread -> Operation \cup {None}]
      /\ at'["execute"] = at["execute"] /\ at'["recoverWorkers"] \in {"idle", "cleanups"}
      /\ \A u \in Thread \ T : at'[u] = at[u] /\ seen'[u] = seen[u]
      /\ \A u \in T : Placed(u)'
  BY <1>1, HandedOver
<1>4. RunPlaced'
  BY <1>1, <1>3, RunStays
<1>5. RunIsBusy'
  BY <1>1, <1>2, <1>3 DEF RunIsBusy, Busy, Recording
<1> HIDE DEF T
<1> QED
  BY <1>1, <1>2, <1>3, <1>4, <1>5, TypeParts, QuietStep

LEMMA SettleItselfKeeps ==
  ASSUME RuntimeIInv, RecoverOperation, ~Busy(memory), SettleItself(seen["recoverWorkers"])
  PROVE  Keeps
<1> DEFINE w == "recoverWorkers"
           o == seen[w]
           place == SettlingPlace(o)
<1>1. /\ at[w] = "recover" /\ op' = op /\ memory' = TakenUp(o)
      /\ at' = [at EXCEPT ![w] = place] /\ place \notin {"reexecute", "rejoin"}
      /\ UNCHANGED <<seen, run, process, answer, reply, sent, began, workspace, faults, crashes>>
      /\ w \in Thread /\ w # "execute" /\ w \notin CancellationRecovery \cup {"recoverCleanups"}
  BY DEF RecoverOperation, SettleItself, Goto, Thread, CancellationRecovery
<1>2. /\ RuntimeTypeOK /\ Recording /\ op \in Operation /\ o \in Operation /\ Follows(o, op)
      /\ Terminal(o) => Terminal(op) /\ op.state = o.state
      /\ op.state \notin OpenStates \/ at["execute"] = "idle"
  BY <1>1, ListedFacts
<1>3. /\ memory' \in Memories /\ memory'.cancelEvidence = memory.cancelEvidence
      /\ memory'.known = memory.known /\ memory'.observedOutcome = memory.observedOutcome
      /\ ~memory'.recoverable
  BY <1>1, <1>2, TakenUpMemory
<1>4. /\ Terminal(o) =>
           /\ place \in {"startCleanup", "inspect", "cleaned", "readResult", "answer"}
           /\ place = "inspect" => o.presentationCleanup # None
           /\ place = "readResult" => o.state = "completed"
      /\ ~Terminal(o) => place \in {"confirmCancel", "complete", "giveUp"}
  BY <1>1, SettlingPlaces, SettlePlaceFacts
<1> HIDE DEF place
<1>5. place \in Places
  BY <1>4 DEF Places, SettlePlaces
<1>6. /\ at' \in [Thread -> Places] /\ at'[w] = place
      /\ \A u \in Thread \ {w} : at'[u] = at[u]
  BY <1>1, <1>2, <1>5, TypeParts
<1>7. Placed(w)'
  <2>1. CASE Terminal(o)
    <3>1. place \in {"startCleanup", "inspect", "cleaned", "readResult", "answer"}
      BY <1>4, <2>1
    <3>2. place = "inspect" => op.presentationCleanup # None
      BY <1>2, <1>4, <2>1 DEF Follows
    <3>3. place = "readResult" => op.state = "completed"
      BY <1>2, <1>4, <2>1
    <3> QED
      BY <1>1, <1>2, <1>6, <2>1, <3>1, <3>2, <3>3 DEF Placed, Recording
  <2>2. CASE ~Terminal(o)
    <3>1. place \in {"confirmCancel", "complete", "giveUp"}
      BY <1>4, <2>2
    <3>2. {"confirmCancel", "complete", "giveUp"} \cap SettlePlaces = {}
      BY DEF SettlePlaces
    <3> QED
      BY <1>1, <1>2, <1>6, <3>1, <3>2, PlainlyPlaced
  <2> QED
    BY <2>1, <2>2
<1>8. RunPlaced'
  BY <1>1, <1>3, <1>6, RunStays DEF Thread
<1>9. RunIsBusy'
  BY <1>1, <1>2, <1>6 DEF RunIsBusy, Thread
<1>10. /\ {w} \in SUBSET Thread /\ \A u \in {w} : Placed(u)'
       /\ \A u \in Thread \ {w} : at'[u] = at[u] /\ seen'[u] = seen[u]
  BY <1>1, <1>6, <1>7
<1> QED
  BY <1>1, <1>2, <1>3, <1>6, <1>8, <1>9, <1>10, TypeParts, QuietStep

LEMMA RunTakenUpKeeps ==
  ASSUME RuntimeIInv, RecoverOperation, ~Busy(memory),
         Reexecute(seen["recoverWorkers"]) \/ RejoinWorker(seen["recoverWorkers"])
  PROVE  Keeps
<1> DEFINE T == {"recoverWorkers", "execute"}
           o == seen["recoverWorkers"]
<1>1. /\ at["recoverWorkers"] = "recover" /\ op' = op
      /\ UNCHANGED <<process, answer, reply, sent, began, workspace, faults, crashes>>
  BY DEF RecoverOperation, Reexecute, RejoinWorker
<1>2. /\ RuntimeTypeOK /\ Recording /\ o \in Operation
      /\ o.workerIdentity # None => op.workerLaunched
  BY <1>1, ListedFacts
<1>3. Recovering \in Runs
  BY DEF Recovering, FreshRun, Runs
<1>4. PICK place \in {"observed", "rejoin"} :
        /\ HandsOver("execute", place)
        /\ place = "observed" => memory' = TakenUp(o) /\ run' = Recovering
        /\ place = "rejoin" =>
             /\ SettlingPlace(o) = "rejoin" /\ o.state # "cancelling"
             /\ memory' = RecoveredWorker(o)
             /\ run' = [Recovering EXCEPT
                          !.restored = IF o.startInstructionDelivery # None
                                         THEN o.startInstructionDelivery
                                         ELSE o.startDeliveryAuthority]
  BY DEF Reexecute, RejoinWorker
<1>5. place = "rejoin" => Rejoinable(o)
  BY <1>4, SettlingPlaces DEF Retained
<1>6. run' \in Runs
  <2>1. CASE place = "observed"
    BY <1>3, <1>4, <2>1
  <2>2. CASE place = "rejoin"
    <3> DEFINE r == IF o.startInstructionDelivery # None
                      THEN o.startInstructionDelivery ELSE o.startDeliveryAuthority
    <3>1. r \in StartInstruction \cup {None}
      BY <1>2, SMT DEF Operation
    <3>2. run' = [Recovering EXCEPT !.restored = r]
      BY <1>4, <2>2
    <3> HIDE DEF r
    <3> QED
      BY <1>3, <3>1, <3>2 DEF Runs
  <2> QED
    BY <2>1, <2>2
<1>7. /\ memory' \in Memories /\ memory'.cancelEvidence = memory.cancelEvidence
      /\ memory'.observedOutcome = memory.observedOutcome /\ Busy(memory')
      /\ memory'.known => memory.known \/ op.workerLaunched
      /\ ~memory'.recoverable
  BY <1>2, <1>4, <1>5, TakenUpMemory DEF Rejoinable
<1>8. {"observed", "rejoin"} \subseteq
        Outside \cap (Places \ (SettlePlaces \cup {"cleaned", "recover", "request",
                                                   "acknowledgeCancel", "cleanups"}))
  BY DEF Outside, Places, SettlePlaces, BeforeSend, BeforeLaunch, WithInstruction
<1>9. /\ at' \in [Thread -> Places] /\ seen' \in [Thread -> Operation \cup {None}]
      /\ at'["execute"] = place /\ at'["recoverWorkers"] \in {"idle", "cleanups"}
      /\ \A u \in Thread \ T : at'[u] = at[u] /\ seen'[u] = seen[u]
      /\ \A u \in T : Placed(u)'
  BY <1>1, <1>4, <1>7, <1>8, HandedOver
<1>10. RunPlaced'
  BY <1>8, <1>9, OutsideRun
<1>11. RunIsBusy'
  BY <1>7, <1>9 DEF RunIsBusy
<1>12. T \in SUBSET Thread
  BY DEF Thread
<1> HIDE DEF T
<1> QED
  BY <1>1, <1>2, <1>6, <1>7, <1>9, <1>10, <1>11, <1>12, TypeParts, QuietStep

LEMMA SecondRunKeeps ==
  ASSUME RuntimeIInv, RecoverOperation, ~Busy(memory), SecondRun(seen["recoverWorkers"])
  PROVE  Keeps
<1> DEFINE T == {"recoverWorkers", "execute"}
           o == seen["recoverWorkers"]
<1>1. /\ at["recoverWorkers"] = "recover" /\ op' = op
      /\ at["execute"] # "idle" /\ HandsOver("execute", at["execute"])
      /\ process' \in {process, "stopped"}
      /\ UNCHANGED <<run, answer, reply, sent, began, workspace, faults, crashes>>
  BY DEF RecoverOperation, SecondRun
<1>2. /\ RuntimeTypeOK /\ Recording /\ o \in Operation
      /\ o.workerIdentity # None => op.workerLaunched
      /\ op.state \notin OpenStates
  BY <1>1, ListedFacts
<1>3. \/ memory' = TakenUp(o)
      \/ /\ SettlingPlace(o) = "rejoin" /\ o.state # "cancelling"
         /\ memory' = RecoveredWorker(o)
  BY DEF SecondRun
<1>4. SettlingPlace(o) = "rejoin" /\ o.state # "cancelling" => Rejoinable(o)
  BY SettlingPlaces DEF Retained
<1>5. /\ memory' \in Memories /\ memory'.cancelEvidence = memory.cancelEvidence
      /\ memory'.observedOutcome = memory.observedOutcome
      /\ memory'.known => memory.known \/ op.workerLaunched
      /\ ~memory'.recoverable
  BY <1>2, <1>3, <1>4, TakenUpMemory DEF Rejoinable
<1>6. /\ at' \in [Thread -> Places] /\ seen' \in [Thread -> Operation \cup {None}]
      /\ at'["execute"] = at["execute"]
      /\ \A u \in Thread \ T : at'[u] = at[u] /\ seen'[u] = seen[u]
      /\ \A u \in T : Placed(u)'
  BY <1>1, <1>5, HandedOver
<1>7. RunPlaced'
  BY <1>1, <1>5, <1>6, RunStays
<1>8. RunIsBusy'
  BY <1>1, <1>2, DecidedIsNotBusy
<1>9. T \in SUBSET Thread
  BY DEF Thread
<1> HIDE DEF T
<1> QED
  BY <1>1, <1>2, <1>5, <1>6, <1>7, <1>8, <1>9, TypeParts, QuietStep

LEMMA RecoverCancellationKeeps ==
  ASSUME RuntimeIInv, RecoverOperation, ~Busy(memory),
         NEW t \in CancellationRecovery, RecoverCancellation(seen["recoverWorkers"], t)
  PROVE  Keeps
<1> DEFINE w == "recoverWorkers"
           T == {w, t}
           o == seen[w]
           place == IF memory.cancelEvidence THEN "acknowledgeCancel" ELSE "dispatchCancel"
<1>1. /\ at[w] = "recover" /\ op' = op /\ SettlingPlace(o) = "rejoin"
      /\ o.state = "cancelling"
      /\ memory' = IF Retained(o) THEN TakenUp(o) ELSE RecoveredWorker(o)
      /\ at' = [at EXCEPT ![w] = AfterWorkers, ![t] = place]
      /\ seen' = [seen EXCEPT ![w] = None, ![t] = o]
      /\ UNCHANGED <<run, process, answer, reply, sent, began, workspace, faults, crashes>>
  BY DEF RecoverOperation, RecoverCancellation
<1>2. /\ T \in SUBSET Thread /\ t # w /\ "execute" \notin T /\ "execute" \in Thread
      /\ w \notin CancellationRecovery \cup {"recoverCleanups"}
  BY DEF Thread, CancellationRecovery
<1>3. /\ RuntimeTypeOK /\ Recording /\ o \in Operation /\ Follows(o, op)
      /\ o.workerIdentity # None => op.workerLaunched
      /\ op.state \notin OpenStates
  BY <1>1, ListedFacts
<1>4. ~Retained(o) => Rejoinable(o)
  BY <1>1, SettlingPlaces
<1>5. /\ memory' \in Memories /\ memory'.cancelEvidence = memory.cancelEvidence
      /\ memory'.observedOutcome = memory.observedOutcome
      /\ memory'.known => memory.known \/ op.workerLaunched
      /\ ~memory'.recoverable
  BY <1>1, <1>3, <1>4, TakenUpMemory DEF Rejoinable
<1>6. /\ AfterWorkers \in {"idle", "cleanups"} /\ AfterWorkers \in Places /\ place \in Places
      /\ place \in {"acknowledgeCancel", "dispatchCancel"}
      /\ place = "acknowledgeCancel" => memory'.cancelEvidence
  BY <1>5 DEF AfterWorkers, Places
<1> HIDE DEF place
<1>7. /\ at' \in [Thread -> Places] /\ seen' \in [Thread -> Operation \cup {None}]
      /\ at'[w] \in {"idle", "cleanups"} /\ seen'[w] = None
      /\ at'[t] = place /\ seen'[t] = o
      /\ \A u \in Thread \ T : at'[u] = at[u] /\ seen'[u] = seen[u]
  BY <1>1, <1>2, <1>3, <1>6, TypeParts
<1>8. {"idle", "cleanups", "acknowledgeCancel", "dispatchCancel"} \cap SettlePlaces = {}
  BY DEF SettlePlaces
<1>9. Placed(w)'
  BY <1>1, <1>2, <1>7, <1>8, NoneIsNoOperation, PlainlyPlaced
<1>10. Placed(t)'
  BY <1>1, <1>2, <1>3, <1>6, <1>7, <1>8 DEF Placed, Recording
<1>11. RunPlaced'
  BY <1>1, <1>2, <1>5, <1>7, RunStays
<1>12. RunIsBusy'
  BY <1>1, <1>3, DecidedIsNotBusy
<1>13. \A u \in T : Placed(u)'
  BY <1>9, <1>10
<1> HIDE DEF T
<1> QED
  BY <1>1, <1>2, <1>3, <1>5, <1>7, <1>11, <1>12, <1>13, TypeParts, QuietStep

LEMMA RecoverOperationKeeps ==
  ASSUME RuntimeIInv, RecoverOperation
  PROVE  Keeps
  BY LeaveAloneKeeps, SettleItselfKeeps, RunTakenUpKeeps, SecondRunKeeps,
     RecoverCancellationKeeps
  DEF RecoverOperation

LEMMA RecoverCleanupsKeeps ==
  ASSUME RuntimeIInv, RecoverCleanups
  PROVE  Keeps
<1> DEFINE w == "recoverWorkers"
           c == "recoverCleanups"
           T == {w, c}
<1>1. /\ at[w] = "cleanups"
      /\ UNCHANGED <<op, run, answer, reply, process, sent, began, workspace, crashes>>
  BY DEF RecoverCleanups, world
<1>2. /\ T \in SUBSET Thread /\ c # w /\ "execute" \notin T /\ "execute" \in Thread
      /\ w \notin CancellationRecovery \cup {"recoverCleanups"}
      /\ w \in Thread /\ c \in Thread
  BY DEF Thread, CancellationRecovery
<1>3. RuntimeTypeOK /\ RunIsBusy /\ Placed(w) /\ Placed(c) /\ (Recording => Sound(op))
  BY <1>2 DEF RuntimeIInv
<1>4. /\ memory' \in {memory, [memory EXCEPT !.cleanupsRecovered = TRUE]}
      /\ faults' \in 0..MaxFaults
  BY <1>3, FaultTyped, TypeParts DEF RecoverCleanups
<1>5. /\ memory' \in Memories /\ memory'.cancelEvidence = memory.cancelEvidence
      /\ memory'.observedOutcome = memory.observedOutcome /\ memory'.known = memory.known
      /\ memory'.handle = memory.handle /\ memory'.recoverable = memory.recoverable
      /\ memory'.record = memory.record
      /\ (memory'.handle => memory.handle) /\ (memory'.recoverable => memory.recoverable)
      /\ (memory'.known => memory.known)
  <2>1. memory \in Memories
    BY <1>3, TypeParts
  <2> QED
    BY <1>4, <2>1 DEF Memories
<1>6. {"idle", "cleaning"} \subseteq Places \ SettlePlaces
  BY DEF Places, SettlePlaces
<1>7. CASE /\ CleanupListed
           /\ seen' = [seen EXCEPT ![c] = op]
           /\ at' = [at EXCEPT ![w] = "cleaning", ![c] = SettlePlace(c, op)]
  <2>1. op \in Operation /\ Recording
    BY <1>3, <1>7, TypeParts DEF CleanupListed
  <2>2. PresentationCleanupEligible(op)
    BY <1>3, <1>7, <2>1 DEF CleanupListed, Sound
  <2>3. Terminal(op) /\ op.state \notin OpenStates
    BY <2>2 DEF PresentationCleanupEligible, Terminal, TerminalStates, OpenStates
  <2>4. PICK p \in {"startCleanup", "inspect", "cleaned", "readResult", "answer"} :
          /\ p = SettlePlace(c, op)
          /\ p = "inspect" => op.presentationCleanup # None
          /\ p = "readResult" => op.state = "completed"
    BY <2>3, SettlePlaceFacts
  <2>5. p \in Places
    BY DEF Places, SettlePlaces
  <2>6. /\ at' \in [Thread -> Places] /\ seen' \in [Thread -> Operation \cup {None}]
        /\ at'[w] = "cleaning" /\ seen'[w] = seen[w] /\ at'[c] = p /\ seen'[c] = op
        /\ \A u \in Thread \ T : at'[u] = at[u] /\ seen'[u] = seen[u]
    BY <1>2, <1>3, <1>6, <1>7, <2>1, <2>4, <2>5, TypeParts
  <2>7. Placed(w)'
    <3>1. seen[w] \in Operation => Recording /\ Follows(seen[w], op)
      BY <1>3 DEF Placed
    <3> QED
      BY <1>1, <1>2, <1>6, <2>1, <2>6, <3>1, PlainlyPlaced
  <2>8. Placed(c)'
    <3>1. Follows(op, op)
      BY FollowsItself
    <3> QED
      BY <1>1, <2>1, <2>3, <2>4, <2>6, <3>1 DEF Placed, Recording
  <2>9. RunPlaced'
    BY <1>1, <1>2, <1>5, <2>6, RunStays
  <2>10. RunIsBusy'
    BY <1>1, <2>3, DecidedIsNotBusy
  <2>11. \A u \in T : Placed(u)'
    BY <2>7, <2>8
  <2> HIDE DEF T
  <2> QED
    BY <1>1, <1>2, <1>3, <1>4, <1>5, <2>1, <2>6, <2>9, <2>10, <2>11, TypeParts, QuietStep
<1>8. CASE Goto(w, "idle") /\ UNCHANGED seen
  <2>1. /\ at' \in [Thread -> Places] /\ seen' \in [Thread -> Operation \cup {None}]
        /\ at'[w] = "idle" /\ seen' = seen
        /\ \A u \in Thread \ {w} : at'[u] = at[u] /\ seen'[u] = seen[u]
    BY <1>2, <1>3, <1>6, <1>8, TypeParts DEF Goto
  <2>2. Placed(w)'
    <3>1. seen[w] \in Operation => Recording /\ Follows(seen[w], op)
      BY <1>3 DEF Placed
    <3> QED
      BY <1>1, <1>2, <1>6, <2>1, <3>1, PlainlyPlaced
  <2>3. at'["execute"] = at["execute"]
    BY <1>2, <2>1
  <2>4. RunPlaced'
    BY <1>1, <1>5, <2>3, RunStays
  <2>5. RunIsBusy'
    BY <1>1, <1>3, <1>5, <2>1, <2>3 DEF RunIsBusy, Busy, Recording
  <2>6. /\ {w} \in SUBSET Thread /\ \A u \in {w} : Placed(u)'
        /\ \A u \in Thread \ {w} : at'[u] = at[u] /\ seen'[u] = seen[u]
    BY <1>2, <2>1, <2>2
  <2> QED
    BY <1>1, <1>2, <1>3, <1>4, <1>5, <2>1, <2>4, <2>5, <2>6, TypeParts, QuietStep
<1> QED
  BY <1>7, <1>8 DEF RecoverCleanups

LEMMA CleanupsRecoveredKeeps ==
  ASSUME RuntimeIInv, CleanupsRecovered
  PROVE  Keeps
<1> DEFINE w == "recoverWorkers"
           c == "recoverCleanups"
           T == {w, c}
<1>1. /\ at[c] \in {"cleaned", "caught"}
      /\ memory' \in {memory, Deferred(memory)}
      /\ seen' = [seen EXCEPT ![c] = None]
      /\ at' = [at EXCEPT ![c] = "idle", ![w] = "idle"]
      /\ UNCHANGED <<op, run, answer, reply, process, sent, began, workspace, faults, crashes>>
  BY DEF CleanupsRecovered, world
<1>2. /\ T \in SUBSET Thread /\ c # w /\ "execute" \notin T /\ "execute" \in Thread
      /\ w \in Thread /\ c \in Thread
  BY DEF Thread
<1>3. RuntimeTypeOK /\ Placed(w) /\ Placed(c)
  BY <1>2 DEF RuntimeIInv
<1>4. Recording /\ op.state \notin OpenStates
  BY <1>1, <1>3 DEF Placed
<1>5. /\ memory' \in Memories /\ memory'.cancelEvidence = memory.cancelEvidence
      /\ memory'.observedOutcome = memory.observedOutcome /\ memory'.known = memory.known
  BY <1>1, <1>3, DeferredMemory, TypeParts
<1>6. "idle" \in Places \ SettlePlaces
  BY DEF Places, SettlePlaces
<1>7. /\ at' \in [Thread -> Places] /\ seen' \in [Thread -> Operation \cup {None}]
      /\ at'[w] = "idle" /\ seen'[w] = seen[w] /\ at'[c] = "idle" /\ seen'[c] = None
      /\ \A u \in Thread \ T : at'[u] = at[u] /\ seen'[u] = seen[u]
  BY <1>1, <1>2, <1>3, <1>6, TypeParts
<1>8. seen[w] \in Operation => Recording /\ Follows(seen[w], op)
  BY <1>3 DEF Placed
<1>9. Placed(w)' /\ Placed(c)'
  BY <1>1, <1>2, <1>6, <1>7, <1>8, NoneIsNoOperation, PlainlyPlaced
<1>10. RunPlaced'
  BY <1>1, <1>2, <1>5, <1>7, RunStays
<1>11. RunIsBusy'
  BY <1>1, <1>4, DecidedIsNotBusy
<1>12. \A u \in T : Placed(u)'
  BY <1>9
<1> HIDE DEF T
<1> QED
  BY <1>1, <1>2, <1>3, <1>4, <1>5, <1>7, <1>10, <1>11, <1>12, TypeParts, QuietStep

LEMMA AnotherDefersRecoveryKeeps ==
  ASSUME RuntimeIInv, AnotherDefersRecovery
  PROVE  Keeps
<1> DEFINE T == {}
<1>1. /\ memory' = [memory EXCEPT !.workersRecovered = FALSE]
      /\ UNCHANGED <<op, at, seen, run, answer, reply, process, sent, began, workspace, crashes>>
  BY DEF AnotherDefersRecovery, world
<1>2. RuntimeTypeOK /\ RunIsBusy
  BY DEF RuntimeIInv
<1>3. faults' \in 0..MaxFaults
  BY <1>2, FaultTyped DEF AnotherDefersRecovery
<1>4. /\ memory' \in Memories /\ memory'.cancelEvidence = memory.cancelEvidence
      /\ memory'.observedOutcome = memory.observedOutcome /\ memory'.known = memory.known
      /\ memory'.handle = memory.handle /\ memory'.recoverable = memory.recoverable
      /\ memory'.record = memory.record
      /\ (memory'.handle => memory.handle) /\ (memory'.recoverable => memory.recoverable)
      /\ (memory'.known => memory.known)
  <2>1. memory \in Memories
    BY <1>2, TypeParts
  <2> QED
    BY <1>1, <2>1 DEF Memories
<1>5. RunPlaced'
  BY <1>1, <1>4, RunStays
<1>6. RunIsBusy'
  BY <1>1, <1>2, <1>4 DEF RunIsBusy, Busy, Recording
<1>7. T \in SUBSET Thread /\ \A u \in T : Placed(u)'
  OBVIOUS
<1> HIDE DEF T
<1> QED
  BY <1>1, <1>2, <1>3, <1>4, <1>5, <1>6, <1>7, TypeParts, QuietStep

LEMMA ProcessExitsKeeps ==
  ASSUME RuntimeIInv, ProcessExits
  PROVE  Keeps
<1> DEFINE T == {}
<1>1. /\ process' = "stopped"
      /\ UNCHANGED <<op, at, seen, memory, run, answer, reply, sent, began, workspace, crashes>>
  BY DEF ProcessExits
<1>2. RuntimeTypeOK /\ RunIsBusy
  BY DEF RuntimeIInv
<1>3. faults' \in 0..MaxFaults
  BY <1>2, FaultTyped DEF ProcessExits
<1>4. RunPlaced'
  BY <1>1, RunStays
<1>5. RunIsBusy'
  BY <1>1, <1>2 DEF RunIsBusy, Busy, Recording
<1>6. T \in SUBSET Thread /\ \A u \in T : Placed(u)'
  OBVIOUS
<1> HIDE DEF T
<1> QED
  BY <1>1, <1>2, <1>3, <1>4, <1>5, <1>6, TypeParts, QuietStep

\* An instruction was sent: no place says that none was.
LEMMA WorkerTakesUpKeeps ==
  ASSUME RuntimeIInv, WorkerTakesUp
  PROVE  Keeps
<1>1. /\ sent # None /\ began' = sent /\ sent' = None
      /\ UNCHANGED <<op, at, seen, memory, run, answer, process, workspace, faults, reply, crashes>>
  BY DEF WorkerTakesUp, rest
<1>2. RuntimeIInv
  OBVIOUS
<1>3. RuntimeTypeOK'
  <2>1. RuntimeTypeOK
    BY DEF RuntimeIInv
  <2> QED
    BY <1>1, <2>1, TypeParts, TypesTogether
<1>4. \A u \in Thread : Placed(u)'
  BY <1>1 DEF RuntimeIInv, Placed, Recording
<1>5. RunPlaced'
  BY <1>1 DEF RuntimeIInv, RunPlaced, Unsent, Recording
<1>6. /\ StopEvidenceTrue' /\ NothingBeforeRecord' /\ ClosedAfterCleanup'
      /\ ToldWhatIsRecorded' /\ RunIsBusy'
  BY <1>1
  DEF RuntimeIInv, StopEvidenceTrue, NothingBeforeRecord, ClosedAfterCleanup,
      ToldWhatIsRecorded, RunIsBusy, Unsent, Recording, Busy
<1> QED
  BY <1>1, <1>3, <1>4, <1>5, <1>6, Assembled DEF Goes

LEMMA FreshTyped ==
  /\ Nowhere \in [Thread -> Places] /\ Nothing \in [Thread -> Operation \cup {None}]
  /\ FreshMemory \in Memories /\ FreshRun \in Runs
  /\ [FreshMemory EXCEPT !.workersRecovered = TRUE, !.cleanupsRecovered = TRUE] \in Memories
<1>1. "idle" \in Places
  BY DEF Places
<1>2. NoOutcome \in [state : OutcomeStates, exit : BOOLEAN]
  BY DEF NoOutcome, Outcome, OutcomeStates
<1>3. FreshMemory \in Memories
  BY <1>2 DEF FreshMemory, Memories
<1>4. [FreshMemory EXCEPT !.workersRecovered = TRUE, !.cleanupsRecovered = TRUE] \in Memories
  BY <1>3 DEF Memories
<1> QED
  BY <1>1, <1>3, <1>4 DEF Nowhere, Nothing, FreshRun, Runs

LEMMA CrashKeeps ==
  ASSUME RuntimeIInv, Crash
  PROVE  Keeps
<1>1. /\ at' = Nowhere /\ seen' = Nothing /\ memory' = FreshMemory /\ run' = FreshRun
      /\ answer' = "pending" /\ reply' = "none"
      /\ UNCHANGED <<op, process, sent, began, workspace, faults>>
      /\ crashes > 0 /\ crashes' = crashes - 1
  BY DEF Crash, world
<1>2. /\ RuntimeTypeOK /\ (Recording => Sound(op)) /\ StopEvidenceTrue
      /\ NothingBeforeRecord /\ ClosedAfterCleanup
  BY DEF RuntimeIInv
<1>3. crashes' \in 0..MaxCrashes
  BY <1>1, <1>2, TypeParts, RuntimeBoundsAreNatural
<1>4. RuntimeTypeOK'
  <2>1. answer' \in AnswerKinds /\ reply' \in ReplyKinds
    BY <1>1 DEF AnswerKinds, ReplyKinds
  <2> QED
    BY <1>1, <1>2, <1>3, <2>1, FreshTyped, TypeParts, TypesTogether
<1>5. /\ ~memory'.known /\ ~memory'.handle /\ ~memory'.recoverable
      /\ ~memory'.cancelEvidence /\ ~memory'.observedOutcome.exit
  BY <1>1 DEF FreshMemory, NoOutcome, Outcome
<1>6. /\ \A t \in Thread : Placed(t)'
      /\ RunPlaced' /\ ToldWhatIsRecorded' /\ RunIsBusy'
  <2>1. \A t \in Thread : at'[t] = "idle" /\ seen'[t] \notin Operation
    BY <1>1, NoneIsNoOperation DEF Nowhere, Nothing
  <2>2. "execute" \in Thread
    BY DEF Thread
  <2>3. "idle" \notin SettlePlaces \cup {"cleaned"}
    BY DEF SettlePlaces
  <2>4. answer' \notin TerminalStates /\ reply' \notin TerminalStates
    BY <1>1 DEF TerminalStates
  <2> QED
    BY <2>1, <2>2, <2>3, <2>4
    DEF Placed, RunPlaced, BeforeSend, BeforeLaunch, WithInstruction, ToldWhatIsRecorded,
        RunIsBusy
<1>7. StopEvidenceTrue' /\ NothingBeforeRecord' /\ ClosedAfterCleanup'
  BY <1>1, <1>2, <1>5
  DEF StopEvidenceTrue, NothingBeforeRecord, ClosedAfterCleanup, Unsent, Recording
<1> QED
  BY <1>1, <1>2, <1>4, <1>6, <1>7, Assembled DEF Goes

-----------------------------------------------------------------------------
(* Every step of a function moves that function only.                      *)

OnlyMoves(t) == \A u \in Thread \ {t} : at'[u] = at[u]

LEMMA SharedStepsMoveOne ==
  ASSUME RuntimeTypeOK, NEW t \in Thread
  PROVE  /\ \A p : Goto(t, p) => OnlyMoves(t)
         /\ Throw(t) => OnlyMoves(t)
         /\ at' = at => OnlyMoves(t)
         /\ \A can, next, p : Write(t, can, next, p) => OnlyMoves(t)
         /\ \A p : Read(t, p) => OnlyMoves(t)
<1>1. ASSUME NEW p, Goto(t, p) PROVE OnlyMoves(t)
  BY <1>1, TypeParts DEF Goto, OnlyMoves
<1>2. Throw(t) => OnlyMoves(t)
  BY <1>1 DEF Throw
<1>3. at' = at => OnlyMoves(t)
  BY DEF OnlyMoves
<1> QED
  BY <1>1, <1>2, <1>3 DEF Write, Read

LEMMA StagesMoveExecute ==
  ASSUME RuntimeTypeOK
  PROVE  /\ \A o : Observe(o) => OnlyMoves("execute")
         /\ \A p, can, next, then : Hook(p, can, next, then) => OnlyMoves("execute")
         /\ \A then : Proceeds(then) => OnlyMoves("execute")
         /\ \A outcomes : Ends(outcomes) => OnlyMoves("execute")
         /\ StopAndObserve => OnlyMoves("execute")
         /\ \A a : AnswersGeneration(a) => OnlyMoves("execute")
<1>1. "execute" \in Thread
  BY DEF Thread
<1> QED
  BY <1>1, SharedStepsMoveOne
  DEF Observe, Hook, Proceeds, Ends, StopAndObserve, AnswersGeneration

LEMMA SettlementMovesOne ==
  ASSUME RuntimeTypeOK, NEW t \in Thread, SettlementStep(t)
  PROVE  OnlyMoves(t)
<1>1. ASSUME NEW can, NEW next, NEW p, CleanupWrite(t, can, next, p) PROVE OnlyMoves(t)
  BY <1>1, SharedStepsMoveOne DEF CleanupWrite
<1>2. CASE StartPresentationCleanup(t)
  BY <1>1, <1>2 DEF StartPresentationCleanup
<1>3. CASE InspectOwnedWorkspace(t) \/ CloseOwnedWorkspace(t)
  BY <1>3, SharedStepsMoveOne DEF InspectOwnedWorkspace, CloseOwnedWorkspace
<1>4. CASE \/ RecordCleanup(t, "recordClose", "completed")
           \/ RecordCleanup(t, "unconfirm", "unconfirmed")
  BY <1>1, <1>4 DEF RecordCleanup
<1>5. CASE AnswerTerminal(t)
  BY <1>5, SharedStepsMoveOne DEF AnswerTerminal, Settled
<1> QED
  BY <1>2, <1>3, <1>4, <1>5 DEF SettlementStep

LEMMA ExecuteMovesItself ==
  ASSUME RuntimeTypeOK, CreateOperation \/ ExecuteStep \/ WorkerStep
  PROVE  OnlyMoves("execute")
<1>1. "execute" \in Thread
  BY DEF Thread
<1>2. CASE \/ CreateOperation \/ CreatePresentation \/ OwnCreatedPresentation
           \/ OperationStarting \/ StartWorker \/ WaitForIdentification
           \/ StartDeliveryAuthorityAcquired \/ Rejoin \/ Succeed
  BY <1>1, <1>2, SharedStepsMoveOne, StagesMoveExecute
  DEF CreateOperation, CreatePresentation, OwnCreatedPresentation, OperationStarting,
      StartWorker, WaitForIdentification, StartDeliveryAuthorityAcquired, Rejoin, Succeed
<1>3. CASE \/ WorkerLaunched \/ WorkerIdentified \/ StartDeliveryAuthorityRevoked
           \/ StartDeliveryGenerationConfirmed \/ StartAcceptanceUnknown
           \/ CollectAcceptance \/ CollectAcknowledgement \/ ReacquireAuthority
           \/ StartDeliveryEntered \/ StartInstructionDispatched
           \/ StartInstructionAccepted \/ StartInstructionAcknowledged
  BY <1>3, StagesMoveExecute
  DEF WorkerLaunched, WorkerIdentified, StartDeliveryAuthorityRevoked,
      StartDeliveryGenerationConfirmed, StartAcceptanceUnknown, CollectAcceptance,
      CollectAcknowledgement, ReacquireAuthority, StartDeliveryEntered,
      StartInstructionDispatched, StartInstructionAccepted, StartInstructionAcknowledged
<1>4. CASE \/ CheckCancellation \/ DispatchBegin \/ OfferResult \/ ConfirmSuccessfulExit
           \/ StopUncertain \/ StopSession \/ WorkerStep
  BY <1>1, <1>4, SharedStepsMoveOne, StagesMoveExecute
  DEF CheckCancellation, DispatchBegin, OfferResult, ConfirmSuccessfulExit, StopUncertain,
      StopSession, WorkerStep, RequestDeliveryGenerationUpdate, AwaitAcceptance,
      AwaitAcknowledgement, AwaitResult
<1>5. CASE \/ ConfirmObservedExit \/ WorkerStopConfirmed \/ JudgeObserved
           \/ AgentSettled \/ OperationFailed \/ LivenessUnproven
           \/ OperationCompleted("execute") \/ SettlementStep("execute") \/ ExecuteCaught
  BY <1>1, <1>5, SharedStepsMoveOne, SettlementMovesOne
  DEF ConfirmObservedExit, WorkerStopConfirmed, JudgeObserved, LeftToOthers, AgentSettled,
      OperationFailed, LivenessUnproven, OperationCompleted, ExecuteCaught
<1> QED
  BY <1>2, <1>3, <1>4, <1>5 DEF ExecuteStep

LEMMA CancellationMovesOne ==
  ASSUME RuntimeTypeOK, NEW t \in Thread,
         CancellationStep(t) \/ OperationUnknown(t) \/ SettlementStep(t)
  PROVE  OnlyMoves(t)
  BY SharedStepsMoveOne, SettlementMovesOne
  DEF CancellationStep, CancelDispatched, AwaitStop, CancelAcknowledged, OperationCancelled,
      OperationUnknown

\* Only a decided Operation is cleaned up, so that none of these steps moves a
\* recovery that has found an open one.
LEMMA OnlyRecoveryGoesOn ==
  ASSUME RuntimeIInv, Next, at["recoverWorkers"] = "recover",
         at'["recoverWorkers"] # "recover", op.state \in OpenStates,
         crashes' = crashes
  PROVE  RecoverOperation
<1> DEFINE w == "recoverWorkers"
<1>1. /\ RuntimeTypeOK /\ w \in Thread /\ w # "execute" /\ w # "cancel"
      /\ w \notin CancellationRecovery /\ CancellationRecovery \subseteq Thread
      /\ "cancel" \in Thread /\ "recoverCleanups" \in Thread /\ w # "recoverCleanups"
  BY DEF RuntimeIInv, Thread, CancellationRecovery
<1>2. ~(CreateOperation \/ ExecuteStep \/ WorkerStep)
  BY <1>1, ExecuteMovesItself DEF OnlyMoves
<1>3. ~(CallCancel \/ CancelStep)
  BY <1>1, SharedStepsMoveOne, CancellationMovesOne
  DEF OnlyMoves, CallCancel, CancelStep, CancellationRequested, CancelCaught
<1>4. ASSUME NEW t \in CancellationRecovery PROVE ~RecoverCancellationStep(t)
  BY <1>1, SharedStepsMoveOne, CancellationMovesOne
  DEF OnlyMoves, RecoverCancellationStep, RecoverCancellationCaught
<1>5. ~(WorkerTakesUp \/ ProcessExits \/ AnotherDefersRecovery)
  BY DEF WorkerTakesUp, ProcessExits, AnotherDefersRecovery
<1>6. ~Crash
  <2>1. crashes \in Int
    BY <1>1, TypeParts
  <2> QED
    BY <2>1 DEF Crash
<1>7. ~SettlementStep("recoverCleanups") /\ ~SettlementStep(w)
  <2>1. ~SettlementStep("recoverCleanups")
    BY <1>1, SettlementMovesOne DEF OnlyMoves
  <2> QED
    BY <2>1
    DEF SettlementStep, StartPresentationCleanup, InspectOwnedWorkspace, CloseOwnedWorkspace,
        RecordCleanup, AnswerTerminal
<1>8. ~(Recover \/ RecoverWorkersCaught \/ RecoverCleanups
        \/ OperationCompleted(w) \/ OperationCancelled(w) \/ OperationUnknown(w))
  BY DEF Recover, RecoverWorkersCaught, RecoverCleanups, OperationCompleted,
         OperationCancelled, OperationUnknown
<1>9. ~CleanupsRecovered
  <2>1. Placed("recoverCleanups")
    BY <1>1 DEF RuntimeIInv
  <2> QED
    BY <2>1 DEF CleanupsRecovered, Placed
<1> QED
  BY <1>2, <1>3, <1>4, <1>5, <1>6, <1>7, <1>8, <1>9 DEF Next, RecoveryStep

-----------------------------------------------------------------------------
(* The theorems.                                                           *)

LEMMA RuntimeInitially ==
  ASSUME Init
  PROVE  RuntimeIInv
<1>1. /\ op = None /\ at = Nowhere /\ seen = Nothing /\ run = FreshRun
      /\ memory = [FreshMemory EXCEPT !.workersRecovered = TRUE, !.cleanupsRecovered = TRUE]
      /\ answer = "pending" /\ reply = "none"
      /\ process = "absent" /\ sent = None /\ began = None /\ workspace = "absent"
      /\ faults \in 0..MaxFaults /\ crashes \in 0..MaxCrashes
  BY DEF Init
<1>2. ~Recording
  BY <1>1, NoneIsNoOperation DEF Recording
<1>3. RuntimeTypeOK
  <2>1. at \in [Thread -> Places] /\ seen \in [Thread -> Operation \cup {None}]
        /\ memory \in Memories /\ run \in Runs
    BY <1>1, FreshTyped
  <2>2. answer \in AnswerKinds /\ reply \in ReplyKinds
    BY <1>1 DEF AnswerKinds, ReplyKinds
  <2> QED
    BY <1>1, <2>1, <2>2 DEF RuntimeTypeOK, Memories, Runs, AnswerKinds, ReplyKinds
<1>4. \A t \in Thread : at[t] = "idle" /\ seen[t] \notin Operation
  BY <1>1, NoneIsNoOperation DEF Nowhere, Nothing
<1>5. \A t \in Thread : Placed(t)
  <2>1. "idle" \notin SettlePlaces \cup {"cleaned"}
    BY DEF SettlePlaces
  <2> QED
    BY <1>4, <2>1 DEF Placed
<1>6. RunPlaced
  BY <1>4 DEF RunPlaced, BeforeSend, BeforeLaunch, WithInstruction, Thread
<1>7. /\ ~memory.known /\ ~memory.handle /\ ~memory.recoverable
      /\ ~memory.cancelEvidence /\ ~memory.observedOutcome.exit
  BY <1>1 DEF FreshMemory, NoOutcome, Outcome
<1>8. /\ StopEvidenceTrue /\ NothingBeforeRecord /\ ClosedAfterCleanup
      /\ ToldWhatIsRecorded /\ RunIsBusy
  BY <1>1, <1>2, <1>7
  DEF StopEvidenceTrue, NothingBeforeRecord, ClosedAfterCleanup, ToldWhatIsRecorded,
      RunIsBusy, Unsent, TerminalStates
<1> QED
  BY <1>2, <1>3, <1>5, <1>6, <1>8 DEF RuntimeIInv

LEMMA ExecuteStepKeeps ==
  ASSUME RuntimeIInv, ExecuteStep
  PROVE  Keeps
<1>1. "execute" \in Thread
  BY DEF Thread
<1>2. CASE \/ CreatePresentation \/ OwnCreatedPresentation \/ OperationStarting
           \/ StartWorker \/ WorkerLaunched \/ WaitForIdentification \/ WorkerIdentified
           \/ StartDeliveryAuthorityAcquired
  BY <1>2, CreatePresentationKeeps, OwnCreatedPresentationKeeps, OperationStartingKeeps,
     StartWorkerKeeps, WorkerLaunchedKeeps, WaitForIdentificationKeeps,
     WorkerIdentifiedKeeps, StartDeliveryAuthorityAcquiredKeeps
<1>3. CASE \/ Rejoin \/ Succeed \/ StartDeliveryAuthorityRevoked
           \/ StartDeliveryGenerationConfirmed \/ StartAcceptanceUnknown
           \/ CollectAcceptance \/ CollectAcknowledgement \/ ReacquireAuthority
  BY <1>3, RejoinKeeps, SucceedKeeps, StartDeliveryAuthorityRevokedKeeps,
     StartDeliveryGenerationConfirmedKeeps, StartAcceptanceUnknownKeeps,
     CollectAcceptanceKeeps, CollectAcknowledgementKeeps, ReacquireAuthorityKeeps
<1>4. CASE \/ CheckCancellation \/ StartDeliveryEntered \/ DispatchBegin
           \/ StartInstructionDispatched \/ StartInstructionAccepted
           \/ StartInstructionAcknowledged \/ OfferResult \/ ConfirmSuccessfulExit
           \/ StopUncertain \/ StopSession
  BY <1>4, CheckCancellationKeeps, StartDeliveryEnteredKeeps, DispatchBeginKeeps,
     StartInstructionDispatchedKeeps, StartInstructionAcceptedKeeps,
     StartInstructionAcknowledgedKeeps, OfferResultKeeps, ConfirmSuccessfulExitKeeps,
     StopUncertainKeeps, StopSessionKeeps
<1>5. CASE \/ ConfirmObservedExit \/ WorkerStopConfirmed \/ JudgeObserved
           \/ AgentSettled \/ OperationFailed \/ LivenessUnproven
           \/ OperationCompleted("execute") \/ SettlementStep("execute") \/ ExecuteCaught
  BY <1>1, <1>5, ConfirmObservedExitKeeps, WorkerStopConfirmedKeeps, JudgeObservedKeeps,
     AgentSettledKeeps, OperationFailedKeeps, LivenessUnprovenKeeps,
     OperationCompletedKeeps, SettlementStepKeeps, ExecuteCaughtKeeps
<1> QED
  BY <1>2, <1>3, <1>4, <1>5 DEF ExecuteStep

LEMMA WorkerStepKeeps ==
  ASSUME RuntimeIInv, WorkerStep
  PROVE  Keeps
  BY RequestDeliveryGenerationUpdateKeeps, AwaitsKeep DEF WorkerStep

LEMMA OtherStepsKeep ==
  ASSUME RuntimeIInv,
         \/ CancelStep \/ RecoveryStep
         \/ \E t \in CancellationRecovery : RecoverCancellationStep(t)
  PROVE  Keeps
<1>1. /\ {"cancel", "recoverWorkers", "recoverCleanups"} \subseteq Thread
      /\ CancellationRecovery \subseteq Thread
  BY DEF Thread
<1>2. CASE CancelStep
  BY <1>1, <1>2, CancellationRequestedKeeps, CancellationStepKeeps, OperationUnknownKeeps,
     SettlementStepKeeps, CancelCaughtKeeps
  DEF CancelStep
<1>3. CASE RecoveryStep
  BY <1>1, <1>3, RecoverKeeps, RecoverOperationKeeps, RecoverWorkersCaughtKeeps,
     OperationCompletedKeeps, OperationCancelledKeeps, OperationUnknownKeeps,
     SettlementStepKeeps, RecoverCleanupsKeeps, CleanupsRecoveredKeeps
  DEF RecoveryStep
<1>4. ASSUME NEW t \in CancellationRecovery, RecoverCancellationStep(t) PROVE Keeps
  BY <1>1, <1>4, CancellationStepKeeps, OperationUnknownKeeps, SettlementStepKeeps,
     RecoverCancellationCaughtKeeps
  DEF RecoverCancellationStep
<1> QED
  BY <1>2, <1>3, <1>4

LEMMA StutterKeeps ==
  ASSUME RuntimeIInv, UNCHANGED vars
  PROVE  Keeps
<1>1. UNCHANGED <<op, at, seen, memory, run, answer, reply, process, sent, began, workspace,
                  faults, crashes>>
  BY DEF vars, world
<1>2. RuntimeTypeOK' /\ RunPlaced' /\ \A t \in Thread : Placed(t)'
  BY <1>1 DEF RuntimeIInv, RuntimeTypeOK, RunPlaced, Placed, Unsent, Recording
<1>3. /\ StopEvidenceTrue' /\ NothingBeforeRecord' /\ ClosedAfterCleanup'
      /\ ToldWhatIsRecorded' /\ RunIsBusy'
  BY <1>1
  DEF RuntimeIInv, StopEvidenceTrue, NothingBeforeRecord, ClosedAfterCleanup,
      ToldWhatIsRecorded, RunIsBusy, Unsent, Recording, Busy
<1> QED
  BY <1>1, <1>2, <1>3, Assembled DEF Goes

\* Whatever the Runtime, its store, the worker and its callers do next, a death
\* of the Runtime included, the invariant holds after it.
THEOREM RuntimeNext ==
  ASSUME RuntimeIInv, [Next]_vars
  PROVE  Keeps
<1>1. CASE CreateOperation \/ CallCancel \/ ExecuteStep \/ WorkerStep
  BY <1>1, CreateOperationKeeps, CallCancelKeeps, ExecuteStepKeeps, WorkerStepKeeps
<1>2. CASE \/ CancelStep \/ RecoveryStep
           \/ \E t \in CancellationRecovery : RecoverCancellationStep(t)
  BY <1>2, OtherStepsKeep
<1>3. CASE WorkerTakesUp \/ ProcessExits \/ AnotherDefersRecovery \/ Crash
  BY <1>3, WorkerTakesUpKeeps, ProcessExitsKeeps, AnotherDefersRecoveryKeeps, CrashKeeps
<1>4. CASE UNCHANGED vars
  BY <1>4, StutterKeeps
<1> QED
  BY <1>1, <1>2, <1>3, <1>4 DEF Next

\* What every function of the Runtime holds of the record and of the worker at
\* the place where it stands is true, in every state.
THEOREM RuntimeInvariant == Spec => []RuntimeIInv
<1>1. Init => RuntimeIInv
  BY RuntimeInitially
<1>2. RuntimeIInv /\ [Next]_vars => RuntimeIInv'
  BY RuntimeNext DEF Keeps
<1> QED
  BY <1>1, <1>2, PTL DEF Spec

\* The record, the memory of the Runtime and the run keep their types.
THEOREM RuntimeTypeCorrect == Spec => []RuntimeTypeOK
<1>1. RuntimeIInv => RuntimeTypeOK
  BY DEF RuntimeIInv
<1> QED
  BY <1>1, RuntimeInvariant, PTL

\* worker_stop_confirmed and cancel_acknowledged are recorded of a worker whose
\* process has stopped, on every path of settleObserved, cancel and recover.
THEOREM StopIsTrueHolds == Spec => []StopIsTrue
<1>1. RuntimeIInv => StopIsTrue
  <2> SUFFICES ASSUME RuntimeIInv, op # None, op.workerStopConfirmed
               PROVE  process # "running"
    BY DEF StopIsTrue
  <2>1. RuntimeTypeOK /\ StopEvidenceTrue
    BY DEF RuntimeIInv
  <2>2. Recording
    BY <2>1, TypeParts
  <2> QED
    BY <2>1, <2>2 DEF StopEvidenceTrue
<1> QED
  BY <1>1, RuntimeInvariant, PTL

\* performCleanup closes a workspace only when the worker in it has stopped and
\* the cleanup is on record.
THEOREM CloseAfterStopHolds == Spec => []CloseAfterStop
<1>1. RuntimeIInv => CloseAfterStop
  <2> SUFFICES ASSUME RuntimeIInv, workspace = "closed"
               PROVE  /\ process # "running"
                      /\ op.state \in {"completed", "cancelled"}
                      /\ op.presentationCleanup # None
    BY DEF CloseAfterStop
  <2>1. Recording /\ op.presentationCleanup # None
    BY DEF RuntimeIInv, ClosedAfterCleanup
  <2>2. PresentationCleanupEligible(op)
    BY <2>1 DEF RuntimeIInv, Sound
  <2> QED
    BY <2>1, <2>2 DEF RuntimeIInv, StopEvidenceTrue, PresentationCleanupEligible
<1> QED
  BY <1>1, RuntimeInvariant, PTL

\* result() and cancel() are settled with the state the record ends in,
\* whichever function settles them.
THEOREM RepliesMatchRecordHolds == Spec => []RepliesMatchRecord
<1>1. RuntimeIInv => RepliesMatchRecord
  BY DEF RuntimeIInv, ToldWhatIsRecorded, RepliesMatchRecord
<1> QED
  BY <1>1, RuntimeInvariant, PTL

\* dispatchBegin runs only while the worker has accepted no start instruction,
\* one that an earlier Runtime sent included.
THEOREM NoSecondStartHolds == Spec => []NoSecondStart
<1>1. RuntimeIInv => NoSecondStart
  BY DEF RuntimeIInv, RunPlaced, NoSecondStart, BeforeSend, Unsent
<1> QED
  BY <1>1, RuntimeInvariant, PTL

\* recoverWorkers leaves an open Operation whose run is under way alone.
THEOREM SingleRunHolds == Spec => SingleRun
<1> DEFINE Met == /\ at["recoverWorkers"] = "recover" /\ at'["recoverWorkers"] # "recover"
                  /\ at["execute"] # "idle"
                  /\ op.state \in OpenStates
                  /\ crashes' = crashes
           Alone == UNCHANGED <<memory, run, at["execute"]>>
<1>1. RuntimeIInv /\ [Next]_vars => [Met => Alone]_vars
  <2> SUFFICES ASSUME RuntimeIInv, Next, Met PROVE Alone
    OBVIOUS
  <2>1. RecoverOperation
    BY OnlyRecoveryGoesOn
  <2>2. RuntimeTypeOK /\ Busy(memory) /\ "execute" \in Thread
    BY ListedFacts DEF Thread
  <2>3. LeaveAlone
    BY <2>1, <2>2 DEF RecoverOperation
  <2> QED
    BY <2>2, <2>3, TypeParts DEF LeaveAlone, HandsOver
<1> QED
  BY <1>1, RuntimeInvariant, PTL DEF Spec, SingleRun


-----------------------------------------------------------------------------
(* The record of a Runtime implements the life cycle promised to callers.   *)

\* An Operation that is not on record yet is open, too.
Lifecycle ==
  INSTANCE OperationLifecycle WITH
    phase    <- IF op = None \/ op.state \in OpenStates THEN "open" ELSE op.state,
    accepted <- op # None /\ op.result # None,
    stopped  <- op # None /\ op.workerStopConfirmed

RuntimeImplementsLifecycle == Lifecycle!LifecycleSpec

\* p tells a caller no more than o.
Invisible(o, p) ==
  /\ p.result = o.result
  /\ p.workerStopConfirmed = o.workerStopConfirmed
  /\ p.state = o.state \/ {o.state, p.state} \subseteq OpenStates

Decides(o, p) ==
  /\ p.result = o.result
  /\ p.workerStopConfirmed = o.workerStopConfirmed
  /\ \/ o.state \in OpenStates /\ p.state \in {"failed", "cancelling", "unknown"}
     \/ /\ o.state \in OpenStates /\ p.state = "completed"
        /\ o.result # None /\ o.workerStopConfirmed
     \/ o.state = "cancelling" /\ p.state = "unknown"
     \/ o.state = "cancelling" /\ p.state = "cancelled" /\ o.workerStopConfirmed

Accepts(o, p) ==
  /\ o.state \in OpenStates /\ p.state = o.state
  /\ o.result = None /\ p.result # None
  /\ p.workerStopConfirmed = o.workerStopConfirmed

Stops(o, p) ==
  /\ o.state \in OpenStates \cup {"cancelling"} /\ p.state = o.state
  /\ p.result = o.result
  /\ p.workerStopConfirmed

LifeStep(o, p) == Invisible(o, p) \/ Decides(o, p) \/ Accepts(o, p) \/ Stops(o, p)

LEMMA InvisibleArms ==
  ASSUME NEW o \in Operation
  PROVE  /\ \A w : Invisible(o, OwnPresentation(o, w)) /\ Invisible(o, IdentifyWorker(o, w))
         /\ Invisible(o, LaunchWorker(o))
         /\ Invisible(o, SettleAgent(o))
         /\ Invisible(o, DispatchCancel(o))
         /\ \A i : /\ Invisible(o, AcquireAuthority(o, i))
                   /\ Invisible(o, EnterDelivery(o, i))
                   /\ Invisible(o, DispatchStart(o, i))
                   /\ Invisible(o, AcceptStart(o, i))
         /\ \A d, g : Invisible(o, RevokeAuthority(o, d, g))
         /\ \A s : Invisible(o, ConfirmGeneration(o, s)) /\ Invisible(o, FinishCleanup(o, s))
         /\ \A c, w : Invisible(o, StartCleanup(o, c, w))
<1>1. ASSUME NEW field \in {"presentation", "workerIdentity", "workerLaunched",
                            "agentRunEvidence", "startDeliveryAuthority",
                            "startDeliveryEntry", "startInstructionDelivery",
                            "startInstructionAcceptance", "startDeliveryHandoffs",
                            "presentationCleanup"},
             NEW v
      PROVE  Invisible(o, [o EXCEPT ![field] = v])
  BY <1>1, SMT DEF Operation, Invisible
<1>2. /\ \A w : Invisible(o, OwnPresentation(o, w)) /\ Invisible(o, IdentifyWorker(o, w))
      /\ Invisible(o, LaunchWorker(o))
      /\ Invisible(o, SettleAgent(o))
  BY <1>1 DEF OwnPresentation, IdentifyWorker, LaunchWorker, SettleAgent
<1>3. \A i : /\ Invisible(o, AcquireAuthority(o, i))
             /\ Invisible(o, EnterDelivery(o, i))
             /\ Invisible(o, DispatchStart(o, i))
             /\ Invisible(o, AcceptStart(o, i))
  BY <1>1 DEF AcquireAuthority, EnterDelivery, DispatchStart, AcceptStart
<1>4. /\ \A d, g : Invisible(o, RevokeAuthority(o, d, g))
      /\ \A s : Invisible(o, ConfirmGeneration(o, s))
  BY <1>1 DEF RevokeAuthority, ConfirmGeneration
<1>5. /\ \A c, w : Invisible(o, StartCleanup(o, c, w))
      /\ \A s : Invisible(o, FinishCleanup(o, s))
  BY <1>1 DEF StartCleanup, FinishCleanup
<1>6. Invisible(o, DispatchCancel(o))
  BY DEF Invisible, DispatchCancel
<1> QED
  BY <1>2, <1>3, <1>4, <1>5, <1>6

LEMMA VisibleArms ==
  ASSUME NEW o \in Operation
  PROVE  /\ CanStart(o) => LifeStep(o, Start(o))
         /\ \A i : CanAcknowledgeStart(o, i) => LifeStep(o, AcknowledgeStart(o, i))
         /\ \A r \in Result : CanAcceptResult(o) => LifeStep(o, AcceptResult(o, r))
         /\ CanConfirmWorkerStop(o) => LifeStep(o, ConfirmWorkerStop(o))
         /\ \A e : OfCancellation(o, e) => LifeStep(o, AcknowledgeCancel(o))
         /\ CanComplete(o) => LifeStep(o, Complete(o))
         /\ CanFail(o) => LifeStep(o, Fail(o))
         /\ \A e : CanRequestCancellation(o, e) => LifeStep(o, RequestCancellation(o, e))
         /\ \A e : CanCancel(o, e) => LifeStep(o, Cancel(o))
         /\ \A r, e : CanGiveUp(o, r, e) => LifeStep(o, GiveUp(o))
<1> DEFINE Only(p, s) ==
             p.state = s /\ p.result = o.result /\ p.workerStopConfirmed = o.workerStopConfirmed
<1>1. /\ Only(Start(o), "starting") /\ Only(Complete(o), "completed")
      /\ Only(Fail(o), "failed") /\ Only(Cancel(o), "cancelled")
      /\ Only(GiveUp(o), "unknown")
  BY SMT DEF Start, Complete, Fail, Cancel, GiveUp, Operation
<1>2. \A i : Only(AcknowledgeStart(o, i), "running")
  BY SMT DEF AcknowledgeStart, Operation
<1>3. \A e : Only(RequestCancellation(o, e), "cancelling")
  BY SMT DEF RequestCancellation, Operation
<1>4. ASSUME NEW r \in Result
      PROVE  /\ AcceptResult(o, r).state = o.state /\ AcceptResult(o, r).result = r
             /\ AcceptResult(o, r).workerStopConfirmed = o.workerStopConfirmed
             /\ r # None
  BY NoneIsNoValue, SMT DEF AcceptResult, Operation
<1>5. /\ ConfirmWorkerStop(o).state = o.state /\ ConfirmWorkerStop(o).result = o.result
      /\ ConfirmWorkerStop(o).workerStopConfirmed
      /\ AcknowledgeCancel(o) = ConfirmWorkerStop(o)
  BY SMT DEF ConfirmWorkerStop, AcknowledgeCancel, Operation
<1>6. /\ CanStart(o) => LifeStep(o, Start(o))
      /\ CanComplete(o) => LifeStep(o, Complete(o))
      /\ CanFail(o) => LifeStep(o, Fail(o))
      /\ \A e : CanCancel(o, e) => LifeStep(o, Cancel(o))
  BY <1>1
  DEF CanStart, CanComplete, CanFail, CanCancel, OfCancellation, Starting, OpenStates,
      LifeStep, Invisible, Decides
<1>7. \A r, e : CanGiveUp(o, r, e) => LifeStep(o, GiveUp(o))
  BY <1>1 DEF CanGiveUp, OfCancellation, LifeStep, Decides
<1>8. \A i : CanAcknowledgeStart(o, i) => LifeStep(o, AcknowledgeStart(o, i))
  BY <1>2 DEF CanAcknowledgeStart, OpenStates, LifeStep, Invisible
<1>9. \A e : CanRequestCancellation(o, e) => LifeStep(o, RequestCancellation(o, e))
  BY <1>3 DEF CanRequestCancellation, LifeStep, Decides
<1>10. \A r \in Result : CanAcceptResult(o) => LifeStep(o, AcceptResult(o, r))
  BY <1>4 DEF CanAcceptResult, OpenStates, LifeStep, Accepts
<1>11. /\ CanConfirmWorkerStop(o) => LifeStep(o, ConfirmWorkerStop(o))
       /\ \A e : OfCancellation(o, e) => LifeStep(o, AcknowledgeCancel(o))
  BY <1>5 DEF CanConfirmWorkerStop, OfCancellation, Starting, OpenStates, LifeStep, Stops
<1> QED
  BY <1>6, <1>7, <1>8, <1>9, <1>10, <1>11

\* What a step of the Runtime makes of the record.
RecordStep == op' = op \/ (op = None /\ op' = Requested) \/ (op \in Operation /\ LifeStep(op, op'))

LEMMA WritesAreSteps ==
  ASSUME NEW can, NEW next, Recording, can => LifeStep(op, next)
  PROVE  /\ Recorded(can, next) => RecordStep
         /\ NotRecorded(can, next) => RecordStep
         /\ \A t, p : Write(t, can, next, p) => RecordStep
         /\ \A t, p : CleanupWrite(t, can, next, p) => RecordStep
         /\ \A p, then : Hook(p, can, next, then) => RecordStep
<1>1. Recorded(can, next) => RecordStep
  BY DEF Recorded, RecordStep, Recording
<1>2. NotRecorded(can, next) => RecordStep
  BY DEF NotRecorded, RecordStep, Recording
<1> QED
  BY <1>1, <1>2 DEF Write, CleanupWrite, Hook

\* A write needs a record, which there is wherever a function writes.
LEMMA WritersHaveRecord ==
  ASSUME RuntimeIInv
  PROVE  \A t \in Thread : at[t] \notin {"idle", "cleanups"} => Recording
  BY DEF RuntimeIInv, Placed

LEMMA SettlementRecordSteps ==
  ASSUME RuntimeIInv, NEW t \in Thread, SettlementStep(t)
  PROVE  RecordStep
<1>1. at[t] \notin {"idle", "cleanups"} => Recording
  BY WritersHaveRecord
<1>2. Recording => \A c, w, s : /\ LifeStep(op, StartCleanup(op, c, w))
                                /\ LifeStep(op, FinishCleanup(op, s))
  BY InvisibleArms DEF Recording, LifeStep
<1>3. CASE StartPresentationCleanup(t)
  BY <1>1, <1>2, <1>3, WritesAreSteps DEF StartPresentationCleanup
<1>4. CASE RecordCleanup(t, "recordClose", "completed")
  BY <1>1, <1>2, <1>4, WritesAreSteps DEF RecordCleanup
<1>5. CASE RecordCleanup(t, "unconfirm", "unconfirmed")
  BY <1>1, <1>2, <1>5, WritesAreSteps DEF RecordCleanup
<1>6. CASE InspectOwnedWorkspace(t) \/ CloseOwnedWorkspace(t) \/ AnswerTerminal(t)
  BY <1>6 DEF InspectOwnedWorkspace, CloseOwnedWorkspace, AnswerTerminal, RecordStep
<1> QED
  BY <1>3, <1>4, <1>5, <1>6 DEF SettlementStep

LEMMA DecisionRecordSteps ==
  ASSUME RuntimeIInv, NEW t \in Thread,
         \/ OperationCompleted(t) \/ OperationUnknown(t) \/ CancellationStep(t)
  PROVE  RecordStep
<1>1. at[t] \notin {"idle", "cleanups"} => Recording
  BY WritersHaveRecord
<1>2. CASE OperationCompleted(t)
  BY <1>1, <1>2, VisibleArms, WritesAreSteps DEF OperationCompleted, Recording
<1>3. CASE OperationUnknown(t)
  BY <1>1, <1>3, VisibleArms, WritesAreSteps DEF OperationUnknown, Recording
<1>4. CASE CancelDispatched(t)
  BY <1>1, <1>4, InvisibleArms, WritesAreSteps DEF CancelDispatched, Recording, LifeStep
<1>5. CASE AwaitStop(t)
  BY <1>5 DEF AwaitStop, RecordStep
<1>6. CASE CancelAcknowledged(t)
  BY <1>1, <1>6, VisibleArms, WritesAreSteps DEF CancelAcknowledged, Recording
<1>7. CASE OperationCancelled(t)
  BY <1>1, <1>7, VisibleArms, WritesAreSteps DEF OperationCancelled, Recording
<1> QED
  BY <1>2, <1>3, <1>4, <1>5, <1>6, <1>7 DEF CancellationStep

LEMMA StagesLeaveRecord ==
  /\ \A outcomes : Ends(outcomes) => op' = op
  /\ \A then : Proceeds(then) => op' = op
  /\ StopAndObserve => op' = op
  /\ \A a : AnswersGeneration(a) => op' = op
  BY DEF Ends, Proceeds, StopAndObserve, AnswersGeneration

LEMMA ExecuteLeavesRecord ==
  ASSUME \/ CreatePresentation \/ StartWorker \/ WaitForIdentification \/ Rejoin \/ Succeed
         \/ CheckCancellation \/ DispatchBegin \/ ConfirmSuccessfulExit
         \/ StopUncertain \/ StopSession \/ ConfirmObservedExit \/ JudgeObserved
         \/ ExecuteCaught \/ WorkerStep
  PROVE  op' = op
<1>1. CASE \/ CreatePresentation \/ StartWorker \/ WaitForIdentification \/ Rejoin \/ Succeed
  BY <1>1, StagesLeaveRecord
  DEF CreatePresentation, StartWorker, WaitForIdentification, Rejoin, Succeed
<1>2. CASE \/ CheckCancellation \/ DispatchBegin \/ ConfirmSuccessfulExit
           \/ StopUncertain \/ StopSession \/ WorkerStep
  BY <1>2, StagesLeaveRecord
  DEF CheckCancellation, DispatchBegin, ConfirmSuccessfulExit, StopUncertain, StopSession,
      WorkerStep, RequestDeliveryGenerationUpdate, AwaitAcceptance, AwaitAcknowledgement,
      AwaitResult
<1>3. CASE ConfirmObservedExit \/ JudgeObserved \/ ExecuteCaught
  BY <1>3 DEF ConfirmObservedExit, JudgeObserved, ExecuteCaught, LeftToOthers, Read
<1> QED
  BY <1>1, <1>2, <1>3

LEMMA StartRecordSteps ==
  ASSUME RuntimeIInv,
         \/ OwnCreatedPresentation \/ OperationStarting \/ WorkerLaunched \/ WorkerIdentified
         \/ StartDeliveryAuthorityAcquired \/ StartDeliveryEntered
         \/ StartInstructionDispatched \/ StartInstructionAccepted
         \/ StartInstructionAcknowledged
  PROVE  RecordStep
<1>1. "execute" \in Thread /\ (at["execute"] \notin {"idle", "cleanups"} => Recording)
  BY WritersHaveRecord DEF Thread
<1>2. CASE OwnCreatedPresentation
  BY <1>1, <1>2, InvisibleArms, WritesAreSteps DEF OwnCreatedPresentation, Recording, LifeStep
<1>3. CASE OperationStarting
  BY <1>1, <1>3, VisibleArms, WritesAreSteps DEF OperationStarting, Recording
<1>4. CASE WorkerLaunched
  <2>1. Recording
    BY <1>1, <1>4 DEF WorkerLaunched, Hook
  <2> QED
    BY <1>4, <2>1, InvisibleArms, WritesAreSteps DEF WorkerLaunched, Recording, LifeStep
<1>5. CASE WorkerIdentified
  <2>1. Recording
    BY <1>1, <1>5 DEF WorkerIdentified, Hook
  <2> QED
    BY <1>5, <2>1, InvisibleArms, WritesAreSteps DEF WorkerIdentified, Recording, LifeStep
<1>6. CASE StartDeliveryAuthorityAcquired
  BY <1>1, <1>6, InvisibleArms, WritesAreSteps
  DEF StartDeliveryAuthorityAcquired, Recording, LifeStep
<1>7. CASE StartDeliveryEntered
  <2>1. Recording
    BY <1>1, <1>7 DEF StartDeliveryEntered, Hook
  <2> QED
    BY <1>7, <2>1, InvisibleArms, WritesAreSteps DEF StartDeliveryEntered, Recording, LifeStep
<1>8. CASE StartInstructionDispatched
  <2>1. Recording
    BY <1>1, <1>8 DEF StartInstructionDispatched, Hook
  <2> QED
    BY <1>8, <2>1, InvisibleArms, WritesAreSteps
    DEF StartInstructionDispatched, Recording, LifeStep
<1>9. CASE StartInstructionAccepted
  <2>1. Recording
    BY <1>1, <1>9 DEF StartInstructionAccepted, Hook
  <2> QED
    BY <1>9, <2>1, InvisibleArms, WritesAreSteps
    DEF StartInstructionAccepted, Recording, LifeStep
<1>10. CASE StartInstructionAcknowledged
  <2>1. Recording
    BY <1>1, <1>10 DEF StartInstructionAcknowledged, Hook
  <2> QED
    BY <1>10, <2>1, VisibleArms, WritesAreSteps DEF StartInstructionAcknowledged, Recording
<1> QED
  BY <1>2, <1>3, <1>4, <1>5, <1>6, <1>7, <1>8, <1>9, <1>10

LEMMA HandoverRecordSteps ==
  ASSUME RuntimeIInv,
         \/ StartDeliveryAuthorityRevoked \/ StartDeliveryGenerationConfirmed
         \/ StartAcceptanceUnknown \/ CollectAcceptance \/ CollectAcknowledgement
         \/ ReacquireAuthority
  PROVE  RecordStep
<1>1. "execute" \in Thread /\ (at["execute"] \notin {"idle", "cleanups"} => Recording)
  BY WritersHaveRecord DEF Thread
<1>2. Recording
  BY <1>1
  DEF StartDeliveryAuthorityRevoked, StartDeliveryGenerationConfirmed,
      StartAcceptanceUnknown, CollectAcceptance, CollectAcknowledgement,
      ReacquireAuthority, Hook
<1>3. CASE StartDeliveryAuthorityRevoked
  BY <1>2, <1>3, InvisibleArms, WritesAreSteps
  DEF StartDeliveryAuthorityRevoked, Recording, LifeStep
<1>4. CASE StartDeliveryGenerationConfirmed
  BY <1>2, <1>4, InvisibleArms, WritesAreSteps
  DEF StartDeliveryGenerationConfirmed, Recording, LifeStep
<1>5. CASE StartAcceptanceUnknown
  BY <1>2, <1>5, VisibleArms, WritesAreSteps DEF StartAcceptanceUnknown, Recording
<1>6. CASE CollectAcceptance
  BY <1>2, <1>6, InvisibleArms, WritesAreSteps, StagesLeaveRecord
  DEF CollectAcceptance, Recording, LifeStep, RecordStep
<1>7. CASE CollectAcknowledgement
  BY <1>2, <1>7, VisibleArms, WritesAreSteps, StagesLeaveRecord
  DEF CollectAcknowledgement, Recording, RecordStep
<1>8. CASE ReacquireAuthority
  BY <1>2, <1>8, InvisibleArms, WritesAreSteps DEF ReacquireAuthority, Recording, LifeStep
<1> QED
  BY <1>3, <1>4, <1>5, <1>6, <1>7, <1>8

LEMMA OutcomeRecordSteps ==
  ASSUME RuntimeIInv,
         OfferResult \/ WorkerStopConfirmed \/ AgentSettled \/ OperationFailed
           \/ LivenessUnproven
  PROVE  RecordStep
<1>1. "execute" \in Thread /\ (at["execute"] \notin {"idle", "cleanups"} => Recording)
  BY WritersHaveRecord DEF Thread
<1>2. Recording
  BY <1>1 DEF OfferResult, WorkerStopConfirmed, AgentSettled, OperationFailed, LivenessUnproven
<1>3. CASE OfferResult
  <2>1. TheResult \in Result
    BY OneOfEach DEF TheResult
  <2> QED
    BY <1>2, <1>3, <2>1, VisibleArms, WritesAreSteps, StagesLeaveRecord
    DEF OfferResult, Recording, RecordStep
<1>4. CASE WorkerStopConfirmed
  BY <1>2, <1>4, VisibleArms, WritesAreSteps DEF WorkerStopConfirmed, Recording
<1>5. CASE AgentSettled
  BY <1>2, <1>5, InvisibleArms, WritesAreSteps DEF AgentSettled, Recording, LifeStep
<1>6. CASE OperationFailed
  BY <1>2, <1>6, VisibleArms, WritesAreSteps DEF OperationFailed, Recording
<1>7. CASE LivenessUnproven
  BY <1>2, <1>7, VisibleArms, WritesAreSteps DEF LivenessUnproven, Recording
<1> QED
  BY <1>3, <1>4, <1>5, <1>6, <1>7

LEMMA RecordStepTaken ==
  ASSUME RuntimeIInv, Next
  PROVE  RecordStep
<1>1. /\ {"execute", "cancel", "recoverWorkers", "recoverCleanups"} \subseteq Thread
      /\ CancellationRecovery \subseteq Thread
  BY DEF Thread
<1>2. CASE CreateOperation
  BY <1>2 DEF CreateOperation, RecordStep
<1>3. CASE \/ CallCancel \/ WorkerTakesUp \/ ProcessExits \/ AnotherDefersRecovery \/ Crash
  BY <1>3 DEF CallCancel, WorkerTakesUp, ProcessExits, AnotherDefersRecovery, Crash, RecordStep
<1>4. CASE ExecuteStep \/ WorkerStep
  BY <1>1, <1>4, ExecuteLeavesRecord, StartRecordSteps, HandoverRecordSteps,
     OutcomeRecordSteps, DecisionRecordSteps, SettlementRecordSteps
  DEF ExecuteStep, RecordStep
<1>5. CASE CancelStep
  <2>1. CASE CancellationRequested
    BY <1>1, <2>1, WritersHaveRecord, VisibleArms, WritesAreSteps
    DEF CancellationRequested, Recording
  <2>2. CASE CancelCaught
    BY <2>2 DEF CancelCaught, RecordStep
  <2> QED
    BY <1>1, <1>5, <2>1, <2>2, DecisionRecordSteps, SettlementRecordSteps DEF CancelStep
<1>6. CASE RecoveryStep
  <2>1. CASE Recover \/ RecoverOperation \/ RecoverWorkersCaught \/ RecoverCleanups
             \/ CleanupsRecovered
    BY <2>1
    DEF Recover, RecoverOperation, RecoverWorkersCaught, RecoverCleanups,
        CleanupsRecovered, RecordStep
  <2>2. CASE OperationCancelled("recoverWorkers")
    BY <1>1, <2>2, DecisionRecordSteps DEF CancellationStep
  <2> QED
    BY <1>1, <1>6, <2>1, <2>2, DecisionRecordSteps, SettlementRecordSteps DEF RecoveryStep
<1>7. ASSUME NEW t \in CancellationRecovery, RecoverCancellationStep(t) PROVE RecordStep
  BY <1>1, <1>7, DecisionRecordSteps, SettlementRecordSteps
  DEF RecoverCancellationStep, RecoverCancellationCaught, RecordStep
<1> QED
  BY <1>2, <1>3, <1>4, <1>5, <1>6, <1>7 DEF Next

LEMMA LifeStepsAreLifecycle ==
  ASSUME op \in Operation, op' \in Operation, LifeStep(op, op')
  PROVE  [Lifecycle!LifecycleNext]_(Lifecycle!lifecycleVars)
<1>1. op # None /\ op' # None
  BY NoneIsNoOperation
<1>2. /\ op.state \in States /\ op'.state \in States
      /\ op.workerStopConfirmed \in BOOLEAN /\ op'.workerStopConfirmed \in BOOLEAN
  BY SMT DEF Operation
<1>3. CASE Invisible(op, op')
  BY <1>1, <1>3, Zenon DEF Invisible, Lifecycle!lifecycleVars
<1>4. CASE Decides(op, op')
  BY <1>1, <1>4, Zenon
  DEF Decides, OpenStates, Lifecycle!LifecycleNext, Lifecycle!Complete, Lifecycle!Fail,
      Lifecycle!RequestCancellation, Lifecycle!ConfirmCancellation, Lifecycle!GiveUp
<1>5. CASE Accepts(op, op')
  BY <1>1, <1>5, Zenon DEF Accepts, Lifecycle!LifecycleNext, Lifecycle!AcceptResult
<1>6. CASE Stops(op, op')
  BY <1>1, <1>6, Zenon
  DEF Stops, OpenStates, Lifecycle!LifecycleNext, Lifecycle!ConfirmStop
<1> QED
  BY <1>3, <1>4, <1>5, <1>6 DEF LifeStep

\* Whatever functions of a Runtime, its store and its successors do at once, an
\* Operation keeps what OperationLifecycle promises to callers: all that they
\* record is a step of it or invisible in it.
THEOREM RuntimeImplements == Spec => RuntimeImplementsLifecycle
<1>1. Init => Lifecycle!LifecycleInit
  BY DEF Init, Lifecycle!LifecycleInit
<1>2. RuntimeIInv /\ [Next]_vars =>
        [Lifecycle!LifecycleNext]_(Lifecycle!lifecycleVars)
  <2> SUFFICES ASSUME RuntimeIInv, [Next]_vars
               PROVE  [Lifecycle!LifecycleNext]_(Lifecycle!lifecycleVars)
    OBVIOUS
  <2>1. RecordStep
    BY RecordStepTaken DEF vars, RecordStep
  <2>2. CASE op' = op
    BY <2>2 DEF Lifecycle!lifecycleVars
  <2>3. CASE op = None /\ op' = Requested
    <3>1. op' # None /\ op'.state \in OpenStates /\ op'.result = None
          /\ ~op'.workerStopConfirmed
      BY <2>3, RequestedTyped, NoneIsNoOperation DEF Requested, OpenStates
    <3> QED
      BY <2>3, <3>1, Zenon DEF Lifecycle!lifecycleVars
  <2>4. CASE op \in Operation /\ LifeStep(op, op')
    <3>1. op' \in Operation
      BY <2>4, RuntimeNext DEF Keeps, Recording
    <3> QED
      BY <2>4, <3>1, LifeStepsAreLifecycle
  <2> QED
    BY <2>1, <2>2, <2>3, <2>4 DEF RecordStep
<1> QED
  BY <1>1, <1>2, RuntimeInvariant, PTL
  DEF Spec, RuntimeImplementsLifecycle, Lifecycle!LifecycleSpec
=============================================================================
