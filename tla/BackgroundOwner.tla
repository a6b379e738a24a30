-------------------------- MODULE BackgroundOwner --------------------------
(***************************************************************************)
(* One background Operation: the calls of Pi sessions that start, recover  *)
(* or cancel it, and the processes they start to own it.                   *)
(*                                                                         *)
(* A call may start one process, so calls name both: <<"caller", c>> is    *)
(* the call in its session, <<"owner", c>> the process it has started.  An *)
(* owner reserves the Operation by listening on an address derived from a  *)
(* key file, lets a Runtime recover or create the Operation, tells its     *)
(* caller over IPC, and waits for the result; cancellations reach it over  *)
(* the same address.                                                       *)
(*                                                                         *)
(* The Runtime in an owner is what module Runtime promises of it: drive    *)
(* says whether it works on the Operation; a failure ends that with the    *)
(* record left open, and so does what another Runtime has recorded.        *)
(* Addresses are keys, since there is one Operation.                       *)
(* Files are read and written in one step; each file operation may fail.   *)
(***************************************************************************)
EXTENDS Naturals, FiniteSets

CONSTANTS
  None,       \* no key, no owner, no answer
  Call,       \* calls of sessions
  Kinds,      \* [Call -> what it may be made for]
  MaxFaults,  \* bound: failures and timeouts
  MaxDeaths,  \* bound: sessions and owners that die
  MaxTroubles \* bound: failures, timeouts and deaths together

ASSUME KindsAreModelled == Kinds \in [Call -> SUBSET {"background", "recover", "cancel"}]
ASSUME BoundsAreNatural == {MaxFaults, MaxDeaths, MaxTroubles} \subseteq Nat
ASSUME NoneIsNoCall == None \notin Call
ASSUME NoneIsNoAnswer ==
  None \notin {"started", "already_owned", "skipped", "completed", "cancelled", "unknown"}

VARIABLES
  kind,          \* [Call -> what it was made for]
  pc,            \* [Process -> where it is]
  key,           \* [Process -> the key it has read]
  reply,         \* [Call -> what its caller was told]
  retrying,      \* the cancellations that ask for the second time
  conn,          \* [Call -> its connection with an owner]
  ipc,           \* [Call -> the message on its way to the caller]
  drive,         \* [Call -> what the Runtime of its owner does]
  handle,        \* [Call -> handleReady of its owner]
  cancellation,  \* [Call -> the promise of handle.cancel]
  retried,       \* owners whose Runtime has tried to recover while closing
  troubled,      \* owners that leave by an exception
  keyFile,       \* background-owner.v1.key
  requestFile,   \* whether <id>.background.json is there
  record,        \* the Operation on record
  began,         \* history: [Call -> deaths when it was made]
  faults, deaths

calls  == <<kind, reply, retrying, began>>
owners == <<drive, handle, cancellation, retried, troubled>>
links  == <<conn, ipc>>
files  == <<keyFile, requestFile, record>>
counts == <<faults, deaths>>
vars   == <<pc, key, calls, owners, links, files, counts>>

Caller(c) == <<"caller", c>>
Owner(c)  == <<"owner", c>>
Process   == {"caller", "owner"} \X Call

Final == {"completed", "cancelled", "unknown"}
NoOperation == [state |-> "none", cleanup |-> FALSE]

IsFinal   == record.state \in Final
\* readPersistedOperationRecovery: nothing is left to do for an owner.
IsSettled == IsFinal /\ ~record.cleanup

-----------------------------------------------------------------------------
(* Helpers.                                                                *)

Goto(p, place) == pc' = [pc EXCEPT ![p] = place]

Tell(c, answer) ==
  /\ Goto(Caller(c), "done")
  /\ reply' = [reply EXCEPT ![c] = answer]

Fault ==
  /\ faults < MaxFaults /\ faults + deaths < MaxTroubles
  /\ faults' = faults + 1

Death ==
  /\ deaths < MaxDeaths /\ faults + deaths < MaxTroubles
  /\ deaths' = deaths + 1

NoConn == [owner |-> None, answer |-> None]

Waiting(o) == {c \in Call : conn[c] = [owner |-> o, answer |-> None]}

Alive(o) == pc[Owner(o)] \in {"recovering", "spawning", "owning", "closing"}

\* The owners that listen on the address of a key.
Listening(k) == {o \in Call : Alive(o) /\ key[Owner(o)] = k}

\* The caller's end of the IPC channel is open until it has finished.
Connected(c) == pc[Caller(c)] \in {"confirming", "checking"}

-----------------------------------------------------------------------------
(* ownerKey, by an owner or by a caller that cancels.                      *)

\* Mutant: the key is renamed into its place.
RenameKey(p) ==
  /\ pc[p] = "linking"
  /\ keyFile' = p[2]
  /\ Goto(p, "rereading")
  /\ UNCHANGED <<key, calls, owners, links, requestFile, record, counts>>

\* A key of one's own is linked to its name, unless there is one already.
LinkKey(p) ==
  /\ pc[p] = "linking"
  /\ keyFile' = IF keyFile = None THEN p[2] ELSE keyFile
  /\ Goto(p, "rereading")
  /\ UNCHANGED <<key, calls, owners, links, requestFile, record, counts>>

RereadKey(p) ==
  /\ pc[p] = "rereading"
  /\ key' = [key EXCEPT ![p] = keyFile]
  /\ Goto(p, IF p[1] = "owner" THEN "binding" ELSE "connecting")
  /\ UNCHANGED <<calls, owners, links, files, counts>>

-----------------------------------------------------------------------------
(* The calls of a session.                                                 *)

Begin(c, k) ==
  /\ pc[Caller(c)] = "idle"
  /\ k \in Kinds[c]
  /\ kind' = [kind EXCEPT ![c] = k]
  /\ began' = [began EXCEPT ![c] = deaths]

\* The process is spawned when the request is in its file.
StartProcess(c) ==
  pc' = [pc EXCEPT ![Caller(c)] = "confirming", ![Owner(c)] = "linking"]

BeginBackground(c) ==
  /\ Begin(c, "background")
  /\ CASE requestFile = "none"  -> Goto(Caller(c), "creating") /\ UNCHANGED reply
       [] requestFile = "torn"  -> Tell(c, "error")
       [] requestFile = "whole" -> Goto(Caller(c), "starting") /\ UNCHANGED reply
  /\ UNCHANGED <<key, retrying, owners, links, files, counts>>

\* writePrivatePrompt creates the file, or compares what is there.
CreateRequest(c) ==
  /\ pc[Caller(c)] = "creating"
  /\ CASE requestFile = "none"  -> requestFile' = "torn" /\ Goto(Caller(c), "writing") /\ UNCHANGED reply
       [] requestFile = "torn"  -> Tell(c, "error") /\ UNCHANGED requestFile
       [] requestFile = "whole" -> StartProcess(c) /\ UNCHANGED <<reply, requestFile>>
  /\ UNCHANGED <<key, kind, retrying, began, owners, links, keyFile, record, counts>>

WriteRequest(c) ==
  /\ pc[Caller(c)] = "writing"
  /\ requestFile' = "whole"
  /\ StartProcess(c)
  /\ UNCHANGED <<key, calls, owners, links, keyFile, record, counts>>

\* recoverBackgroundProcesses, which looks at every request of the repository.
BeginRecover(c) ==
  /\ Begin(c, "recover")
  /\ CASE requestFile = "none"  -> Tell(c, "nothing")
       [] requestFile = "torn"  -> Tell(c, "error")
       [] requestFile = "whole" -> IF IsSettled THEN Tell(c, "skipped")
                                   ELSE Goto(Caller(c), "starting") /\ UNCHANGED reply
  /\ UNCHANGED <<key, retrying, owners, links, files, counts>>

Start(c) ==
  /\ pc[Caller(c)] = "starting"
  /\ StartProcess(c)
  /\ UNCHANGED <<key, calls, owners, links, files, counts>>

\* The start is confirmed: a cancellation goes on to ask its owner again.
Confirmed(c) ==
  IF kind[c] = "cancel"
    THEN retrying' = retrying \cup {c} /\ Goto(Caller(c), "linking") /\ UNCHANGED reply
    ELSE Tell(c, "started") /\ UNCHANGED retrying

ReceiveStarted(c) ==
  /\ pc[Caller(c)] = "confirming" /\ ipc[c] = "started"
  /\ ipc' = [ipc EXCEPT ![c] = None]
  /\ Confirmed(c)
  /\ UNCHANGED <<key, kind, began, owners, conn, files, counts>>

ReceiveAlreadyOwned(c) ==
  /\ pc[Caller(c)] = "confirming" /\ ipc[c] = "already_owned"
  /\ ipc' = [ipc EXCEPT ![c] = None]
  /\ Goto(Caller(c), "checking")
  /\ UNCHANGED <<key, calls, owners, conn, files, counts>>

\* Mutant: trusts the other owner to have recorded the Operation.
CheckNothing(c) ==
  /\ pc[Caller(c)] = "checking"
  /\ Confirmed(c)
  /\ UNCHANGED <<key, kind, began, owners, links, files, counts>>

CheckOwned(c) ==
  /\ pc[Caller(c)] = "checking"
  /\ IF record # NoOperation THEN Confirmed(c)
     ELSE Tell(c, "error") /\ UNCHANGED retrying
  /\ UNCHANGED <<key, kind, began, owners, links, files, counts>>

\* The owner said so, or is gone without a word.
StartFailed(c) ==
  /\ pc[Caller(c)] = "confirming"
  /\ ipc[c] = "failed" \/ (ipc[c] = None /\ pc[Owner(c)] = "gone")
  /\ Tell(c, "error")
  /\ UNCHANGED <<key, kind, retrying, began, owners, links, files, counts>>

BeginCancel(c) ==
  /\ Begin(c, "cancel")
  /\ CASE requestFile # "whole" \/ record = NoOperation -> Tell(c, "error")
       [] requestFile = "whole" /\ IsFinal              -> Tell(c, record.state)
       [] OTHER -> Goto(Caller(c), "linking") /\ UNCHANGED reply
  /\ UNCHANGED <<key, retrying, owners, links, files, counts>>

\* Nobody listens: the first time, another owner may be needed.
Connect(c) ==
  /\ pc[Caller(c)] = "connecting"
  /\ \/ \E o \in Listening(key[Caller(c)]) :
          /\ conn' = [conn EXCEPT ![c] = [owner |-> o, answer |-> None]]
          /\ Goto(Caller(c), "asking")
     \/ /\ Listening(key[Caller(c)]) = {}
        /\ Goto(Caller(c), IF c \in retrying THEN "lastcheck" ELSE "rechecking")
        /\ UNCHANGED conn
  /\ UNCHANGED <<key, calls, owners, ipc, files, counts>>

Recheck(c) ==
  /\ pc[Caller(c)] = "rechecking"
  /\ IF IsFinal THEN Tell(c, record.state)
     ELSE Goto(Caller(c), "starting") /\ UNCHANGED reply
  /\ UNCHANGED <<key, kind, retrying, began, owners, links, files, counts>>

\* No answer is an error, the second time after a last look at the record.
AskedInVain(c) ==
  /\ conn' = [conn EXCEPT ![c] = NoConn]
  /\ IF c \in retrying THEN Goto(Caller(c), "lastcheck") /\ UNCHANGED reply
     ELSE Tell(c, "error")

ReceiveAnswer(c) ==
  /\ pc[Caller(c)] = "asking" /\ conn[c].answer # None
  /\ IF conn[c].answer \in {"cancelled", "unknown"}
       THEN Tell(c, conn[c].answer) /\ conn' = [conn EXCEPT ![c] = NoConn]
       ELSE AskedInVain(c)
  /\ UNCHANGED <<key, kind, retrying, began, owners, ipc, files, counts>>

ConnectionLost(c) ==
  /\ pc[Caller(c)] = "asking" /\ conn[c].owner = None
  /\ AskedInVain(c)
  /\ UNCHANGED <<key, kind, retrying, began, owners, ipc, files, counts>>

LastCheck(c) ==
  /\ pc[Caller(c)] = "lastcheck"
  /\ Tell(c, IF IsFinal THEN record.state ELSE "error")
  /\ UNCHANGED <<key, kind, retrying, began, owners, links, files, counts>>

\* The 30 seconds of a request pass.
RequestTimesOut(c) ==
  /\ pc[Caller(c)] = "asking"
  /\ Fault
  /\ AskedInVain(c)
  /\ UNCHANGED <<key, kind, retrying, began, owners, ipc, files, deaths>>

\* A file operation fails, or the 60 seconds of a start pass.
CallFails(c) ==
  /\ pc[Caller(c)] \in {"creating", "writing", "starting", "confirming", "checking",
                        "linking", "rereading", "rechecking", "lastcheck"}
  /\ Fault
  /\ IF c \in retrying /\ pc[Caller(c)] \in {"linking", "rereading"}
       THEN Goto(Caller(c), "lastcheck") /\ UNCHANGED reply
       ELSE Tell(c, "error")
  /\ UNCHANGED <<key, kind, retrying, began, owners, links, files, deaths>>

-----------------------------------------------------------------------------
(* runBackgroundOwner and its entry.                                       *)

Working(o) ==
  drive[o] \in {"executing", "cancelling", "cleaning"} \/ cancellation[o] = "running"

\* What the Runtime of an owner finds to do in the record.
Drive == IF record = NoOperation THEN "none" ELSE
         CASE record.state = "open"       -> "executing"
           [] record.state = "cancelling" -> "cancelling"
           [] IsFinal /\ record.cleanup -> "cleaning"
           [] OTHER -> "settled"

Fails(o) == troubled' = troubled \cup {o}

Bind(o) ==
  /\ pc[Owner(o)] = "binding"
  /\ Goto(Owner(o), IF Listening(key[Owner(o)]) = {} THEN "recovering" ELSE "refused")
  /\ UNCHANGED <<key, calls, owners, links, files, counts>>

\* The memory of a process is gone with it.
Gone(o) ==
  /\ Goto(Owner(o), "gone")
  /\ key' = [key EXCEPT ![Owner(o)] = None]
  /\ drive' = [drive EXCEPT ![o] = "none"]
  /\ handle' = [handle EXCEPT ![o] = "pending"]
  /\ cancellation' = [cancellation EXCEPT ![o] = "none"]
  /\ retried' = retried \ {o}
  /\ troubled' = troubled \ {o}

\* EADDRINUSE, told to the caller if it still listens.
ReportOwned(o) ==
  /\ pc[Owner(o)] = "refused"
  /\ ipc' = [ipc EXCEPT ![o] = IF Connected(o) THEN "already_owned" ELSE @]
  /\ Gone(o)
  /\ UNCHANGED <<calls, conn, files, counts>>

AcquireFails(o) ==
  /\ pc[Owner(o)] \in {"linking", "rereading", "binding"}
  /\ Fault
  /\ ipc' = [ipc EXCEPT ![o] = IF Connected(o) THEN "failed" ELSE @]
  /\ Gone(o)
  /\ UNCHANGED <<calls, conn, files, deaths>>

\* runtime.ready() waits for a cleanup that is due, not for an execution.
Recover(o) ==
  /\ pc[Owner(o)] = "recovering" /\ drive[o] = "none"
  /\ drive' = [drive EXCEPT ![o] = Drive]
  /\ Goto(Owner(o), IF Drive = "cleaning" THEN "recovering" ELSE "spawning")
  /\ UNCHANGED <<key, calls, handle, cancellation, retried, troubled, links, files, counts>>

CleanupRecovered(o) ==
  /\ pc[Owner(o)] = "recovering" /\ drive[o] = "settled"
  /\ Goto(Owner(o), "spawning")
  /\ UNCHANGED <<key, calls, owners, links, files, counts>>

RecoverFails(o) ==
  /\ pc[Owner(o)] = "recovering"
  /\ Fault /\ Fails(o)
  /\ drive' = [drive EXCEPT ![o] = "failed"]
  /\ Goto(Owner(o), "closing")
  /\ UNCHANGED <<key, calls, handle, cancellation, retried, links, files, deaths>>

\* The handle is there: cancellations may use it, and the caller is told.
Activate(o) ==
  /\ handle' = [handle EXCEPT ![o] = "active"]
  /\ IF Connected(o)
       THEN ipc' = [ipc EXCEPT ![o] = "started"] /\ Goto(Owner(o), "owning") /\ UNCHANGED troubled
       ELSE Goto(Owner(o), "closing") /\ Fails(o) /\ UNCHANGED ipc

SpawnTask(o) ==
  /\ pc[Owner(o)] = "spawning"
  /\ record = NoOperation \/ IsFinal \/ drive[o] # "none"
  /\ record' = IF record = NoOperation THEN [state |-> "open", cleanup |-> FALSE] ELSE record
  /\ drive' = [drive EXCEPT ![o] = IF record = NoOperation THEN "executing" ELSE @]
  /\ Activate(o)
  /\ UNCHANGED <<key, calls, cancellation, retried, conn, keyFile, requestFile, counts>>

\* The preflight or the creation fails, the latter maybe with a record.
SpawnFails(o) ==
  /\ pc[Owner(o)] = "spawning"
  /\ Fault /\ Fails(o)
  /\ record' \in {record} \cup
       (IF record = NoOperation THEN {[state |-> "open", cleanup |-> FALSE]} ELSE {})
  /\ Goto(Owner(o), "closing")
  /\ UNCHANGED <<key, calls, drive, handle, cancellation, retried, links, keyFile, requestFile, deaths>>

\* The Runtime settles the Operation, with a workspace to clean up after a stop.
\* If another Runtime has gone on with the record, the observation returns and the
\* result is never told, or what it would have recorded is refused.
Settle(o) ==
  /\ drive[o] \in {"executing", "cancelling"} /\ cancellation[o] # "running"
  /\ IF record.state = (IF drive[o] = "executing" THEN "open" ELSE "cancelling")
       THEN \E s \in {"unknown", IF drive[o] = "executing" THEN "completed" ELSE "cancelled"} :
              /\ record' = [state |-> s, cleanup |-> s # "unknown"]
              /\ drive' = [drive EXCEPT ![o] = IF s = "unknown" THEN "settled" ELSE "cleaning"]
       ELSE /\ \E d \in (IF drive[o] = "executing" THEN {"returned"} ELSE {}) \cup
                        {"failed"} \cup (IF IsFinal THEN {Drive} ELSE {}) :
                 drive' = [drive EXCEPT ![o] = d]
            /\ UNCHANGED record
  /\ UNCHANGED <<pc, key, calls, handle, cancellation, retried, troubled, links, keyFile, requestFile, counts>>

\* The answer of cancel() follows the cleanup.
Answered(o) ==
  cancellation' = [cancellation EXCEPT ![o] = IF @ = "running" THEN record.state ELSE @]

CleanUp(o) ==
  /\ drive[o] = "cleaning"
  /\ record' = [record EXCEPT !.cleanup = FALSE]
  /\ drive' = [drive EXCEPT ![o] = "settled"]
  /\ Answered(o)
  /\ UNCHANGED <<pc, key, calls, handle, retried, troubled, links, keyFile, requestFile, counts>>

\* The result is rejected and the record stays, or the workspace does.
DriveFails(o) ==
  /\ drive[o] \in {"executing", "cancelling", "cleaning"}
  /\ Fault
  /\ drive' = [drive EXCEPT ![o] = IF @ = "cleaning" THEN "settled" ELSE "failed"]
  /\ IF drive[o] = "cleaning" THEN Answered(o) ELSE UNCHANGED cancellation
  /\ UNCHANGED <<pc, key, calls, handle, retried, troubled, links, files, deaths>>

AwaitResult(o) ==
  /\ pc[Owner(o)] = "owning" /\ drive[o] \in {"settled", "failed"}
  /\ Goto(Owner(o), "closing")
  /\ UNCHANGED <<key, calls, owners, links, files, counts>>

\* What close() finds undone: it tries to recover once.
Undone(o) == drive[o] = "failed" \/ (drive[o] = "settled" /\ record.cleanup)

RecoverWhileClosing(o) ==
  /\ pc[Owner(o)] = "closing" /\ ~Working(o)
  /\ Undone(o) /\ o \notin retried
  /\ retried' = retried \cup {o}
  /\ drive' = [drive EXCEPT ![o] = Drive]
  /\ UNCHANGED <<pc, key, calls, handle, cancellation, troubled, links, files, counts>>

\* Mutant: the address is given up before the Runtime is closed.
ReleaseEarly(o) ==
  /\ pc[Owner(o)] = "closing"
  /\ handle' = [handle EXCEPT ![o] = IF @ = "pending" THEN "failed" ELSE @]
  /\ Goto(Owner(o), "released")
  /\ UNCHANGED <<key, calls, drive, cancellation, retried, troubled, links, files, counts>>

\* Mutant: requests that wait for the handle are forgotten.
ReleaseSilently(o) ==
  /\ pc[Owner(o)] = "closing" /\ ~Working(o)
  /\ Undone(o) => o \in retried
  /\ troubled' = IF Undone(o) THEN troubled \cup {o} ELSE troubled
  /\ \E lost \in SUBSET Waiting(o) : conn' = [c \in Call |-> IF c \in lost THEN NoConn ELSE conn[c]]
  /\ Goto(Owner(o), "released")
  /\ UNCHANGED <<key, calls, drive, handle, cancellation, retried, ipc, files, counts>>

\* control.close(): the address is free, requests that were not accepted are
\* reset, and those without a handle are refused.
Release(o) ==
  /\ pc[Owner(o)] = "closing" /\ ~Working(o)
  /\ Undone(o) => o \in retried
  /\ troubled' = IF Undone(o) THEN troubled \cup {o} ELSE troubled
  /\ handle' = [handle EXCEPT ![o] = IF @ = "pending" THEN "failed" ELSE @]
  /\ \E lost \in SUBSET Waiting(o) : conn' = [c \in Call |-> IF c \in lost THEN NoConn ELSE conn[c]]
  /\ Goto(Owner(o), "released")
  /\ UNCHANGED <<key, calls, drive, cancellation, retried, ipc, files, counts>>

\* The server is closed when its last connection has ended.
Exit(o) ==
  /\ pc[Owner(o)] = "released" /\ Waiting(o) = {} /\ ~Working(o)
  /\ ipc' = [ipc EXCEPT ![o] = IF o \in troubled /\ @ = None /\ Connected(o) THEN "failed" ELSE @]
  /\ Gone(o)
  /\ UNCHANGED <<calls, conn, files, counts>>

-----------------------------------------------------------------------------
(* A cancellation at the owner: one promise serves all requests.           *)

Asked(o) ==
  /\ pc[Owner(o)] \in {"owning", "closing", "released"}
  /\ Waiting(o) # {} /\ handle[o] = "active" /\ cancellation[o] = "none"

\* The record does not allow the cancellation any more: a recovery is due, which
\* runs at once or is left to close().
CancelRefused(o) ==
  /\ cancellation' = [cancellation EXCEPT ![o] = "error"]
  /\ drive' = [drive EXCEPT ![o] = IF drive[o] \in {"executing", "cancelling", "cleaning"} THEN @
                                  ELSE IF pc[Owner(o)] = "owning" THEN Drive ELSE "failed"]

\* cancel() does not ask whether the Runtime is closed.
StartCancel(o) ==
  /\ Asked(o)
  /\ IF record.state = "open"
       THEN /\ record' = [record EXCEPT !.state = "cancelling"]
            /\ cancellation' = [cancellation EXCEPT ![o] = "running"]
            /\ UNCHANGED drive
       ELSE CancelRefused(o) /\ UNCHANGED record
  /\ UNCHANGED <<pc, key, calls, handle, retried, troubled, links, keyFile, requestFile, counts>>

\* The request is not recorded.
StartCancelFails(o) ==
  /\ Asked(o)
  /\ Fault
  /\ cancellation' = [cancellation EXCEPT ![o] = "error"]
  /\ UNCHANGED <<pc, key, calls, drive, handle, retried, troubled, links, files, deaths>>

\* The worker's stop is proved in time, or not.
SettleCancel(o) ==
  /\ cancellation[o] = "running" /\ drive[o] # "cleaning"
  /\ IF record.state = "cancelling"
       THEN \/ /\ record' = [state |-> "cancelled", cleanup |-> TRUE]
               /\ drive' = [drive EXCEPT ![o] = "cleaning"]
               /\ UNCHANGED cancellation
            \/ /\ record' = [state |-> "unknown", cleanup |-> FALSE]
               /\ drive' = [drive EXCEPT ![o] = "settled"]
               /\ cancellation' = [cancellation EXCEPT ![o] = "unknown"]
       ELSE CancelRefused(o) /\ UNCHANGED record
  /\ UNCHANGED <<pc, key, calls, handle, retried, troubled, links, keyFile, requestFile, counts>>

\* A cancellation that fails is left to recovery, at once or by close().
CancelFails(o) ==
  /\ cancellation[o] = "running" /\ record.state = "cancelling"
  /\ Fault
  /\ cancellation' = [cancellation EXCEPT ![o] = "error"]
  /\ drive' = [drive EXCEPT ![o] = IF pc[Owner(o)] = "owning" THEN "cancelling" ELSE "failed"]
  /\ UNCHANGED <<pc, key, calls, handle, retried, troubled, links, files, deaths>>

AnswerRequest(o, c) ==
  /\ c \in Waiting(o)
  /\ \/ /\ cancellation[o] \notin {"none", "running"}
        /\ conn' = [conn EXCEPT ![c].answer = cancellation[o]]
     \/ /\ handle[o] = "failed"
        /\ conn' = [conn EXCEPT ![c].answer = "error"]
  /\ UNCHANGED <<pc, key, calls, owners, ipc, files, counts>>

-----------------------------------------------------------------------------
(* Sessions and owners die; the worker and the record stay.                *)

OwnerDies(o) ==
  /\ pc[Owner(o)] \notin {"none", "gone"}
  /\ Death
  /\ Gone(o)
  /\ conn' = [c \in Call |-> IF conn[c].owner = o THEN NoConn ELSE conn[c]]
  /\ UNCHANGED <<calls, ipc, files, faults>>

CallerDies(c) ==
  /\ pc[Caller(c)] \notin {"idle", "done", "dead"}
  /\ Death
  /\ Goto(Caller(c), "dead")
  /\ conn' = [conn EXCEPT ![c] = NoConn]
  /\ UNCHANGED <<key, calls, owners, ipc, files, faults>>

Init ==
  /\ kind = [c \in Call |-> "none"]
  /\ pc = [p \in Process |-> IF p[1] = "caller" THEN "idle" ELSE "none"]
  /\ key = [p \in Process |-> None]
  /\ reply = [c \in Call |-> None]
  /\ retrying = {}
  /\ conn = [c \in Call |-> NoConn]
  /\ ipc = [c \in Call |-> None]
  /\ drive = [c \in Call |-> "none"]
  /\ handle = [c \in Call |-> "pending"]
  /\ cancellation = [c \in Call |-> "none"]
  /\ retried = {} /\ troubled = {}
  /\ keyFile = None /\ requestFile = "none" /\ record = NoOperation
  /\ began = [c \in Call |-> 0]
  /\ faults = 0 /\ deaths = 0

Arrive(c) ==
  \/ BeginBackground(c)
  \/ BeginRecover(c)
  \/ BeginCancel(c)

CallStep(c) ==
  \/ CreateRequest(c)
  \/ WriteRequest(c)
  \/ Start(c)
  \/ ReceiveStarted(c)
  \/ ReceiveAlreadyOwned(c)
  \/ CheckOwned(c)
  \/ StartFailed(c)
  \/ LinkKey(Caller(c))
  \/ RereadKey(Caller(c))
  \/ Connect(c)
  \/ Recheck(c)
  \/ ReceiveAnswer(c)
  \/ ConnectionLost(c)
  \/ LastCheck(c)

OwnerStep(o) ==
  \/ LinkKey(Owner(o))
  \/ RereadKey(Owner(o))
  \/ Bind(o)
  \/ ReportOwned(o)
  \/ Recover(o)
  \/ CleanupRecovered(o)
  \/ SpawnTask(o)
  \/ Settle(o)
  \/ CleanUp(o)
  \/ AwaitResult(o)
  \/ RecoverWhileClosing(o)
  \/ Release(o)
  \/ Exit(o)
  \/ StartCancel(o)
  \/ SettleCancel(o)
  \/ \E c \in Call : AnswerRequest(o, c)

Trouble(c) ==
  \/ RequestTimesOut(c)
  \/ CallFails(c)
  \/ AcquireFails(c)
  \/ RecoverFails(c)
  \/ SpawnFails(c)
  \/ DriveFails(c)
  \/ StartCancelFails(c)
  \/ CancelFails(c)
  \/ OwnerDies(c)
  \/ CallerDies(c)

Next == \E c \in Call : Arrive(c) \/ CallStep(c) \/ OwnerStep(c) \/ Trouble(c)

\* Sessions and owners go on while they live, and workers end; nobody has to call.
Fairness == \A c \in Call : WF_vars(CallStep(c)) /\ WF_vars(OwnerStep(c))

Spec == Init /\ [][Next]_vars /\ Fairness

-----------------------------------------------------------------------------
(* Properties.                                                             *)

Places ==
  {"idle", "creating", "writing", "starting", "confirming", "checking", "linking", "rereading",
   "connecting", "asking", "rechecking", "lastcheck", "done", "dead",
   "none", "binding", "refused", "recovering", "spawning", "owning", "closing", "released", "gone"}

Replies == {None, "started", "skipped", "nothing", "error"} \cup Final
Links   == [owner : Call \cup {None}, answer : {None, "error"} \cup Final]
Doings  == {"none", "executing", "cancelling", "cleaning", "settled", "failed", "returned"}
Records == {NoOperation} \cup [state : {"open", "cancelling"} \cup Final, cleanup : BOOLEAN]

OwnerTypeOK ==
  /\ kind \in [Call -> {"none", "background", "recover", "cancel"}]
  /\ pc \in [Process -> Places] /\ key \in [Process -> Call \cup {None}]
  /\ reply \in [Call -> Replies]
  /\ conn \in [Call -> Links] /\ ipc \in [Call -> {None, "started", "already_owned", "failed"}]
  /\ drive \in [Call -> Doings] /\ handle \in [Call -> {"pending", "active", "failed"}]
  /\ cancellation \in [Call -> {"none", "running", "error"} \cup Final]
  /\ {retrying, retried, troubled} \subseteq SUBSET Call
  /\ keyFile \in Call \cup {None} /\ requestFile \in {"none", "torn", "whole"}
  /\ record \in Records
  /\ began \in [Call -> Nat] /\ faults \in Nat /\ deaths \in Nat

\* An Operation has one owner at a time, also while one of them closes its
\* Runtime, and although every owner and every request brings its own key.  Who
\* works on it without being its owner serves a cancellation that it was asked
\* for before, and has closed its Runtime in vain after two failures.
OneOwner ==
  /\ \A o, p \in Call : Alive(o) /\ Alive(p) => o = p
  /\ \A o \in Call : Working(o) /\ ~Alive(o) =>
       pc[Owner(o)] = "released" /\ cancellation[o] = "running" /\ faults >= 2

\* What ADR-0030 asks for: only one owner at a time may write the record of an
\* Operation.  After two failures it does not hold (README, section 6).
SoleWriter ==
  \A o, p \in Call : (Alive(o) \/ Working(o)) /\ (Alive(p) \/ Working(p)) => o = p

\* A confirmed start is on record, and a state that a cancellation returned is
\* the final state of the Operation.
AnswersMatchRecord ==
  \A c \in Call :
    /\ reply[c] = "started" => record # NoOperation
    /\ reply[c] \in Final => record.state = reply[c]

\* Who is told that an Operation is owned or needs no owner is told the truth:
\* it is settled or in the hands of an owner, as long as nothing fails and
\* nobody has died since the call was made, although somebody may have before.
ConfirmedIsDriven ==
  \A c \in Call :
    reply[c] \in {"started", "skipped"} /\ faults = 0 /\ deaths = began[c] =>
      IsSettled \/ \E o \in Call : Alive(o)

Ended ==
  \A c \in Call :
    /\ pc[Caller(c)] \in {"idle", "done", "dead"}
    /\ pc[Owner(c)] \in {"none", "gone"}

\* Every call returns and every owner exits, without the timers of their
\* requests, although callers wait for owners and owners for their callers:
\* again and again all of them have ended.
CallsAndOwnersEnd == []<>Ended

=============================================================================
