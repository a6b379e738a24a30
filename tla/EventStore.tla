---------------------------- MODULE EventStore ----------------------------
(***************************************************************************)
(* The record of one Operation on disk, and the processes that read and    *)
(* write it: ValidatedEventStore over the private file storage.            *)
(*                                                                         *)
(* An Operation has a record file, whose events replay to the pair of an   *)
(* Operation and its sequence number, and one file for the body of its     *)
(* result.  A call waits for the calls of its own process (serialize) and  *)
(* for the other processes (withOperationLock, here a mutex; WriterLock    *)
(* shows that the code implements one), loads the record, lets the reducer *)
(* decide, and replaces a file by a rename that is visible to everybody at *)
(* once but survives a power loss only after the directory is synced.      *)
(* A step may fail, which the caller sees, after its effect is visible.    *)
(* A process may die between any two steps.                                *)
(*                                                                         *)
(* A result body is a Result, which is also what an acceptance records of  *)
(* it (digest and byte count).  Malformed bodies exceed the limit or are   *)
(* not UTF-8.  Which code a refusal carries is left out.                   *)
(***************************************************************************)
EXTENDS StorageHost, OperationReducer, FiniteSets

CONSTANTS
  Slot,           \* calls a process may have under way
  Malformed,      \* bodies the store refuses
  Intents,        \* intents that callers append
  MaxCalls        \* bound: calls made

ASSUME CallsAreBounded == MaxCalls \in Nat

ASSUME MalformedIsNoResult == Malformed \cap (Result \cup {None}) = {}

ASSUME NoneIsNoCaller == None \notin Process \X Slot

ASSUME IntentsAreModelled ==
  Intents \subseteq {"operation_requested", "agent_settled", "worker_stop_confirmed",
                     "operation_completed", "operation_failed", "cancellation_requested"}

VARIABLES
  pc,             \* [Caller -> where its call is]
  call,           \* [Caller -> the call]
  view,           \* [Caller -> the record it loaded or the record it writes]
  reply,          \* [Caller -> what its last call returned]
  tail,           \* [Process -> slots of the calls queued in mutationTails]
  holder,         \* the caller inside withOperationLock
  record, syncedRecord,    \* events.v29.json: visible, and safe from power loss
  body, syncedBody,        \* result.v1.utf8: visible, and safe from power loss
  acked,          \* history: what callers were told is written, and accepted by a join
  calls

files   == <<record, syncedRecord, body, syncedBody>>
control == <<tail, holder>>
mishaps == <<calls, faults, crashes, powerLosses>>
vars    == <<pc, call, view, reply, control, files, acked, mishaps>>

Caller == Process \X Slot

Calls ==
  [kind : {"append"}, intent : Intents]
  \cup [kind : {"accept"}, bytes : Result \cup Malformed]
  \cup [kind : {"fetch"}]

NoCall  == [kind |-> "none"]
NoReply == [kind |-> "none"]

-----------------------------------------------------------------------------
(* What the reducer makes of a record, NoRecord standing for no file.      *)

NoRecord == [op |-> None, seq |-> 0]

Exists(r) == r # NoRecord

Legal(r, intent) ==
  IF intent = "operation_requested"
    THEN ~Exists(r)
    ELSE /\ Exists(r)
         /\ ~Terminal(r.op)
         /\ CASE intent = "agent_settled"          -> CanSettleAgent(r.op)
              [] intent = "worker_stop_confirmed"  -> CanConfirmWorkerStop(r.op)
              [] intent = "operation_completed"    -> CanComplete(r.op)
              [] intent = "operation_failed"       -> CanFail(r.op)
              [] intent = "cancellation_requested" -> CanRequestCancellation(r.op, 1)

Reduced(o, intent) ==
  CASE intent = "operation_requested"    -> Requested
    [] intent = "agent_settled"          -> SettleAgent(o)
    [] intent = "worker_stop_confirmed"  -> ConfirmWorkerStop(o)
    [] intent = "operation_completed"    -> Complete(o)
    [] intent = "operation_failed"       -> Fail(o)
    [] intent = "cancellation_requested" -> RequestCancellation(o, 1)

Appended(r, intent) == [op |-> Reduced(r.op, intent), seq |-> r.seq + 1]

WithResult(r, bytes) == [op |-> AcceptResult(r.op, bytes), seq |-> r.seq + 1]

\* A record whose worker has acknowledged its start instruction.
Running(w, p, d) ==
  LET i == [dispatcherId |-> d, workerProcessInstanceId |-> p, deliveryGeneration |-> 1]
      identified == IdentifyWorker(LaunchWorker(Start(OwnPresentation(Requested, w))), p)
      delivered == DispatchStart(EnterDelivery(AcquireAuthority(identified, i), i), i)
  IN [op |-> AcknowledgeStart(AcceptStart(delivered, i), i), seq |-> 10]

-----------------------------------------------------------------------------
(* Steps shared by the calls.                                              *)

Goto(c, step) == pc' = [pc EXCEPT ![c] = step]

Answer(c, r) == reply' = [reply EXCEPT ![c] = r]

\* The call is decided: what is left is to release the lock.
Decided(c, r) == Goto(c, "unlocking") /\ Answer(c, r)

Fault == faults < MaxFaults /\ faults' = faults + 1

Snapshot(r) == [kind |-> "snapshot", seq |-> r.seq]
Accepted(r, join) == [kind |-> "accepted", bytes |-> r.op.result, joined |-> join]
Refused     == [kind |-> "refused"]
WriteFailed == [kind |-> "write_failed"]

-----------------------------------------------------------------------------
(* A call, from its arrival to its reply.                                  *)

Invoke(c) ==
  /\ pc[c] = "idle"
  /\ calls < MaxCalls
  /\ calls' = calls + 1
  /\ \E k \in Calls : call' = [call EXCEPT ![c] = k]
  /\ Answer(c, NoReply)
  /\ view' = [view EXCEPT ![c] = NoRecord]
  /\ tail' = [tail EXCEPT ![c[1]] = Append(@, c[2])]
  /\ Goto(c, "queued")
  /\ UNCHANGED <<holder, files, acked, faults, crashes, powerLosses>>

\* Mutant: writes beside the other processes.
LockWithoutWaiting(c) ==
  /\ pc[c] = "queued"
  /\ Head(tail[c[1]]) = c[2]
  /\ holder' = c
  /\ Goto(c, "loading")
  /\ UNCHANGED <<call, view, reply, tail, files, acked, mishaps>>

Lock(c) ==
  /\ pc[c] = "queued"
  /\ Head(tail[c[1]]) = c[2]
  /\ holder = None
  /\ holder' = c
  /\ Goto(c, "loading")
  /\ UNCHANGED <<call, view, reply, tail, files, acked, mishaps>>

\* withOperationLock throws before the action runs.
LockFails(c) ==
  /\ pc[c] = "queued"
  /\ Head(tail[c[1]]) = c[2]
  /\ Fault
  /\ Goto(c, "leaving")
  /\ Answer(c, Refused)
  /\ UNCHANGED <<call, view, control, files, acked, calls, crashes, powerLosses>>

LoadFails(c) ==
  /\ pc[c] = "loading"
  /\ Fault
  /\ Decided(c, Refused)
  /\ UNCHANGED <<call, view, control, files, acked, calls, crashes, powerLosses>>

LoadToAppend(c) ==
  /\ pc[c] = "loading" /\ call[c].kind = "append"
  /\ IF Legal(record, call[c].intent)
       THEN /\ view' = [view EXCEPT ![c] = Appended(record, call[c].intent)]
            /\ Goto(c, "writing")
            /\ UNCHANGED reply
       ELSE Decided(c, Refused) /\ UNCHANGED view
  /\ UNCHANGED <<call, control, files, acked, mishaps>>

\* Mutant: publishes the acceptance without its body.
LoadToPublish(c) ==
  /\ pc[c] = "loading" /\ call[c].kind = "accept"
  /\ ~(Exists(record) /\ record.op.result = call[c].bytes)
  /\ IF /\ Exists(record)
        /\ CanAcceptResult(record.op)
        /\ call[c].bytes \notin Malformed
       THEN /\ view' = [view EXCEPT ![c] = WithResult(record, call[c].bytes)]
            /\ Goto(c, "writing")
            /\ UNCHANGED reply
       ELSE Decided(c, Refused) /\ UNCHANGED view
  /\ UNCHANGED <<call, control, files, acked, mishaps>>

\* Mutant: replaces the body before it looks for an accepted result.
LoadToReplace(c) ==
  /\ pc[c] = "loading" /\ call[c].kind = "accept"
  /\ IF Exists(record) /\ call[c].bytes \notin Malformed
       THEN /\ view' = [view EXCEPT ![c] = WithResult(record, call[c].bytes)]
            /\ Goto(c, "writing_body")
            /\ UNCHANGED reply
       ELSE Decided(c, Refused) /\ UNCHANGED view
  /\ UNCHANGED <<call, control, files, acked, mishaps>>

\* The same bytes again join the acceptance on record, whatever the state.
JoinAcceptance(c) ==
  /\ pc[c] = "loading" /\ call[c].kind = "accept"
  /\ Exists(record) /\ record.op.result = call[c].bytes
  /\ Decided(c, Accepted(record, TRUE))
  /\ UNCHANGED <<call, view, control, files, acked, mishaps>>

LoadToAccept(c) ==
  /\ pc[c] = "loading" /\ call[c].kind = "accept"
  /\ ~(Exists(record) /\ record.op.result = call[c].bytes)
  /\ IF /\ Exists(record)
        /\ CanAcceptResult(record.op)
        /\ call[c].bytes \notin Malformed
       THEN /\ view' = [view EXCEPT ![c] = WithResult(record, call[c].bytes)]
            /\ Goto(c, "writing_body")
            /\ UNCHANGED reply
       ELSE Decided(c, Refused) /\ UNCHANGED view
  /\ UNCHANGED <<call, control, files, acked, mishaps>>

WriteBody(c) ==
  /\ pc[c] = "writing_body"
  /\ body' = call[c].bytes
  /\ Goto(c, "syncing_body")
  /\ UNCHANGED <<call, view, reply, control, record, syncedRecord, syncedBody, acked, mishaps>>

\* Syncing the directory makes every rename in it safe.
SyncBody(c) ==
  /\ pc[c] = "syncing_body"
  /\ syncedBody' = body /\ syncedRecord' = record
  /\ Goto(c, "writing")
  /\ UNCHANGED <<call, view, reply, control, record, body, acked, mishaps>>

\* Mutant: answers as soon as the new record is visible.
WriteRecordUnsynced(c) ==
  /\ pc[c] = "writing"
  /\ record' = view[c]
  /\ Decided(c, IF call[c].kind = "accept" THEN Accepted(view[c], FALSE) ELSE Snapshot(view[c]))
  /\ UNCHANGED <<call, view, control, syncedRecord, body, syncedBody, acked, mishaps>>

WriteRecord(c) ==
  /\ pc[c] = "writing"
  /\ record' = view[c]
  /\ Goto(c, "syncing")
  /\ UNCHANGED <<call, view, reply, control, syncedRecord, body, syncedBody, acked, mishaps>>

SyncRecord(c) ==
  /\ pc[c] = "syncing"
  /\ syncedBody' = body /\ syncedRecord' = record
  /\ Decided(c, IF call[c].kind = "accept" THEN Accepted(view[c], FALSE) ELSE Snapshot(view[c]))
  /\ UNCHANGED <<call, view, control, record, body, acked, mishaps>>

\* Before the rename nothing is written; after it the file stays replaced.
WriteFails(c) ==
  /\ pc[c] \in {"writing_body", "syncing_body", "writing", "syncing"}
  /\ Fault
  /\ Decided(c, WriteFailed)
  /\ UNCHANGED <<call, view, control, files, acked, calls, crashes, powerLosses>>

LoadToFetch(c) ==
  /\ pc[c] = "loading" /\ call[c].kind = "fetch"
  /\ IF Exists(record)
       THEN Decided(c, Snapshot(record)) /\ view' = [view EXCEPT ![c] = record]
       ELSE Decided(c, Refused) /\ UNCHANGED view
  /\ UNCHANGED <<call, control, files, acked, mishaps>>

\* The lock is released, then the next call of the process may run.
Unlock(c) ==
  /\ pc[c] = "unlocking"
  /\ holder' = None
  /\ Goto(c, "leaving")
  /\ UNCHANGED <<call, view, reply, tail, files, acked, mishaps>>

\* What the caller is acked, kept as history.
Tell(c) ==
  /\ acked' = CASE reply[c].kind = "snapshot" /\ call[c].kind = "append" ->
                     [acked EXCEPT !.seq = IF reply[c].seq > @ THEN reply[c].seq ELSE @]
                [] reply[c].kind = "accepted" /\ ~reply[c].joined ->
                     [acked EXCEPT !.result = reply[c].bytes]
                [] reply[c].kind = "accepted" /\ reply[c].joined ->
                     [acked EXCEPT !.joined = reply[c].bytes]
                [] OTHER -> acked

\* A fetched record that has a result is followed by its body.
BodyFollows(c) ==
  call[c].kind = "fetch" /\ reply[c].kind = "snapshot" /\ view[c].op.result # None

\* Mutant: a refused call never lets the next one of its process run.
LeaveQueued(c) ==
  /\ pc[c] = "leaving"
  /\ tail' = [tail EXCEPT ![c[1]] = IF reply[c] = Refused THEN @ ELSE Tail(@)]
  /\ Goto(c, IF BodyFollows(c) THEN "fetching" ELSE "idle")
  /\ Tell(c)
  /\ UNCHANGED <<call, view, reply, holder, files, mishaps>>

Leave(c) ==
  /\ pc[c] = "leaving"
  /\ tail' = [tail EXCEPT ![c[1]] = Tail(@)]
  /\ Goto(c, IF BodyFollows(c) THEN "fetching" ELSE "idle")
  /\ Tell(c)
  /\ UNCHANGED <<call, view, reply, holder, files, mishaps>>

\* The body of an accepted result is read beside the lock.
ReadResultBody(c) ==
  /\ pc[c] = "fetching"
  /\ Answer(c, [kind |-> "body", bytes |-> body, of |-> view[c].op.result])
  /\ Goto(c, "idle")
  /\ UNCHANGED <<call, view, control, files, acked, mishaps>>

ReadResultBodyFails(c) ==
  /\ pc[c] = "fetching"
  /\ Fault
  /\ Answer(c, Refused)
  /\ Goto(c, "idle")
  /\ UNCHANGED <<call, view, control, files, acked, calls, crashes, powerLosses>>

-----------------------------------------------------------------------------
(* What happens to processes and to the host.                              *)

\* The kernel closes the sockets of a dead process, and its calls are gone.
Stopped(dead) ==
  /\ pc' = [c \in Caller |-> IF c[1] \in dead THEN "idle" ELSE pc[c]]
  /\ call' = [c \in Caller |-> IF c[1] \in dead THEN NoCall ELSE call[c]]
  /\ reply' = [c \in Caller |-> IF c[1] \in dead THEN NoReply ELSE reply[c]]
  /\ view' = [c \in Caller |-> IF c[1] \in dead THEN NoRecord ELSE view[c]]
  /\ tail' = [p \in Process |-> IF p \in dead THEN <<>> ELSE tail[p]]
  /\ holder' = IF holder # None /\ holder[1] \in dead THEN None ELSE holder

Crash(p) ==
  /\ crashes < MaxCrashes
  /\ tail[p] # <<>>
  /\ crashes' = crashes + 1
  /\ Stopped({p})
  /\ UNCHANGED <<files, acked, calls, faults, powerLosses>>

\* Every process stops, and a rename that was not synced may be undone.
PowerLoss ==
  /\ powerLosses < MaxPowerLosses
  /\ powerLosses' = powerLosses + 1
  /\ Stopped(Process)
  /\ record' \in {record, syncedRecord}
  /\ body' \in {body, syncedBody}
  /\ syncedRecord' = record' /\ syncedBody' = body'
  /\ UNCHANGED <<acked, calls, faults, crashes>>

Init ==
  /\ pc = [c \in Caller |-> "idle"]
  /\ call = [c \in Caller |-> NoCall]
  /\ view = [c \in Caller |-> NoRecord]
  /\ reply = [c \in Caller |-> NoReply]
  /\ tail = [p \in Process |-> <<>>]
  /\ holder = None
  /\ record \in {NoRecord} \cup {Running(w, p, d) : w \in Workspace, p \in Worker, d \in Dispatcher}
  /\ syncedRecord = record
  /\ body = None /\ syncedBody = None
  /\ acked = [seq |-> 0, result |-> None, joined |-> None]
  /\ calls = 0 /\ faults = 0 /\ crashes = 0 /\ powerLosses = 0

\* What the event loop of a process does next for a call under way.
Step(c) ==
  \/ Lock(c)
  \/ LoadToAppend(c)
  \/ JoinAcceptance(c)
  \/ LoadToAccept(c)
  \/ LoadToFetch(c)
  \/ WriteBody(c)
  \/ SyncBody(c)
  \/ WriteRecord(c)
  \/ SyncRecord(c)
  \/ Unlock(c)
  \/ Leave(c)
  \/ ReadResultBody(c)

StepFails(c) ==
  \/ LockFails(c)
  \/ LoadFails(c)
  \/ WriteFails(c)
  \/ ReadResultBodyFails(c)

Next ==
  \/ \E c \in Caller : Invoke(c) \/ Step(c) \/ StepFails(c)
  \/ \E p \in Process : Crash(p)
  \/ PowerLoss

\* A call under way is driven by its process; nobody has to make one.
Fairness == \A c \in Caller : WF_vars(Step(c))

Spec == Init /\ [][Next]_vars /\ Fairness

-----------------------------------------------------------------------------
(* Properties.                                                             *)

Inside(c) ==
  pc[c] \in {"loading", "writing_body", "syncing_body", "writing", "syncing", "unlocking"}

Record == {NoRecord} \cup [op : Operation, seq : Nat \ {0}]

Replies ==
  [kind : {"none", "refused", "write_failed"}]
  \cup [kind : {"snapshot"}, seq : Nat]
  \cup [kind : {"accepted"}, bytes : Result, joined : BOOLEAN]
  \cup [kind : {"body"}, bytes : Result \cup {None}, of : Result]

StoreTypeOK ==
  /\ pc \in [Caller -> {"idle", "queued", "loading", "writing_body", "syncing_body",
                         "writing", "syncing", "unlocking", "leaving", "fetching"}]
  /\ call \in [Caller -> Calls \cup {NoCall}]
  /\ view \in [Caller -> Record]
  /\ reply \in [Caller -> Replies]
  /\ tail \in [Process -> Seq(Slot)]
  /\ holder \in Caller \cup {None}
  /\ {record, syncedRecord} \subseteq Record
  /\ {body, syncedBody} \subseteq Result \cup {None}
  /\ acked \in [seq : Nat, result : Result \cup {None}, joined : Result \cup {None}]
  /\ {calls, faults, crashes, powerLosses} \subseteq Nat

HasResult(r) == Exists(r) /\ r.op.result # None

\* An acceptance on record always has its exact body beside it: what readers
\* see, and what a power loss would leave.  The body of an acceptance that was
\* never published may lie there, but is never taken for a result.
BodyMatchesRecord ==
  /\ HasResult(record) => body = record.op.result
  /\ HasResult(syncedRecord) => syncedBody = syncedRecord.op.result

Holds(r, bytes) == HasResult(r) /\ r.op.result = bytes

\* What its own call wrote is safe before the caller is told.
WrittenIsDurable ==
  /\ acked.seq <= syncedRecord.seq
  /\ acked.result # None => Holds(syncedRecord, acked.result)

\* What a resend joined is on record for as long as the power stays on, and safe
\* if no call failed and no process died, so that the first acceptance was synced.
JoinedIsDurable ==
  acked.joined # None =>
    /\ powerLosses = 0 => Holds(record, acked.joined)
    /\ faults = 0 /\ crashes = 0 => Holds(syncedRecord, acked.joined)

\* What a caller was told is written by its own call stays written, through failed
\* calls of others, crashes and power losses.  An acceptance that a resend joined
\* is excepted: it is told without a sync, and so holds only until a power loss
\* once the call that wrote it has failed or died before its own sync.
AckedIsDurable == WrittenIsDurable /\ JoinedIsDurable

\* What the documents say of every acceptance, a joined one included: whoever was
\* told that a result is accepted finds it accepted from then on.
JoinedIsKept == acked.joined # None => Holds(record, acked.joined)

\* A reader beside the lock gets the body of the acceptance it read before.
FetchedBodyIsAccepted ==
  \A c \in Caller : reply[c].kind = "body" => reply[c].bytes = reply[c].of

GrowStep ==
  \/ record' = record
  \/ /\ powerLosses' # powerLosses
     /\ record' = syncedRecord
  \/ \E intent \in Intents : Legal(record, intent) /\ record' = Appended(record, intent)
  \/ \E r \in Result :
       /\ Exists(record) /\ CanAcceptResult(record.op)
       /\ record' = WithResult(record, r)

\* No update is lost: every write adds one event, legal for the record it
\* replaces, whichever process loaded what and when.
RecordOnlyGrows == [][GrowStep]_vars

\* Nobody waits for a call that is gone: a queued call waits behind calls of its
\* process that are still under way, the first of which has not left the queue,
\* and the lock is held by a call that will release it, whatever failed or died.
QueuesMove ==
  /\ \A c \in Caller : pc[c] = "queued" =>
       /\ \E i \in DOMAIN tail[c[1]] : tail[c[1]][i] = c[2]
       /\ pc[<<c[1], Head(tail[c[1]])>>] \notin {"idle", "fetching"}
  /\ holder # None => Inside(holder)

=============================================================================
