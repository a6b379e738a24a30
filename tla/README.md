# Pions in TLA+

Pions delegates a task from a Pi session to a *worker*, another Pi that runs in a
Herdr workspace of its own, and keeps a durable record of what became of it, an
*Operation*. This directory holds TLA+ models of the parts that make the record
and its promises trustworthy, the TLC runs that check them and the proofs that
TLAPS checks.

`PROJECT.json` maps every definition to the lines it stands for (`map`) and lists
the components, the runs, for each property a mutant of the code that breaks it
(`mutants`), the hazards, the proved theorems and the disagreements found
(`findings`).

    tlc -workers 2 -config MCRuntime.cfg MCRuntime     # a run
    tlapm StorageProofs.tla                            # a module of proofs

Contents: 1 the system, 2 the modules, 3 the runs, 4 fairness, 5 the proofs,
6 disagreements with the documentation, 7 what is not modelled, 8 the plan.

## 1. The system

Paths are below `src/src/internal/`.

### Operation reducer (`event-store/reducer.ts`, `model.ts`, `intent.ts`)

*State*: none of its own. An Operation is the replay of its events.
*Operations*: one arm per event type; each checks its guard and returns the next
Operation or throws. *Hard*: 27 arms written one by one, whose guards together
must keep evidence consistent, whoever appends what in which order: the worker's
result, its exit, a cancellation and a failure race each other, and the start
delivery is handed over from one dispatcher to the next. *Correct when*: final
states and recorded evidence are never rewritten, success rests on an accepted
result of a stopped worker that acknowledged its start, a cancellation excludes
success and failure, authority over the start only moves forward.

### Event store (`event-store/store.ts`)

*State*: per Operation a file of events and a file with the body of the result; in
memory a queue of calls. *Operations*: `create`, `advance`, `acceptResult`,
`read`, `readResultBody`, and two listings. *Interactions*: the runtime, readers
of other processes and result acceptance call it; it calls the file storage and the
reducer. *Hard*: processes share the files; a call may fail at every file
operation, after its effect is visible; a process may die, the host lose power.
*Correct when*: no update is lost, an acceptance and its body appear together,
what a caller was told is durable, every call returns.

### File storage and writer lock (`event-store/file-storage.ts`)

*State*: `writer-lock.v1.key` and an abstract socket whose name is a hash of the
secret in it; files replaced by rename. *Operations*: `withOperationLock`,
`atomicWrite`, reads. *Hard*: processes that create the secret at once; deaths
and power losses between its link and its sync. *Correct when*: the lock is a
mutex that is always passed on.

### Operation runtime (`runtime.ts`, `services.ts`)

*State*: an `OperationRecord` per Operation (the promise of the result, the worker,
the outcome observed, the proof of a cancellation, whether recovery may take it
up), the promises of cancellations, `workersRecovered`, `cleanupsRecovered`.
*Operations*: `spawn` (createOperation, execute), `cancel`, `recover`
(recoverWorkers, recoverCancellation, recoverCleanups), `close`. *Interactions*:
it drives the visible worker and is called back by its hooks, records everything
through the store and opens and closes Herdr workspaces. *Hard*: all of these are
asynchronous functions that interleave at every `await`, each with the copy of the
Operation it read before; each store call may be refused or fail after its
effect; a failed function leaves the Operation to a recovery that runs beside the
others; the process may die anywhere and another Runtime recovers. *Correct
when*: a recorded stop is true, a workspace is closed only after it and only with
a trace, callers are told what the record says, an Operation has one driver, a
worker starts its task once, every final Operation is answered and every
cancellation is decided.

### Visible worker adapter (`visible-worker.ts`) and worker protocol (`worker-protocol.ts`)

*State*: a session per Operation (socket, the host's protocol peer, the promises of
its answers, captured descendants), the last known identity of a worker's process,
terminations under way; in the worker its own peer. *Operations*: `run` (start or
recover a worker, hand the start delivery over, dispatch the start instruction, receive
and acknowledge the result, capture the descendants and confirm that they and the
worker have stopped), `cancel`. *Interactions*: hooks of the runtime; frames on a socket to
the worker extension; process control. *Hard*: a worker that reconnects or
answers late; frames of an older generation; cancellation at any point; a Runtime
that dies between recording that it enters the delivery, sending `begin` and
recording the dispatch. *Correct when*: at most one start instruction is ever
accepted, and a stop is claimed only if it was observed.

### Worker extension (`../worker-extension.ts`)

*State*: the files of the acceptance store (the accepted start instruction, the
authority over the start), the connection with its peer, and how far the agent's
run is (begun, cancelled, completion sent). *Operations*: connect and connect
again, receive a chunk of frames, begin the run, settle it. *Hard*: each file
operation may fail after its effect; the connection ends between any two frames,
the host may be another one after that; a cancellation arrives while the prompt is
read, while the agent runs or after it has settled. *Correct when*: what it says it
has accepted is on its disk, it gives the agent its prompt once, what it told one
host stays true for the next, and its result reaches some host.

### Worker process control (`worker-process-control.ts`)

*State*: none; it reads `/proc` and sends signals. A process is known by its number
and its start token. *Operations*: observe a process, capture the descendants of a
worker, wait for them, terminate them and the worker. *Interactions*: `cancelSession`,
`terminateProcess` and the run of the visible worker call it; while it walks the tree,
processes fork, end, are adopted by others, and numbers are used again. *Hard*:
every one of these between any two reads. *Correct when*: a stop is claimed only of
processes that have stopped, a capture misses no child, nobody else is signalled. The
last two do not hold as they stand (6).

### Background owner (`background-owner.ts`, `background-owner-entry.ts`, `background-process.ts`)

*State*: the owner's key on disk, from which the address of an abstract socket is
derived; the owner's connections, its handle and the one cancellation it shares; the
request file. *Operations*: a session starts an owner, recovers those that are
missing, or cancels through the one there is; an owner reserves the address, lets its
Runtime recover or create the Operation, confirms the start over IPC, answers
cancellations, waits for the result, closes the Runtime and exits. *Hard*: owners started at once with
keys created at once, a confirmation that is late or lost, requests that meet the end
of an owner, sessions and owners that die. *Correct when*: an Operation has one
owner, callers are told what is so, a confirmed Operation is driven, every call
returns and every owner exits.

### Pi extension (`pi-extension.ts`)

*State*: the known Runtimes of a session, which of them recovers the repository, the
preparation and the spawn of each tool call, the handles in use and their
cancellations, whether the session shuts down. *Operations*: start of the session,
the tool that delegates, shutdown (stop admissions, cancel all handles, close all
Runtimes). *Interactions*: `spawn`, `recover` and `close` of Runtimes. *Hard*: the
start, delegations and the shutdown interleave at every `await`; Pi may execute a
tool call twice; the owner of the recovery may find new Operations to recover while
it closes. *Correct when*: nothing goes on after the shutdown, no Operation has two
drivers, the shutdown ends.

### Operation reader (`operation-reader.ts`)

*State*: none; cursors come back from the caller. *Operations*: read a record, read a
result in chunks. *Hard*: limits that fall within a multi-byte character, cursors
that are mixed up, a record and a body read apart. *Correct when*: chunks lie end to
end and split no character, every cursor leads on.

### Others

`repository-state.ts` writes the request files of background Operations. Herdr
presentation calls the terminal manager. The codec and the configuration files are
validation and derivation without state. In-memory storage and `testing.ts` are
test doubles.

## 2. The modules

| module | models | lines |
| --- | --- | --- |
| `OperationReducer` | the arms of the reducer as operators `CanX(o, ...)` (guard) and `X(o, ...)` (next Operation) | reducer.ts |
| `OperationLog` | a record to which any event may be appended in any order | reducer.ts 166-615 |
| `OperationLifecycle` | abstract: what a caller may rely on | (abstract) |
| `OperationReducerProofs` | lemmas about the arms: types, handoffs, what an arm leaves alone | |
| `WriterLock` | `withOperationLock` step by step | file-storage.ts 96-205 |
| `WriterMutex` | abstract: a mutex whose holders may die | (abstract) |
| `EventStore` | calls of the store over renamed and synced files | store.ts, file-storage.ts |
| `StorageHost` | the processes and mishaps that both of them know | |
| `StorageProofs` | proofs about `OperationLog`, `EventStore` and `WriterLock` | |
| `StartDelivery` | which start instruction a Runtime delivers | runtime.ts 401-471 |
| `WorkerPeers` | the two protocol peers as operators | worker-protocol.ts 535-1789 |
| `WorkerSession` | successive Runtimes, one worker, the socket between them | visible-worker.ts, worker-extension.ts |
| `SingleStart` | abstract: the delivery of one start to one worker | (abstract) |
| `WorkerSessionProofs` | proofs about `WorkerSession` and `WorkerPeers` | |
| `WorkerAgreementProofs` | proofs about `WorkerSession` without mishaps | |
| `RuntimeState` | what the functions of a Runtime share, and what a store call does to them | runtime.ts 77-196, 952-959 |
| `Settlement` | `settleTerminal`, `performCleanup` | runtime.ts 209-378 |
| `WorkerRun` | `createOperation`, `execute`, the run of the worker and its hooks | runtime.ts 380-779, visible-worker.ts |
| `Runtime` | `cancel`, `recover`; composes all of the above with deaths of the process | runtime.ts 781-1206 |
| `RuntimeProofs` | proofs about `Runtime` | |
| `ProcessControl` | processes of a kernel, and the attempts to list, watch and stop them | worker-process-control.ts |
| `SessionStop` | one session and all who want its worker gone; extends `ProcessControl` | visible-worker.ts 505-593, 803-1274 |
| `SessionStopProofs` | proofs about `SessionStop` and `ProcessControl` | |
| `BackgroundOwner` | the calls of sessions and the owners of one background Operation | background-owner.ts, background-process.ts |
| `BackgroundOwnerProofs` | proofs about `BackgroundOwner` | |
| `PiSession` | the start, the delegations and the shutdown of a session, with `spawn`, `recover` and `close` of its Runtimes | pi-extension.ts, runtime.ts 952-1297 |
| `ResultReader` | readers of results in chunks | operation-reader.ts 210-361 |
| `PiExtensionProofs` | proofs about `PiSession` and `ResultReader` | |
| `MC*` | instances for TLC (symmetry where it is sound) | |

**The record.** `OperationReducer` is used by three specifications. `OperationLog`
appends events nobody has chosen with care, so its properties hold whatever the
callers do. `EventStore` uses the arms to decide calls, `Runtime` to decide its own
writes. Start instructions are records of dispatcher, worker and generation;
digests, timestamps, configurations and wording are left out, as no guard that is
modelled depends on them. `stateSeq` counts events.

**The store.** A caller is a pair of a process and a slot. `pc` follows a call
through `serialize` (`queued`, `leaving`), `withOperationLock` (`loading` to
`unlocking`) and the file operations; `record`/`body` are what processes see,
`syncedRecord`/`syncedBody` what a power loss would leave. `acked` remembers what
callers were told: what their own call has written, and what a resend was told is
accepted because it joined a result on record. Here the lock is a mutex
(`holder`), which `WriterLock` is shown to implement.

**The Runtime.** `at[t]` is the place of function `t`; a step is an `await` with
what follows it up to the next one, since the event loop lets nothing come in
between. `seen[t]` is the Operation the function was last given, which may be
stale. A step that records an event has three outcomes: recorded, refused by the
reducer (`CanX` is false), or failed with the event on disk or not. The handlers
(`catch`, `catchAll`) are places too. `memory` is the `OperationRecord` with the
flags of the Runtime, `run` the locals of a run; `process`, `sent`, `began` and
`workspace` are the world outside: the worker's process, a `begin` on its way, the
instruction the worker has accepted, the Herdr workspace. A worker may at any
wait answer, be late or lose its connection; the code reacts to both of the latter
in the same way. Dispatchers are numbered by Runtime; `Succeed` goes on while there
are more of them (a bound: `Dispatcher`). `Crash` replaces the Runtime's process: memory is gone, the world
stays. Timers of deferred recoveries are replaced by "a recovery is due".
`SecondRun` collects what a second run of a worker can do after a recovery
followed a stale listing: the store refuses its every hook, so only its stop of the
worker remains.

**The session.** `WorkerSession` opens up what `WorkerRun` takes in single steps:
it has the run of the host from the launch of the worker on (`run`, `op`), the
host's peer and its promises (`host`, `heard`), the worker's peer and bridge
(`worker`, `bridge`), its files (`stored`) and the frames under way (`socket`). Each
action of the host is one `yield*` of `runSession`, or one frame that
`acceptConnection` takes; a reception of the worker is one frame read
(`ReceiveBegin` and so on), and `ReceiveControl` is what the bridge does once the
chunk is read: how many frames make a chunk is open. The operators of `WorkerPeers`
say where a peer throws. `RuntimeDies` and `RuntimeRecovers` put the next Runtime in
place, whose peer starts from what is on record (`Previous`). A connection ends only
when one end closes it or dies; what was written before is then still read, unless
the reader writes to the closed socket first. `Disks` are the ways in which the
files of the acceptance store can fail during one frame.

**The stop.** `SessionStop` opens up what `WorkerRun` takes as `StopProcess`. An
attempt (`try[a]`) is the run of the session or a cancellation: `at` is its place,
`covers` the descendants whose stop its answer stands for. `table` is the kernel's:
a number, its process or the last one it had. `Control` are the loops of
`captureDescendants`, `waitForDescendantsStop` and `terminateDescendants`, one read
or signal a step; `System` forks, ends and replaces processes in between. `family`
remembers everyone forked below the worker. The file of the children is that of the
first thread of a process, so a listing may have any part of its children, in any
order (`Lists`), and what a second scan adds to what was captured comes in any order
too (`Merges`). Every read may be unverifiable and every deadline may pass at any time.

Numbers may be used again at any time, also in the gaps between two calls that go by
the number alone (`InGap`): a child has been listed and its token is not read yet, a
descendant or the worker was observed and is not signalled yet. `takers` remembers who
took a number over in such a gap, and everybody forked below them: the code cannot
tell them from the family. Merged are only a parent's checks that follow one another
without changing anything, and a round of reads, since who was seen to be gone stays
gone.

**The owner.** In `BackgroundOwner` a call may start one process, so calls name both.
`key` is what a process has read of `keyFile`; a process that holds another key than
its fellows would listen elsewhere, so keys are addresses. `drive` is what module
`Runtime` promises of the Runtime in an owner: it executes the Operation, cancels it,
cleans up after it, has returned, or has failed with the record left to others. The
record is shared: the Runtime of an owner that closes may find that another has
written the final state before it. Deaths close the sockets and
the IPC channel of a process, as the operating system does.

**The Pi session.** `PiSession` sees Runtimes from outside: `runtime[r]` is the
recovery under way, whether one is due, how often the store was listed and how far
`close` has got; `driving` says which Runtime drives which Operation. A step is what
the one event loop does between two awaits. `spawns` and `prepared` are the memos by
tool call that make a repeated execution join the first. The recovery of workspaces
is merged with that of workers.

**The reader.** Of a text `ResultReader` keeps the bytes at which characters begin or
end; `Decodes` says what the strict decoder accepts. `EndByte` is the loop that
shortens a slice, as the longest slice that decodes.

## 3. The runs

| run | question | instance | expected |
| --- | --- | --- | --- |
| `record_and_lock` | do the arms keep the record consistent, and does it implement the life cycle? | 3 dispatchers, 2 workers and workspaces, 3 generations, 16 events | pass |
| | is the lock a mutex that is passed on? | 3 processes, 2 secrets, one failure, death, power loss | |
| `event_store` | lost updates, torn acceptances, durability, queues | 2 processes with 2 slots, 3 calls, 2 results, one of each mishap | pass |
| `event_store_joined` | is what a resend was told is accepted still there after a power loss? | 1 process, 2 calls, 1 result, one failure, one power loss | violated (6.3) |
| `runtime` | safety of a Runtime and its successor | two troubles: a failure, a death, or both | pass |
| `runtime_settles` | liveness after one trouble | one failure or one death | pass |
| `runtime_start_unknown` | is an Operation answered whose start is unknown? | the same | violated (6.4) |
| `worker_session` | is a start accepted once and truly, and does the result get through? | one fault, two deaths of the Runtime, one cancellation | pass |
| `worker_session_early_settle` | does a run end whose agent settles at once? | no trouble at all | violated (6.1) |
| `background_owner` | one owner, true answers, an end | 3 calls (start; start again or recover; cancel), one fault or death | pass |
| `session_stop` | are stops proved, and who but the family can be signalled? | 3 numbers, one more birth, a cancellation beside the run | pass |
| `session_stop_unlisted` | does a cancellation cover what the run has captured? | 2 numbers, no birth | violated (6.2) |
| `pi_extension` | does a shutdown end, and end everything? | 2 executions, 2 tool calls or 1, 1 recovered Operation, one fault | pass |
| | do chunks of seven chosen results tile them? | 7 results with characters of 1 to 4 bytes, limits 4 and 5, 2 Operations | |

Two runs have two instances each, of components that share nothing: `record_and_lock`
those of `OperationLog` and `WriterLock`, `pi_extension` those of `PiSession` and
`ResultReader`. In a behaviour one of the two moves, the other rests where it began. The
symmetry of `record_and_lock` is in values that the lock, whose liveness is checked,
does not have.

What the properties say:

- `IInv`, `StartEvidenceOrdered`, `OutcomeJustified`, `HandoffsOrdered`,
  `FinalIsFinal`, `EvidenceKept`: the consistency of the record (section 1,
  reducer). `ImplementsLifecycle`: the record refines `OperationLifecycle`.
  `TypeOK`, `CleanupJustified` and `CancellationExcludesOutcome` are conjuncts of
  `IInv` or follow from the life cycle; they are proved and have no run of their own.
- `LockIInv`: whoever binds or holds a lock name uses the secret all others will
  read (`SecretAgreed`), and whoever is inside listens alone. `ImplementsMutex`,
  `LockIsPassedOn`.
- `BodyMatchesRecord`: an acceptance on record has its exact body beside it, in what
  is visible and in what a power loss would leave. `AckedIsDurable`: what a caller
  was told its own call has written survives failures, deaths and power losses
  (`WrittenIsDurable`). What a resend was told is accepted because it joined a result on
  record stays on record until a power loss, and survives that as well if no call failed
  and no process died before (`JoinedIsDurable`). Without the exception it is
  `JoinedIsKept`, which fails (6.3). `FetchedBodyIsAccepted`: a body read outside the lock
  is that of the record read inside. `RecordOnlyGrows`: no update is lost.
  `QueuesMove`: the head of every queue is a call that will leave it.
- `StopIsTrue`: `worker_stop_confirmed` and `cancel_acknowledged` are recorded only
  when the process is gone. `CloseAfterStop`: a workspace is closed only after
  that, and after the cleanup is on record, so that a death during the close leaves
  a trace. `RepliesMatchRecord`: `result()` and `cancel()` tell what is on record,
  although up to five functions settle. `SingleRun`: recovery leaves an Operation
  alone that is being executed. `NoSecondStart`: `begin` is sent only to a worker
  that has accepted none, also after a death between the entry and the dispatch.
- `FinalIsAnswered`, `CancellingIsDecided`: somebody settles in the end. The first has
  an exception (`StartUnknown`): an Operation that is final because its worker could
  not tell whether it accepted the start. Without it it is `EveryFinalIsAnswered`,
  which fails (6.4).
- `AcceptanceIsStored`: no peer, record or frame under way holds an acceptance that
  is not on the worker's disk. `ImplementsSingleStart`: the files, the record and the
  agent together behave as `SingleStart`, which knows no connections, frames or
  Runtimes. It contains `StartsOnce` (the agent gets its prompt once, over all
  connections, Runtimes and failures of the disk, and only for a stored acceptance),
  which is proved and has no run of its own. `RefusedStaysRefused`: after the
  worker told a successor that it had accepted nothing, it accepts nothing older.
  `AcknowledgedIsRecorded`: a worker leaves with an acknowledgement only after its
  result is on record. `PeersAgree`: deaths of the Runtime alone never lead to a
  violation of the protocol or stop a live worker. `ResultIsRecorded`: without other
  troubles a result the agent has produced gets on record, over two deaths of the
  Runtime. `RunEndsAtLast`: the run of the host ends once the agent has settled.

- `OneOwner`: one process at a time owns a background Operation, also while another
  closes its Runtime; who works on it besides serves a cancellation it was asked for,
  and has released the address in vain after two failures (6). `AnswersMatchRecord`: a confirmed start is on record, and the
  final state a cancellation returns is the one recorded. `ConfirmedIsDriven`: who is
  told that an Operation is started or needs no owner is told the truth, whoever
  failed before. `CallsAndOwnersEnd`: callers wait for owners and owners for callers,
  and all return without their timers.
- `StopProofIsTrue`: whoever answers `worker-stop` has seen the worker and all it was
  to wait for gone, although their numbers may be others' by then.
  `OnlyTakersAreHarmed`: outside the worker's family SIGTERM reaches at most those who
  took a number over in a gap, and what these have forked; who took one over at any
  other time is safe, also between two rounds or two attempts. `CapturedAreStopped`:
  6.2.
- `QuietAfterShutdown`: after it nothing admitted is under way, every handle is
  cancelled, no closed Runtime drives or recovers, and no Operation is left open but
  one whose spawn failed halfway. `OneDriver`: no two Runtimes of a session drive one
  Operation. `ShutdownGoesOn`: until the shutdown has ended, something it waits for
  can go on without anybody's help.
- `ChunksLieEndToEnd`: chunks of one Operation and limit tile the result, keep the
  limit and consist of whole characters. `NoDeadEnd`: a cursor that was handed out is
  never answered with an empty chunk.

**Bounds.** `MaxStateSeq` 16 is enough for a start that is acknowledged after two
handovers that the worker answered with `not_accepted`, and for an Operation that
completes and is cleaned up; both take 16 events. The third generation is the first
at which a handoff can be answered, the authority move, and a second handoff look
back at it, and three dispatchers are the number at which a third party can interfere
with a handoff between two. One epoch suffices since the reducer admits a
cancellation only of an open Operation. In `event_store`, lost updates need two
writers, torn acceptances two results and one mishap, durability a failure and a
power loss; three calls let a call follow two that race. In the Runtime there is
one Operation, because functions of different Operations share only the due
recovery, which `AnotherDefersRecovery` admits at any time. There is one worker,
since an Operation never has a second one, and three generations, one for each
Runtime that can recover within the bound and the first. A caller cancels once
per life of a Runtime: a second call with the same options gets the same promise.
`MaxTroubles` two lets every failure meet a death.

In `background_owner` three calls are what a race of two owners and a cancellation
needs. It admits one trouble: with two faults an owner that has released the Operation may
still serve a cancellation while its successor works, and wait for a result that the
other records (6), so that `CallsAndOwnersEnd` is claimed for one fault only. What is
proved (section 5) holds for any number. In
`session_stop` the three numbers are the worker, a child and a grandchild, and one
birth more lets a number change hands, in a gap or outside one, or a process fork
behind the scan; the violation needs fewer. Module
`SessionStop` admits several cancellations, but in the code they share the request
and its deadline (`WorkerCancellation.execute`), and the instance has one. In
`pi_extension` two executions of one or two tool calls are what admission, joining and
the race of two Runtimes for the recovery need; a settings Runtime beside that of the
boot needs one configuration. For the reader the limits are the smallest the
reader admits, where every width matters.

In `worker_session` two deaths give three generations, the first number at which the
record holds a dispatched instruction of one, an authority of another and an
announcement of a third; one fault hits the disk, a deadline or the worker's
process. `mishap` in its properties marks the behaviours with a fault or a
cancellation, where a worker may rightly be stopped, and those of 6.1.

`CHECK_DEADLOCK FALSE` is set where the system may come to rest: an Operation that
is final and cleaned up, a store whose callers have made their calls, owners that have
exited, a session that has ended.

**Mutants.** Each property is checked against a changed definition, written beside
it as `...` with the comment `Mutant:`, for example a body replaced before the
accepted result is looked for, a signal that counts as a stop, or a record of the
cleanup that follows the close.

## 4. Fairness

`OperationLog` needs none: it has safety properties only.

`WriterLock`: weak fairness of each process's next step. An attempt that has begun
is driven by its event loop, and a socket name that stays free can be bound; the
10 ms sleep is the time between two attempts. Nothing makes a process begin. Weak
fairness does not give every process its turn, and the code does not either:
`LockIsPassedOn` says that some waiting process gets in.

`EventStore`: weak fairness of each call's next step is part of its specification; the
properties that are checked are safety properties and need none.

`Runtime`: weak fairness of the steps of `execute` that need no worker or are ended
by a deadline, of `cancel`, of each `recoverCancellation` and of recovery, whose
timer fires. No fairness of a worker that works or answers, of callers, of
failures or of deaths.

`WorkerSession`: weak fairness of the steps of the host and of those of the worker,
each as a whole, that use up no fault: two event loops that go on, deadlines that
expire, a Runtime that is started again and an agent that settles. The steps of
one side compete only where a choice is open in the code as well (which of two
promises a run sees first), and every behaviour of one side is finite between two
steps of the other. Nothing makes a fault, a death or a cancellation happen.

`BackgroundOwner`: weak fairness of the steps of each call and of each owner while
they live: event loops go on, a started process runs, and workers end or are stopped
(what `runtime_settles` shows of a Runtime). The timers of requests are faults and are
not counted on. Nobody has to make a call.

`SessionStop`, `PiSession` and `ResultReader` state safety properties and need none.
`ShutdownGoesOn` is the part of the liveness of a shutdown that needs no fairness: it
is never stuck (`ENABLED Goes`, where `Goes` leaves out everything that the user, Pi or
a failure would have to do).

## 5. The proofs

Of the record, `StorageProofs` proves, for every number of workers, dispatchers, results,
generations and events, `TypeCorrect`, `Invariant` (`IInv`), `StartEvidenceIsOrdered`,
`HandoffsAreOrdered`, `OutcomesAreJustified`, `CleanupsAreJustified`,
`FinalStateIsFinal`, `EvidenceIsKept`, `CancellationIsExclusive` and
`RecordImplementsLifecycle`.

The invariants of interest are not inductive one by one. `IInv` adds
`StartPresupposes` (a state after the start has the presentation, worker and
authority the earlier arms recorded) and `HandoffsFollowAuthority` (the authority is
the one the last handoff revoked or its successor after `not_accepted`). The second
is what makes `StartEvidenceOrdered` inductive: without it a new authority might
be of a generation older than an entry. Type lemmas say per arm that it maps an
Operation to an Operation; each conjunct has one lemma with a case per event,
and the action properties and the refinement follow from `IInv` and `LogNext`.
The refinement maps `phase` to the state with the open states collapsed,
`accepted` to a recorded result and `stopped` to the confirmed stop; each event is
one abstract step or a stutter.

Of the lock, `StorageProofs` proves `LockInvariant` (`LockIInv`), `SecretIsAgreed` and
`LockImplementsMutex`, for any number of processes, secrets and mishaps. The
argument: the secret file never changes while somebody is at or past `binding`,
because `link` does not replace, and a power loss, which may, stops all processes;
so all use one name, and the kernel admits one listener.

Of the store, it proves `StoreInvariant` (`StoreIInv`), `BodyMatchesRecordHolds`,
`AckedIsDurableHolds`, `FetchedBodyIsAcceptedHolds`, `QueuesMoveHolds` and
`RecordOnlyGrowsHolds`, for any processes, slots, calls and mishaps. None of these is
inductive. `AckedIsDurableHolds` is about written and joined results alike, with the
exception that `JoinedIsDurable` states. The invariant says of the one caller inside the lock (`LockHeld`) what it
has in hand at each place: a successor of the record that is still on disk
(`WriterPrepared`), then the record itself (`WriterPublished`), with the body visible
and then synced before the record that speaks of it. `BodyKept` and `SyncedBefore`
relate what is visible to what a power loss would leave; `RepliesSynced` says that an
acknowledgement in hand is covered by the latter. `QueueOrder` keeps queues free of
repetitions, so that only the head of a queue is beyond waiting.

`BackgroundOwnerProofs` proves `OwnerInvariant` (`OwnerIInv`), `OneOwnerHolds`,
`AnswersMatchRecordHolds` and `RecordGoesOnHolds` (the record does not disappear, is
not opened again and keeps its final state), for any number of calls, failures and
deaths. `KeyOnDisk` says that a key which was read is the one on disk, which `link`
does not replace; therefore all owners bind one address, and the kernel admits one
listener (`OneReservation`). The rest is about owners that have let go of the address:
`FailuresCounted` counts the failures it takes to get there with work left, and
`WorkKept` says that such work is a cancellation.

`DrivenInvariant` (`DrivenIInv`) and `ConfirmedIsDrivenHolds` are about the same owners
while nothing has failed; TLC checked the parts of `DrivenIInv` first, with two deaths.
`DriveIsTrue` says that the Runtime of an owner does what the record asks for and has
nothing left when it says so: as no other owner writes the record meanwhile
(`RecordLeft`, from `OneReservation`), an owner gives up its address only when the
Operation is settled, and settled it stays. Who is told of an owner is told by it or by
one that found the address taken, so an owner is there when the promise is made, and
`PledgesKept` follows the promise through the IPC message and the check of the record
to the reply; a death after the call ends it, a death before does not.

`SessionStopProofs` proves `SessionInvariant` (`StopIInv`), `OnlyTakersAreHarmedHolds`
and `StopProofIsTrueHolds`, for any number of processes, attempts and births.
Identities are used once (`Seen`), so whoever is gone stays gone, and what a stop was
believed on cannot become false. `Reach` is the family with the takers; it is closed
under children. Lists of descendants hold members of `Reach` only, and in a gap
whoever has the number named is one (`Within`): it was when the gap began, and who
takes the number over in the gap is a taker. So is every process that is signalled.
`ProofOK` says what each place of a stop has established.

`RuntimeProofs` proves `RuntimeInvariant` (`RuntimeIInv`), `StopIsTrueHolds`,
`CloseAfterStopHolds`, `RepliesMatchRecordHolds`, `NoSecondStartHolds`,
`SingleRunHolds` and `RuntimeImplements`, for any number of failures and deaths, of
generations and of dispatchers. Functions go on with the Operation they were last
given while others write; `Placed` says, place by place, what of their checks still
holds, all from one fact: the record has only moved on from the copy (`Follows`).
`StopEvidenceTrue` is the strengthening behind `StopIsTrue`: whatever claims a stop
(the outcome observed, the proof of a cancellation, the record) speaks of a worker
that was launched, and a launched worker is never launched again, so the claim stays
true. It also needs `memory.known` to imply a launch. `RunPlaced` is the one behind
`NoSecondStart`: on every way to `send` nothing is on its way to the worker and the
worker has taken up nothing (`Unsent`), after a handover because the worker has
answered `not_accepted` to the new generation. `RunIsBusy` is the one behind
`SingleRun`; its proof also shows that no other function moves a recovery that has met
an open Operation. `RuntimeImplements` states the refinement of `OperationLifecycle`
for the record that Runtimes write: each function's writes go through an arm of the
reducer whose guard it may find refused, an Operation on record stays there, and each
arm is one abstract step or invisible.

`WorkerSessionProofs` proves `SessionInvariant` (`SessionIInv`), `AcceptanceIsStoredHolds`,
`StartsOnceHolds`, `RefusedStaysRefusedHolds` and `AcknowledgedIsRecordedHolds`, for any
number of dispatchers, results, faults, deaths and cancellations; TLC checked
`SessionIInv` on the instance of `worker_session` first. All of it is about what somebody
may say of the files of the worker, which outlive connections and Runtimes. `Faithful(i)`
says that `i` is the acceptance on disk: the store keeps the first one (`StoreMoves`), so
what was faithful stays so, and the worker saves before it answers. `WorkerFaithful`,
`FramesTrue` and `HostFaithful` follow an acceptance from the worker's memory through the
chunk it is answering and the frames under way to the host's peer, its promises and the
record. `Refused(g)` is what `not_accepted` stands for: the authority on disk is of
generation `g` at least, and no acceptance older than it is there. It is established with
the answer, because the authority is saved first and a `begin` of another generation is
stale, and it is carried to the handoff on record in the same way (`UpdateIsTrue`,
`FramesTrue`, `AnswerIsTrue`, `HandoffsTrue`); for the last step the host's answer has to
be the one it is waiting for, which is what `AnswerIsTrue` says of the pending generation.
A run records as accepted the instruction it has sent itself, not the one it was told
(visible-worker.ts:471): `BeginsAreSent` says that no session hears of a `begin` before
it has sent one, so that both are the same. `BegunOnce` and `AcknowledgesRecorded` are behind
the two others; `GenerationsBounded` counts generations by the deaths of the Runtime, which
is where the assumption that there are dispatchers enough is used. The steps of the run
change no more of the session than `RunMoves` allows and those of the worker no more than
`WorkerMoves`; the invariant is shown once for each of the two and every action to be one.

`WorkerSessionImplements` states the refinement of `SingleStart`, from the same
invariant. The mapping takes the governing generation and what was taken up from the
acceptance store, the prompts from the bridge, and what is recorded and refused from the
record (`Delivery`, `RecordedRefusals`). A `begin` that is saved is `TakeUp`, because the
authority read with it is the one on disk; an update to a later generation is `Govern`;
the prompt that `begin` gives the agent is `Prompt`, which `BegunOnce` allows once; both
hooks that record an acceptance are `Record`, because what they record is faithful and a
second acceptance of a generation is refused by the reducer; and the confirmation of a
generation is `RecordRefusal` when the answer was `not_accepted`, by `AnswerIsTrue`.
`HandoffWaits` and `AnswerDelivers` are about the list of handoffs: a new one refuses
nothing, and an answer changes the last one alone. Every other step is invisible
(`RecordWaits`, `TurnDelivers`).

`WorkerAgreementProofs` proves `CalmInvariant` (`CalmIInv`) and from it
`PeersAgreeHolds`, for any number of dispatchers, results and deaths of the Runtime.
`CalmIInv` speaks of states before any mishap, that is without a fault, a cancellation or
an agent that settles while its start is under way (the disagreement 1 of section 6); a
death of the Runtime is none. On top of `SessionIInv` it says that the conversation is a
dialogue. A host that starts says `begin`, waits for `begin_accepted`, records it, says
that it has and waits for `begin_ack`; one that recovers hands its generation over first,
and does not begin at all if the worker answers that it has accepted an earlier `begin`.
So the sequence number of the host tells how far both peers are (`HandedOver`, `Working`,
`Answered`). The frames under way carry the numbers their reader counts to and say what
their number tells (`Conversation`, `Expected`, `HostFrame`); neither peer says anything
before its last frame is answered, except that the worker appends its result once the
start is settled (`WorkerTurn`, `HostTurn`). `PlaceHolds` gives the host's number and what
the record holds for each place of the run, and `BegunIsRecorded` that whatever was begun,
is on its way or on disk is the instruction on record. With it a successor learns for
certain whether the worker has taken up the start, and a run stops a worker only when
its session never started because the worker is gone. The proof has a lemma for each frame
that a peer reads and each that it sends (`FramesInTurn`, `BeginAnswered`,
`ObservationAnswered`, `UpdateAnsweredCalmly`), one per action of the run and the worker,
and `CalmStep` puts them together. After a death the conversation begins anew, and what is
left of the old one is in `CalmStore`, `CalmLeaving` and `BegunIsRecorded`. TLC checked
`CalmIInv` first, on the instance of `worker_session` with three deaths and neither faults
nor cancellations.

Of `PiSession`, `PiExtensionProofs` proves `PiInvariant` (`PiIInv`), `OneDriverHolds` and
`QuietAfterShutdownHolds`, for any executions, tool calls, configurations, old
Operations and failures. TLC checked `PiIInv` on the instance of `pi_extension` first.
Neither property is inductive. `OneDriver` follows from what ties an Operation to its
Runtime: one execution at a time prepares a tool call, and what it spawns belongs to the
Runtime that was acquired (`OnePreparation`, `PreparedSpawns`); nothing is spawned before
the owner of the recovery has listed the store (`ListedFirst`), so its listing holds no
Operation of this session; and until it lists again, a tool call is driven by its own
Runtime and an old Operation by the owner (`DrivenByItsRuntime`, `OpenIsDriven`).
`QuietAfterShutdown` needs in addition that every open Operation that was driven once
has its driver, waits for it in a deferred recovery or is being cancelled
(`OpenIsDriven`), that handles are tracked until they are answered (`HandlesTracked`),
and what each stage of the shutdown has behind it (`ShutdownOrder`, `ClosedIsQuiet`): a
Runtime that has closed has recovered, so nothing is deferred (`RecoveryDone`), and what
it drove has ended.

Of `ResultReader`, it proves `ReaderInvariant` (`ReaderIInv`), `ChunksTile` and
`ReadersGetOn`, for all results and all limits of at least four bytes. `EndByteFits`
says that a limit of four bytes has room for a character wherever it begins, from the
fact that a byte is at most three behind the first of its character. A chunk depends on
its first byte and the limit alone, so a repeated call hands out the same chunk. The
invariant adds that per Operation and limit only one place has no chunk yet
behind it (`FurthestIsOpen`): cursors point at chunks or at that place, so a new chunk
begins where all others have ended.

Assumptions: `None` is no member of the value sets (`NoneIsNoValue`, `NoneIsNoRecord`,
`NoneIsNoOperation`, `NoSecretIsApart`, `NoneIsNoCaller`, `NoneIsNoCall`,
`NoneIsNoAnswer`, `NoneIsApart`, `NoneIsNoReception`: an undefined field is no object either), tool calls are no old Operations and `Boot` no
configuration (`PiSessionAssumption`), bounds are natural numbers, constants that list kinds
of calls list those that are modelled (`KindsAreModelled`, `IntentsAreModelled`,
`AnswersAreAcceptances`, `RunIsAttempt`), a body that no acceptance has is no result
(`MalformedIsNoResult`), numbers of processes are an interval that begins with the
worker (`WorkerIsFirst`), there are a workspace, a worker, a result, a cleanup and the
first dispatcher (`OneOfEach` of the Runtime; in `WorkerSession` a dispatcher for every
Runtime the bound admits, since each names itself), results are well-formed UTF-8 and limits are at least
four bytes (`ReaderAssumption`, operation-reader.ts:282).

Only model-checked:

- all liveness: `LockIsPassedOn`, `FinalIsAnswered`, `CancellingIsDecided`,
  `CallsAndOwnersEnd`, `ResultIsRecorded`; and `ShutdownGoesOn`, which uses ENABLED.

## 6. Disagreements with the documentation

1. **A run waits for ever when its agent settles early** (`RunEndsAtLast`,
   visible-worker.ts:889). The worker may complete before the host has stored the
   acceptance and sent `begin_acceptance_observed`. Its peer is then done, `begin_ack`
   is refused and the socket closed; the host, which has its completion already,
   takes the end of the connection for the regular one and goes on waiting for
   `begin_ack`. ADR-0008:9 says that the worker returns `begin_ack` once it has seen
   that the acceptance is stored.
2. **A cancellation may overlook captured descendants** (`CapturedAreStopped`,
   visible-worker.ts:937). Before it acknowledges a result the run captures the
   descendants of the worker. When the worker has then left and its connection has
   ended, a cancellation looks at the worker's process alone and answers
   `worker-stop`; the Operation is recorded as cancelled and its workspace is closed
   while a captured descendant runs. ADR-0029:13 says that a cancellation ends the
   descendants too and is unknown if their stop cannot be confirmed.
3. **A joined acceptance may be lost** (`JoinedIsKept`, store.ts:216). A resend of a
   result on record is answered `accepted` without any sync. If the call that wrote the
   record failed at the sync of its directory, or died there, a power loss takes away
   what the resend was told, and what the worker has its acknowledgement for.
   CONTEXT.md:35 and README.md:81 say that an acceptance is told only once it is
   durable.
4. **An Operation whose start is unknown is never answered** (`EveryFinalIsAnswered`,
   runtime.ts:602). When a worker cannot tell whether it accepted its start, the hook
   itself records the final state (runtime.ts:498-503); `settleObserved` then finds it
   final and returns without settling, and `result()` stays pending. The owner of a
   background Operation, which waits for it (background-owner.ts:240), keeps its lock
   and never exits, although it is to own the Operation until its Runtime has settled
   (background-owner.ts:216).

Seen in the code, and part of the models without a run of their own:

- `cancel` and `execute` may clean up the same workspace at once; the one that comes
  second finds it missing and may record the close as unconfirmed first
  (runtime.ts:266, ADR-0026:11).
- A host that recovers is not known to the worker before the generation update, so a
  cancellation in between is refused as unauthorised and the process is killed
  instead. A file whose directory sync failed counts as saved when it reads back
  (worker-extension.ts:138-146).
- A capture may overlook a child of the worker (worker-process-control.ts:91): it reads
  the children of the first thread of a process only, and the file may leave some out
  while others end. ADR-0029:13 excepts only those who have left the process tree.
  `ScanList` may list any part of the children.
- A process that took a number over may be signalled (worker-process-control.ts:214-218,
  237-241): between the observation of the worker or of a descendant and its signal, and
  between the listing of a child and the read of its token (159-169), the number may
  change hands. test/worker-process-control.test.ts:103 has only the exact process
  instance signalled. It takes a number that is used again within one read;
  `OnlyTakersAreHarmed` says that nothing else can happen.
- A session that dies while it writes a request file leaves it torn
  (repository-state.ts:88); later recoveries and repetitions of the call fail on it.
- An owner that answers `already-owned` to another may give up right after, and the
  Operation waits for the next session. A cancellation that reaches an owner after
  the Operation has settled is answered with an error (background-process.ts:110-112)
  where docs/pi-extension.md says that the state is returned.
- ADR-0030:9 has one owner at a time write a background Operation. An owner whose
  Runtime has failed twice releases the address while a cancellation that it shares may
  still run; its successor and it then both write the record (`SoleWriter` in
  `BackgroundOwner` fails with two faults and two troubles). The reducer keeps the
  record consistent, but the result of the one that is overtaken is never settled, and
  its process does not exit. What holds is `OneOwner`.
- After a deferred recovery, the Runtime that owns the recovery lists the store again
  and takes up Operations that a Runtime of other settings drives; the store refuses
  its events, but `OneDriver` holds only while it has listed once. A shutdown during
  the recovery of `session_start` makes it throw (pi-extension.ts:319), and the
  Operations it recovered are not tracked, so not cancelled but left to the drain of
  `close`. A `close` may fail with `write_failed` because cancellations came too late
  (runtime.ts:1221). A spawn that fails halfway leaves its Operation open, and the
  failure is remembered for its tool call.

A limit of the liveness results: with two troubles an Operation that is being
cancelled may keep no driver until the next Runtime starts, for example when the
cancellation fails and so does the read that would defer its recovery
(runtime.ts:852). `runtime_settles` therefore admits one.

## 7. Not modelled

- Retry times, wrong epochs given by callers, a user who closes the workspace.
- The launch of a worker is one step. Two foreground sessions that recover the same
  Operation at the same time (`WorkerSession` has one live Runtime; `BackgroundOwner`
  and `PiSession` have their own races). Frames of several connections at once: a
  session of the host admits one connection.
- In `Runtime` a session's waits are single nondeterministic steps, in `SessionStop`
  the protocol is whether a cancellation can be asked for, in `BackgroundOwner` and
  `PiSession` a Runtime is what it promises. That the detailed modules implement these
  views is argued here and not stated as a refinement.
- `PiSession`: sessions of untrusted repositories and outside Herdr, a Runtime passed in
  by a test, the reports to the user. A spawn that finds its Operation on record
  already.
- `BackgroundOwner`: what the request says besides that it is there and whole; the
  environment of the process; several Operations, which share only the key.
- Listings of the store on their own, the codes of refusals, file modes and symbolic
  links, schemas, digests, configuration files: input and output, or no state.
- Bend's projection of the reducer, in-memory storage, test doubles, the end-to-end
  script.

## 8. The plan

Done: reducer, record and life cycle with proofs; lock with proofs; store with proofs;
Runtime with worker run, settlement and recovery, with proofs; the session of host and
worker with the handover of the start delivery, with proofs and the refinement of an
abstract delivery; the stop of a worker and its
descendants with proofs; the background owner with proofs; the Pi session with
`close` and the reader, with proofs.

Next, in this order:

1. Refinements: an abstract stop that
   `SessionStop` implements and `WorkerRun` uses; the mutex of `EventStore` by
   `WriterLock`; one owner per Operation.
