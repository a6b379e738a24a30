---------------------------- MODULE WriterLock ----------------------------
(***************************************************************************)
(* withOperationLock of the file storage: the lock that keeps the writers  *)
(* of one Operation apart across processes.                                *)
(*                                                                         *)
(* The lock is a listening socket in Linux's abstract name space.  Its     *)
(* name is a hash of a secret kept in a private file, so two processes     *)
(* exclude each other only if they read the same secret; the first process *)
(* that finds no file creates it, and several may find none at once.  The  *)
(* kernel closes the socket of a process that dies.                        *)
(*                                                                         *)
(* Within one process the calls for an Operation are already queued one    *)
(* after the other (serialize), so a process makes one attempt at a time.  *)
(* An attempt that finds the name in use sleeps 10 ms and tries again:     *)
(* the sleep is the time between two steps here.                           *)
(***************************************************************************)
EXTENDS StorageHost

CONSTANTS
  Secret,        \* random secrets a process can draw
  NoSecret       \* no secret

ASSUME NoSecretIsApart == NoSecret \notin Secret

VARIABLES
  at,            \* [Process -> step of withOperationLock]
  mySecret,      \* [Process -> the secret this attempt will use]
  secretFile,    \* writer-lock.v1.key as every process sees it
  syncedFile,    \* writer-lock.v1.key as a power loss would leave it
  listening      \* [Secret -> the processes that listen on its name]

secretFiles == <<secretFile, syncedFile>>
lockMishaps == <<faults, crashes, powerLosses>>
lockVars    == <<at, mySecret, secretFiles, listening, lockMishaps>>

Steps == {"outside", "reading", "creating", "syncing", "rereading", "binding",
          "inside", "closing"}

Insiders == {p \in Process : at[p] \in {"inside", "closing"}}

GoesTo(p, step) == at' = [at EXCEPT ![p] = step]

-----------------------------------------------------------------------------
(* The steps of withOperationLock.                                         *)

Begin(p) ==
  /\ at[p] = "outside"
  /\ GoesTo(p, "reading")
  /\ UNCHANGED <<mySecret, secretFiles, listening, lockMishaps>>

ReadSecret(p) ==
  /\ at[p] = "reading"
  /\ mySecret' = [mySecret EXCEPT ![p] = secretFile]
  /\ GoesTo(p, IF secretFile = NoSecret THEN "creating" ELSE "binding")
  /\ UNCHANGED <<secretFiles, listening, lockMishaps>>

\* Mutant: publishes the secret with a rename, which replaces another's file.
CreateSecretByRename(p) ==
  /\ at[p] = "creating"
  /\ \E s \in Secret :
       /\ mySecret' = [mySecret EXCEPT ![p] = s]
       /\ secretFile' = s
  /\ GoesTo(p, "syncing")
  /\ UNCHANGED <<syncedFile, listening, lockMishaps>>

\* atomicWrite with create: link publishes a complete file and fails with
\* EEXIST, which is no error here, when the file is there already.
CreateSecret(p) ==
  /\ at[p] = "creating"
  /\ \E s \in Secret :
       /\ mySecret' = [mySecret EXCEPT ![p] = s]
       /\ IF secretFile = NoSecret
            THEN secretFile' = s /\ GoesTo(p, "syncing")
            ELSE secretFile' = secretFile /\ GoesTo(p, "rereading")
  /\ UNCHANGED <<syncedFile, listening, lockMishaps>>

SyncSecret(p) ==
  /\ at[p] = "syncing"
  /\ syncedFile' = secretFile
  /\ GoesTo(p, "rereading")
  /\ UNCHANGED <<mySecret, secretFile, listening, lockMishaps>>

RereadSecret(p) ==
  /\ at[p] = "rereading"
  /\ mySecret' = [mySecret EXCEPT ![p] = secretFile]
  /\ GoesTo(p, IF secretFile = NoSecret THEN "outside" ELSE "binding")
  /\ UNCHANGED <<secretFiles, listening, lockMishaps>>

\* Mutant: takes the name over, as a file lock that counts as stale would be.
BindOver(p) ==
  /\ at[p] = "binding"
  /\ listening' = [listening EXCEPT ![mySecret[p]] = {p}]
  /\ GoesTo(p, "inside")
  /\ UNCHANGED <<mySecret, secretFiles, lockMishaps>>

\* server.listen: refused while another socket has the name.
Bind(p) ==
  /\ at[p] = "binding"
  /\ listening[mySecret[p]] = {}
  /\ listening' = [listening EXCEPT ![mySecret[p]] = {p}]
  /\ GoesTo(p, "inside")
  /\ UNCHANGED <<mySecret, secretFiles, lockMishaps>>

\* The action returns or throws; finally closes the server either way.
Finish(p) ==
  /\ at[p] = "inside"
  /\ GoesTo(p, "closing")
  /\ UNCHANGED <<mySecret, secretFiles, listening, lockMishaps>>

\* Mutant: leaves the server open.
CloseNothing(p) ==
  /\ at[p] = "closing"
  /\ GoesTo(p, "outside")
  /\ UNCHANGED <<mySecret, secretFiles, listening, lockMishaps>>

Close(p) ==
  /\ at[p] = "closing"
  /\ listening' = [listening EXCEPT ![mySecret[p]] = @ \ {p}]
  /\ GoesTo(p, "outside")
  /\ UNCHANGED <<mySecret, secretFiles, lockMishaps>>

\* A file or socket operation fails: withOperationLock throws, the call ends.
AttemptFails(p) ==
  /\ at[p] \in {"reading", "creating", "syncing", "rereading", "binding"}
  /\ faults < MaxFaults
  /\ faults' = faults + 1
  /\ GoesTo(p, "outside")
  /\ UNCHANGED <<mySecret, secretFiles, listening, crashes, powerLosses>>

-----------------------------------------------------------------------------
(* What happens to processes and to the host.                              *)

ProcessDies(p) ==
  /\ crashes < MaxCrashes
  /\ at[p] # "outside"
  /\ crashes' = crashes + 1
  /\ GoesTo(p, "outside")
  /\ listening' = [s \in Secret |-> listening[s] \ {p}]
  /\ UNCHANGED <<mySecret, secretFiles, faults, powerLosses>>

\* All processes are gone, and a file that was not synced may be gone too.
HostLosesPower ==
  /\ powerLosses < MaxPowerLosses
  /\ powerLosses' = powerLosses + 1
  /\ at' = [p \in Process |-> "outside"]
  /\ listening' = [s \in Secret |-> {}]
  /\ secretFile' \in {secretFile, syncedFile}
  /\ syncedFile' = secretFile'
  /\ UNCHANGED <<mySecret, faults, crashes>>

LockInit ==
  /\ at = [p \in Process |-> "outside"]
  /\ mySecret = [p \in Process |-> NoSecret]
  /\ secretFile \in Secret \cup {NoSecret}
  /\ syncedFile = secretFile
  /\ listening = [s \in Secret |-> {}]
  /\ faults = 0 /\ crashes = 0 /\ powerLosses = 0

Attempt(p) ==
  \/ ReadSecret(p) \/ CreateSecret(p) \/ SyncSecret(p) \/ RereadSecret(p)
  \/ Bind(p) \/ Finish(p) \/ Close(p)

LockNext ==
  \/ \E p \in Process : Begin(p) \/ Attempt(p) \/ AttemptFails(p) \/ ProcessDies(p)
  \/ HostLosesPower

\* A process that has begun keeps going: the event loop runs its next step.
LockFairness == \A p \in Process : WF_lockVars(Attempt(p))

LockSpec == LockInit /\ [][LockNext]_lockVars /\ LockFairness

-----------------------------------------------------------------------------
(* Properties.                                                             *)

LockTypeOK ==
  /\ at \in [Process -> Steps]
  /\ mySecret \in [Process -> Secret \cup {NoSecret}]
  /\ secretFile \in Secret \cup {NoSecret}
  /\ syncedFile \in Secret \cup {NoSecret}
  /\ listening \in [Secret -> SUBSET Process]
  /\ faults \in Nat /\ crashes \in Nat /\ powerLosses \in Nat

\* A process never tries to bind, or holds, a name other than the one every
\* other process will read, however the creations of the secret interleave,
\* fail or are undone by a power loss.
SecretAgreed ==
  \A p \in Process :
    at[p] \in {"binding", "inside", "closing"} =>
      mySecret[p] = secretFile /\ secretFile # NoSecret

\* Whoever is inside listens on its name, alone.
InsideListens ==
  \A p \in Insiders : mySecret[p] \in Secret /\ listening[mySecret[p]] = {p}

LockIInv == LockTypeOK /\ SecretAgreed /\ InsideListens

Mutex == INSTANCE WriterMutex WITH inside <- Insiders

\* The lock is a mutex: no process enters before the one inside has left,
\* whether by returning or by dying.
ImplementsMutex == Mutex!MutexSpec

Waiting == \E p \in Process : at[p] = "binding"

\* The lock never stays taken by nobody: while processes wait, one gets in.
LockIsPassedOn == Waiting ~> (Insiders # {} \/ ~Waiting)

=============================================================================
