--------------------------- MODULE ProcessControl ---------------------------
(***************************************************************************)
(* NodeWorkerProcessControl: the processes a worker forks, and the         *)
(* attempts to list them, to watch them and to stop them.                  *)
(*                                                                         *)
(* A process is its number and its start token; the system gives a number  *)
(* to another process once it is free.  Processes fork, end and are        *)
(* replaced between any two steps, so also between the listing of a child  *)
(* and the read of its token, and between the observation of a process and *)
(* the signal to its number.  Reads in a row that change nothing are one   *)
(* step.                                                                   *)
(*                                                                         *)
(* A zombie still has its files: `up' lasts until a process is reaped.     *)
(* Whether a SIGTERM ends a process is for the process to decide.          *)
(***************************************************************************)
EXTENDS Naturals, SequencesExt

CONSTANTS
  None,       \* no list of descendants, no answer
  Pid,        \* process numbers
  WorkerPid,  \* that of the worker
  Attempt,    \* those who stop or watch the worker
  MaxBirths   \* bound: processes that are started while the attempts go on

ASSUME WorkerIsFirst == WorkerPid \in Nat /\ \E last \in Pid : Pid = WorkerPid..last
ASSUME BirthsAreNatural == MaxBirths \in Nat
ASSUME NoneIsApart == None \notin Pid /\ None # "worker-stop" /\ None # <<>>

VARIABLES
  table,     \* [Pid -> its process, or the last one it had]
  family,    \* history: the worker and all that was forked below it
  takers,    \* history: those who took a number over in a gap, and all below them
  harmed,    \* history: others than the family that were sent SIGTERM
  try,       \* [Attempt -> its place and locals]
  births

system == <<table, family, takers, births>>

Root == <<WorkerPid, 1>>   \* the process of the worker

Holder(pid)  == <<pid, table[pid].token>>
Gone(id)     == ~(table[id[1]].up /\ Holder(id[1]) = id)
AllGone(ids) == \A i \in DOMAIN ids : Gone(ids[i])

-----------------------------------------------------------------------------
(* The system.                                                             *)

Others == Pid \ {WorkerPid}

\* The worker has forked a process, that one another, and so on; other trees
\* come as they end and fork.
StartsWithChain ==
  /\ table = [pid \in Pid |-> [up |-> TRUE, token |-> 1,
                               parent |-> IF pid = WorkerPid THEN None ELSE pid - 1]]
  /\ family = {<<pid, 1>> : pid \in Pid}
  /\ takers = {}

\* An attempt is between two calls that name the number alone: it has listed it
\* and not read its token, or has observed its process and not signalled it.
InGap(pid) ==
  \E a \in Attempt :
    \/ try[a].at = "read" /\ pid \in Range(try[a].unread)
    \/ try[a].at = "signal" /\ pid = Last(try[a].victims)[1]
    \/ try[a].at = "kill" /\ pid = WorkerPid

Successor(pid) == <<pid, table[pid].token + 1>>

Birth(pid, parent) ==
  /\ ~table[pid].up /\ births < MaxBirths
  /\ births' = births + 1
  /\ table' = [table EXCEPT ![pid] =
                 [up |-> TRUE, token |-> @.token + 1, parent |-> parent]]
  /\ takers' = IF InGap(pid) \/ (parent # None /\ Holder(parent) \in takers)
               THEN takers \cup {Successor(pid)} ELSE takers
  /\ UNCHANGED <<harmed, try>>

Fork(parent, pid) ==
  /\ table[parent].up
  /\ Birth(pid, parent)
  /\ family' = IF Holder(parent) \in family THEN family \cup {Successor(pid)} ELSE family

\* A process that has nothing to do with the worker takes a number over.
Stranger(pid) ==
  /\ Birth(pid, None)
  /\ UNCHANGED family

\* Its children are left to init, and are not below the worker any more.
Exit(pid) ==
  /\ table[pid].up
  /\ table' = [q \in Pid |->
                 CASE q = pid -> [table[q] EXCEPT !.up = FALSE, !.parent = None]
                   [] q # pid /\ table[q].parent = pid -> [table[q] EXCEPT !.parent = None]
                   [] OTHER -> table[q]]
  /\ UNCHANGED <<family, takers, harmed, try, births>>

System ==
  \E pid \in Pid : Stranger(pid) \/ Exit(pid) \/ \E parent \in Pid : Fork(parent, pid)

-----------------------------------------------------------------------------
(* observe, and kill.                                                      *)

ProcessState == {"running", "stopped", "unverifiable"}

\* A read may always tell nothing.
\* Mutant: forgets the start token.
ObservesNumber(id, state) ==
  state \in {IF table[id[1]].up THEN "running" ELSE "stopped", "unverifiable"}

Observes(id, state) ==
  state \in {IF Gone(id) THEN "stopped" ELSE "running", "unverifiable"}

Signals(pid) == harmed' = harmed \cup ({Holder(pid)} \ family)

-----------------------------------------------------------------------------
(* captureDescendants, by attempt a: `pending' is the stack of processes    *)
(* whose children are still to be listed.                                  *)

Goto(a, place) == try' = [try EXCEPT ![a].at = place]

Idle ==
  [at |-> "idle", kind |-> "cancel", own |-> FALSE, ends |-> FALSE, next |-> "idle",
   pending |-> <<>>, parent |-> Root, unread |-> <<>>, found |-> <<>>,
   covers |-> None, victims |-> <<>>, answer |-> None]

Scanning == {"scan", "list", "read", "again", "root"}

\* The check of the worker and the first check of a parent are one step.
StartScan(t, next) ==
  [t EXCEPT !.at = "scan", !.next = next, !.pending = <<Root>>]

EndScan(t, place) ==
  [t EXCEPT !.at = place, !.pending = <<>>, !.parent = Root, !.unread = <<>>]

ScanFails(a) == try' = [try EXCEPT ![a] = [EndScan(@, "lost") EXCEPT !.found = <<>>]]

\* The next parent is running: it is asked for its children.
ScanNext(a) ==
  try' = [try EXCEPT ![a].at = "list", ![a].parent = Last(try[a].pending), ![a].pending = Front(@)]

ScanFirst(a) ==
  /\ try[a].at = "scan"
  /\ \E state \in ProcessState :
       /\ Observes(Root, state)
       /\ IF state = "running" THEN ScanNext(a) ELSE ScanFails(a)
  /\ UNCHANGED <<system, harmed>>

\* Lists of some processes, each once; the system decides on their order.
Lists(ids) == {list \in [1..Cardinality(ids) -> ids] : Range(list) = ids}

Children(pid) == {q \in Pid : table[q].up /\ table[q].parent = pid}

\* The file of the children has those of the first thread of the parent, whoever
\* has its number now, and may leave some out while others end: a capture that
\* succeeds may have overlooked any of them.
ScanList(a) ==
  /\ try[a].at = "list"
  /\ LET pid == try[a].parent[1] IN
     \/ /\ table[pid].up
        /\ \E listed \in SUBSET Children(pid) : \E list \in Lists(listed) :
             try' = [try EXCEPT ![a].at = IF listed = {} THEN "again" ELSE "read",
                                ![a].unread = list]
     \/ ScanFails(a)
  /\ UNCHANGED <<system, harmed>>

\* A listed number is taken for the process that has it when its token is read.
ScanRead(a) ==
  /\ try[a].at = "read"
  /\ LET pid == Head(try[a].unread) IN
     \/ /\ table[pid].up
        /\ try' = [try EXCEPT ![a].at = IF Len(try[a].unread) = 1 THEN "again" ELSE "read",
                              ![a].unread = Tail(@),
                              ![a].found = Append(@, Holder(pid)),
                              ![a].pending = Append(@, Holder(pid))]
     \/ ScanFails(a)
  /\ UNCHANGED <<system, harmed>>

\* The check of the next parent is part of the step: if it has ended, its
\* children cannot be read, or it fails its own second check.
ScanAgain(a) ==
  /\ try[a].at = "again"
  /\ \E state \in ProcessState :
       /\ Observes(try[a].parent, state)
       /\ CASE state # "running" -> ScanFails(a)
            [] state = "running" /\ try[a].pending = <<>> -> Goto(a, "root")
            [] state = "running" /\ try[a].pending # <<>> -> ScanNext(a)
  /\ UNCHANGED <<system, harmed>>

ScanRoot(a) ==
  /\ try[a].at = "root"
  /\ \E state \in ProcessState :
       /\ Observes(Root, state)
       /\ IF state = "running" THEN try' = [try EXCEPT ![a] = EndScan(@, "found")]
          ELSE ScanFails(a)
  /\ UNCHANGED <<system, harmed>>

Scan(a) == ScanFirst(a) \/ ScanList(a) \/ ScanRead(a) \/ ScanAgain(a) \/ ScanRoot(a)

-----------------------------------------------------------------------------
(* waitForDescendantsStop, and terminateDescendants of the list `covers'.   *)
(* What was seen to be gone stays gone, so a round of reads is one step.    *)

\* A round finds them all gone, or is the last before the deadline.
Round(ids, outcome) ==
  outcome \in {IF AllGone(ids) THEN "stopped" ELSE "running", "unverifiable"}

\* The last that was found is the first to be signalled.
Victim(a) == Last(try[a].victims)
Spent(a)  == try' = [try EXCEPT ![a].at = "sweep", ![a].victims = Front(@)]

Sweep(a) ==
  /\ try[a].at = "sweep" /\ try[a].victims # <<>>
  /\ \E state \in ProcessState :
       /\ Observes(Victim(a), state)
       /\ CASE state = "unverifiable" -> Goto(a, "unproven")
            [] state = "running"      -> Goto(a, "signal")
            [] state = "stopped"      -> Spent(a)
  /\ UNCHANGED <<system, harmed>>

\* The signal goes to whoever has the number by then.  If it is refused, or nobody
\* has it, the victim is observed once more.
Signal(a) ==
  /\ try[a].at = "signal"
  /\ \/ /\ table[Victim(a)[1]].up
        /\ Signals(Victim(a)[1])
        /\ Spent(a)
     \/ /\ \E state \in ProcessState :
             /\ Observes(Victim(a), state)
             /\ IF state = "stopped" THEN Spent(a) ELSE Goto(a, "unproven")
        /\ UNCHANGED harmed
  /\ UNCHANGED system

Rewatch(a) ==
  /\ try[a].at = "sweep" /\ try[a].victims = <<>>
  /\ \E outcome \in ProcessState :
       /\ Round(try[a].covers, outcome)
       /\ Goto(a, IF outcome = "stopped" THEN "clear" ELSE "unproven")
  /\ UNCHANGED <<system, harmed>>

Control(a) == Scan(a) \/ Sweep(a) \/ Signal(a) \/ Rewatch(a)

=============================================================================
