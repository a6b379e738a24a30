------------------------- MODULE SessionStopProofs -------------------------
(* Theorems about SessionStop with ProcessControl, for any processes,       *)
(* attempts and any number of births.                                       *)
EXTENDS SessionStop, FiniteSetTheorems, TLAPS

-----------------------------------------------------------------------------
(* Types.                                                                  *)

Id == Pid \X Nat

Processes == [up : BOOLEAN, token : Nat, parent : Pid \cup {None}]

Places == Scanning \cup
  {"idle", "found", "lost", "sweep", "signal", "clear", "unproven", "stop", "kill", "joined",
   "request", "look", "acknowledged", "leaving", "observe", "watch", "exit", "done", "accept",
   "acknowledge", "exiting"}

Tries ==
  [at : Places, kind : {"cancel", "success", "recover"}, own : BOOLEAN, ends : BOOLEAN,
   next : {"idle", "stop", "request", "acknowledged", "observe", "acknowledge"},
   pending : Seq(Id), parent : Id, unread : Seq(Pid), found : Seq(Id),
   covers : Seq(Id) \cup {None}, victims : Seq(Id), answer : {None, "worker-stop"}]

Sessions ==
  [state : {"listening", "up", "closed"}, identity : BOOLEAN, acked : BOOLEAN,
   protocol : {"open", "cancelling", "unsent", "done"}, captured : Seq(Id) \cup {None},
   exit : {"none", "watched", "stopped", "unconfirmed"}]

KernelTypeOK ==
  /\ table \in [Pid -> Processes] /\ births \in Nat
  /\ family \subseteq Id /\ takers \subseteq Id

HostTypeOK ==
  /\ session \in Sessions /\ stopping \subseteq Attempt
  /\ stored \in BOOLEAN /\ known \in BOOLEAN /\ requested \in BOOLEAN

SessionTypeOK ==
  KernelTypeOK /\ HostTypeOK /\ try \in [Attempt -> Tries] /\ harmed \subseteq Id

-----------------------------------------------------------------------------
(* The inductive invariant.                                                *)

\* A process with this identity has been there: once gone it does not come back.
Seen(id) == id \in Id /\ id[2] <= table[id[1]].token

\* Whom a list or a signal can reach, and whether all that has a number is of these.
Reach       == family \cup takers
Within(pid) == table[pid].up => Holder(pid) \in Reach

\* Parents live, and what can be reached is closed under children.
ParentOK(pid) ==
  table[pid].parent # None =>
    /\ table[pid].up /\ table[table[pid].parent].up
    /\ Holder(table[pid].parent) \in Reach => Holder(pid) \in Reach

KernelOK ==
  /\ \A pid \in Pid : ParentOK(pid)
  /\ \A id \in Reach : Seen(id)
  /\ Root \in family

\* What a scan has found and is still to visit can be reached, and so can whoever has
\* a number that is still to be read: or the parent that was listed is gone, which
\* its second check will find.
ScanOK(t) ==
  /\ t.parent \in Reach
  /\ t.at = "scan" => t.pending = <<Root>>
  /\ t.at \in {"list", "read", "again", "root", "found"} \/ t.found = <<>>
  /\ t.at = "read" => t.unread # <<>>
  /\ \/ t.at \in {"read", "again"} /\ Gone(t.parent)
     \/ /\ Range(t.found) \subseteq Reach /\ Range(t.pending) \subseteq Reach
        /\ t.at = "read" => \A pid \in Range(t.unread) : Within(pid)

\* A stop is believed when the worker is gone, and proved when its descendants are.
\* A signal that is due cannot reach anybody else.
ProofOK(t) ==
  /\ t.covers # None => Range(t.covers) \subseteq Reach
  /\ Range(t.victims) \subseteq Reach
  /\ t.at \in {"watch", "sweep", "signal", "clear"} => Gone(Root) /\ t.covers # None
  /\ t.at = "clear" => AllGone(t.covers)
  /\ t.at = "signal" => t.victims # <<>> /\ Within(Last(t.victims)[1])
  /\ t.at = "kill" => Within(WorkerPid)
  /\ t.answer = "worker-stop" =>
       t.at = "done" /\ Gone(Root) /\ t.covers # None /\ AllGone(t.covers)

AttemptsOK == \A a \in Attempt : ScanOK(try[a]) /\ ProofOK(try[a])

HostOK ==
  /\ session.captured # None => Range(session.captured) \subseteq Reach
  /\ session.exit = "stopped" => Gone(Root)
  /\ \A a \in stopping : try[a].at \in {"joined", "kill"}

StopIInv ==
  SessionTypeOK /\ KernelOK /\ AttemptsOK /\ HostOK /\ OnlyTakersAreHarmed

-----------------------------------------------------------------------------
(* Processes and lists.                                                    *)

LEMMA RootTyped == WorkerPid \in Pid /\ Pid \subseteq Nat /\ Root \in Id
<1>1. PICK last \in Pid : Pid = WorkerPid..last
  BY WorkerIsFirst
<1>3. last \in WorkerPid..last
  BY <1>1
<1>4. WorkerPid \in Pid /\ Pid \subseteq Nat
  BY <1>1, <1>3, WorkerIsFirst
<1> QED
  BY <1>4 DEF Root, Id

LEMMA ListParts ==
  ASSUME NEW S
  PROVE  /\ <<>> \in Seq(S) /\ Range(<<>>) = {}
         /\ \A x \in S : <<x>> \in Seq(S) /\ Range(<<x>>) = {x}
         /\ \A s, t \in Seq(S) : s \o t \in Seq(S) /\ Range(s \o t) = Range(s) \cup Range(t)
         /\ \A s \in Seq(S) : Range(s) \subseteq S
         /\ \A s \in Seq(S) : s # <<>> =>
              Front(s) \in Seq(S) /\ Last(s) \in S /\ Range(s) = Range(Front(s)) \cup {Last(s)}
<1>1. <<>> \in Seq(S) /\ Range(<<>>) = {}
  BY DEF Range
<1>2. \A x \in S : <<x>> \in Seq(S) /\ Range(<<x>>) = {x}
  BY DEF Range
<1>3. ASSUME NEW s \in Seq(S), NEW t \in Seq(S)
      PROVE  s \o t \in Seq(S) /\ Range(s \o t) = Range(s) \cup Range(t)
  <2>1. s \o t \in Seq(S)
    OBVIOUS
  <2>2. Range(s \o t) \subseteq Range(s) \cup Range(t)
    BY DEF Range
  <2>3. \A i \in DOMAIN s : s[i] = (s \o t)[i] /\ i \in DOMAIN (s \o t)
    OBVIOUS
  <2>4. \A i \in DOMAIN t : t[i] = (s \o t)[i + Len(s)] /\ i + Len(s) \in DOMAIN (s \o t)
    OBVIOUS
  <2>5. Range(s) \subseteq Range(s \o t)
    BY <2>3 DEF Range
  <2>6. Range(t) \subseteq Range(s \o t)
    BY <2>4 DEF Range
  <2> QED
    BY <2>1, <2>2, <2>5, <2>6
<1>4. \A s \in Seq(S) : Range(s) \subseteq S
  BY DEF Range
<1>5. ASSUME NEW s \in Seq(S), s # <<>>
      PROVE  Front(s) \in Seq(S) /\ Last(s) \in S /\ Range(s) = Range(Front(s)) \cup {Last(s)}
  <2>1. Len(s) \in Nat /\ Len(s) > 0 /\ DOMAIN s = 1..Len(s)
    BY <1>5
  <2>2. Front(s) \in Seq(S) /\ DOMAIN Front(s) = 1..(Len(s) - 1) /\ \A i \in 1..(Len(s) - 1) : Front(s)[i] = s[i]
    BY <2>1 DEF Front
  <2> QED
    BY <2>1, <2>2 DEF Range, Last
<1> QED
  BY <1>1, <1>2, <1>3, <1>4, <1>5

LEMMA EndsParts ==
  ASSUME NEW S
  PROVE  /\ \A s \in Seq(S) : s # <<>> =>
              /\ Head(s) \in S /\ Head(s) \in Range(s)
              /\ Tail(s) \in Seq(S) /\ Range(Tail(s)) \subseteq Range(s)
              /\ Len(s) # 1 => Tail(s) # <<>>
         /\ \A s \in Seq(S), x \in S :
              Append(s, x) \in Seq(S) /\ Range(Append(s, x)) = Range(s) \cup {x}
<1>1. ASSUME NEW s \in Seq(S), s # <<>>
      PROVE  /\ Head(s) \in S /\ Head(s) \in Range(s)
             /\ Tail(s) \in Seq(S) /\ Range(Tail(s)) \subseteq Range(s)
             /\ Len(s) # 1 => Tail(s) # <<>>
  <2>1. Len(s) \in Nat /\ Len(s) > 0 /\ DOMAIN s = 1..Len(s)
    BY <1>1
  <2>2. Head(s) = s[1] /\ 1 \in DOMAIN s /\ s[1] \in S
    BY <2>1
  <2>3. /\ Tail(s) \in Seq(S) /\ Len(Tail(s)) = Len(s) - 1
        /\ DOMAIN Tail(s) = 1..(Len(s) - 1)
        /\ \A i \in 1..(Len(s) - 1) : Tail(s)[i] = s[i + 1] /\ i + 1 \in DOMAIN s
    BY <1>1, <2>1
  <2>4. Range(Tail(s)) \subseteq Range(s)
    BY <2>3 DEF Range
  <2>5. Len(s) # 1 => Tail(s) # <<>>
    <3>1. Len(s) # 1 => Len(Tail(s)) # 0
      BY <2>1, <2>3
    <3>2. Len(<<>>) = 0
      OBVIOUS
    <3> QED
      BY <3>1, <3>2, Zenon
  <2>6. Head(s) \in Range(s)
    BY <2>2, Zenon DEF Range
  <2> QED
    BY <2>2, <2>3, <2>4, <2>5, <2>6
<1>2. ASSUME NEW s \in Seq(S), NEW x \in S
      PROVE  Append(s, x) \in Seq(S) /\ Range(Append(s, x)) = Range(s) \cup {x}
  <2>1. Append(s, x) = s \o <<x>> /\ <<x>> \in Seq(S)
    OBVIOUS
  <2>2. s \o <<x>> \in Seq(S) /\ Range(s \o <<x>>) = Range(s) \cup Range(<<x>>)
    <3>1. \A r, t \in Seq(S) : r \o t \in Seq(S) /\ Range(r \o t) = Range(r) \cup Range(t)
      BY ListParts, Zenon
    <3> QED
      BY <2>1, <3>1, Zenon
  <2>3. Range(<<x>>) = {x}
    BY ListParts
  <2>4. s \o <<x>> = Append(s, x)
    BY <2>1
  <2> QED
    BY <2>2, <2>3, <2>4, Zenon
<1> QED
  BY <1>1, <1>2

LEMMA ListsTyped ==
  ASSUME NEW T, NEW S \in SUBSET T, IsFiniteSet(S), NEW list \in Lists(S)
  PROVE  list \in Seq(T) /\ Range(list) = S
<1>1. list \in [1..Cardinality(S) -> S] /\ Range(list) = S
  BY DEF Lists
<1>2. Cardinality(S) \in Nat
  BY FS_CardinalityType
<1> QED
  BY <1>1, <1>2

LEMMA RangeFinite ==
  ASSUME NEW s \in Seq(Id)
  PROVE  IsFiniteSet(Range(s))
<1>1. s \in [1..Len(s) -> Id] /\ Len(s) \in Nat
  OBVIOUS
<1>2. s \in Surjection(1..Len(s), Range(s))
  BY <1>1 DEF Surjection, Range
<1>3. IsFiniteSet(1..Len(s))
  BY <1>1, FS_Interval
<1> QED
  BY <1>2, <1>3, FS_Surjection

LEMMA ListingsTyped ==
  ASSUME NEW kids \in SUBSET Pid, NEW list \in Lists(kids)
  PROVE  list \in Seq(Pid) /\ Range(list) = kids
<1>1. IsFiniteSet(Pid)
  <2>1. PICK last \in Pid : Pid = WorkerPid..last
    BY WorkerIsFirst
  <2> QED
    BY <2>1, RootTyped, FS_Interval
<1>2. IsFiniteSet(kids)
  BY <1>1, FS_Subset
<1> QED
  BY <1>2, ListsTyped

LEMMA MergesTyped ==
  ASSUME NEW old \in Seq(Id) \cup {None}, NEW new \in Seq(Id), NEW merged \in Merges(old, new)
  PROVE  /\ merged \in Seq(Id)
         /\ Range(merged) \subseteq Range(new) \cup (IF old = None THEN {} ELSE Range(old))
<1>1. CASE old = None
  BY <1>1 DEF Merges
<1>2. CASE old # None
  <2>1. PICK rest \in Lists(Range(new) \ Range(old)) : merged = old \o rest
    BY <1>2 DEF Merges
  <2>2. IsFiniteSet(Range(new) \ Range(old)) /\ Range(new) \ Range(old) \in SUBSET Id
    BY RangeFinite, FS_Subset, ListParts
  <2>3. rest \in Seq(Id) /\ Range(rest) = Range(new) \ Range(old)
    BY <2>2, ListsTyped
  <2> QED
    BY <1>2, <2>1, <2>3, ListParts
<1> QED
  BY <1>1, <1>2

-----------------------------------------------------------------------------
(* Steps of the system.                                                    *)

\* What may become of the processes in any step.
Passing ==
  /\ family \subseteq family' /\ takers \subseteq takers'
  /\ \A id \in Id : Seen(id) => Seen(id)' /\ (Gone(id) => Gone(id)')
  /\ \A pid \in Pid : InGap(pid) /\ Within(pid) => Within(pid)'

LEMMA PassingTime ==
  ASSUME KernelTypeOK, KernelTypeOK', family \subseteq family', takers \subseteq takers',
         \A pid \in Pid :
           /\ table[pid].token <= table'[pid].token
           /\ table'[pid].up /\ ~table[pid].up => table'[pid].token > table[pid].token
           /\ table'[pid].up /\ InGap(pid) =>
                Holder(pid)' \in takers' \/ (table[pid].up /\ Holder(pid)' = Holder(pid))
  PROVE  Passing
<1>1. ASSUME NEW id \in Id, Seen(id)
      PROVE  Seen(id)' /\ (Gone(id) => Gone(id)')
  <2>1. id[1] \in Pid /\ id[2] \in Nat /\ id = <<id[1], id[2]>>
    BY DEF Id
  <2>2. table[id[1]].token \in Nat /\ table'[id[1]].token \in Nat
    BY <2>1 DEF KernelTypeOK, Processes
  <2>3. Seen(id)'
    BY <1>1, <2>1, <2>2 DEF Seen
  <2>4. ASSUME Gone(id), ~Gone(id)' PROVE FALSE
    <3>1. table'[id[1]].up /\ table'[id[1]].token = id[2]
      BY <2>1, <2>4 DEF Gone, Holder
    <3>2. ~table[id[1]].up \/ table[id[1]].token # id[2]
      BY <2>1, <2>4 DEF Gone, Holder
    <3> QED
      BY <1>1, <2>1, <2>2, <3>1, <3>2 DEF Seen
  <2> QED
    BY <2>3, <2>4
<1>2. ASSUME NEW pid \in Pid, InGap(pid), Within(pid)
      PROVE  Within(pid)'
  BY <1>2 DEF Within, Reach
<1> QED
  BY <1>1, <1>2 DEF Passing

\* A process is born: below one that can be reached, or in a gap, it can be reached.
LEMMA BirthStep ==
  ASSUME KernelTypeOK, KernelOK, NEW pid \in Pid, NEW parent \in Pid \cup {None}, Birth(pid, parent),
         parent # None => table[parent].up,
         family' = IF parent # None /\ Holder(parent) \in family
                     THEN family \cup {Successor(pid)} ELSE family
  PROVE  KernelTypeOK' /\ KernelOK' /\ Passing
<1>0. PICK child \in Id : child = Successor(pid)
  <2>1. table[pid].token + 1 \in Nat
    BY DEF KernelTypeOK, Processes
  <2>2. Successor(pid) \in Id
    BY <2>1 DEF Successor, Id
  <2> QED
    BY <2>2
<1>1. /\ table' \in [Pid -> Processes] /\ births' \in Nat
      /\ \A q \in Pid \ {pid} : table'[q] = table[q]
      /\ table'[pid] = [up |-> TRUE, token |-> table[pid].token + 1, parent |-> parent]
      /\ ~table[pid].up /\ table[pid].token \in Nat
  BY DEF Birth, KernelTypeOK, Processes
<1>2. child = <<pid, table[pid].token + 1>> /\ Holder(pid)' = child /\ Seen(child)'
  BY <1>0, <1>1 DEF Successor, Holder, Seen
<1>3. /\ family \subseteq family' /\ takers \subseteq takers'
      /\ Reach \subseteq Reach' /\ Reach' \subseteq Reach \cup {child}
      /\ InGap(pid) => child \in takers'
      /\ parent # None /\ Holder(parent) \in Reach => child \in Reach'
  BY <1>0 DEF Birth, Reach
<1>4. KernelTypeOK'
  <2>1. takers' \subseteq takers \cup {child} /\ family' \subseteq family \cup {child}
    BY <1>0 DEF Birth
  <2> QED
    BY <1>1, <2>1 DEF KernelTypeOK
<1>5. Passing
  <2>1. ASSUME NEW q \in Pid
        PROVE  /\ table[q].token <= table'[q].token
               /\ table'[q].up /\ ~table[q].up => table'[q].token > table[q].token
               /\ table'[q].up /\ InGap(q) =>
                    Holder(q)' \in takers' \/ (table[q].up /\ Holder(q)' = Holder(q))
    <3>1. CASE q = pid
      <4>1. table'[q].token = table[q].token + 1
        BY <1>1, <3>1
      <4> QED
        BY <1>1, <1>2, <1>3, <3>1, <4>1
    <3>2. CASE q # pid
      <4>1. table'[q] = table[q] /\ table[q].token \in Nat
        BY <1>1, <3>2 DEF KernelTypeOK, Processes
      <4> QED
        BY <4>1 DEF Holder
    <3> QED
      BY <3>1, <3>2
  <2> QED
    BY <1>3, <1>4, <2>1, PassingTime
<1>6. ASSUME NEW q \in Pid, q # pid, table'[q].parent # None
      PROVE  ParentOK(q)'
  <2>1. table'[q] = table[q]
    BY <1>1, <1>6
  <2>2. /\ table[q].parent \in Pid /\ table[q].up /\ table[table[q].parent].up
        /\ Holder(table[q].parent) \in Reach => Holder(q) \in Reach
    BY <1>6, <2>1 DEF KernelTypeOK, Processes, KernelOK, ParentOK
  <2>3. table[q].parent # pid
    BY <1>1, <2>2
  <2>4. table'[table[q].parent] = table[table[q].parent]
    BY <1>1, <2>2, <2>3
  <2>5. Holder(table[q].parent) # child
    BY <1>2, <2>3 DEF Holder
  <2>6. Holder(q)' = Holder(q) /\ Holder(table[q].parent)' = Holder(table[q].parent)
    BY <2>1, <2>4 DEF Holder
  <2> QED
    BY <1>3, <2>1, <2>2, <2>4, <2>5, <2>6 DEF ParentOK
<1>7. ParentOK(pid)'
  <2>1. CASE parent = None
    BY <1>1, <2>1 DEF ParentOK
  <2>2. CASE parent # None
    <3>1. parent \in Pid /\ parent # pid /\ table'[parent] = table[parent]
      BY <1>1, <2>2
    <3>2. Holder(parent)' = Holder(parent) /\ Holder(parent) # child
      BY <1>2, <3>1 DEF Holder
    <3>3. table'[pid].parent = parent /\ table'[pid].up
      BY <1>1
    <3> QED
      BY <1>2, <1>3, <2>2, <3>1, <3>2, <3>3 DEF ParentOK
  <2> QED
    BY <2>1, <2>2
<1>8. \A q \in Pid : ParentOK(q)'
  <2>1. \A q \in Pid : table'[q].parent = None => ParentOK(q)'
    BY DEF ParentOK
  <2> QED
    BY <1>6, <1>7, <2>1
<1>9. \A id \in Reach' : Seen(id)'
  <2>1. \A id \in Reach : id \in Id /\ Seen(id)
    BY DEF KernelOK, Seen
  <2> QED
    BY <1>2, <1>3, <1>5, <2>1 DEF Passing
<1>10. Root \in family'
  BY <1>3 DEF KernelOK
<1> QED
  BY <1>4, <1>5, <1>8, <1>9, <1>10 DEF KernelOK, Root

LEMMA ExitStep ==
  ASSUME KernelTypeOK, KernelOK, NEW pid \in Pid, Exit(pid)
  PROVE  KernelTypeOK' /\ KernelOK' /\ Passing
<1>1. /\ family' = family /\ takers' = takers /\ births' = births
      /\ \A q \in Pid :
           /\ table'[q].token = table[q].token
           /\ table'[q].up = (table[q].up /\ q # pid)
           /\ table'[q].parent = IF q = pid \/ table[q].parent = pid THEN None ELSE table[q].parent
  BY DEF Exit, KernelTypeOK, Processes
<1>2. KernelTypeOK'
  <2>1. \A q \in Pid : table'[q] \in Processes
    BY DEF Exit, KernelTypeOK, Processes
  <2>2. table' \in [Pid -> Processes]
    BY <2>1 DEF Exit
  <2> QED
    BY <1>1, <2>2 DEF KernelTypeOK
<1>3. Reach' = Reach /\ \A q \in Pid : Holder(q)' = Holder(q)
  BY <1>1 DEF Holder, Reach
<1>4. Passing
  <2>1. \A q \in Pid : table[q].token \in Nat
    BY DEF KernelTypeOK, Processes
  <2>2. \A q \in Pid :
          /\ table[q].token <= table'[q].token
          /\ table'[q].up => table[q].up /\ Holder(q)' = Holder(q)
    <3>1. ASSUME NEW q \in Pid
          PROVE  table[q].token <= table'[q].token /\ (table'[q].up => table[q].up)
      <4>1. table'[q].token = table[q].token /\ table'[q].up = (table[q].up /\ q # pid)
        BY <1>1
      <4>2. table[q].token <= table'[q].token
        BY <2>1, <4>1
      <4> QED
        BY <4>1, <4>2, Zenon
    <3> QED
      BY <1>3, <3>1
  <2> QED
    BY <1>1, <1>2, <1>3, <2>2, PassingTime
<1>5. ASSUME NEW q \in Pid, table'[q].parent # None
      PROVE  ParentOK(q)'
  <2>1. q # pid /\ table[q].parent # pid /\ table'[q].parent = table[q].parent /\ table[q].parent # None
    BY <1>1, <1>5
  <2>2. table[q].parent \in Pid
    BY <2>1 DEF KernelTypeOK, Processes
  <2>3. table[q].up /\ table[table[q].parent].up
        /\ (Holder(table[q].parent) \in Reach => Holder(q) \in Reach)
    BY <2>1 DEF KernelOK, ParentOK
  <2>4. table'[q].up /\ table'[table'[q].parent].up
    BY <1>1, <2>1, <2>2, <2>3
  <2>5. Holder(table[q].parent)' = Holder(table[q].parent) /\ Holder(q)' = Holder(q)
    BY <1>1, <2>1, <2>2 DEF Holder
  <2> QED
    BY <1>3, <2>1, <2>3, <2>4, <2>5 DEF ParentOK
<1>6. \A q \in Pid : ParentOK(q)'
  <2>1. \A q \in Pid : table'[q].parent = None => ParentOK(q)'
    BY DEF ParentOK
  <2> QED
    BY <1>5, <2>1
<1>7. \A id \in Reach' : Seen(id)'
  BY <1>3, <1>4 DEF KernelOK, Passing, Seen
<1> QED
  BY <1>1, <1>2, <1>4, <1>6, <1>7 DEF KernelOK, Root

\* What passes leaves what the attempts know as it was.
LEMMA SystemKeepsAttempts ==
  ASSUME StopIInv, Passing, UNCHANGED <<try, session, stopping>>
  PROVE  AttemptsOK' /\ HostOK'
<1>1. Reach \subseteq Reach' /\ Reach \subseteq Id
  BY DEF Reach, Passing, StopIInv, SessionTypeOK, KernelTypeOK
<1>2. \A id \in Reach : Gone(id) => Gone(id)'
  BY <1>1 DEF StopIInv, KernelOK, Passing
<1>3. Root \in Reach
  BY DEF StopIInv, KernelOK, Reach
<1>4. \A ids \in Seq(Id) : Range(ids) \subseteq Reach /\ AllGone(ids) => AllGone(ids)'
  BY <1>2 DEF AllGone, Range
<1>5. ASSUME NEW a \in Attempt
      PROVE  ProofOK(try[a])'
  <2>1. /\ ProofOK(try[a]) /\ try'[a] = try[a] /\ try[a].covers \in Seq(Id) \cup {None}
        /\ try[a].victims \in Seq(Id)
    BY DEF StopIInv, AttemptsOK, SessionTypeOK, Tries
  <2>2. ASSUME try[a].at = "signal"
        PROVE  try[a].victims # <<>> /\ Within(Last(try[a].victims)[1])'
    <3>1. try[a].victims # <<>> /\ Within(Last(try[a].victims)[1])
      BY <2>1, <2>2 DEF ProofOK
    <3>2. Last(try[a].victims) \in Id
      BY <2>1, <3>1, ListParts
    <3>3. Last(try[a].victims)[1] \in Pid
      BY <3>2 DEF Id
    <3>4. InGap(Last(try[a].victims)[1])
      BY <2>2 DEF InGap
    <3> QED
      BY <2>1, <3>1, <3>3, <3>4 DEF Passing
  <2>3. ASSUME try[a].at = "kill"
        PROVE  Within(WorkerPid)'
    <3>1. Within(WorkerPid) /\ InGap(WorkerPid) /\ WorkerPid \in Pid
      BY <2>1, <2>3, RootTyped DEF ProofOK, InGap
    <3> QED
      BY <3>1 DEF Passing
  <2>4. Last(try[a].victims)' = Last(try[a].victims)
    BY <2>1
  <2> QED
    BY <1>1, <1>2, <1>3, <1>4, <2>1, <2>2, <2>3, <2>4 DEF ProofOK, Root
<1>6. ASSUME NEW a \in Attempt
      PROVE  ScanOK(try[a])'
  <2>1. ScanOK(try[a]) /\ try' = try /\ try[a] \in Tries
    BY DEF StopIInv, AttemptsOK, SessionTypeOK
  <2>2. Gone(try[a].parent) => Gone(try[a].parent)'
    BY <1>2, <2>1 DEF ScanOK
  <2>3. ASSUME try[a].at = "read", NEW pid \in Range(try[a].unread), Within(pid)
        PROVE  Within(pid)'
    <3>1. pid \in Pid
      BY <2>1, ListParts DEF Tries
    <3>2. InGap(pid)
      BY <2>3 DEF InGap
    <3> QED
      BY <2>3, <3>1, <3>2 DEF Passing
  <2> QED
    BY <1>1, <2>1, <2>2, <2>3 DEF ScanOK, Root
<1>7. HostOK'
  BY <1>1, <1>2, <1>3 DEF StopIInv, HostOK, Root
<1> QED
  BY <1>5, <1>6, <1>7 DEF AttemptsOK

LEMMA SystemKept ==
  ASSUME StopIInv, System, UNCHANGED <<stopping, host>>
  PROVE  StopIInv'
<1>1. KernelTypeOK /\ KernelOK
  BY DEF StopIInv, SessionTypeOK
<1>2. KernelTypeOK' /\ KernelOK' /\ Passing
  <2>1. ASSUME NEW pid \in Pid, Stranger(pid)
        PROVE  KernelTypeOK' /\ KernelOK' /\ Passing
    BY <1>1, <2>1, BirthStep DEF Stranger
  <2>2. ASSUME NEW pid \in Pid, NEW parent \in Pid, Fork(parent, pid)
        PROVE  KernelTypeOK' /\ KernelOK' /\ Passing
    BY <1>1, <2>2, BirthStep, NoneIsApart DEF Fork
  <2> QED
    BY <1>1, <2>1, <2>2, ExitStep DEF System
<1>3. UNCHANGED <<try, harmed>>
  BY DEF System, Stranger, Fork, Exit, Birth
<1>4. AttemptsOK' /\ HostOK'
  BY <1>2, <1>3, SystemKeepsAttempts DEF host
<1>5. OnlyTakersAreHarmed'
  BY <1>2, <1>3 DEF StopIInv, OnlyTakersAreHarmed, Passing
<1> QED
  BY <1>2, <1>3, <1>4, <1>5 DEF StopIInv, SessionTypeOK, HostTypeOK, host

-----------------------------------------------------------------------------
(* Steps of the host.                                                      *)

\* Processes are as they were, and so is what is known of them.
LEMMA SameSystem ==
  ASSUME UNCHANGED system
  PROVE  /\ KernelTypeOK <=> KernelTypeOK'
         /\ KernelOK <=> KernelOK'
         /\ \A t : (ScanOK(t) => ScanOK(t)') /\ (ProofOK(t) => ProofOK(t)')
         /\ Reach' = Reach /\ takers' = takers /\ (Gone(Root) => Gone(Root)')
<1>1. table' = table /\ family' = family /\ takers' = takers /\ births' = births
  BY DEF system
<1>2. Reach' = Reach
  BY <1>1 DEF Reach
<1>3. \A id : (Gone(id) <=> Gone(id)') /\ (Seen(id) <=> Seen(id)')
  BY <1>1 DEF Gone, Seen, Holder
<1>4. \A pid : (ParentOK(pid) <=> ParentOK(pid)') /\ (Within(pid) <=> Within(pid)')
  BY <1>1, <1>2 DEF ParentOK, Within, Holder
<1>5. \A t : ScanOK(t) => ScanOK(t)'
  BY <1>2, <1>3, <1>4 DEF ScanOK, Root
<1>6. \A t : ProofOK(t) => ProofOK(t)'
  BY <1>2, <1>3, <1>4 DEF ProofOK, AllGone, Root
<1> QED
  BY <1>1, <1>2, <1>3, <1>4, <1>5, <1>6 DEF KernelTypeOK, KernelOK, Root

\* One attempt moves, or none.
LEMMA SignalStep ==
  ASSUME StopIInv, UNCHANGED system, harmed' \subseteq takers, NEW a \in Attempt, NEW u \in Tries,
         try' = [try EXCEPT ![a] = u], ScanOK(u), ProofOK(u), HostTypeOK', HostOK'
  PROVE  StopIInv'
<1>1. try' \in [Attempt -> Tries]
  BY DEF StopIInv, SessionTypeOK
<1>2. \A b \in Attempt : ScanOK(try'[b]) /\ ProofOK(try'[b])
  BY DEF StopIInv, SessionTypeOK, AttemptsOK
<1>3. AttemptsOK'
  BY <1>2, SameSystem DEF AttemptsOK
<1>4. harmed' \subseteq Id
  BY DEF StopIInv, SessionTypeOK, KernelTypeOK
<1> QED
  BY <1>1, <1>3, <1>4, SameSystem DEF StopIInv, SessionTypeOK, OnlyTakersAreHarmed

LEMMA AttemptStep ==
  ASSUME StopIInv, UNCHANGED <<system, harmed>>, NEW a \in Attempt, NEW u \in Tries,
         try' = [try EXCEPT ![a] = u], ScanOK(u), ProofOK(u), HostTypeOK', HostOK'
  PROVE  StopIInv'
<1>1. harmed' \subseteq takers
  BY DEF StopIInv, OnlyTakersAreHarmed
<1> QED
  BY <1>1, SignalStep

\* What the session has captured and found out about the exit stays.
SessionKept ==
  /\ session' \in Sessions
  /\ session'.captured = session.captured /\ session'.exit = session.exit
  /\ stored' \in BOOLEAN /\ known' \in BOOLEAN /\ requested' \in BOOLEAN

LEMMA PlainStep ==
  ASSUME StopIInv, UNCHANGED <<system, harmed, stopping>>, NEW a \in Attempt, NEW u \in Tries,
         try[a].at \notin {"joined", "kill"}, try' = [try EXCEPT ![a] = u], ScanOK(u), ProofOK(u), SessionKept
  PROVE  StopIInv'
<1>1. HostTypeOK'
  BY DEF SessionKept, HostTypeOK, StopIInv, SessionTypeOK
<1>2. HostOK'
  BY SameSystem DEF SessionKept, HostOK, StopIInv, HostTypeOK, SessionTypeOK
<1> QED
  BY <1>1, <1>2, AttemptStep

LEMMA SessionStep ==
  ASSUME StopIInv, UNCHANGED <<system, harmed, try, stopping>>, SessionKept
  PROVE  StopIInv'
<1>1. HostTypeOK' /\ HostOK'
  BY SameSystem DEF SessionKept, HostTypeOK, HostOK, StopIInv, SessionTypeOK
<1>2. try' = [try EXCEPT ![Run] = try[Run]] /\ try[Run] \in Tries /\ ScanOK(try[Run]) /\ ProofOK(try[Run])
  BY RunIsAttempt DEF StopIInv, SessionTypeOK, AttemptsOK
<1> QED
  BY <1>1, <1>2, RunIsAttempt, AttemptStep

LEMMA HostKept ==
  ASSUME StopIInv, UNCHANGED host
  PROVE  SessionKept
  BY DEF host, SessionKept, StopIInv, SessionTypeOK, HostTypeOK

\* Outside a scan its list is a list of descendants.
LEMMA ScanAtRest ==
  ASSUME StopIInv, NEW t \in Tries, ScanOK(t), t.at \notin Scanning \cup {"found"},
         NEW u \in Tries, u.at \notin Scanning, u.pending = t.pending, u.found = t.found,
         u.parent = t.parent
  PROVE  ScanOK(u)
  BY DEF ScanOK, Scanning

LEMMA ScanEnded ==
  ASSUME StopIInv, NEW u \in Tries, u.at \notin Scanning, u.pending = <<>>, u.found = <<>>,
         u.parent = Root
  PROVE  ScanOK(u)
<1>1. Root \in Reach
  BY DEF StopIInv, KernelOK, Reach
<1>2. Range(<<>>) = {}
  BY DEF Range
<1> QED
  BY <1>1, <1>2 DEF ScanOK, Scanning

LEMMA ScanStarts ==
  ASSUME StopIInv, NEW u \in Tries, u.at = "scan", u.pending = <<Root>>, u.found = <<>>,
         u.parent \in Reach
  PROVE  ScanOK(u)
<1>1. Root \in Reach
  BY DEF StopIInv, KernelOK, Reach
<1>2. Range(u.found) = {} /\ Range(u.pending) = {Root}
  BY DEF Range
<1> QED
  BY <1>1, <1>2 DEF ScanOK

\* Somewhere on the way nothing is claimed.
LEMMA ProofAtRest ==
  ASSUME NEW t \in Tries, ProofOK(t), NEW u \in Tries,
         u.at \notin {"watch", "sweep", "signal", "clear", "kill"}, u.covers = t.covers, u.victims = t.victims,
         u.answer # "worker-stop"
  PROVE  ProofOK(u)
  BY DEF ProofOK

LEMMA IdleParts ==
  /\ Idle \in Tries /\ Idle.at = "idle" /\ Idle.pending = <<>> /\ Idle.found = <<>>
  /\ Idle.parent = Root /\ Idle.covers = None /\ Idle.victims = <<>>
  /\ Idle.answer = None
<1>1. <<>> \in Seq(Id) /\ <<>> \in Seq(Pid) /\ Root \in Id
  BY RootTyped
<1> QED
  BY <1>1 DEF Idle, Tries, Places

LEMMA NoAnswerYet ==
  ASSUME StopIInv, NEW a \in Attempt
  PROVE  /\ try[a] \in Tries /\ ScanOK(try[a]) /\ ProofOK(try[a])
         /\ try[a].at # "done" => try[a].answer # "worker-stop"
  BY DEF StopIInv, SessionTypeOK, AttemptsOK, ProofOK

-----------------------------------------------------------------------------
(* Steps of an attempt that are alike.                                     *)

\* A step to a place where nothing is claimed.
LEMMA RestStep ==
  ASSUME StopIInv, UNCHANGED <<system, harmed, stopping>>, SessionKept, NEW a \in Attempt,
         try[a].at \notin Scanning \cup {"found", "joined", "kill", "done"},
         NEW u \in Tries, try' = [try EXCEPT ![a] = u],
         u.at \notin Scanning \cup {"watch", "sweep", "signal", "clear", "kill"},
         u.pending = try[a].pending, u.found = try[a].found, u.parent = try[a].parent,
         u.covers = try[a].covers, u.victims = try[a].victims,
         u.answer = try[a].answer
  PROVE  StopIInv'
<1>1. try[a] \in Tries /\ ScanOK(try[a]) /\ ProofOK(try[a]) /\ try[a].answer # "worker-stop"
  BY NoAnswerYet
<1>2. ScanOK(u) /\ ProofOK(u)
  BY <1>1, ScanAtRest, ProofAtRest
<1> QED
  BY <1>2, PlainStep

LEMMA GotoStep ==
  ASSUME StopIInv, UNCHANGED <<system, harmed, stopping>>, SessionKept, NEW a \in Attempt, NEW place,
         Goto(a, place), try[a].at \notin Scanning \cup {"found", "joined", "kill", "done"},
         place \in Places \ (Scanning \cup {"watch", "sweep", "signal", "clear", "kill"})
  PROVE  StopIInv'
<1> DEFINE u == [try[a] EXCEPT !.at = place]
<1>1. try[a] \in Tries
  BY NoAnswerYet
<1>2. /\ u \in Tries /\ u.at = place /\ u.pending = try[a].pending /\ u.found = try[a].found
      /\ u.parent = try[a].parent /\ u.covers = try[a].covers
      /\ u.victims = try[a].victims /\ u.answer = try[a].answer
  BY <1>1 DEF Tries
<1>3. try' = [try EXCEPT ![a] = u]
  BY DEF Goto
<1> HIDE DEF u
<1> QED
  BY <1>2, <1>3, RestStep

\* The worker is seen to be gone.
LEMMA ConfirmedOK ==
  ASSUME StopIInv, NEW a \in Attempt, try[a].at \notin Scanning \cup {"found", "done"}, Gone(Root)
  PROVE  /\ Confirmed(try[a]) \in Tries /\ ScanOK(Confirmed(try[a])) /\ ProofOK(Confirmed(try[a]))
<1> DEFINE t == try[a]  u == Confirmed(t)
<1>1. t \in Tries /\ ScanOK(t) /\ ProofOK(t) /\ t.answer # "worker-stop"
  BY NoAnswerYet
<1>2. /\ session.captured \in Seq(Id) \cup {None}
      /\ session.captured # None => Range(session.captured) \subseteq Reach
  BY DEF StopIInv, SessionTypeOK, HostTypeOK, Sessions, HostOK
<1>3. /\ ListAtHand(t) \in Seq(Id) \cup {None}
      /\ ListAtHand(t) # None => Range(ListAtHand(t)) \subseteq Reach
  BY <1>1, <1>2 DEF ListAtHand, Tries, ProofOK
<1>4. <<>> \in Seq(Id) /\ Range(<<>>) = {} /\ AllGone(<<>>)
  BY ListParts DEF AllGone
<1>5. {"clear", "unproven", "watch"} \cap Scanning = {} /\ {"clear", "unproven", "watch"} \subseteq Places
  BY DEF Scanning, Places
<1>6. \/ u = [t EXCEPT !.at = "clear", !.covers = <<>>]
      \/ u = [t EXCEPT !.at = "unproven"]
      \/ u = [t EXCEPT !.at = "watch", !.covers = ListAtHand(t)] /\ ListAtHand(t) # None
  BY DEF Confirmed
<1>7. \E place \in {"clear", "unproven", "watch"}, list \in Seq(Id) \cup {None} :
        /\ u = [t EXCEPT !.at = place, !.covers = list]
        /\ place # "unproven" => list # None
        /\ place = "clear" => list = <<>>
        /\ list # None => Range(list) \subseteq Reach
  <2>1. CASE u = [t EXCEPT !.at = "clear", !.covers = <<>>] 
    BY <1>4, <2>1, NoneIsApart
  <2>2. CASE u = [t EXCEPT !.at = "unproven"]
    <3>1. u = [t EXCEPT !.at = "unproven", !.covers = t.covers] /\ t.covers \in Seq(Id) \cup {None}
      BY <1>1, <2>2 DEF Tries
    <3> QED
      BY <1>1, <3>1 DEF ProofOK
  <2>3. CASE u = [t EXCEPT !.at = "watch", !.covers = ListAtHand(t)] /\ ListAtHand(t) # None
    BY <1>3, <2>3
  <2> QED
    BY <1>6, <2>1, <2>2, <2>3
<1>8. PICK place \in {"clear", "unproven", "watch"}, list \in Seq(Id) \cup {None} :
        /\ u = [t EXCEPT !.at = place, !.covers = list]
        /\ place # "unproven" => list # None
        /\ place = "clear" => list = <<>>
        /\ list # None => Range(list) \subseteq Reach
  BY <1>7
<1> HIDE DEF u, t
<1>9. /\ u \in Tries /\ u.at = place /\ u.pending = t.pending /\ u.found = t.found
      /\ u.parent = t.parent /\ u.covers = list
      /\ u.victims = t.victims /\ u.answer = t.answer
  BY <1>1, <1>5, <1>8 DEF Tries
<1>10. ScanOK(u)
  BY <1>1, <1>5, <1>9, ScanAtRest DEF t
<1>11. ProofOK(u)
  BY <1>1, <1>4, <1>8, <1>9 DEF ProofOK
<1> QED
  BY <1>9, <1>10, <1>11 DEF u, t

LEMMA ConfirmStep ==
  ASSUME StopIInv, UNCHANGED <<system, harmed, stopping, host>>, NEW a \in Attempt, Confirm(a),
         try[a].at \notin Scanning \cup {"found", "joined", "kill", "done"}, Gone(Root)
  PROVE  StopIInv'
<1>1. try' = [try EXCEPT ![a] = Confirmed(try[a])]
  BY DEF Confirm
<1> QED
  BY <1>1, ConfirmedOK, HostKept, PlainStep

\* What an observation tells.
LEMMA ObservedGone ==
  /\ \A id : Observes(id, "stopped") => Gone(id)
  /\ \A id : Observes(id, "running") => ~Gone(id)
  /\ \A ids : Round(ids, "stopped") => AllGone(ids)
  BY DEF Observes, Round

-----------------------------------------------------------------------------
(* A scan.                                                                 *)

LEMMA ScanNextStep ==
  ASSUME StopIInv, UNCHANGED <<system, harmed, stopping, host>>, NEW a \in Attempt, ScanNext(a),
         try[a].at = "scan" \/ (try[a].at = "again" /\ ~Gone(try[a].parent)),
         try[a].pending # <<>>
  PROVE  StopIInv'
<1> DEFINE t == try[a]
           u == [t EXCEPT !.at = "list", !.parent = Last(t.pending), !.pending = Front(t.pending)]
<1>1. /\ t \in Tries /\ ScanOK(t) /\ ProofOK(t) /\ t.answer # "worker-stop"
      /\ t.at \in Scanning /\ "list" \in Places /\ t.at \notin {"joined", "kill", "done"}
  BY NoAnswerYet DEF Scanning, Places
<1>2. /\ Front(t.pending) \in Seq(Id) /\ Last(t.pending) \in Id
      /\ Range(t.pending) = Range(Front(t.pending)) \cup {Last(t.pending)}
  BY <1>1, ListParts DEF Tries
<1>3. /\ u \in Tries /\ u.at = "list" /\ u.parent = Last(t.pending) /\ u.pending = Front(t.pending)
      /\ u.found = t.found /\ u.covers = t.covers /\ u.victims = t.victims
      /\ u.answer = t.answer
  BY <1>1, <1>2 DEF Tries
<1>4. try' = [try EXCEPT ![a] = u]
  BY DEF ScanNext
<1>5. Range(t.found) \subseteq Reach /\ Range(t.pending) \subseteq Reach
  BY <1>1 DEF ScanOK
<1> HIDE DEF u, t
<1>6. ScanOK(u)
  BY <1>2, <1>3, <1>5 DEF ScanOK
<1>7. ProofOK(u)
  BY <1>1, <1>3, ProofAtRest
<1> QED
  BY <1>1, <1>3, <1>4, <1>6, <1>7, HostKept, PlainStep DEF t

LEMMA ScanFailsStep ==
  ASSUME StopIInv, UNCHANGED <<system, harmed, stopping, host>>, NEW a \in Attempt, ScanFails(a),
         try[a].at \in Scanning
  PROVE  StopIInv'
<1> DEFINE t == try[a]  u == [EndScan(t, "lost") EXCEPT !.found = <<>>]
<1>1. /\ t \in Tries /\ ProofOK(t) /\ t.answer # "worker-stop"
      /\ "lost" \in Places \ Scanning /\ t.at \notin {"joined", "kill", "done"}
  BY NoAnswerYet DEF Scanning, Places
<1>2. <<>> \in Seq(Id) /\ <<>> \in Seq(Pid) /\ Root \in Id
  BY RootTyped
<1>3. /\ u \in Tries /\ u.at = "lost" /\ u.parent = Root /\ u.pending = <<>>
      /\ u.found = <<>> /\ u.covers = t.covers /\ u.victims = t.victims
      /\ u.answer = t.answer
  BY <1>1, <1>2 DEF Tries, EndScan
<1>4. try' = [try EXCEPT ![a] = u]
  BY DEF ScanFails
<1> HIDE DEF u
<1>5. ScanOK(u) /\ ProofOK(u)
  BY <1>1, <1>3, ScanEnded, ProofAtRest
<1> QED
  BY <1>1, <1>3, <1>4, <1>5, HostKept, PlainStep

LEMMA ScanFirstKept ==
  ASSUME StopIInv, UNCHANGED <<stopping, host>>, NEW a \in Attempt, ScanFirst(a)
  PROVE  StopIInv'
<1>1. try[a].at = "scan" /\ UNCHANGED <<system, harmed>> /\ (ScanNext(a) \/ ScanFails(a))
  BY DEF ScanFirst
<1>2. ScanOK(try[a]) /\ "scan" \in Scanning
  BY NoAnswerYet DEF Scanning
<1>3. try[a].pending # <<>>
  <2>1. try[a].pending = <<Root>>
    BY <1>1, <1>2, Zenon DEF ScanOK
  <2> QED
    BY <2>1
<1> QED
  BY <1>1, <1>2, <1>3, ScanNextStep, ScanFailsStep

\* The children of one who can be reached can be reached.
LEMMA ScanListKept ==
  ASSUME StopIInv, UNCHANGED <<stopping, host>>, NEW a \in Attempt, ScanList(a)
  PROVE  StopIInv'
<1> DEFINE t == try[a]  pid == t.parent[1]
<1>1. /\ t.at = "list" /\ UNCHANGED <<system, harmed>>
      /\ \/ ScanFails(a)
         \/ \E listed \in SUBSET Children(pid), list \in Seq(Pid) :
              /\ Range(list) = listed
              /\ try' = [try EXCEPT ![a].at = IF listed = {} THEN "again" ELSE "read",
                                    ![a].unread = list]
  <2>1. Children(pid) \subseteq Pid
    BY DEF Children
  <2> QED
    BY <2>1, ListingsTyped DEF ScanList
<1>2. /\ t \in Tries /\ ScanOK(t) /\ ProofOK(t) /\ t.answer # "worker-stop"
      /\ {"list", "again", "read"} \subseteq Scanning /\ {"again", "read"} \subseteq Places
  BY <1>1, NoAnswerYet DEF Scanning, Places
<1>3. CASE ScanFails(a)
  BY <1>1, <1>2, <1>3, ScanFailsStep
<1>4. ASSUME NEW listed \in SUBSET Children(pid), NEW list \in Seq(Pid), Range(list) = listed,
             try' = [try EXCEPT ![a].at = IF listed = {} THEN "again" ELSE "read",
                                ![a].unread = list]
      PROVE  StopIInv'
  <2>1. PICK place \in {"again", "read"} : place = IF listed = {} THEN "again" ELSE "read"
    OBVIOUS
  <2> DEFINE u == [t EXCEPT !.at = place, !.unread = list]
  <2>2. try' = [try EXCEPT ![a] = u]
    BY <1>4, <2>1
  <2>3. /\ u \in Tries /\ u.at = place /\ u.parent = t.parent /\ u.pending = t.pending
        /\ u.found = t.found /\ u.unread = list /\ u.covers = t.covers
        /\ u.victims = t.victims /\ u.answer = t.answer
    BY <1>2, <2>1 DEF Tries
  <2>4. /\ t.parent \in Reach /\ t.parent \in Id
        /\ Range(t.found) \subseteq Reach /\ Range(t.pending) \subseteq Reach
    BY <1>1, <1>2 DEF ScanOK, Tries
  <2>5. place = "read" => list # <<>>
    BY <1>4, <2>1, ListParts
  <2>6. ~Gone(t.parent) => \A q \in listed : Within(q)
    <3>1. ASSUME ~Gone(t.parent), NEW q \in listed
          PROVE  Within(q)
      <4>1. pid \in Pid /\ Holder(pid) = t.parent
        BY <2>4, <3>1 DEF Gone, Id
      <4>2. q \in Pid /\ table[q].parent = pid
        BY DEF Children
      <4>3. Holder(q) \in Reach
        BY <2>4, <4>1, <4>2, NoneIsApart DEF StopIInv, KernelOK, ParentOK
      <4> QED
        BY <4>3 DEF Within
    <3> QED
      BY <3>1
  <2> HIDE DEF u, t
  <2>7. ScanOK(u)
    BY <1>4, <2>1, <2>3, <2>4, <2>5, <2>6 DEF ScanOK
  <2>8. ProofOK(u)
    BY <1>2, <2>1, <2>3, ProofAtRest
  <2> QED
    BY <1>1, <2>2, <2>3, <2>7, <2>8, HostKept, PlainStep DEF t
<1> QED
  BY <1>1, <1>3, <1>4

\* So can whoever has a number by the time its token is read.
LEMMA ScanReadKept ==
  ASSUME StopIInv, UNCHANGED <<stopping, host>>, NEW a \in Attempt, ScanRead(a)
  PROVE  StopIInv'
<1> DEFINE t == try[a]  pid == Head(t.unread)  id == Holder(pid)
<1>1. /\ t.at = "read" /\ UNCHANGED <<system, harmed>>
      /\ \/ ScanFails(a)
         \/ /\ table[pid].up
            /\ try' = [try EXCEPT ![a].at = IF Len(t.unread) = 1 THEN "again" ELSE "read",
                                  ![a].unread = Tail(@), ![a].found = Append(@, id),
                                  ![a].pending = Append(@, id)]
  BY DEF ScanRead
<1>2. /\ t \in Tries /\ ScanOK(t) /\ ProofOK(t) /\ t.answer # "worker-stop"
      /\ {"again", "read"} \subseteq Scanning /\ {"again", "read"} \subseteq Places
  BY <1>1, NoAnswerYet DEF Scanning, Places
<1>3. CASE ScanFails(a)
  BY <1>1, <1>2, <1>3, ScanFailsStep
<1>4. CASE /\ table[pid].up
           /\ try' = [try EXCEPT ![a].at = IF Len(t.unread) = 1 THEN "again" ELSE "read",
                                 ![a].unread = Tail(@), ![a].found = Append(@, id),
                                 ![a].pending = Append(@, id)]
  <2>1. PICK place \in {"again", "read"} : place = IF Len(t.unread) = 1 THEN "again" ELSE "read"
    OBVIOUS
  <2>2. t.unread \in Seq(Pid) /\ t.unread # <<>>
    BY <1>1, <1>2 DEF ScanOK, Tries
  <2>3. /\ pid \in Range(t.unread) /\ pid \in Pid /\ Tail(t.unread) \in Seq(Pid)
        /\ Range(Tail(t.unread)) \subseteq Range(t.unread)
        /\ Len(t.unread) # 1 => Tail(t.unread) # <<>>
    BY <2>2, EndsParts
  <2>4. id \in Id
    BY <2>3 DEF Holder, Id, StopIInv, SessionTypeOK, KernelTypeOK, Processes
  <2> DEFINE u == [t EXCEPT !.at = place, !.unread = Tail(t.unread), !.found = Append(t.found, id),
                            !.pending = Append(t.pending, id)]
  <2>5. try' = [try EXCEPT ![a] = u]
    BY <1>4, <2>1
  <2>6. /\ u \in Tries /\ u.at = place /\ u.parent = t.parent /\ u.pending = Append(t.pending, id)
        /\ u.found = Append(t.found, id) /\ u.unread = Tail(t.unread) /\ u.covers = t.covers
        /\ u.victims = t.victims /\ u.answer = t.answer
    <3>1. Append(t.found, id) \in Seq(Id) /\ Append(t.pending, id) \in Seq(Id)
      BY <1>2, <2>4, EndsParts DEF Tries
    <3> HIDE DEF id, pid
    <3> QED
      BY <1>2, <2>1, <2>3, <3>1 DEF Tries
  <2>7. /\ Range(Append(t.found, id)) = Range(t.found) \cup {id}
        /\ Range(Append(t.pending, id)) = Range(t.pending) \cup {id}
    <3>1. t.found \in Seq(Id) /\ t.pending \in Seq(Id)
      BY <1>2 DEF Tries
    <3> HIDE DEF id, t
    <3> QED
      BY <2>4, <3>1, EndsParts
  <2>8. t.parent \in Reach
    BY <1>2 DEF ScanOK
  <2>9. place = "read" => Tail(t.unread) # <<>>
    BY <2>1, <2>3
  <2>10. CASE Gone(t.parent)
    <3> HIDE DEF u, t, id, pid
    <3>1. ScanOK(u)
      BY <2>1, <2>6, <2>8, <2>9, <2>10 DEF ScanOK
    <3>2. ProofOK(u)
      BY <1>2, <2>1, <2>6, ProofAtRest
    <3> QED
      BY <1>1, <2>5, <2>6, <3>1, <3>2, HostKept, PlainStep DEF t
  <2>11. CASE ~Gone(t.parent)
    <3>1. /\ Range(t.found) \subseteq Reach /\ Range(t.pending) \subseteq Reach
          /\ \A q \in Range(t.unread) : Within(q)
      BY <1>1, <1>2, <2>11 DEF ScanOK
    <3>2. id \in Reach
      BY <1>4, <2>3, <3>1 DEF Within
    <3> HIDE DEF u, t, id, pid
    <3>3. ScanOK(u)
      BY <2>1, <2>3, <2>6, <2>7, <2>8, <2>9, <3>1, <3>2 DEF ScanOK
    <3>4. ProofOK(u)
      BY <1>2, <2>1, <2>6, ProofAtRest
    <3> QED
      BY <1>1, <2>5, <2>6, <3>3, <3>4, HostKept, PlainStep DEF t
  <2> QED
    BY <2>10, <2>11
<1> QED
  BY <1>1, <1>3, <1>4

LEMMA ScanAgainKept ==
  ASSUME StopIInv, UNCHANGED <<stopping, host>>, NEW a \in Attempt, ScanAgain(a)
  PROVE  StopIInv'
<1>1. /\ try[a].at = "again" /\ UNCHANGED <<system, harmed>>
      /\ \/ ScanFails(a)
         \/ /\ ~Gone(try[a].parent)
            /\ IF try[a].pending = <<>> THEN Goto(a, "root") ELSE ScanNext(a)
  BY ObservedGone DEF ScanAgain, ProcessState
<1>2. "again" \in Scanning /\ "root" \in Scanning
  BY DEF Scanning
<1>3. CASE ScanFails(a)
  BY <1>1, <1>2, <1>3, ScanFailsStep
<1>4. CASE try[a].pending # <<>> /\ ~Gone(try[a].parent) /\ ScanNext(a)
  BY <1>1, <1>4, ScanNextStep
<1>5. CASE try[a].pending = <<>> /\ ~Gone(try[a].parent) /\ Goto(a, "root")
  <2> DEFINE t == try[a]  u == [t EXCEPT !.at = "root"]
  <2>1. /\ t \in Tries /\ ScanOK(t) /\ ProofOK(t) /\ t.answer # "worker-stop"
        /\ "root" \in Places
    BY <1>1, NoAnswerYet DEF Scanning, Places
  <2>2. /\ u \in Tries /\ u.at = "root" /\ u.parent = t.parent /\ u.pending = <<>>
        /\ u.found = t.found /\ u.covers = t.covers
        /\ u.victims = t.victims /\ u.answer = t.answer
    BY <1>5, <2>1 DEF Tries
  <2>3. try' = [try EXCEPT ![a] = u]
    BY <1>5 DEF Goto
  <2>4. t.parent \in Reach /\ Range(t.found) \subseteq Reach /\ Range(t.pending) \subseteq Reach
    BY <1>1, <1>2, <1>5, <2>1 DEF ScanOK
  <2>5. t.pending = <<>> /\ t.at = "again"
    BY <1>1, <1>5
  <2> HIDE DEF u, t
  <2>6. ScanOK(u)
    BY <2>2, <2>4, <2>5 DEF ScanOK
  <2>7. ProofOK(u)
    BY <2>1, <2>2, ProofAtRest
  <2> QED
    BY <1>1, <2>2, <2>3, <2>5, <2>6, <2>7, HostKept, PlainStep DEF t
<1> QED
  BY <1>1, <1>3, <1>4, <1>5

LEMMA ScanRootKept ==
  ASSUME StopIInv, UNCHANGED <<stopping, host>>, NEW a \in Attempt, ScanRoot(a)
  PROVE  StopIInv'
<1> DEFINE t == try[a]  u == EndScan(t, "found")
<1>1. /\ t.at = "root" /\ UNCHANGED <<system, harmed>>
      /\ ScanFails(a) \/ try' = [try EXCEPT ![a] = u]
  BY DEF ScanRoot
<1>2. /\ t \in Tries /\ ScanOK(t) /\ ProofOK(t) /\ t.answer # "worker-stop"
      /\ "root" \in Scanning /\ "found" \in Places \ Scanning
  BY <1>1, NoAnswerYet DEF Scanning, Places
<1>3. CASE ScanFails(a)
  BY <1>1, <1>2, <1>3, ScanFailsStep
<1>4. CASE try' = [try EXCEPT ![a] = u]
  <2>1. <<>> \in Seq(Id) /\ <<>> \in Seq(Pid) /\ Root \in Id /\ Range(<<>>) = {}
    BY RootTyped, ListParts
  <2>2. /\ u \in Tries /\ u.at = "found" /\ u.parent = Root /\ u.pending = <<>>
        /\ u.found = t.found /\ u.covers = t.covers
        /\ u.victims = t.victims /\ u.answer = t.answer
    BY <1>2, <2>1 DEF Tries, EndScan
  <2>3. Range(t.found) \subseteq Reach
    BY <1>1, <1>2 DEF ScanOK
  <2>4. Root \in Reach
    BY DEF StopIInv, KernelOK, Reach
  <2> HIDE DEF u
  <2>5. ScanOK(u)
    BY <1>2, <2>1, <2>2, <2>3, <2>4 DEF ScanOK
  <2>6. ProofOK(u)
    BY <1>2, <2>2, ProofAtRest
  <2> QED
    BY <1>1, <1>4, <2>2, <2>5, <2>6, HostKept, PlainStep
<1> QED
  BY <1>1, <1>3, <1>4

-----------------------------------------------------------------------------
(* Signals.                                                                *)

LEMMA VictimParts ==
  ASSUME StopIInv, NEW a \in Attempt, try[a].victims # <<>>
  PROVE  /\ Front(try[a].victims) \in Seq(Id) /\ Victim(a) \in Id /\ Victim(a)[1] \in Pid
         /\ Range(try[a].victims) = Range(Front(try[a].victims)) \cup {Victim(a)}
         /\ Range(try[a].victims) \subseteq Reach
<1>1. try[a].victims \in Seq(Id) /\ ProofOK(try[a])
  BY NoAnswerYet DEF Tries
<1>2. Victim(a) \in Id
  BY <1>1, ListParts DEF Victim
<1> QED
  BY <1>1, <1>2, ListParts DEF Victim, ProofOK, Id

\* The signal of a victim that can be reached harms at most takers.
LEMMA SignalHarms ==
  ASSUME StopIInv, NEW pid \in Pid, table[pid].up, Within(pid), Signals(pid)
  PROVE  harmed' \subseteq takers
<1>1. Holder(pid) \in family \cup takers
  BY DEF Within, Reach
<1> QED
  BY <1>1 DEF Signals, StopIInv, OnlyTakersAreHarmed

LEMMA SpentStep ==
  ASSUME StopIInv, UNCHANGED <<system, stopping, host>>, NEW a \in Attempt, Spent(a),
         try[a].at \in {"sweep", "signal"}, try[a].victims # <<>>, harmed' \subseteq takers
  PROVE  StopIInv'
<1> DEFINE t == try[a]  u == [t EXCEPT !.at = "sweep", !.victims = Front(t.victims)]
<1>1. /\ t \in Tries /\ ScanOK(t) /\ ProofOK(t) /\ t.answer # "worker-stop"
      /\ t.at \notin Scanning \cup {"found", "joined", "kill"} /\ "sweep" \in Places \ Scanning
  BY NoAnswerYet DEF Scanning, Places
<1>2. /\ Front(t.victims) \in Seq(Id) /\ Range(Front(t.victims)) \subseteq Reach
  BY VictimParts
<1>3. /\ u \in Tries /\ u.at = "sweep" /\ u.parent = t.parent /\ u.pending = t.pending
      /\ u.found = t.found /\ u.covers = t.covers
      /\ u.victims = Front(t.victims) /\ u.answer = t.answer
  BY <1>1, <1>2 DEF Tries
<1>4. try' = [try EXCEPT ![a] = u]
  BY DEF Spent
<1>5. HostTypeOK /\ HostOK
  BY DEF StopIInv, SessionTypeOK
<1> HIDE DEF u
<1>6. ScanOK(u)
  BY <1>1, <1>3, ScanAtRest
<1>7. ProofOK(u)
  BY <1>1, <1>2, <1>3 DEF ProofOK
<1>8. HostTypeOK'
  BY <1>5 DEF HostTypeOK, host
<1>9. HostOK'
  <2>1. \A b \in stopping : b # a /\ try'[b] = try[b]
    BY <1>1, <1>4, <1>5 DEF HostOK, HostTypeOK
  <2> QED
    BY <1>5, <2>1, SameSystem DEF HostOK, host
<1> QED
  BY <1>3, <1>4, <1>6, <1>7, <1>8, <1>9, SignalStep

\* A victim that was observed has its number, or has left it to a taker.
LEMMA SweepKept ==
  ASSUME StopIInv, UNCHANGED <<stopping, host>>, NEW a \in Attempt, Sweep(a)
  PROVE  StopIInv'
<1> DEFINE t == try[a]  u == [t EXCEPT !.at = "signal"]
<1>1. /\ t.at = "sweep" /\ t.victims # <<>> /\ UNCHANGED <<system, harmed>>
      /\ Goto(a, "unproven") \/ Spent(a) \/ (~Gone(Victim(a)) /\ try' = [try EXCEPT ![a] = u])
  BY ObservedGone DEF Sweep, ProcessState, Goto
<1>2. /\ t \in Tries /\ ScanOK(t) /\ ProofOK(t) /\ t.answer # "worker-stop"
      /\ "sweep" \notin Scanning /\ {"unproven", "signal"} \subseteq Places \ Scanning
  BY <1>1, NoAnswerYet DEF Scanning, Places
<1>3. CASE Goto(a, "unproven")
  BY <1>1, <1>2, <1>3, HostKept, GotoStep
<1>4. CASE Spent(a)
  <2>1. harmed' \subseteq takers
    BY <1>1 DEF StopIInv, OnlyTakersAreHarmed
  <2> QED
    BY <1>1, <1>4, <2>1, SpentStep
<1>5. CASE ~Gone(Victim(a)) /\ try' = [try EXCEPT ![a] = u]
  <2>1. Within(Victim(a)[1])
    <3>1. Holder(Victim(a)[1]) = Victim(a) /\ Victim(a) \in Reach
      BY <1>1, <1>5, VictimParts DEF Gone
    <3> QED
      BY <3>1 DEF Within
  <2>2. /\ u \in Tries /\ u.at = "signal" /\ u.parent = t.parent /\ u.pending = t.pending
        /\ u.found = t.found /\ u.covers = t.covers /\ u.victims = t.victims
        /\ u.answer = t.answer
    BY <1>2 DEF Tries
  <2> HIDE DEF u
  <2>3. ScanOK(u)
    BY <1>1, <1>2, <2>2, ScanAtRest
  <2>4. ProofOK(u)
    BY <1>1, <1>2, <2>1, <2>2 DEF ProofOK, Victim
  <2> QED
    BY <1>1, <1>5, <2>2, <2>3, <2>4, HostKept, PlainStep
<1> QED
  BY <1>1, <1>3, <1>4, <1>5

LEMMA SignalKept ==
  ASSUME StopIInv, UNCHANGED <<stopping, host>>, NEW a \in Attempt, Signal(a)
  PROVE  StopIInv'
<1>1. /\ try[a].at = "signal" /\ UNCHANGED system
      /\ \/ table[Victim(a)[1]].up /\ Signals(Victim(a)[1]) /\ Spent(a)
         \/ UNCHANGED harmed /\ (Spent(a) \/ Goto(a, "unproven"))
  BY DEF Signal
<1>2. /\ "signal" \notin Scanning /\ "unproven" \in Places \ Scanning
      /\ try[a].victims # <<>> /\ Within(Victim(a)[1])
  BY <1>1, NoAnswerYet DEF Scanning, Places, ProofOK, Victim
<1>3. CASE Spent(a)
  <2>1. harmed' \subseteq takers
    BY <1>1, <1>2, VictimParts, SignalHarms DEF StopIInv, OnlyTakersAreHarmed
  <2> QED
    BY <1>1, <1>2, <1>3, <2>1, SpentStep
<1>4. CASE Goto(a, "unproven") /\ UNCHANGED harmed
  BY <1>1, <1>2, <1>4, HostKept, GotoStep
<1> QED
  BY <1>1, <1>3, <1>4

\* All that is covered has been seen to be gone.
LEMMA ClearStep ==
  ASSUME StopIInv, UNCHANGED <<system, harmed, stopping, host>>, NEW a \in Attempt, Goto(a, "clear"),
         try[a].at \in {"watch", "sweep"}, AllGone(try[a].covers)
  PROVE  StopIInv'
<1> DEFINE t == try[a]  u == [t EXCEPT !.at = "clear"]
<1>1. /\ t \in Tries /\ ScanOK(t) /\ ProofOK(t) /\ t.answer # "worker-stop"
      /\ t.at \notin Scanning /\ t.at \notin {"done", "joined", "kill"} /\ "clear" \in Places \ Scanning
  BY NoAnswerYet DEF Scanning, Places
<1>2. /\ u \in Tries /\ u.at = "clear" /\ u.parent = t.parent /\ u.pending = t.pending
      /\ u.found = t.found /\ u.covers = t.covers
      /\ u.victims = t.victims /\ u.answer = t.answer
  BY <1>1 DEF Tries
<1>3. try' = [try EXCEPT ![a] = u]
  BY DEF Goto
<1> HIDE DEF u
<1>4. ScanOK(u)
  BY <1>1, <1>2, ScanAtRest
<1>5. ProofOK(u)
  BY <1>1, <1>2 DEF ProofOK
<1> QED
  BY <1>1, <1>2, <1>3, <1>4, <1>5, HostKept, PlainStep

LEMMA RewatchKept ==
  ASSUME StopIInv, UNCHANGED <<stopping, host>>, NEW a \in Attempt, Rewatch(a)
  PROVE  StopIInv'
<1>1. /\ try[a].at = "sweep" /\ UNCHANGED <<system, harmed>>
      /\ Goto(a, "unproven") \/ (Goto(a, "clear") /\ AllGone(try[a].covers))
  BY ObservedGone DEF Rewatch, ProcessState
<1>2. "sweep" \notin Scanning /\ "unproven" \in Places \ Scanning
  BY DEF Scanning, Places
<1> QED
  BY <1>1, <1>2, HostKept, GotoStep, ClearStep

LEMMA ControlKept ==
  ASSUME StopIInv, UNCHANGED <<stopping, host>>, NEW a \in Attempt, Control(a)
  PROVE  StopIInv'
  BY ScanFirstKept, ScanListKept, ScanReadKept, ScanAgainKept, ScanRootKept, SweepKept, SignalKept,
     RewatchKept DEF Control, Scan

-----------------------------------------------------------------------------
(* A cancellation.                                                         *)

LEMMA ClosedKept ==
  ASSUME StopIInv, Closed, UNCHANGED <<stored>>, known' \in BOOLEAN, requested' \in BOOLEAN
  PROVE  SessionKept
  BY DEF Closed, SessionKept, StopIInv, SessionTypeOK, HostTypeOK, Sessions

LEMMA PeerKept ==
  ASSUME StopIInv, Peer
  PROVE  StopIInv'
<1>1. UNCHANGED <<system, harmed, try, stopping>>
  BY DEF Peer, Connect, Identify, AcknowledgeCancel, Disconnect
<1>2. SessionKept
  BY DEF Peer, Connect, Identify, AcknowledgeCancel, Disconnect, Closed, SessionKept, StopIInv,
         SessionTypeOK, HostTypeOK, Sessions
<1> QED
  BY <1>1, <1>2, SessionStep

\* A scan is begun, by an attempt that is changed in nothing else it knows.
LEMMA StartScanStep ==
  ASSUME StopIInv, UNCHANGED <<system, harmed, stopping>>, SessionKept, NEW a \in Attempt,
         try[a].at \notin Scanning \cup {"found", "joined", "kill", "done"},
         NEW t \in Tries, NEW next \in {"stop", "request", "acknowledged", "observe", "acknowledge"},
         t.found = try[a].found, t.parent = try[a].parent, t.covers = try[a].covers,
         t.victims = try[a].victims, t.answer = try[a].answer,
         try' = [try EXCEPT ![a] = StartScan(t, next)]
  PROVE  StopIInv'
<1> DEFINE u == StartScan(t, next)
<1>1. /\ try[a] \in Tries /\ ScanOK(try[a]) /\ ProofOK(try[a]) /\ try[a].answer # "worker-stop"
      /\ "scan" \in Places /\ "scan" \in Scanning
  BY NoAnswerYet DEF Scanning, Places
<1>2. try[a].found = <<>> /\ try[a].parent \in Reach
  BY <1>1 DEF ScanOK, Scanning
<1>3. <<Root>> \in Seq(Id)
  BY RootTyped
<1>4. /\ u \in Tries /\ u.at = "scan" /\ u.pending = <<Root>> /\ u.found = t.found
      /\ u.parent = t.parent /\ u.covers = t.covers
      /\ u.victims = t.victims /\ u.answer = t.answer
  BY <1>1, <1>3 DEF Tries, StartScan
<1>5. try' = [try EXCEPT ![a] = u]
  OBVIOUS
<1> HIDE DEF u
<1>6. ScanOK(u)
  BY <1>2, <1>4, ScanStarts
<1>7. ProofOK(u)
  BY <1>1, <1>4, ProofAtRest
<1> QED
  BY <1>4, <1>5, <1>6, <1>7, PlainStep

LEMMA CancelSessionKept ==
  ASSUME StopIInv, NEW a \in Attempt, CancelSession(a)
  PROVE  StopIInv'
<1> DEFINE t == try[a]
<1>1. /\ t.at = "idle" /\ UNCHANGED <<system, harmed, stopping, stored, known>>
      /\ CancelWithoutSession(a) \/ CancelWithSession(a)
      /\ requested' = (requested \/ a # Run)
  BY DEF CancelSession
<1>2. /\ t \in Tries /\ "idle" \notin Scanning /\ {"look", "unproven", "request"} \subseteq Places
      /\ {"look", "unproven", "request"} \cap Scanning = {}
  BY NoAnswerYet DEF Scanning, Places
<1>3. stored \in BOOLEAN /\ known \in BOOLEAN /\ requested \in BOOLEAN /\ session \in Sessions
  BY DEF StopIInv, SessionTypeOK, HostTypeOK
<1>4. requested' \in BOOLEAN
  BY <1>1, <1>3
<1>5. CASE CancelWithoutSession(a)
  <2>1. PICK place \in {"look", "unproven"} : place = IF known \/ stored THEN "look" ELSE "unproven"
    OBVIOUS
  <2> DEFINE u == [t EXCEPT !.own = TRUE, !.at = place]
  <2>2. try' = [try EXCEPT ![a] = u] /\ Closed
    BY <1>5, <2>1 DEF CancelWithoutSession
  <2>3. /\ u \in Tries /\ u.at = place /\ u.pending = t.pending /\ u.found = t.found
        /\ u.parent = t.parent /\ u.covers = t.covers
        /\ u.victims = t.victims /\ u.answer = t.answer
    BY <1>2, <2>1 DEF Tries
  <2>4. SessionKept
    BY <1>1, <1>3, <1>4, <2>2, ClosedKept
  <2> HIDE DEF u
  <2> QED
    BY <1>1, <1>2, <2>1, <2>2, <2>3, <2>4, RestStep
<1>6. CASE CancelWithSession(a)
  <2>1. SessionKept
    BY <1>1, <1>3, <1>4, <1>6 DEF SessionKept, CancelWithSession
  <2>2. \/ try' = [try EXCEPT ![a] = StartScan(t, "request")]
        \/ try' = [try EXCEPT ![a] = [t EXCEPT !.at = "request"]]
    BY <1>6 DEF CancelWithSession
  <2>3. CASE try' = [try EXCEPT ![a] = StartScan(t, "request")]
    BY <1>1, <1>2, <2>1, <2>3, StartScanStep
  <2>4. CASE try' = [try EXCEPT ![a] = [t EXCEPT !.at = "request"]]
    <3>1. Goto(a, "request")
      BY <2>4 DEF Goto
    <3> QED
      BY <1>1, <1>2, <2>1, <3>1, GotoStep
  <2> QED
    BY <2>2, <2>3, <2>4
<1> QED
  BY <1>1, <1>5, <1>6

LEMMA LookKept ==
  ASSUME StopIInv, NEW a \in Attempt, Look(a)
  PROVE  StopIInv'
<1> DEFINE t == try[a]
<1>1. /\ t.at = "look" /\ UNCHANGED <<system, harmed, stopping, host>>
      /\ \/ Goto(a, "unproven") \/ Goto(a, "stop")
         \/ try' = [try EXCEPT ![a] = StartScan(t, "stop")]
         \/ Gone(Root) /\ try' = [try EXCEPT ![a] = [t EXCEPT !.at = "clear", !.covers = <<>>]]
  BY ObservedGone DEF Look, Goto, ProcessState
<1>2. /\ t \in Tries /\ ScanOK(t) /\ ProofOK(t) /\ t.answer # "worker-stop"
      /\ "look" \notin Scanning /\ {"unproven", "stop", "clear"} \subseteq Places \ Scanning
  BY <1>1, NoAnswerYet DEF Scanning, Places
<1>3. CASE Goto(a, "unproven") \/ Goto(a, "stop")
  BY <1>1, <1>2, <1>3, HostKept, GotoStep
<1>4. CASE try' = [try EXCEPT ![a] = StartScan(t, "stop")]
  BY <1>1, <1>2, <1>4, HostKept, StartScanStep
<1>5. CASE Gone(Root) /\ try' = [try EXCEPT ![a] = [t EXCEPT !.at = "clear", !.covers = <<>>]]
  <2> DEFINE u == [t EXCEPT !.at = "clear", !.covers = <<>>]
  <2>1. <<>> \in Seq(Id) /\ Range(<<>>) = {} /\ AllGone(<<>>)
    BY ListParts DEF AllGone
  <2>2. /\ u \in Tries /\ u.at = "clear" /\ u.pending = t.pending /\ u.found = t.found
        /\ u.parent = t.parent /\ u.covers = <<>>
        /\ u.victims = t.victims /\ u.answer = t.answer
    BY <1>2, <2>1 DEF Tries
  <2>3. try' = [try EXCEPT ![a] = u]
    BY <1>5
  <2> HIDE DEF u
  <2>4. ScanOK(u)
    BY <1>1, <1>2, <2>2, ScanAtRest
  <2>5. ProofOK(u)
    BY <1>2, <1>5, <2>1, <2>2, NoneIsApart DEF ProofOK
  <2> QED
    BY <1>1, <1>2, <2>2, <2>3, <2>4, <2>5, HostKept, PlainStep
<1> QED
  BY <1>1, <1>3, <1>4, <1>5

\* The scan's list is the attempt's, or is merged into that of the session.
LEMMA ScanEndsKept ==
  ASSUME StopIInv, NEW a \in Attempt, ScanEnds(a)
  PROVE  StopIInv'
<1> DEFINE t == try[a]
<1>1. /\ t.at \in {"found", "lost"} /\ UNCHANGED <<system, harmed, stopping, stored, known, requested>>
      /\ \/ Goto(a, "unproven") /\ UNCHANGED session /\ t.at = "lost"
         \/ try' = [try EXCEPT ![a] = [t EXCEPT !.at = t.next, !.covers = t.found, !.found = <<>>]]
            /\ UNCHANGED session
         \/ try' = [try EXCEPT ![a] = [t EXCEPT !.at = t.next, !.found = <<>>]]
            /\ UNCHANGED session
         \/ try' = [try EXCEPT ![a] = [t EXCEPT !.at = t.next, !.found = <<>>]]
            /\ \E merged \in Merges(session.captured, t.found) :
                 session' = [session EXCEPT !.captured = merged]
  BY DEF ScanEnds, Goto
<1>2. /\ t \in Tries /\ ScanOK(t) /\ ProofOK(t) /\ t.answer # "worker-stop"
      /\ {"found", "lost"} \cap Scanning = {} /\ "unproven" \in Places \ Scanning
      /\ t.next \in Places \ (Scanning \cup {"found", "watch", "sweep", "signal", "clear", "kill", "done"})
      /\ <<>> \in Seq(Id) /\ Range(<<>>) = {}
  BY <1>1, NoAnswerYet, ListParts DEF Scanning, Places, Tries
<1>3. Range(t.found) \subseteq Reach /\ t.found \in Seq(Id)
  BY <1>1, <1>2 DEF ScanOK, Tries
<1>4. SessionKept \/ session' # session
  BY <1>1 DEF SessionKept, StopIInv, SessionTypeOK, HostTypeOK
<1>5. ASSUME NEW covers \in Seq(Id) \cup {None}, covers # None => Range(covers) \subseteq Reach,
             NEW u \in Tries, u = [t EXCEPT !.at = t.next, !.covers = covers, !.found = <<>>]
      PROVE  ScanOK(u) /\ ProofOK(u)
  <2>1. /\ u.at = t.next /\ u.pending = t.pending /\ u.found = <<>>
        /\ u.parent = t.parent /\ u.covers = covers
        /\ u.victims = t.victims /\ u.answer = t.answer
    BY <1>2, <1>5 DEF Tries
  <2>2. ScanOK(u)
    <3>1. t.parent \in Reach /\ Range(t.pending) \subseteq Reach
      BY <1>1, <1>2 DEF ScanOK
    <3> HIDE DEF t
    <3> QED
      BY <1>2, <2>1, <3>1 DEF ScanOK, Scanning
  <2>3. ProofOK(u)
    BY <1>2, <1>5, <2>1 DEF ProofOK
  <2> QED
    BY <2>2, <2>3
<1>6. CASE Goto(a, "unproven") /\ UNCHANGED session /\ t.at = "lost"
  BY <1>1, <1>2, <1>4, <1>6, GotoStep
<1>7. CASE try' = [try EXCEPT ![a] = [t EXCEPT !.at = t.next, !.covers = t.found, !.found = <<>>]]
           /\ UNCHANGED session
  <2> DEFINE u == [t EXCEPT !.at = t.next, !.covers = t.found, !.found = <<>>]
  <2>1. u \in Tries /\ u = [t EXCEPT !.at = t.next, !.covers = t.found, !.found = <<>>]
    BY <1>2, <1>3 DEF Tries
  <2>2. try' = [try EXCEPT ![a] = u]
    BY <1>7
  <2> HIDE DEF u
  <2>3. ScanOK(u) /\ ProofOK(u)
    BY <1>3, <1>5, <2>1
  <2> QED
    BY <1>1, <1>4, <1>7, <2>1, <2>2, <2>3, PlainStep
<1>8. ASSUME try' = [try EXCEPT ![a] = [t EXCEPT !.at = t.next, !.found = <<>>]]
      PROVE  \E u \in Tries : try' = [try EXCEPT ![a] = u] /\ ScanOK(u) /\ ProofOK(u)
  <2> DEFINE u == [t EXCEPT !.at = t.next, !.found = <<>>]
  <2>1. u \in Tries /\ u = [t EXCEPT !.at = t.next, !.covers = t.covers, !.found = <<>>]
    BY <1>2 DEF Tries
  <2>2. try' = [try EXCEPT ![a] = u]
    BY <1>8
  <2>3. t.covers \in Seq(Id) \cup {None} /\ (t.covers # None => Range(t.covers) \subseteq Reach)
    BY <1>2 DEF Tries, ProofOK
  <2> HIDE DEF u
  <2> QED
    BY <1>5, <2>1, <2>2, <2>3
<1>9. CASE try' = [try EXCEPT ![a] = [t EXCEPT !.at = t.next, !.found = <<>>]] /\ UNCHANGED session
  BY <1>1, <1>4, <1>8, <1>9, PlainStep
<1>10. CASE try' = [try EXCEPT ![a] = [t EXCEPT !.at = t.next, !.found = <<>>]]
            /\ \E merged \in Merges(session.captured, t.found) :
                 session' = [session EXCEPT !.captured = merged]
  <2>1. PICK merged \in Merges(session.captured, t.found) :
               session' = [session EXCEPT !.captured = merged]
    BY <1>10
  <2>2. session \in Sessions /\ session.captured \in Seq(Id) \cup {None} /\ HostTypeOK /\ HostOK
    BY DEF StopIInv, SessionTypeOK, HostTypeOK, Sessions
  <2>3. merged \in Seq(Id) /\ Range(merged) \subseteq Reach
    <3>1. merged \in Seq(Id)
          /\ Range(merged) \subseteq
               Range(t.found) \cup (IF session.captured = None THEN {} ELSE Range(session.captured))
      BY <1>3, <2>1, <2>2, MergesTyped
    <3> QED
      BY <1>3, <2>2, <3>1 DEF HostOK
  <2>4. session' \in Sessions /\ session'.captured = merged /\ session'.exit = session.exit
    BY <2>1, <2>2, <2>3 DEF Sessions
  <2>5. HostTypeOK'
    BY <1>1, <2>2, <2>4 DEF HostTypeOK
  <2>6. HostOK'
    <3>1. \A b \in stopping : b # a /\ try'[b] = try[b]
      BY <1>1, <1>8, <1>10, <2>2 DEF HostOK, HostTypeOK
    <3> QED
      BY <1>1, <2>2, <2>3, <2>4, <3>1, SameSystem DEF HostOK
  <2> QED
    BY <1>1, <1>8, <1>10, <2>5, <2>6, AttemptStep
<1> QED
  BY <1>1, <1>6, <1>7, <1>9, <1>10

LEMMA ScanTimesOutKept ==
  ASSUME StopIInv, NEW a \in Attempt, ScanTimesOut(a)
  PROVE  StopIInv'
<1> DEFINE t == try[a]  u == [EndScan(t, t.next) EXCEPT !.found = <<>>]
<1>1. t.at \in Scanning /\ UNCHANGED <<system, harmed, stopping, host>> /\ try' = [try EXCEPT ![a] = u]
  BY DEF ScanTimesOut
<1>2. /\ t \in Tries /\ ProofOK(t) /\ t.answer # "worker-stop" /\ t.at \notin {"joined", "kill"}
      /\ t.next \in Places \ (Scanning \cup {"found", "watch", "sweep", "signal", "clear", "kill", "done"})
      /\ <<>> \in Seq(Id) /\ <<>> \in Seq(Pid) /\ Root \in Id
  BY <1>1, NoAnswerYet, RootTyped DEF Scanning, Places, Tries
<1>3. /\ u \in Tries /\ u.at = t.next /\ u.parent = Root /\ u.pending = <<>>
      /\ u.found = <<>> /\ u.covers = t.covers /\ u.victims = t.victims
      /\ u.answer = t.answer
  BY <1>2 DEF Tries, EndScan
<1> HIDE DEF u
<1>4. ScanOK(u) /\ ProofOK(u)
  BY <1>2, <1>3, ScanEnded, ProofAtRest
<1> QED
  BY <1>1, <1>2, <1>3, <1>4, HostKept, PlainStep

LEMMA RequestKept ==
  ASSUME StopIInv, NEW a \in Attempt, Request(a)
  PROVE  StopIInv'
<1> DEFINE t == try[a]
<1>1. /\ t.at = "request" /\ UNCHANGED <<system, harmed, stopping, stored, known, requested>>
      /\ \/ /\ session' = [session EXCEPT !.protocol = "cancelling"]
            /\ try' = [try EXCEPT ![a] = StartScan([t EXCEPT !.ends = TRUE], "acknowledged")]
         \/ /\ session' = [session EXCEPT !.protocol = "unsent"]
            /\ try' = [try EXCEPT ![a] = StartScan(t, "observe")]
  BY DEF Request
<1>2. t \in Tries /\ "request" \notin Scanning
  BY NoAnswerYet DEF Scanning
<1>3. SessionKept
  BY <1>1 DEF SessionKept, StopIInv, SessionTypeOK, HostTypeOK, Sessions
<1>4. CASE try' = [try EXCEPT ![a] = StartScan([t EXCEPT !.ends = TRUE], "acknowledged")]
  <2> DEFINE u == [t EXCEPT !.ends = TRUE]
  <2>1. /\ u \in Tries /\ u.found = t.found /\ u.parent = t.parent /\ u.covers = t.covers
        /\ u.victims = t.victims /\ u.answer = t.answer
    BY <1>2 DEF Tries
  <2>2. try' = [try EXCEPT ![a] = StartScan(u, "acknowledged")]
    BY <1>4
  <2> HIDE DEF u
  <2> QED
    BY <1>1, <1>2, <1>3, <2>1, <2>2, StartScanStep
<1>5. CASE try' = [try EXCEPT ![a] = StartScan(t, "observe")]
  BY <1>1, <1>2, <1>3, <1>5, StartScanStep
<1> QED
  BY <1>1, <1>4, <1>5

LEMMA RequestIsRefusedKept ==
  ASSUME StopIInv, NEW a \in Attempt, RequestIsRefused(a)
  PROVE  StopIInv'
<1> DEFINE t == try[a]
<1>1. /\ t.at = "request" /\ UNCHANGED <<system, harmed, stopping, stored, known, requested>>
      /\ session' = session \/ Closed
      /\ \/ Goto(a, "exit") \/ Goto(a, "unproven")
         \/ try' = [try EXCEPT ![a] = [t EXCEPT !.at = "observe", !.ends = TRUE]]
  BY DEF RequestIsRefused
<1>2. /\ t \in Tries /\ "request" \notin Scanning
      /\ {"exit", "unproven", "observe"} \subseteq Places \ Scanning
  BY NoAnswerYet DEF Scanning, Places
<1>3. SessionKept
  BY <1>1 DEF Closed, SessionKept, StopIInv, SessionTypeOK, HostTypeOK, Sessions
<1>4. CASE Goto(a, "exit") \/ Goto(a, "unproven")
  BY <1>1, <1>2, <1>3, <1>4, GotoStep
<1>5. CASE try' = [try EXCEPT ![a] = [t EXCEPT !.at = "observe", !.ends = TRUE]]
  <2> DEFINE u == [t EXCEPT !.at = "observe", !.ends = TRUE]
  <2>1. /\ u \in Tries /\ u.at = "observe" /\ u.pending = t.pending /\ u.found = t.found
        /\ u.parent = t.parent /\ u.covers = t.covers
        /\ u.victims = t.victims /\ u.answer = t.answer
    BY <1>2 DEF Tries
  <2>2. try' = [try EXCEPT ![a] = u]
    BY <1>5
  <2> HIDE DEF u
  <2> QED
    BY <1>1, <1>2, <1>3, <2>1, <2>2, RestStep
<1> QED
  BY <1>1, <1>4, <1>5

\* Those who wait for the worker: each sees it gone, goes on or gives up.
LEMMA WaitKept ==
  ASSUME StopIInv, NEW a \in Attempt,
         AwaitExit(a) \/ Observe(a) \/ AwaitAcknowledgement(a) \/ AwaitLeave(a)
  PROVE  StopIInv'
<1>1. /\ try[a].at \in {"exit", "observe", "acknowledged", "leaving"}
      /\ UNCHANGED <<system, harmed, stopping, host>>
      /\ \/ Gone(Root) /\ Confirm(a)
         \/ \E place \in {"observe", "unproven", "stop", "leaving"} : Goto(a, place)
  BY ObservedGone DEF AwaitExit, Observe, AwaitAcknowledgement, AwaitLeave, StopIInv, HostOK
<1>2. /\ {"exit", "observe", "acknowledged", "leaving"} \cap Scanning = {}
      /\ {"observe", "unproven", "stop", "leaving"} \subseteq Places \ Scanning
  BY DEF Scanning, Places
<1>3. CASE Gone(Root) /\ Confirm(a)
  BY <1>1, <1>2, <1>3, ConfirmStep
<1>4. CASE \E place \in {"observe", "unproven", "stop", "leaving"} : Goto(a, place)
  BY <1>1, <1>2, <1>4, HostKept, GotoStep
<1> QED
  BY <1>1, <1>3, <1>4

-----------------------------------------------------------------------------
(* The shared termination.                                                 *)

\* An attempt begins it, or joins those who share it.
LEMMA JoinedStep ==
  ASSUME StopIInv, UNCHANGED <<system, harmed, host>>, NEW a \in Attempt, try[a].at = "stop",
         stopping' = stopping \cup {a}, NEW place \in {"joined", "kill"}, Goto(a, place),
         place = "kill" => Within(WorkerPid)
  PROVE  StopIInv'
<1> DEFINE t == try[a]  u == [t EXCEPT !.at = place]
<1>1. /\ t \in Tries /\ ScanOK(t) /\ ProofOK(t) /\ t.answer # "worker-stop"
      /\ "stop" \notin Scanning /\ {"joined", "kill"} \subseteq Places \ Scanning
  BY NoAnswerYet DEF Scanning, Places
<1>2. /\ u \in Tries /\ u.at = place /\ u.pending = t.pending /\ u.found = t.found
      /\ u.parent = t.parent /\ u.covers = t.covers
      /\ u.victims = t.victims /\ u.answer = t.answer
  BY <1>1 DEF Tries
<1>3. try' = [try EXCEPT ![a] = u]
  BY DEF Goto
<1>4. try \in [Attempt -> Tries] /\ HostTypeOK /\ HostOK
  BY DEF StopIInv, SessionTypeOK
<1> HIDE DEF u
<1>5. ScanOK(u)
  BY <1>1, <1>2, ScanAtRest
<1>6. ProofOK(u)
  BY <1>1, <1>2 DEF ProofOK
<1>7. HostTypeOK'
  BY <1>4 DEF HostTypeOK, host
<1>8. HostOK'
  <2>1. \A b \in stopping' : try'[b].at \in {"joined", "kill"}
    BY <1>2, <1>3, <1>4 DEF HostOK, HostTypeOK
  <2> QED
    BY <1>4, <2>1, SameSystem DEF HostOK, host
<1> QED
  BY <1>2, <1>3, <1>5, <1>6, <1>7, <1>8, AttemptStep

LEMMA StartStopKept ==
  ASSUME StopIInv, NEW a \in Attempt, StartStop(a)
  PROVE  StopIInv'
<1>1. /\ try[a].at = "stop" /\ stopping = {} /\ UNCHANGED <<system, harmed, host>>
      /\ \/ Gone(Root) /\ Confirm(a) /\ UNCHANGED stopping
         \/ Goto(a, "unproven") /\ UNCHANGED stopping
         \/ ~Gone(Root) /\ stopping' = {a} /\ Goto(a, "kill")
  BY ObservedGone DEF StartStop, ProcessState
<1>2. "stop" \notin Scanning /\ "unproven" \in Places \ Scanning
  BY DEF Scanning, Places
<1>3. CASE Gone(Root) /\ Confirm(a) /\ UNCHANGED stopping
  BY <1>1, <1>2, <1>3, ConfirmStep
<1>4. CASE Goto(a, "unproven") /\ UNCHANGED stopping
  BY <1>1, <1>2, <1>4, HostKept, GotoStep
<1>5. CASE ~Gone(Root) /\ stopping' = {a} /\ Goto(a, "kill")
  <2>1. Holder(WorkerPid) = Root /\ Root \in Reach
    BY <1>5 DEF Gone, Root, Reach, StopIInv, KernelOK
  <2>2. Within(WorkerPid) /\ stopping' = stopping \cup {a}
    BY <1>1, <1>5, <2>1 DEF Within
  <2> QED
    BY <1>1, <1>5, <2>2, JoinedStep
<1> QED
  BY <1>1, <1>3, <1>4, <1>5

\* Its outcome is that of all who share it.
LEMMA EndStopKept ==
  ASSUME StopIInv, UNCHANGED <<system, harmed, host>>, NEW state \in ProcessState,
         Observes(Root, state), EndStop(state)
  PROVE  StopIInv'
<1>1. /\ try' = [a \in Attempt |->
                   IF a \notin stopping THEN try[a]
                   ELSE IF state = "stopped" THEN Confirmed(try[a])
                   ELSE [try[a] EXCEPT !.at = "unproven"]]
      /\ stopping' = {}
  BY DEF EndStop
<1>2. HostTypeOK /\ HostOK
  BY DEF StopIInv, SessionTypeOK
<1>3. ASSUME NEW a \in Attempt
      PROVE  try'[a] \in Tries /\ ScanOK(try'[a]) /\ ProofOK(try'[a])
  <2> DEFINE t == try[a]
  <2>1. t \in Tries /\ ScanOK(t) /\ ProofOK(t) /\ (t.at # "done" => t.answer # "worker-stop")
    BY NoAnswerYet
  <2>2. "joined" \notin Scanning /\ "kill" \notin Scanning /\ "unproven" \in Places \ Scanning
    BY DEF Scanning, Places
  <2>3. CASE a \notin stopping
    BY <1>1, <2>1, <2>3
  <2>4. CASE a \in stopping /\ state = "stopped"
    <3>1. t.at \in {"joined", "kill"} /\ Gone(Root)
      BY <1>2, <2>4, ObservedGone DEF HostOK
    <3> QED
      BY <1>1, <2>2, <2>4, <3>1, ConfirmedOK
  <2>5. CASE a \in stopping /\ state # "stopped"
    <3> DEFINE u == [t EXCEPT !.at = "unproven"]
    <3>1. t.at \in {"joined", "kill"}
      BY <1>2, <2>5 DEF HostOK
    <3>2. /\ u \in Tries /\ u.at = "unproven" /\ u.pending = t.pending /\ u.found = t.found
          /\ u.parent = t.parent /\ u.covers = t.covers
          /\ u.victims = t.victims /\ u.answer = t.answer
      BY <2>1, <2>2 DEF Tries
    <3>3. try'[a] = u
      BY <1>1, <2>5
    <3> HIDE DEF u
    <3>4. ScanOK(u) /\ ProofOK(u)
      BY <2>1, <2>2, <3>1, <3>2, ScanAtRest, ProofAtRest
    <3> QED
      BY <3>2, <3>3, <3>4
  <2> QED
    BY <2>3, <2>4, <2>5
<1>4. try' \in [Attempt -> Tries]
  <2>1. DOMAIN try' = Attempt /\ try' = [a \in Attempt |-> try'[a]]
    BY <1>1
  <2> QED
    BY <1>3, <2>1
<1>5. AttemptsOK'
  BY <1>3, SameSystem DEF AttemptsOK
<1>6. HostTypeOK' /\ HostOK'
  BY <1>1, <1>2, SameSystem DEF HostTypeOK, HostOK, host
<1>7. OnlyTakersAreHarmed'
  BY SameSystem DEF StopIInv, OnlyTakersAreHarmed
<1> QED
  BY <1>4, <1>5, <1>6, <1>7, SameSystem DEF StopIInv, SessionTypeOK

LEMMA SignalWorkerKept ==
  ASSUME StopIInv, NEW a \in Attempt, SignalWorker(a)
  PROVE  StopIInv'
<1>1. /\ try[a].at = "kill" /\ UNCHANGED <<system, host>>
      /\ \/ table[WorkerPid].up /\ Signals(WorkerPid) /\ Goto(a, "joined") /\ UNCHANGED stopping
         \/ UNCHANGED harmed /\ \E state \in ProcessState : Observes(Root, state) /\ EndStop(state)
  BY DEF SignalWorker
<1>2. CASE UNCHANGED harmed /\ \E state \in ProcessState : Observes(Root, state) /\ EndStop(state)
  BY <1>1, <1>2, EndStopKept
<1>3. CASE table[WorkerPid].up /\ Signals(WorkerPid) /\ Goto(a, "joined") /\ UNCHANGED stopping
  <2> DEFINE t == try[a]  u == [t EXCEPT !.at = "joined"]
  <2>1. /\ t \in Tries /\ ScanOK(t) /\ ProofOK(t) /\ t.answer # "worker-stop"
        /\ "kill" \notin Scanning /\ "joined" \in Places \ Scanning
    BY <1>1, NoAnswerYet DEF Scanning, Places
  <2>2. /\ u \in Tries /\ u.at = "joined" /\ u.pending = t.pending /\ u.found = t.found
        /\ u.parent = t.parent /\ u.covers = t.covers
        /\ u.victims = t.victims /\ u.answer = t.answer
    BY <2>1 DEF Tries
  <2>3. try' = [try EXCEPT ![a] = u]
    BY <1>3 DEF Goto
  <2>4. try \in [Attempt -> Tries] /\ HostTypeOK /\ HostOK
    BY DEF StopIInv, SessionTypeOK
  <2>5. harmed' \subseteq takers
    BY <1>1, <1>3, <2>1, RootTyped, SignalHarms DEF ProofOK
  <2> HIDE DEF u
  <2>6. ScanOK(u) /\ ProofOK(u)
    BY <1>1, <2>1, <2>2, ScanAtRest, ProofAtRest
  <2>7. HostTypeOK'
    BY <1>1, <1>3, <2>4 DEF HostTypeOK, host
  <2>8. HostOK'
    <3>1. \A b \in stopping' : try'[b].at \in {"joined", "kill"}
      BY <1>3, <2>2, <2>3, <2>4 DEF HostOK, HostTypeOK
    <3> QED
      BY <1>1, <2>4, <3>1, SameSystem DEF HostOK, host
  <2> QED
    BY <1>1, <2>2, <2>3, <2>5, <2>6, <2>7, <2>8, SignalStep
<1> QED
  BY <1>1, <1>2, <1>3

LEMMA WorkerStopsKept ==
  ASSUME StopIInv, WorkerStops
  PROVE  StopIInv'
  BY EndStopKept DEF WorkerStops

-----------------------------------------------------------------------------
(* The descendants, and the answer.                                        *)

LEMMA WatchKept ==
  ASSUME StopIInv, NEW a \in Attempt, Watch(a)
  PROVE  StopIInv'
<1> DEFINE t == try[a]
<1>1. /\ t.at = "watch" /\ UNCHANGED <<system, harmed, stopping, host>>
      /\ \/ AllGone(t.covers) /\ Goto(a, "clear")
         \/ try' = [try EXCEPT ![a] = [t EXCEPT !.at = "sweep", !.victims = t.covers]]
         \/ Goto(a, "unproven")
  BY ObservedGone DEF Watch
<1>2. /\ t \in Tries /\ ScanOK(t) /\ ProofOK(t) /\ t.answer # "worker-stop"
      /\ "watch" \notin Scanning /\ {"sweep", "unproven"} \subseteq Places \ Scanning
  BY <1>1, NoAnswerYet DEF Scanning, Places
<1>3. CASE AllGone(t.covers) /\ Goto(a, "clear")
  BY <1>1, <1>3, ClearStep
<1>4. CASE Goto(a, "unproven")
  BY <1>1, <1>2, <1>4, HostKept, GotoStep
<1>5. CASE try' = [try EXCEPT ![a] = [t EXCEPT !.at = "sweep", !.victims = t.covers]]
  <2> DEFINE u == [t EXCEPT !.at = "sweep", !.victims = t.covers]
  <2>1. t.covers \in Seq(Id) /\ t.covers # None /\ Range(t.covers) \subseteq Reach /\ Gone(Root)
    BY <1>1, <1>2 DEF Tries, ProofOK
  <2>2. /\ u \in Tries /\ u.at = "sweep" /\ u.pending = t.pending /\ u.found = t.found
        /\ u.parent = t.parent /\ u.covers = t.covers
        /\ u.victims = t.covers /\ u.answer = t.answer
    BY <1>2, <2>1 DEF Tries
  <2>3. try' = [try EXCEPT ![a] = u]
    BY <1>5
  <2> HIDE DEF u
  <2>4. ScanOK(u)
    BY <1>1, <1>2, <2>2, ScanAtRest
  <2>5. ProofOK(u)
    BY <1>2, <2>1, <2>2 DEF ProofOK
  <2> QED
    BY <1>1, <1>2, <2>2, <2>3, <2>4, <2>5, HostKept, PlainStep
<1> QED
  BY <1>1, <1>3, <1>4, <1>5

\* The answer, and what the session and the map are told of it.
LEMMA FinishKept ==
  ASSUME StopIInv, NEW a \in Attempt, Finish(a)
  PROVE  StopIInv'
<1>1. /\ try[a].at \in {"clear", "unproven"} /\ UNCHANGED <<system, harmed, stopping, stored, requested>>
      /\ known' = (known /\ ~(try[a].at = "clear" /\ try[a].own))
  BY DEF Finish
<1>2. /\ try[a] \in Tries /\ ProofOK(try[a]) /\ "done" \in Places \ Scanning
      /\ HostTypeOK /\ HostOK
  BY NoAnswerYet DEF Scanning, Places, StopIInv, SessionTypeOK
<1>3. PICK answer \in {None, "worker-stop"}, covers \in Seq(Id) \cup {None},
             kind \in {"cancel", "success", "recover"} :
        /\ kind = try[a].kind
        /\ answer = IF try[a].at = "clear" THEN "worker-stop" ELSE None
        /\ covers = IF try[a].at = "clear" THEN try[a].covers ELSE None
  BY <1>2 DEF Tries
<1> DEFINE u == [Idle EXCEPT !.at = "done", !.kind = kind, !.answer = answer, !.covers = covers]
<1>4. try' = [try EXCEPT ![a] = u]
  BY <1>3 DEF Finish
<1>5. <<>> \in Seq(Id) /\ Range(<<>>) = {} /\ Root \in Id
  BY RootTyped, ListParts
<1>6. /\ u \in Tries /\ u.at = "done" /\ u.pending = <<>> /\ u.found = <<>> /\ u.parent = Root
      /\ u.covers = covers /\ u.victims = <<>> /\ u.answer = answer
  <2>1. Idle \in Tries /\ "done" \in Places
    BY <1>2, IdleParts
  <2>2. u \in Tries /\ u.at = "done" /\ u.answer = answer /\ u.covers = covers
    BY <2>1 DEF Tries
  <2>3. /\ u.pending = Idle.pending /\ u.found = Idle.found /\ u.parent = Idle.parent
        /\ u.victims = Idle.victims
    BY <2>1 DEF Tries
  <2> HIDE DEF u
  <2> QED
    BY <2>2, <2>3, IdleParts
<1> HIDE DEF u
<1>7. ScanOK(u)
  BY <1>2, <1>6, ScanEnded
<1>8. answer = "worker-stop" => Gone(Root) /\ covers # None /\ AllGone(covers)
  BY <1>2, <1>3, NoneIsApart DEF ProofOK
<1>9. covers # None => Range(covers) \subseteq Reach
  BY <1>2, <1>3 DEF ProofOK
<1>10. ProofOK(u)
  BY <1>5, <1>6, <1>8, <1>9 DEF ProofOK
<1>11. /\ session' \in Sessions /\ session'.captured = session.captured
       /\ session'.exit = session.exit \/ session'.exit = "unconfirmed"
          \/ (session'.exit = "stopped" /\ try[a].at = "clear")
  BY <1>2 DEF Finish, HostTypeOK, Sessions
<1>12. HostTypeOK'
  BY <1>1, <1>2, <1>11 DEF HostTypeOK
<1>13. HostOK'
  <2>1. \A b \in stopping : b # a /\ try'[b] = try[b]
    BY <1>1, <1>2, <1>4 DEF HostOK, HostTypeOK
  <2>2. session'.exit = "stopped" => Gone(Root)
    BY <1>2, <1>11 DEF HostOK, ProofOK
  <2> QED
    BY <1>1, <1>2, <1>11, <2>1, <2>2, SameSystem DEF HostOK
<1> QED
  BY <1>1, <1>4, <1>6, <1>7, <1>10, <1>12, <1>13, AttemptStep

-----------------------------------------------------------------------------
(* The run.                                                                *)

LEMMA RunGoesOn ==
  ASSUME StopIInv, RunReceives \/ RunAccepts \/ RunWatchesExit \/ RunStopsRecovered \/ RunEnds
  PROVE  StopIInv'
<1> DEFINE t == try[Run]
<1>1. /\ t \in Tries /\ {"idle", "accept", "exiting"} \cap Scanning = {}
      /\ {"accept", "unproven", "look", "done"} \subseteq Places \ Scanning
  BY RunIsAttempt, NoAnswerYet DEF Scanning, Places
<1>2. CASE RunReceives \/ RunEnds
  <2>1. /\ t.at \in {"idle", "accept"} /\ (Goto(Run, "accept") \/ Goto(Run, "done"))
        /\ UNCHANGED <<system, harmed, stopping, stored, known, requested>>
    BY <1>2 DEF RunReceives, RunEnds
  <2>2. SessionKept
    BY <1>2, <2>1 DEF RunReceives, RunEnds, Closed, SessionKept, StopIInv, SessionTypeOK, HostTypeOK,
                      Sessions
  <2> QED
    BY <1>1, <2>1, <2>2, RunIsAttempt, GotoStep
<1>3. CASE RunAccepts
  <2> DEFINE u == [t EXCEPT !.kind = "success"]
  <2>1. /\ t.at = "accept" /\ UNCHANGED <<system, harmed, stopping, host>>
        /\ try' = [try EXCEPT ![Run] = StartScan(u, "acknowledge")]
    BY <1>3 DEF RunAccepts
  <2>2. /\ u \in Tries /\ u.found = t.found /\ u.parent = t.parent /\ u.covers = t.covers
        /\ u.victims = t.victims /\ u.answer = t.answer
    BY <1>1 DEF Tries
  <2> HIDE DEF u
  <2> QED
    BY <1>1, <2>1, <2>2, RunIsAttempt, HostKept, StartScanStep
<1>4. CASE RunWatchesExit
  <2>1. /\ t.at = "exiting" /\ UNCHANGED <<system, harmed, stopping, host>>
        /\ \/ Gone(Root) /\ Confirm(Run)
           \/ Goto(Run, "unproven")
    BY <1>4, ObservedGone DEF RunWatchesExit
  <2>2. CASE Gone(Root) /\ Confirm(Run)
    BY <1>1, <2>1, <2>2, RunIsAttempt, ConfirmStep
  <2>3. CASE Goto(Run, "unproven")
    BY <1>1, <2>1, <2>3, RunIsAttempt, HostKept, GotoStep
  <2> QED
    BY <2>1, <2>2, <2>3
<1>5. CASE RunStopsRecovered
  <2> DEFINE u == [t EXCEPT !.at = "look", !.kind = "recover"]
  <2>1. t.at = "idle" /\ UNCHANGED <<system, harmed, stopping, host>> /\ try' = [try EXCEPT ![Run] = u]
    BY <1>5 DEF RunStopsRecovered
  <2>2. /\ u \in Tries /\ u.at = "look" /\ u.pending = t.pending /\ u.found = t.found
        /\ u.parent = t.parent /\ u.covers = t.covers
        /\ u.victims = t.victims /\ u.answer = t.answer
    BY <1>1 DEF Tries
  <2> HIDE DEF u
  <2> QED
    BY <1>1, <2>1, <2>2, RunIsAttempt, HostKept, RestStep
<1> QED
  BY <1>2, <1>3, <1>4, <1>5

LEMMA RunAcknowledgesKept ==
  ASSUME StopIInv, RunAcknowledges
  PROVE  StopIInv'
<1> DEFINE t == try[Run]
<1>1. /\ t.at = "acknowledge" /\ UNCHANGED <<system, harmed, stopping, stored, known, requested>>
      /\ \/ session' = [session EXCEPT !.exit = "watched"]
            /\ try' = [try EXCEPT ![Run] = [t EXCEPT !.at = "exiting"]]
         \/ Closed /\ try' = [try EXCEPT ![Run] = [Idle EXCEPT !.at = "done"]]
  BY DEF RunAcknowledges, Goto
<1>2. /\ t \in Tries /\ ScanOK(t) /\ ProofOK(t) /\ t.answer # "worker-stop"
      /\ "acknowledge" \notin Scanning /\ {"exiting", "done"} \subseteq Places \ Scanning
      /\ HostTypeOK /\ HostOK
  BY <1>1, RunIsAttempt, NoAnswerYet DEF Scanning, Places, StopIInv, SessionTypeOK
<1>3. ASSUME NEW u \in Tries, try' = [try EXCEPT ![Run] = u], ScanOK(u), ProofOK(u)
      PROVE  StopIInv'
  <2>1. /\ session' \in Sessions /\ session'.captured = session.captured
        /\ session'.exit \in {"watched", session.exit}
    BY <1>1, <1>2 DEF Closed, HostTypeOK, Sessions
  <2>2. HostTypeOK'
    BY <1>1, <1>2, <2>1 DEF HostTypeOK
  <2>3. HostOK'
    <3>1. \A b \in stopping : b # Run /\ try'[b] = try[b]
      BY <1>1, <1>2, <1>3 DEF HostOK, HostTypeOK
    <3> QED
      BY <1>1, <1>2, <2>1, <3>1, SameSystem DEF HostOK
  <2> QED
    BY <1>1, <1>3, <2>2, <2>3, RunIsAttempt, AttemptStep
<1>4. CASE try' = [try EXCEPT ![Run] = [t EXCEPT !.at = "exiting"]]
  <2> DEFINE u == [t EXCEPT !.at = "exiting"]
  <2>1. /\ u \in Tries /\ u.at = "exiting" /\ u.pending = t.pending /\ u.found = t.found
        /\ u.parent = t.parent /\ u.covers = t.covers
        /\ u.victims = t.victims /\ u.answer = t.answer
    BY <1>2 DEF Tries
  <2>2. try' = [try EXCEPT ![Run] = u]
    BY <1>4
  <2> HIDE DEF u
  <2>3. ScanOK(u) /\ ProofOK(u)
    BY <1>1, <1>2, <2>1, ScanAtRest, ProofAtRest
  <2> QED
    BY <1>3, <2>1, <2>2, <2>3
<1>5. CASE try' = [try EXCEPT ![Run] = [Idle EXCEPT !.at = "done"]]
  <2> DEFINE u == [Idle EXCEPT !.at = "done"]
  <2>1. <<>> \in Seq(Id) /\ Range(<<>>) = {} /\ Root \in Id
    BY RootTyped, ListParts
  <2>2. /\ u \in Tries /\ u.at = "done" /\ u.pending = <<>> /\ u.found = <<>> /\ u.parent = Root
        /\ u.covers = None /\ u.victims = <<>> /\ u.answer = None
    BY <1>2, IdleParts DEF Tries
  <2>3. try' = [try EXCEPT ![Run] = u]
    BY <1>5
  <2> HIDE DEF u
  <2>4. ScanOK(u) /\ ProofOK(u)
    BY <1>2, <2>1, <2>2, NoneIsApart, ScanEnded DEF ProofOK
  <2> QED
    BY <1>3, <2>2, <2>3, <2>4
<1> QED
  BY <1>1, <1>4, <1>5

-----------------------------------------------------------------------------
(* Every step, and the first state.                                        *)

LEMMA StopNext ==
  ASSUME StopIInv, [Next]_vars
  PROVE  StopIInv'
<1>1. CASE System /\ UNCHANGED <<stopping, host>>
  BY <1>1, SystemKept
<1>2. ASSUME NEW a \in Attempt, Control(a), UNCHANGED <<stopping, host>>
      PROVE  StopIInv'
  BY <1>2, ControlKept
<1>3. ASSUME NEW a \in Attempt, Cancel(a)
      PROVE  StopIInv'
  <2>1. CASE JoinStop(a)
    BY <2>1, JoinedStep DEF JoinStop
  <2> QED
    BY <1>3, <2>1, LookKept, ScanEndsKept, ScanTimesOutKept, RequestKept, RequestIsRefusedKept, WaitKept,
       StartStopKept, SignalWorkerKept, WatchKept, FinishKept DEF Cancel
<1>4. CASE RunReceives \/ RunStopsRecovered \/ RunSteps
  BY <1>4, RunGoesOn, RunAcknowledgesKept DEF RunSteps
<1>5. CASE UNCHANGED vars
  <2>1. UNCHANGED <<system, harmed, try, stopping, host>>
    BY <1>5 DEF vars
  <2> QED
    BY <2>1, HostKept, SessionStep
<1> QED
  BY <1>1, <1>2, <1>3, <1>4, <1>5, PeerKept, CancelSessionKept, WorkerStopsKept DEF Next

LEMMA StopInit == Init => StopIInv
<1> SUFFICES ASSUME Init
             PROVE  StopIInv
  OBVIOUS
<1>1. /\ table = [pid \in Pid |-> [up |-> TRUE, token |-> 1,
                                   parent |-> IF pid = WorkerPid THEN None ELSE pid - 1]]
      /\ family = {<<pid, 1>> : pid \in Pid} /\ takers = {}
      /\ try = [a \in Attempt |-> Idle] /\ births = 0 /\ harmed = {} /\ stopping = {}
      /\ session = [state |-> "listening", identity |-> FALSE, protocol |-> "open",
                    acked |-> FALSE, captured |-> None, exit |-> "none"]
      /\ stored \in BOOLEAN /\ known = FALSE /\ requested = FALSE
  BY DEF Init, StartsWithChain
<1>2. \A pid \in Pid : pid \in Nat /\ (pid # WorkerPid => pid - 1 \in Pid)
  <2>1. PICK last \in Pid : Pid = WorkerPid..last
    BY WorkerIsFirst
  <2> QED
    BY <2>1, RootTyped
<1>3. KernelTypeOK
  <2>1. table \in [Pid -> Processes]
    BY <1>1, <1>2 DEF Processes
  <2>2. family \subseteq Id /\ takers \subseteq Id
    BY <1>1 DEF Id
  <2> QED
    BY <1>1, <2>1, <2>2 DEF KernelTypeOK
<1>4. \A pid \in Pid : Holder(pid) = <<pid, 1>> /\ table[pid].up /\ table[pid].token = 1
  BY <1>1 DEF Holder
<1>5. Reach = family /\ \A pid \in Pid : Holder(pid) \in family
  BY <1>1, <1>4 DEF Reach
<1>6. KernelOK
  <2>1. \A pid \in Pid : ParentOK(pid)
    BY <1>1, <1>2, <1>4, <1>5 DEF ParentOK
  <2>2. \A id \in Reach : Seen(id)
    BY <1>1, <1>4, <1>5 DEF Seen, Id
  <2>3. Root \in family
    BY <1>1, RootTyped DEF Root
  <2> QED
    BY <2>1, <2>2, <2>3 DEF KernelOK
<1>7. <<>> \in Seq(Id) /\ Range(<<>>) = {} /\ Root \in Id
  BY RootTyped, ListParts
<1>8. Idle \in Tries
  BY IdleParts
<1>9. ScanOK(Idle)
  BY <1>5, <1>6, <1>7, IdleParts DEF ScanOK, KernelOK
<1>10. ProofOK(Idle)
  BY <1>7, NoneIsApart, IdleParts DEF ProofOK
<1>11. AttemptsOK /\ try \in [Attempt -> Tries]
  BY <1>1, <1>8, <1>9, <1>10 DEF AttemptsOK
<1>12. HostTypeOK /\ HostOK
  BY <1>1 DEF HostTypeOK, HostOK, Sessions
<1> QED
  BY <1>1, <1>3, <1>6, <1>11, <1>12 DEF StopIInv, SessionTypeOK, OnlyTakersAreHarmed

-----------------------------------------------------------------------------
(* The theorems.                                                           *)

\* Lists of descendants, signals, answers and what the session has found out
\* agree with the processes in every state, whoever stops the worker of a
\* session and whatever processes fork, end or are replaced meanwhile:
\* worker-process-control.ts:88-258, visible-worker.ts:908-1096.
THEOREM SessionInvariant == Spec => []StopIInv
<1>1. StopIInv /\ [Next]_vars => StopIInv'
  BY StopNext
<1> QED
  BY StopInit, <1>1, PTL DEF Spec

\* Every variable keeps its type.
THEOREM SessionTypeCorrect == Spec => []SessionTypeOK
<1>1. StopIInv => SessionTypeOK
  BY DEF StopIInv
<1> QED
  BY SessionInvariant, <1>1, PTL

\* Outside the worker's family a SIGTERM reaches at most those who took a number
\* over in a gap, and what they have forked, with any number of processes and of
\* attempts: captureDescendants, terminateDescendants and terminateProcess.
THEOREM OnlyTakersAreHarmedHolds == Spec => []OnlyTakersAreHarmed
<1>1. StopIInv => OnlyTakersAreHarmed
  BY DEF StopIInv
<1> QED
  BY SessionInvariant, <1>1, PTL

\* Whoever answers worker-stop has seen the worker gone and the descendants it
\* covers, and they are gone for good: confirmDescendantsStopped.
THEOREM StopProofIsTrueHolds == Spec => []StopProofIsTrue
<1>1. StopIInv => StopProofIsTrue
  BY DEF StopIInv, AttemptsOK, ProofOK, StopProofIsTrue
<1> QED
  BY SessionInvariant, <1>1, PTL

=============================================================================
