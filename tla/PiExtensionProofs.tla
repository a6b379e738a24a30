------------------------- MODULE PiExtensionProofs -------------------------
(* Theorems about the Pi extension: PiSession, for any executions, tool     *)
(* calls and Runtimes, and ResultReader, for any Results and limits.        *)
EXTENDS PiSession, ResultReader, FiniteSetTheorems, TLAPS

-----------------------------------------------------------------------------
(* Types.                                                                  *)

Work == Tool \cup Old

Standings ==
  {"idle", "resolving", "joining", "configuring", "ownerReady", "ownReady", "spawning",
   "sharing", "waiting", "interrupted", "ended"}

Spawning == {"none", "pending", "creating", "made", "failed", "kept"}

Runtimes ==
  [recovery : BOOLEAN, recovered : BOOLEAN, failed : BOOLEAN, lists : 0..2, due : BOOLEAN,
   close : {"open", "draining", "looping", "recovering", "tried", "closed", "failed"}]

PiTypeOK ==
  /\ toolOf \in [Call -> Tool]
  /\ shutdown \in {"open", "admissions", "cancelling", "closing", "ended"}
  /\ start \in {"idle", "resolving", "recovering", "backgrounds", "ended"}
  /\ at \in [Call -> Standings]
  /\ prepared \in [Tool -> Config \cup {None}]
  /\ spawns \in [Tool -> Spawning]
  /\ owner \in Known \cup {None}
  /\ Known \subseteq Config \cup {Boot}
  /\ runtime \in [Known -> Runtimes]
  /\ {driving, deferred, answered} \subseteq SUBSET (Known \X Work)
  /\ {open, tracked} \subseteq SUBSET Work
  /\ cancel \in [Work -> {"none", "asked", "awaited", "done", "failed"}]
  /\ faults \in Nat

-----------------------------------------------------------------------------
(* The inductive invariant.                                                *)

\* The owner has not listed the store yet.
Unlisted == owner = None \/ runtime[owner].lists = 0

\* The first Runtime owns the recovery.
OwnerIsFirst == owner = None => Known = {}

\* One execution prepares a tool call, before anything is spawned for it.
OnePreparation ==
  /\ \A e, f \in Call :
       /\ toolOf[e] = toolOf[f]
       /\ {at[e], at[f]} \subseteq {"configuring", "ownerReady", "ownReady"}
       => e = f
  /\ \A e \in Call : LET k == toolOf[e] IN
       /\ at[e] = "configuring" => prepared[k] = None
       /\ at[e] \in {"ownerReady", "ownReady"} => prepared[k] \in Known
       /\ at[e] \in {"configuring", "ownerReady", "ownReady"} => spawns[k] = "none"
       /\ at[e] \in {"waiting", "interrupted"} => spawns[k] = "made"

\* What a tool call has spawned, its Runtime has, and somebody waits for it.
PreparedSpawns ==
  \A k \in Tool :
    /\ prepared[k] # None => prepared[k] \in Known
    /\ spawns[k] = "none" => prepared[k] = None \/ Preparing(k)
    /\ spawns[k] # "none" => prepared[k] # None
    /\ spawns[k] \in {"pending", "creating"} => \E e \in Call : toolOf[e] = k /\ at[e] = "spawning"
    /\ spawns[k] \in {"none", "pending"} => k \notin open

\* Nothing is spawned, driven or tracked before the owner has listed the store.
ListedFirst ==
  Unlisted =>
    /\ driving = {} /\ deferred = {} /\ answered = {} /\ tracked = {}
    /\ \A o \in Work : cancel[o] = "none"
    /\ \A k \in Tool : spawns[k] = "none"
    /\ \A e \in Call : at[e] # "ownReady"

\* A handle has its Runtime, and is tracked until it is answered.
HandlesTracked ==
  /\ \A k \in Tool :
       /\ k \in tracked \/ cancel[k] # "none" => spawns[k] = "made"
       /\ spawns[k] = "made" /\ <<prepared[k], k>> \notin answered => k \in tracked
  /\ \A o \in Old : cancel[o] # "none" => shutdown \in {"cancelling", "closing", "ended"}
  /\ \A o \in tracked : cancel[o] # "done"

\* What a recovery that has ended well has done.
RecoveryDone ==
  /\ \A r \in Known : runtime[r].recovered /\ ~runtime[r].recovery =>
       \A o \in Work : <<r, o>> \notin deferred
  /\ owner # None /\ ~runtime[owner].recovery
       /\ (runtime[owner].recovered \/ ~runtime[owner].failed)
     => runtime[owner].lists # 0

\* Every open Operation that has got a driver has one, or is to get it back.
OpenIsDriven ==
  /\ \A r \in Known, o \in Old : <<r, o>> \in driving \cup deferred => r = owner
  /\ ~Unlisted => \A o \in Old \cap open : <<owner, o>> \in driving \cup deferred
  /\ \A k \in Tool \cap open : spawns[k] = "made" =>
       \/ <<prepared[k], k>> \in driving \cup deferred
       \/ cancel[k] \in {"asked", "awaited"}

\* Until the owner lists the store again, a tool call is driven by its Runtime.
DrivenByItsRuntime ==
  ~Unlisted /\ runtime[owner].lists < 2 =>
    \A r \in Known, k \in Tool : <<r, k>> \in driving \cup deferred =>
      r = prepared[k] /\ spawns[k] = "made"

\* What each stage of the shutdown has behind it.
ShutdownOrder ==
  /\ shutdown \in {"cancelling", "closing", "ended"} =>
       /\ ~Admitted
       /\ \A o \in tracked : cancel[o] \in {"awaited", "failed"}
  /\ shutdown \in {"closing", "ended"} =>
       /\ \A o \in Work : cancel[o] # "awaited"
       /\ \A r \in Known : ~runtime[r].due /\ runtime[r].close # "open"
  /\ shutdown = "ended" => \A r \in Known : runtime[r].close \in {"closed", "failed"}

ClosedIsQuiet ==
  \A r \in Known :
    /\ runtime[r].close # "open" => shutdown \in {"closing", "ended"}
    /\ runtime[r].close \in {"looping", "tried", "closed", "failed"} => ~runtime[r].recovery
    /\ runtime[r].close = "closed" => runtime[r].recovered /\ ~InFlight(r)

PiIInv ==
  /\ PiTypeOK /\ OwnerIsFirst
  /\ OnePreparation /\ PreparedSpawns /\ ListedFirst
  /\ HandlesTracked /\ RecoveryDone /\ OpenIsDriven /\ DrivenByItsRuntime
  /\ ShutdownOrder /\ ClosedIsQuiet


-----------------------------------------------------------------------------
(* What the steps are made of.                                             *)

LEMMA PiTypes ==
  ASSUME PiTypeOK
  PROVE  /\ driving \subseteq Known \X Work /\ deferred \subseteq Known \X Work
         /\ answered \subseteq Known \X Work
         /\ open \subseteq Work /\ tracked \subseteq Work
         /\ \A e \in Call : toolOf[e] \in Tool /\ at[e] \in Standings
         /\ \A k \in Tool : k \in Work /\ prepared[k] \in Config \cup {None} /\ spawns[k] \in Spawning
         /\ \A o \in Old : o \in Work /\ o \notin Tool
         /\ owner # None => owner \in Known
         /\ \A r \in Known : r # None /\ runtime[r] \in Runtimes
  BY PiSessionAssumption DEF PiTypeOK, Work

LEMMA RuntimeFields ==
  ASSUME NEW n \in Runtimes
  PROVE  /\ n.recovery \in BOOLEAN /\ n.recovered \in BOOLEAN /\ n.failed \in BOOLEAN
         /\ n.lists \in 0..2 /\ n.due \in BOOLEAN
         /\ n.close \in {"open", "draining", "looping", "recovering", "tried", "closed", "failed"}
  BY DEF Runtimes

LEMMA NewIsRuntime ==
  /\ NewRuntime \in Runtimes
  /\ NewRuntime.recovery /\ NewRuntime.lists = 0 /\ ~NewRuntime.due /\ NewRuntime.close = "open"
  BY SMT DEF NewRuntime, Runtimes

\* A recovery begins, unless one is under way or all is recovered.
LEMMA RecoverBegins ==
  ASSUME NEW D, NEW rts \in [D -> Runtimes], NEW r \in D
  PROVE  /\ Recover(rts, r) \in [D -> Runtimes] /\ DOMAIN Recover(rts, r) = D
         /\ \A q \in D : q # r => Recover(rts, r)[q] = rts[q]
         /\ Recover(rts, r)[r].lists = rts[r].lists
         /\ Recover(rts, r)[r].due = rts[r].due
         /\ Recover(rts, r)[r].close = rts[r].close
         /\ Recover(rts, r) = rts \/ Recover(rts, r)[r].recovery
<1>1. CASE rts[r].recovery \/ rts[r].recovered
  BY <1>1 DEF Recover
<1>2. CASE ~(rts[r].recovery \/ rts[r].recovered)
  <2> DEFINE new == [rts EXCEPT ![r].recovery = TRUE, ![r].recovered = TRUE, ![r].failed = FALSE]
  <2>1. Recover(rts, r) = new
    BY <1>2 DEF Recover
  <2>2. new[r] = [rts[r] EXCEPT !.recovery = TRUE, !.recovered = TRUE, !.failed = FALSE]
    OBVIOUS
  <2>3. DOMAIN new = D /\ \A q \in D : q # r => new[q] = rts[q]
    OBVIOUS
  <2>4. /\ new[r] \in Runtimes
        /\ new[r].lists = rts[r].lists /\ new[r].due = rts[r].due
        /\ new[r].close = rts[r].close /\ new[r].recovery
    <3> HIDE DEF new
    <3>1. rts[r] \in Runtimes
      OBVIOUS
    <3> QED
      BY <2>2, <3>1, Zenon DEF Runtimes
  <2>5. new \in [D -> Runtimes]
    BY <2>3, <2>4
  <2> QED
    BY <2>1, <2>3, <2>4, <2>5
<1> QED
  BY <1>1, <1>2

LEMMA DeferIs ==
  ASSUME PiTypeOK, NEW r \in Known, Defer(r)
  PROVE  /\ Known' = Known /\ runtime' \in [Known -> Runtimes]
         /\ \A q \in Known : q # r => runtime'[q] = runtime[q]
         /\ ~runtime'[r].recovered
         /\ runtime'[r].recovery = runtime[r].recovery /\ runtime'[r].failed = runtime[r].failed
         /\ runtime'[r].lists = runtime[r].lists /\ runtime'[r].close = runtime[r].close
         /\ runtime'[r].due => runtime[r].due \/ runtime[r].close = "open"
<1>1. runtime[r] \in Runtimes /\ runtime \in [Known -> Runtimes]
  BY DEF PiTypeOK
<1> DEFINE due == runtime[r].due \/ runtime[r].close = "open"
<1>2. due \in BOOLEAN
  OBVIOUS
<1>3. /\ runtime'[r] = [runtime[r] EXCEPT !.recovered = FALSE, !.due = due]
      /\ DOMAIN runtime' = Known /\ \A q \in Known : q # r => runtime'[q] = runtime[q]
  BY <1>1 DEF Defer
<1>4. runtime'[r].due = due
  BY <1>1, <1>3, Zenon DEF Runtimes
<1> HIDE DEF due
<1>5. /\ runtime'[r] \in Runtimes /\ ~runtime'[r].recovered
      /\ runtime'[r].recovery = runtime[r].recovery /\ runtime'[r].failed = runtime[r].failed
      /\ runtime'[r].lists = runtime[r].lists /\ runtime'[r].close = runtime[r].close
  BY <1>1, <1>2, <1>3, Zenon DEF Runtimes
<1>6. runtime' \in [Known -> Runtimes]
  <2>1. runtime' = [q \in DOMAIN runtime' |-> runtime'[q]]
    BY DEF Defer
  <2> QED
    BY <1>1, <1>3, <1>5, <2>1
<1> QED
  BY <1>3, <1>4, <1>5, <1>6 DEF Known, due

-----------------------------------------------------------------------------
(* Steps of which the invariant sees little.                               *)

\* A Runtime goes on with its recovery or its close.
LEMMA RuntimeStepKeeps ==
  ASSUME PiIInv, NEW r \in Known, UNCHANGED <<calls, work>>, faults' \in Nat,
         Known' = Known, runtime' \in [Known -> Runtimes],
         \A q \in Known : q # r => runtime'[q] = runtime[q],
         runtime'[r].lists = runtime[r].lists,
         runtime'[r].recovered /\ ~runtime'[r].recovery =>
           runtime[r].recovered /\ ~runtime[r].recovery,
         ~runtime'[r].recovery /\ (runtime'[r].recovered \/ ~runtime'[r].failed) =>
           ~runtime[r].recovery /\ (runtime[r].recovered \/ ~runtime[r].failed),
         runtime'[r].due => runtime[r].due \/ runtime[r].close = "open",
         runtime'[r].close = "open" <=> runtime[r].close = "open",
         runtime'[r].close \in {"looping", "tried", "closed", "failed"} => ~runtime'[r].recovery,
         runtime'[r].close = "closed" => runtime'[r].recovered /\ ~InFlight(r),
         shutdown = "ended" => runtime'[r].close \in {"closed", "failed"}
  PROVE  PiIInv'
<1> USE DEF calls, work
<1>1. PiTypeOK'
  BY DEF PiIInv, PiTypeOK
<1>2. Unlisted' <=> Unlisted
  BY DEF PiIInv, PiTypeOK, Unlisted
<1>3. OwnerIsFirst' /\ OnePreparation' /\ PreparedSpawns'
  BY DEF PiIInv, OwnerIsFirst, OnePreparation, PreparedSpawns, Preparing, Standing
<1>4. ListedFirst' /\ HandlesTracked'
  BY <1>2 DEF PiIInv, ListedFirst, HandlesTracked
<1>5. RecoveryDone'
  BY DEF PiIInv, PiTypeOK, RecoveryDone
<1>6. OpenIsDriven' /\ DrivenByItsRuntime'
  <2>1. owner # None => runtime'[owner].lists = runtime[owner].lists
    BY DEF PiIInv, PiTypeOK
  <2>2. DrivenByItsRuntime'
    BY <1>2, <2>1 DEF PiIInv, DrivenByItsRuntime, Unlisted
  <2> QED
    BY <1>2, <2>2 DEF PiIInv, OpenIsDriven
<1>7. ShutdownOrder'
  BY DEF PiIInv, ShutdownOrder, Admitted
<1>8. ClosedIsQuiet'
  <2>1. \A q \in Known : InFlight(q)' <=> InFlight(q)
    BY DEF InFlight, Cancelling, Handle
  <2> QED
    BY <2>1 DEF PiIInv, ClosedIsQuiet
<1> QED
  BY <1>1, <1>3, <1>4, <1>5, <1>6, <1>7, <1>8 DEF PiIInv

\* Executions and the start of the session get on, without a call that counts.
LEMMA PlacesKeep ==
  ASSUME PiIInv, UNCHANGED <<toolOf, shutdown, prepared, spawns, owner, runtime, work>>,
         faults' \in Nat,
         start' \in {"idle", "resolving", "recovering", "backgrounds", "ended"},
         at' \in [Call -> Standings], OnePreparation',
         \A k \in Tool : Preparing(k) => Preparing(k)',
         \A e \in Call : at[e] = "spawning" => at'[e] = "spawning",
         \A e \in Call : at'[e] = "ownReady" => at[e] = "ownReady",
         shutdown \in {"cancelling", "closing", "ended"} => ~Admitted'
  PROVE  PiIInv'
<1> USE DEF work
<1>1. PiTypeOK'
  BY DEF PiIInv, PiTypeOK, Known
<1>2. OwnerIsFirst' /\ HandlesTracked' /\ RecoveryDone' /\ OpenIsDriven' /\ DrivenByItsRuntime'
  BY DEF PiIInv, OwnerIsFirst, HandlesTracked, RecoveryDone, OpenIsDriven, DrivenByItsRuntime,
         Unlisted, Known
<1>3. PreparedSpawns'
  BY DEF PiIInv, PreparedSpawns, Known
<1>4. ListedFirst'
  BY DEF PiIInv, ListedFirst, Unlisted
<1>5. ShutdownOrder'
  BY DEF PiIInv, ShutdownOrder, Known
<1>6. ClosedIsQuiet'
  BY DEF PiIInv, ClosedIsQuiet, InFlight, Cancelling, Handle, Known
<1> QED
  BY <1>1, <1>2, <1>3, <1>4, <1>5, <1>6 DEF PiIInv

LEMMA PiDomain == PiTypeOK => runtime \in [Known -> Runtimes]
  BY DEF PiTypeOK

WithClose(r, place) == [runtime EXCEPT ![r].close = place]

LEMMA CloseChanges ==
  ASSUME PiTypeOK, NEW r \in Known,
         NEW place \in {"draining", "looping", "recovering", "tried", "closed", "failed"}
  PROVE  /\ WithClose(r, place) \in [Known -> Runtimes] /\ DOMAIN WithClose(r, place) = Known
         /\ \A q \in Known : q # r => WithClose(r, place)[q] = runtime[q]
         /\ WithClose(r, place)[r].recovery = runtime[r].recovery
         /\ WithClose(r, place)[r].recovered = runtime[r].recovered
         /\ WithClose(r, place)[r].failed = runtime[r].failed
         /\ WithClose(r, place)[r].lists = runtime[r].lists
         /\ WithClose(r, place)[r].due = runtime[r].due
         /\ WithClose(r, place)[r].close = place
<1> DEFINE rts == [runtime EXCEPT ![r].close = place]
<1>1. runtime[r] \in Runtimes /\ runtime \in [Known -> Runtimes]
  BY DEF PiTypeOK
<1>2. /\ rts[r] = [runtime[r] EXCEPT !.close = place]
      /\ DOMAIN rts = Known /\ \A q \in Known : q # r => rts[q] = runtime[q]
  BY <1>1
<1>3. /\ rts[r] \in Runtimes
      /\ rts[r].recovery = runtime[r].recovery /\ rts[r].recovered = runtime[r].recovered
      /\ rts[r].failed = runtime[r].failed /\ rts[r].lists = runtime[r].lists
      /\ rts[r].due = runtime[r].due
  BY <1>1, <1>2, Zenon DEF Runtimes
<1>4. rts[r].close = place
  BY <1>1, <1>2, SMT DEF Runtimes
<1>5. rts \in [Known -> Runtimes]
  <2>1. rts = [q \in DOMAIN rts |-> rts[q]]
    OBVIOUS
  <2> QED
    BY <1>1, <1>2, <1>3, <2>1
<1> QED
  BY <1>2, <1>3, <1>4, <1>5 DEF WithClose

LEMMA CloseToIs ==
  ASSUME PiTypeOK, NEW r \in Known,
         NEW place \in {"draining", "looping", "recovering", "tried", "closed", "failed"},
         CloseTo(r, place)
  PROVE  /\ Known' = Known /\ runtime' \in [Known -> Runtimes]
         /\ \A q \in Known : q # r => runtime'[q] = runtime[q]
         /\ runtime'[r].recovery = runtime[r].recovery
         /\ runtime'[r].recovered = runtime[r].recovered
         /\ runtime'[r].failed = runtime[r].failed /\ runtime'[r].lists = runtime[r].lists
         /\ runtime'[r].due = runtime[r].due /\ runtime'[r].close = place
         /\ UNCHANGED <<calls, work>> /\ faults' = faults
<1>1. runtime' = WithClose(r, place) /\ UNCHANGED <<calls, work, faults>>
  BY DEF CloseTo, WithClose
<1> QED
  BY <1>1, CloseChanges DEF Known

LEMMA RecoveryDueKeeps ==
  ASSUME PiIInv, NEW r \in Known, RecoveryDue(r)
  PROVE  PiIInv'
<1> DEFINE mid == [runtime EXCEPT ![r].due = FALSE]
<1>1. runtime[r] \in Runtimes /\ runtime \in [Known -> Runtimes] /\ faults \in Nat
  BY DEF PiIInv, PiTypeOK
<1>2. /\ mid[r] = [runtime[r] EXCEPT !.due = FALSE]
      /\ DOMAIN mid = Known /\ \A q \in Known : q # r => mid[q] = runtime[q]
  BY <1>1
<1>3. mid = [q \in Known |-> mid[q]]
  BY <1>2
<1> HIDE DEF mid
<1>4. /\ mid[r] \in Runtimes /\ ~mid[r].due
      /\ mid[r].recovery = runtime[r].recovery /\ mid[r].recovered = runtime[r].recovered
      /\ mid[r].failed = runtime[r].failed /\ mid[r].lists = runtime[r].lists
      /\ mid[r].close = runtime[r].close
  BY <1>1, <1>2, Zenon DEF Runtimes
<1>5. mid \in [Known -> Runtimes]
  BY <1>1, <1>2, <1>3, <1>4
<1>6. runtime' = Recover(mid, r) /\ UNCHANGED <<calls, work, faults>> /\ runtime[r].due
  BY DEF RecoveryDue, mid
<1>7. /\ Known' = Known /\ runtime' \in [Known -> Runtimes]
      /\ \A q \in Known : q # r => runtime'[q] = runtime[q]
      /\ runtime'[r].lists = runtime[r].lists /\ ~runtime'[r].due
      /\ runtime'[r].close = runtime[r].close
      /\ runtime' = mid \/ runtime'[r].recovery
  <2>1. /\ runtime' \in [Known -> Runtimes] /\ DOMAIN runtime' = Known
        /\ \A q \in Known : q # r => runtime'[q] = mid[q]
        /\ runtime'[r].lists = mid[r].lists
        /\ runtime'[r].due = mid[r].due
        /\ runtime'[r].close = mid[r].close
        /\ runtime' = mid \/ runtime'[r].recovery
    BY <1>5, <1>6, RecoverBegins
  <2> QED
    BY <1>2, <1>4, <2>1 DEF Known
<1>8. runtime[r].close = "open" /\ shutdown # "ended"
  BY <1>6 DEF PiIInv, ShutdownOrder, ClosedIsQuiet
<1> QED
  BY <1>1, <1>4, <1>6, <1>7, <1>8, RuntimeStepKeeps

LEMMA RecoveryFailsKeeps ==
  ASSUME PiIInv, NEW r \in Known, RecoveryFails(r)
  PROVE  PiIInv'
<1> DEFINE due == runtime[r].due \/ runtime[r].close = "open"
<1>1. runtime[r] \in Runtimes /\ runtime \in [Known -> Runtimes] /\ faults' \in Nat
      /\ due \in BOOLEAN
  BY DEF PiIInv, PiTypeOK, RecoveryFails, Fault
<1>2. /\ runtime'[r] = [runtime[r] EXCEPT !.recovery = FALSE, !.recovered = FALSE,
                                          !.failed = TRUE, !.due = due]
      /\ DOMAIN runtime' = Known /\ \A q \in Known : q # r => runtime'[q] = runtime[q]
      /\ runtime' = [q \in DOMAIN runtime' |-> runtime'[q]]
  BY <1>1 DEF RecoveryFails
<1>3. runtime'[r].due => runtime[r].due \/ runtime[r].close = "open"
  BY <1>1, <1>2, Zenon DEF Runtimes
<1> HIDE DEF due
<1>4. /\ runtime'[r] \in Runtimes /\ ~runtime'[r].recovered
      /\ ~runtime'[r].recovery /\ runtime'[r].failed
      /\ runtime'[r].lists = runtime[r].lists /\ runtime'[r].close = runtime[r].close
  BY <1>1, <1>2, Zenon DEF Runtimes
<1>5. runtime' \in [Known -> Runtimes]
  BY <1>1, <1>2, <1>4
<1>6. runtime[r].close \notin {"looping", "tried", "closed", "failed"} /\ shutdown # "ended"
  BY DEF PiIInv, ShutdownOrder, ClosedIsQuiet, RecoveryFails
<1>7. UNCHANGED <<calls, work>>
  BY DEF RecoveryFails
<1> QED
  BY <1>1, <1>2, <1>3, <1>4, <1>5, <1>6, <1>7, RuntimeStepKeeps DEF Known

LEMMA CloseStepsKeep ==
  ASSUME PiIInv, NEW r \in Known,
         Drained(r) \/ CloseRecovered(r) \/ CloseFails(r) \/ CloseReturns(r)
  PROVE  PiIInv'
<1>1. PiTypeOK /\ faults \in Nat /\ runtime[r] \in Runtimes
  BY DEF PiIInv, PiTypeOK
<1>2. runtime[r].close \notin {"closed", "failed"}
  BY DEF Drained, CloseRecovered, CloseFails, CloseReturns
<1>3. shutdown # "ended"
  BY <1>2 DEF PiIInv, ShutdownOrder
<1>4. ASSUME NEW place \in {"looping", "tried", "closed", "failed"}, CloseTo(r, place),
             runtime[r].close # "open", ~runtime[r].recovery,
             place = "closed" => runtime[r].recovered /\ ~InFlight(r)
      PROVE  PiIInv'
  BY <1>1, <1>3, <1>4, CloseToIs, RuntimeStepKeeps
<1>5. runtime[r].close \in {"looping", "tried"} => ~runtime[r].recovery
  BY DEF PiIInv, ClosedIsQuiet
<1>6. CASE Drained(r)
  BY <1>4, <1>6 DEF Drained
<1>7. CASE CloseRecovered(r)
  BY <1>4, <1>7 DEF CloseRecovered
<1>8. CASE CloseFails(r)
  BY <1>4, <1>5, <1>8 DEF CloseFails
<1>9. CASE CloseReturns(r)
  BY <1>4, <1>5, <1>9 DEF CloseReturns
<1> QED
  BY <1>6, <1>7, <1>8, <1>9

LEMMA CloseRecoversKeeps ==
  ASSUME PiIInv, NEW r \in Known, CloseRecovers(r)
  PROVE  PiIInv'
<1> DEFINE mid == WithClose(r, "recovering")
<1>1. PiTypeOK /\ faults \in Nat
  BY DEF PiIInv, PiTypeOK
<1>2. /\ mid \in [Known -> Runtimes] /\ DOMAIN mid = Known
      /\ \A q \in Known : q # r => mid[q] = runtime[q]
      /\ mid[r].recovery = runtime[r].recovery /\ mid[r].recovered = runtime[r].recovered
      /\ mid[r].failed = runtime[r].failed /\ mid[r].lists = runtime[r].lists
      /\ mid[r].due = runtime[r].due /\ mid[r].close = "recovering"
  BY <1>1, CloseChanges
<1>3. /\ runtime' = Recover(mid, r) /\ UNCHANGED <<calls, work, faults>>
      /\ runtime[r].close = "looping"
  BY DEF CloseRecovers, WithClose
<1> HIDE DEF mid
<1>4. /\ Known' = Known /\ runtime' \in [Known -> Runtimes]
      /\ \A q \in Known : q # r => runtime'[q] = runtime[q]
      /\ runtime'[r].lists = runtime[r].lists /\ runtime'[r].due = runtime[r].due
      /\ runtime'[r].close = "recovering"
      /\ runtime' = mid \/ runtime'[r].recovery
  BY <1>2, <1>3, RecoverBegins DEF Known
<1>5. shutdown # "ended"
  BY <1>3 DEF PiIInv, ShutdownOrder
<1> QED
  BY <1>1, <1>2, <1>3, <1>4, <1>5, RuntimeStepKeeps

-----------------------------------------------------------------------------
(* What a recovery does.                                                   *)

LEMMA RecoversKeeps ==
  ASSUME PiIInv, NEW r \in Known, Recovers(r)
  PROVE  PiIInv'
<1>1. PICK later \in SUBSET {o \in Listing(r) : <<r, o>> \in deferred} :
        /\ LET now == Listing(r) \ later IN
           /\ driving'  = driving \cup {<<r, o>> : o \in now \cap open}
           /\ answered' = answered \cup {<<r, o>> : o \in now \ open}
           /\ tracked'  = {o \in tracked : Handle(o) # r \/ o \notin now \ open}
           /\ deferred' = deferred \ {<<r, o>> : o \in now}
        /\ runtime' = [runtime EXCEPT
             ![r].recovery = FALSE,
             ![r].recovered = @ /\ later = {},
             ![r].lists = IF r = owner /\ @ < 2 THEN @ + 1 ELSE @]
  BY DEF Recovers
<1> DEFINE now == Listing(r) \ later
           recovered == runtime[r].recovered /\ later = {}
           lists == IF r = owner /\ runtime[r].lists < 2 THEN runtime[r].lists + 1
                                                         ELSE runtime[r].lists
<1>2. UNCHANGED <<calls, open, cancel, faults>> /\ runtime[r].recovery
  BY DEF Recovers
<1>3. PiTypeOK /\ runtime[r] \in Runtimes /\ runtime \in [Known -> Runtimes]
  BY DEF PiIInv, PiTypeOK
<1>4. now \subseteq Work
  BY DEF Listing, Work
<1>5. /\ \A q, o : <<q, o>> \in driving' <=> <<q, o>> \in driving \/ (q = r /\ o \in now \cap open)
      /\ \A q, o : <<q, o>> \in answered' <=> <<q, o>> \in answered \/ (q = r /\ o \in now \ open)
      /\ \A q, o : <<q, o>> \in deferred' <=> <<q, o>> \in deferred /\ ~(q = r /\ o \in now)
      /\ \A o : o \in tracked' <=> o \in tracked /\ (Handle(o) # r \/ o \notin now \ open)
  BY <1>1
<1>6. /\ driving' \subseteq Known \X Work /\ answered' \subseteq Known \X Work
      /\ deferred' \subseteq Known \X Work /\ tracked' \subseteq Work
  <2>1. /\ driving \subseteq Known \X Work /\ answered \subseteq Known \X Work
        /\ deferred \subseteq Known \X Work /\ tracked \subseteq Work
    BY <1>3, PiTypes
  <2> DEFINE started == {<<r, o>> : o \in now \cap open}
             ended   == {<<r, o>> : o \in now \ open}
  <2>2. started \subseteq Known \X Work /\ ended \subseteq Known \X Work
    <3> HIDE DEF now
    <3> QED
      BY <1>4
  <2>3. driving' = driving \cup started /\ answered' = answered \cup ended
    BY <1>1
  <2>4. deferred' \subseteq Known \X Work /\ tracked' \subseteq Work
    BY <1>1, <2>1
  <2> QED
    <3> HIDE DEF started, ended
    <3> QED
      BY <2>1, <2>2, <2>3, <2>4
<1>7. recovered \in BOOLEAN /\ lists \in 0..2 /\ (r = owner => lists # 0)
      /\ (lists = 1 /\ r = owner => runtime[r].lists = 0) /\ (r # owner => lists = runtime[r].lists)
  BY <1>3, RuntimeFields
<1>8. /\ runtime'[r] = [runtime[r] EXCEPT !.recovery = FALSE, !.recovered = recovered, !.lists = lists]
      /\ DOMAIN runtime' = Known /\ \A q \in Known : q # r => runtime'[q] = runtime[q]
      /\ runtime' = [q \in DOMAIN runtime' |-> runtime'[q]]
  BY <1>1, <1>3
<1>9. runtime'[r].recovered = recovered
  BY <1>3, <1>8, Zenon DEF Runtimes
<1>10. runtime'[r].lists = lists
  BY <1>3, <1>8, Zenon DEF Runtimes
<1>11. recovered => runtime[r].recovered /\ now = Listing(r)
  OBVIOUS
<1>12. \A o \in Listing(r) \ now : <<r, o>> \in deferred
  BY <1>1
<1> HIDE DEF recovered, lists, now
<1>13. /\ runtime'[r] \in Runtimes /\ ~runtime'[r].recovery
       /\ runtime'[r].failed = runtime[r].failed
       /\ runtime'[r].due = runtime[r].due /\ runtime'[r].close = runtime[r].close
  BY <1>3, <1>7, <1>8, Zenon DEF Runtimes
<1>14. runtime' \in [Known -> Runtimes] /\ Known' = Known
  BY <1>3, <1>8, <1>13 DEF Known
<1> USE DEF calls
<1>15. PiTypeOK'
  BY <1>2, <1>3, <1>6, <1>14 DEF PiTypeOK
<1>16. OwnerIsFirst' /\ OnePreparation' /\ PreparedSpawns'
  BY <1>2, <1>14 DEF PiIInv, OwnerIsFirst, OnePreparation, PreparedSpawns, Preparing, Standing
\* What is listed is open and nobody's, or was deferred.
<1>17. \A o \in now : <<r, o>> \in deferred \/ (r = owner /\ o \in open /\ ~Recorded(r, o))
  BY DEF Listing, now
<1>18. /\ r # owner => (Unlisted' <=> Unlisted)
       /\ r = owner => ~Unlisted'
  <2>1. owner' = owner /\ (owner # None => owner \in Known) /\ r # None
    BY <1>2, <1>3, PiTypes
  <2>2. r # owner /\ owner # None => runtime'[owner].lists = runtime[owner].lists
    BY <1>8, <2>1
  <2>3. r = owner => runtime'[owner].lists # 0
    BY <1>7, <1>10
  <2> QED
    BY <2>1, <2>2, <2>3 DEF Unlisted
<1>19. ListedFirst'
  <2>1. CASE Unlisted /\ r # owner
    <3>1. now = {}
      BY <1>17, <2>1 DEF PiIInv, ListedFirst
    <3> QED
      BY <1>1, <1>2, <2>1, <3>1 DEF PiIInv, ListedFirst, now
  <2> QED
    BY <1>18, <2>1 DEF ListedFirst
<1>20. HandlesTracked'
  <2>1. \A k \in Tool : spawns[k] = "made" /\ <<prepared[k], k>> \notin answered' => k \in tracked'
    <3> SUFFICES ASSUME NEW k \in Tool, spawns[k] = "made", <<prepared[k], k>> \notin answered'
                 PROVE  k \in tracked'
      OBVIOUS
    <3>1. k \in tracked /\ Handle(k) = prepared[k]
      BY <1>5 DEF PiIInv, HandlesTracked, Handle
    <3> QED
      BY <1>5, <3>1
  <2> QED
    BY <1>2, <1>5, <2>1 DEF PiIInv, HandlesTracked
<1>21. RecoveryDone'
  <2>1. recovered => \A o \in Work : <<r, o>> \notin deferred'
    <3>1. \A o \in Work : <<r, o>> \in deferred => o \in Listing(r)
      BY DEF Listing, Work
    <3> QED
      BY <1>5, <1>11, <3>1
  <2>2. \A q \in Known : runtime'[q].recovered /\ ~runtime'[q].recovery =>
          \A o \in Work : <<q, o>> \notin deferred'
    BY <1>5, <1>8, <1>9, <2>1 DEF PiIInv, RecoveryDone
  <2>3. owner # None /\ ~runtime'[owner].recovery
          /\ (runtime'[owner].recovered \/ ~runtime'[owner].failed) => runtime'[owner].lists # 0
    BY <1>3, <1>7, <1>8, <1>10 DEF PiIInv, RecoveryDone, PiTypeOK
  <2> QED
    BY <1>2, <1>14, <2>2, <2>3 DEF RecoveryDone
<1>22. OpenIsDriven'
  <2>1. \A q \in Known, o \in Old : <<q, o>> \in driving' \cup deferred' => q = owner
    BY <1>5, <1>17 DEF PiIInv, OpenIsDriven
  <2>2. \A q, o : <<q, o>> \in driving \cup deferred /\ o \in open => <<q, o>> \in driving' \cup deferred'
    BY <1>5
  <2>3. ~Unlisted' => \A o \in Old \cap open : <<owner, o>> \in driving' \cup deferred'
    <3> SUFFICES ASSUME ~Unlisted', NEW o \in Old, o \in open
                 PROVE  <<owner, o>> \in driving' \cup deferred'
      OBVIOUS
    <3>1. CASE ~Unlisted
      BY <2>2, <3>1 DEF PiIInv, OpenIsDriven
    <3>2. CASE Unlisted
      <4>1. r = owner
        BY <1>18, <3>2
      <4>2. ~Recorded(r, o)
        BY <1>3, <3>2, PiTypes DEF PiIInv, ListedFirst, Recorded, Cancelling
      <4>3. o \in Listing(r)
        BY <4>1, <4>2, Zenon DEF Listing
      <4> QED
        BY <1>5, <1>12, <4>1, <4>3
    <3> QED
      BY <3>1, <3>2
  <2>4. \A k \in Tool \cap open : spawns[k] = "made" =>
          \/ <<prepared[k], k>> \in driving' \cup deferred'
          \/ cancel[k] \in {"asked", "awaited"}
    BY <2>2 DEF PiIInv, OpenIsDriven
  <2> QED
    BY <1>2, <1>14, <2>1, <2>3, <2>4 DEF OpenIsDriven
<1>23. DrivenByItsRuntime'
  <2> SUFFICES ASSUME ~Unlisted', runtime'[owner].lists < 2,
                      NEW q \in Known, NEW k \in Tool, <<q, k>> \in driving' \cup deferred'
               PROVE  q = prepared[k] /\ spawns[k] = "made"
    BY <1>2, <1>14 DEF DrivenByItsRuntime
  <2>1. CASE r # owner
    <3>1. <<q, k>> \in driving \cup deferred
      BY <1>5, <1>17, <2>1
    <3>2. ~Unlisted /\ runtime[owner].lists < 2
      BY <1>3, <1>8, <1>18, <2>1 DEF PiTypeOK, Unlisted
    <3> QED
      BY <3>1, <3>2 DEF PiIInv, DrivenByItsRuntime
  <2>2. CASE r = owner
    <3>1. Unlisted
      BY <1>7, <1>10, <2>2 DEF Unlisted
    <3>2. <<q, k>> \notin driving \cup deferred
      BY <3>1 DEF PiIInv, ListedFirst
    <3>3. k \in open /\ spawns[k] = "none"
      BY <1>5, <1>17, <3>1, <3>2 DEF PiIInv, ListedFirst
    <3> QED
      BY <3>3 DEF PiIInv, PreparedSpawns
  <2> QED
    BY <2>1, <2>2
<1>24. ShutdownOrder'
  <2>1. Admitted' <=> Admitted
    BY <1>2 DEF Admitted
  <2>2. \A q \in Known : runtime'[q].due = runtime[q].due /\ runtime'[q].close = runtime[q].close
    BY <1>8, <1>13
  <2> QED
    BY <1>2, <1>5, <1>14, <2>1, <2>2 DEF PiIInv, ShutdownOrder
<1>25. ClosedIsQuiet'
  <2>1. \A q \in Known : q # r => (InFlight(q)' <=> InFlight(q))
    BY <1>2, <1>5 DEF InFlight, Cancelling, Handle
  <2>2. runtime[r].close \in {"open", "draining", "recovering"}
    BY <1>2, <1>3, RuntimeFields DEF PiIInv, ClosedIsQuiet
  <2>3. ASSUME NEW q \in Known, q # r
        PROVE  /\ runtime'[q].close # "open" => shutdown \in {"closing", "ended"}
               /\ runtime'[q].close \in {"looping", "tried", "closed", "failed"} => ~runtime'[q].recovery
               /\ runtime'[q].close = "closed" => runtime'[q].recovered /\ ~InFlight(q)'
    BY <1>8, <2>1, <2>3 DEF PiIInv, ClosedIsQuiet
  <2>4. /\ runtime'[r].close # "open" => shutdown \in {"closing", "ended"}
        /\ runtime'[r].close \notin {"looping", "tried", "closed", "failed"}
    BY <1>13, <2>2 DEF PiIInv, ClosedIsQuiet
  <2> QED
    BY <1>2, <1>14, <2>3, <2>4 DEF ClosedIsQuiet
<1> QED
  BY <1>15, <1>16, <1>19, <1>20, <1>21, <1>22, <1>23, <1>24, <1>25 DEF PiIInv

-----------------------------------------------------------------------------
(* Ends and cancellations.                                                 *)

\* An Operation that a Runtime has in flight ends there, or is left to its recovery.
LEMMA WorkStepKeeps ==
  ASSUME PiIInv, UNCHANGED calls, faults' \in Nat,
         NEW r \in Known, NEW o \in Work,
         <<r, o>> \in driving \/ Cancelling(r, o),
         driving' \subseteq driving,
         answered' = answered \/ answered' = answered \cup {<<r, o>>},
         tracked' = tracked
           \/ (tracked' = tracked \ {o} /\ Handle(o) = r /\ <<r, o>> \in answered'),
         open' \subseteq open,
         cancel' \in [Work -> {"none", "asked", "awaited", "done", "failed"}],
         \A p \in Work : p # o => cancel'[p] = cancel[p],
         \/ cancel'[o] = cancel[o]
         \/ Cancelling(r, o) /\ (cancel'[o] = "failed" \/ (cancel'[o] = "done" /\ o \notin tracked')),
         \/ deferred' = deferred /\ UNCHANGED runtime
         \/ deferred' = deferred \cup {<<r, o>>} /\ Defer(r),
         \A q, p : p \in open' /\ <<q, p>> \in driving \cup deferred =>
           \/ <<q, p>> \in driving' \cup deferred'
           \/ p = o /\ o \in Tool /\ cancel'[o] \in {"asked", "awaited"},
         o \in open' /\ Cancelling(r, o) =>
           cancel'[o] \in {"asked", "awaited"} \/ <<r, o>> \in driving' \cup deferred'
  PROVE  PiIInv'
<1> USE DEF calls
<1>1. PiTypeOK
  BY DEF PiIInv
<1>2. /\ Known' = Known /\ runtime' \in [Known -> Runtimes]
      /\ \A q \in Known : q # r => runtime'[q] = runtime[q]
      /\ \A q \in Known : /\ runtime'[q].recovery = runtime[q].recovery
                          /\ runtime'[q].failed = runtime[q].failed
                          /\ runtime'[q].lists = runtime[q].lists
                          /\ runtime'[q].close = runtime[q].close
                          /\ runtime'[q].due => runtime[q].due \/ runtime[q].close = "open"
                          /\ runtime'[q].recovered => runtime[q].recovered
  <2>1. CASE UNCHANGED runtime
    BY <1>1, <2>1 DEF Known, PiTypeOK
  <2>2. CASE Defer(r)
    BY <1>1, <2>2, DeferIs
  <2> QED
    BY <2>1, <2>2
<1>3. /\ \A q, p : <<q, p>> \in deferred' <=>
            <<q, p>> \in deferred \/ (q = r /\ p = o /\ deferred' # deferred)
      /\ deferred' # deferred => ~runtime'[r].recovered
      /\ \A q, p : <<q, p>> \in answered => <<q, p>> \in answered'
  BY <1>1, DeferIs
<1>4. /\ driving' \subseteq Known \X Work /\ deferred' \subseteq Known \X Work
      /\ answered' \subseteq Known \X Work /\ open' \subseteq Work /\ tracked' \subseteq Work
  BY <1>1, PiTypes
<1>5. ~Unlisted /\ ~Unlisted'
  <2>1. ~Unlisted
    BY DEF PiIInv, ListedFirst, Cancelling
  <2>2. owner \in Known /\ owner' = owner
    BY <1>1, <2>1, PiTypes DEF Unlisted
  <2> QED
    BY <1>2, <2>1, <2>2 DEF Unlisted
<1>6. PiTypeOK'
  BY <1>1, <1>2, <1>4 DEF PiTypeOK
<1>7. OwnerIsFirst' /\ OnePreparation' /\ PreparedSpawns' /\ ListedFirst'
  BY <1>2, <1>5 DEF PiIInv, OwnerIsFirst, OnePreparation, PreparedSpawns, ListedFirst,
                    Preparing, Standing
<1>8. \A p \in Work : cancel'[p] # "none" => cancel[p] # "none"
  BY DEF Cancelling
<1>9. HandlesTracked'
  <2>1. ASSUME NEW k \in Tool
        PROVE  /\ k \in tracked' \/ cancel'[k] # "none" => spawns[k] = "made"
               /\ spawns[k] = "made" /\ <<prepared[k], k>> \notin answered' => k \in tracked'
    <3>1. k \in Work /\ Handle(k) = prepared[k]
      BY DEF Work, Handle
    <3> QED
      BY <1>3, <1>8, <3>1 DEF PiIInv, HandlesTracked
  <2>2. \A p \in Old : cancel'[p] # "none" => shutdown \in {"cancelling", "closing", "ended"}
    BY <1>8 DEF PiIInv, HandlesTracked, Work
  <2>3. \A p \in tracked' : cancel'[p] # "done"
    BY <1>4 DEF PiIInv, HandlesTracked
  <2> QED
    BY <2>1, <2>2, <2>3 DEF HandlesTracked
<1>10. RecoveryDone'
  <2>1. ASSUME NEW q \in Known, runtime'[q].recovered /\ ~runtime'[q].recovery, NEW p \in Work
        PROVE  <<q, p>> \notin deferred'
    BY <1>2, <1>3, <2>1 DEF PiIInv, RecoveryDone
  <2>2. owner \in Known
    BY <1>1, <1>5, PiTypes DEF Unlisted
  <2> QED
    BY <1>2, <2>1, <2>2 DEF PiIInv, RecoveryDone
<1>11. \A q, p : <<q, p>> \in driving' \cup deferred' =>
         <<q, p>> \in driving \cup deferred \/ (q = r /\ p = o /\ Cancelling(r, o))
  <2> SUFFICES ASSUME NEW q, NEW p, <<q, p>> \in driving' \cup deferred'
               PROVE  <<q, p>> \in driving \cup deferred \/ (q = r /\ p = o /\ Cancelling(r, o))
    OBVIOUS
  <2>1. CASE <<q, p>> \in driving'
    BY <2>1
  <2>2. CASE <<q, p>> \in deferred' /\ <<q, p>> \notin deferred
    BY <1>3, <2>2
  <2> QED
    BY <2>1, <2>2
<1>12. OpenIsDriven'
  <2>1. ASSUME NEW q \in Known, NEW p \in Old, <<q, p>> \in driving' \cup deferred'
        PROVE  q = owner
    BY <1>1, <1>11, <2>1, PiTypes DEF PiIInv, OpenIsDriven, Cancelling, Handle
  <2>2. ASSUME NEW p \in Old, p \in open'
        PROVE  <<owner, p>> \in driving' \cup deferred'
    BY <1>1, <1>5, <2>2, PiTypes DEF PiIInv, OpenIsDriven
  <2>3. ASSUME NEW k \in Tool, k \in open', spawns[k] = "made"
        PROVE  \/ <<prepared[k], k>> \in driving' \cup deferred'
               \/ cancel'[k] \in {"asked", "awaited"}
    <3>1. CASE <<prepared[k], k>> \in driving \cup deferred
      BY <2>3, <3>1
    <3>2. CASE cancel[k] \in {"asked", "awaited"} /\ cancel'[k] # cancel[k]
      <4>1. k = o /\ Cancelling(r, o) /\ Handle(o) = prepared[o]
        BY <3>2 DEF Work, Handle
      <4> QED
        BY <2>3, <4>1 DEF Cancelling
    <3> QED
      BY <2>3, <3>1, <3>2 DEF PiIInv, OpenIsDriven
  <2> QED
    BY <1>2, <2>1, <2>2, <2>3 DEF OpenIsDriven
<1>13. DrivenByItsRuntime'
  <2> SUFFICES ASSUME runtime'[owner].lists < 2,
                      NEW q \in Known, NEW k \in Tool, <<q, k>> \in driving' \cup deferred'
               PROVE  q = prepared[k] /\ spawns[k] = "made"
    BY <1>2 DEF DrivenByItsRuntime
  <2>1. owner \in Known /\ runtime[owner].lists < 2
    BY <1>1, <1>2, <1>5, PiTypes DEF Unlisted
  <2>2. CASE <<q, k>> \in driving \cup deferred
    BY <1>5, <2>1, <2>2 DEF PiIInv, DrivenByItsRuntime
  <2>3. CASE q = r /\ k = o /\ Cancelling(r, o)
    BY <2>3 DEF PiIInv, HandlesTracked, Cancelling, Handle
  <2> QED
    BY <1>11, <2>2, <2>3
<1>14. ShutdownOrder'
  <2>1. Admitted' <=> Admitted
    BY DEF Admitted
  <2>2. shutdown \in {"cancelling", "closing", "ended"} =>
          \A p \in tracked' : cancel'[p] \in {"awaited", "failed"}
    BY <1>4 DEF PiIInv, ShutdownOrder, HandlesTracked
  <2>3. shutdown \in {"closing", "ended"} => \A p \in Work : cancel'[p] # "awaited"
    BY DEF PiIInv, ShutdownOrder
  <2> QED
    BY <1>2, <2>1, <2>2, <2>3 DEF PiIInv, ShutdownOrder
<1>15. ClosedIsQuiet'
  <2>1. \A q \in Known : InFlight(q)' => InFlight(q)
    BY DEF InFlight, Cancelling, Handle, Work
  <2>2. InFlight(r)
    BY DEF InFlight, Work
  <2>3. ASSUME NEW q \in Known
        PROVE  /\ runtime'[q].close # "open" => shutdown \in {"closing", "ended"}
               /\ runtime'[q].close \in {"looping", "tried", "closed", "failed"} => ~runtime'[q].recovery
               /\ runtime'[q].close = "closed" => runtime'[q].recovered /\ ~InFlight(q)'
    <3>1. runtime[q].close = "closed" => q # r
      BY <2>2 DEF PiIInv, ClosedIsQuiet
    <3> QED
      BY <1>2, <2>1, <3>1 DEF PiIInv, ClosedIsQuiet
  <2> QED
    BY <1>2, <2>3 DEF ClosedIsQuiet
<1> QED
  BY <1>6, <1>7, <1>9, <1>10, <1>12, <1>13, <1>14, <1>15 DEF PiIInv

LEMMA HandleIsKnown ==
  ASSUME PiIInv, NEW o \in Work, cancel[o] # "none"
  PROVE  Handle(o) \in Known
<1>1. PiTypeOK
  BY DEF PiIInv
<1>2. CASE o \in Tool
  BY <1>2 DEF PiIInv, HandlesTracked, PreparedSpawns, Handle
<1>3. CASE o \notin Tool
  <2>1. owner # None
    BY DEF PiIInv, ListedFirst, Unlisted
  <2> QED
    BY <1>1, <1>3, <2>1, PiTypes DEF Handle
<1> QED
  BY <1>2, <1>3

LEMMA CancelChanges ==
  ASSUME PiTypeOK, NEW o \in Work, NEW step \in {"none", "asked", "awaited", "done", "failed"},
         cancel' = [cancel EXCEPT ![o] = step]
  PROVE  /\ cancel' \in [Work -> {"none", "asked", "awaited", "done", "failed"}]
         /\ \A p \in Work : cancel'[p] = IF p = o THEN step ELSE cancel[p]
  BY DEF PiTypeOK

LEMMA EndsKeep ==
  ASSUME PiIInv, NEW r \in Known, NEW o \in Work, Ends(r, o)
  PROVE  PiIInv'
<1>1. PiTypeOK /\ faults' \in Nat /\ UNCHANGED calls
  BY DEF PiIInv, PiTypeOK, Ends
<1>2. cancel' = cancel /\ cancel \in [Work -> {"none", "asked", "awaited", "done", "failed"}]
  BY <1>1 DEF PiTypeOK, Ends
<1>3. /\ <<r, o>> \in driving /\ driving' \subseteq driving
      /\ answered' = answered \cup {<<r, o>>} /\ <<r, o>> \in answered'
      /\ tracked' = tracked \/ (tracked' = tracked \ {o} /\ Handle(o) = r)
      /\ open' \subseteq open /\ o \notin open'
      /\ deferred' = deferred /\ UNCHANGED runtime
      /\ \A q, p : p # o /\ <<q, p>> \in driving => <<q, p>> \in driving'
  BY DEF Ends, Answer
<1> QED
  BY <1>1, <1>2, <1>3, WorkStepKeeps

LEMMA EndFailsKeeps ==
  ASSUME PiIInv, NEW r \in Known, NEW o \in Work, EndFails(r, o)
  PROVE  PiIInv'
<1>1. PiTypeOK /\ faults' \in Nat /\ UNCHANGED calls
  BY DEF PiIInv, PiTypeOK, EndFails, Fault
<1>2. cancel' = cancel /\ cancel \in [Work -> {"none", "asked", "awaited", "done", "failed"}]
  BY <1>1 DEF PiTypeOK, EndFails
<1>3. Cancelling(r, o) => cancel[o] \in {"asked", "awaited"}
  BY DEF Cancelling
<1>4. /\ <<r, o>> \in driving /\ driving' = driving \ {<<r, o>>} /\ driving' \subseteq driving
      /\ answered' = answered \cup {<<r, o>>} /\ <<r, o>> \in answered'
      /\ tracked' = tracked \/ (tracked' = tracked \ {o} /\ Handle(o) = r)
      /\ open' \subseteq open
  BY DEF EndFails, Answer
<1>5. \A q, p : <<q, p>> \in driving =>
        <<q, p>> \in driving' \/ (q = r /\ p = o /\ <<q, p>> = <<r, o>>)
  BY <1>4
<1>6. CASE deferred' = deferred \cup {<<r, o>>} /\ Defer(r)
  <2>1. <<r, o>> \in deferred' /\ deferred \subseteq deferred'
    BY <1>6
  <2>2. \A q, p : <<q, p>> \in driving \cup deferred => <<q, p>> \in driving' \cup deferred'
    BY <1>5, <2>1
  <2> QED
    BY <1>1, <1>2, <1>4, <1>6, <2>1, <2>2, WorkStepKeeps
<1>7. CASE Cancelling(r, o) /\ o \in Tool /\ UNCHANGED <<deferred, runtime>>
  <2>1. \A q, p : <<q, p>> \in driving \cup deferred => p = o \/ <<q, p>> \in driving' \cup deferred'
    BY <1>5, <1>7
  <2> QED
    BY <1>1, <1>2, <1>3, <1>4, <1>7, <2>1, WorkStepKeeps
<1> QED
  BY <1>6, <1>7 DEF EndFails

LEMMA CancelEndsKeeps ==
  ASSUME PiIInv, NEW o \in Work, CancelEnds(o)
  PROVE  PiIInv'
<1>1. PiTypeOK /\ faults' \in Nat /\ UNCHANGED calls
  BY DEF PiIInv, PiTypeOK, CancelEnds
<1>2. Handle(o) \in Known /\ Cancelling(Handle(o), o)
  BY HandleIsKnown DEF CancelEnds, Cancelling
<1>3. /\ cancel' \in [Work -> {"none", "asked", "awaited", "done", "failed"}]
      /\ \A p \in Work : cancel'[p] = IF p = o THEN "done" ELSE cancel[p]
  BY <1>1, CancelChanges DEF CancelEnds
<1>4. /\ o \notin tracked' /\ tracked' = tracked \ {o} /\ o \notin open' /\ open' \subseteq open
      /\ answered' = answered \cup {<<Handle(o), o>>} /\ <<Handle(o), o>> \in answered'
      /\ UNCHANGED <<runtime, driving, deferred>>
  BY DEF CancelEnds, Answer
<1> QED
  BY <1>1, <1>2, <1>3, <1>4, WorkStepKeeps

LEMMA CancelUnsettledKeeps ==
  ASSUME PiIInv, NEW o \in Work, CancelIsLate(o) \/ CancelFails(o)
  PROVE  PiIInv'
<1>1. /\ PiTypeOK /\ faults' \in Nat /\ UNCHANGED calls
      /\ UNCHANGED <<driving, answered, open, tracked>>
  BY DEF PiIInv, PiTypeOK, CancelIsLate, CancelFails, Fault
<1>2. Handle(o) \in Known /\ Cancelling(Handle(o), o)
  BY HandleIsKnown DEF CancelIsLate, CancelFails, Cancelling
<1>3. /\ cancel' \in [Work -> {"none", "asked", "awaited", "done", "failed"}]
      /\ \A p \in Work : cancel'[p] = IF p = o THEN "failed" ELSE cancel[p]
  BY <1>1, CancelChanges DEF CancelIsLate, CancelFails
<1>4. CASE <<Handle(o), o>> \in driving /\ UNCHANGED <<deferred, runtime>>
  <2>1. <<Handle(o), o>> \in driving' \cup deferred'
    BY <1>1, <1>4
  <2> QED
    BY <1>1, <1>2, <1>3, <1>4, <2>1, WorkStepKeeps
<1>5. CASE deferred' = deferred \cup {<<Handle(o), o>>} /\ Defer(Handle(o))
  <2>1. <<Handle(o), o>> \in driving' \cup deferred' /\ deferred \subseteq deferred'
    BY <1>5
  <2> QED
    BY <1>1, <1>2, <1>3, <1>5, <2>1, WorkStepKeeps
<1> QED
  BY <1>4, <1>5 DEF CancelIsLate, CancelFails

-----------------------------------------------------------------------------
(* The start of the session.                                               *)

LEMMA SessionStartKeeps ==
  ASSUME PiIInv, SessionStart
  PROVE  PiIInv'
<1>1. /\ UNCHANGED <<toolOf, shutdown, at, prepared, spawns, owner, runtime, work, faults>>
      /\ start' = "resolving" /\ shutdown = "open"
  BY DEF SessionStart, closing
<1>2. at' \in [Call -> Standings] /\ faults' \in Nat
  BY <1>1 DEF PiIInv, PiTypeOK
<1>3. OnePreparation' /\ \A k \in Tool : Preparing(k) => Preparing(k)'
  BY <1>1 DEF PiIInv, OnePreparation, Preparing, Standing, Known
<1> QED
  BY <1>1, <1>2, <1>3, PlacesKeep

LEMMA StartEndsKeeps ==
  ASSUME PiIInv, StartEnds
  PROVE  PiIInv'
<1>1. /\ UNCHANGED <<toolOf, shutdown, at, prepared, spawns, owner, runtime, work, faults>>
      /\ start' = "ended"
  BY DEF StartEnds
<1>2. at' \in [Call -> Standings] /\ faults' \in Nat
  BY <1>1 DEF PiIInv, PiTypeOK
<1>3. OnePreparation' /\ \A k \in Tool : Preparing(k) => Preparing(k)'
  BY <1>1 DEF PiIInv, OnePreparation, Preparing, Standing, Known
<1>4. shutdown \in {"cancelling", "closing", "ended"} => ~Admitted'
  BY <1>1 DEF PiIInv, ShutdownOrder, Admitted
<1> QED
  BY <1>1, <1>2, <1>3, <1>4, PlacesKeep

LEMMA OpenShutdown ==
  ASSUME PiIInv, ~closing
  PROVE  /\ shutdown = "open"
         /\ \A r \in Known : runtime[r].close = "open"
         /\ \A o \in Old : cancel[o] = "none"
  BY PiTypes DEF PiIInv, closing, ClosedIsQuiet, HandlesTracked

LEMMA StartRecoversKeeps ==
  ASSUME PiIInv, StartRecovers
  PROVE  PiIInv'
<1>1. /\ UNCHANGED <<toolOf, shutdown, at, prepared, spawns, work, faults>>
      /\ start' = "recovering" /\ shutdown = "open"
  BY DEF StartRecovers, closing
<1>2. PiTypeOK
  BY DEF PiIInv
<1>3. CASE owner = None
  <2>1. /\ owner' = Boot /\ Known = {}
        /\ runtime' = [r \in {Boot} |-> NewRuntime] /\ Known' = {Boot}
    BY <1>3 DEF StartRecovers, PiIInv, OwnerIsFirst, Known
  <2>2. Boot # None
    BY PiSessionAssumption
  <2>3. Unlisted /\ Unlisted'
    BY <1>3, <2>1, NewIsRuntime DEF Unlisted
  <2>4. driving = {} /\ deferred = {} /\ answered = {} /\ tracked = {}
    BY <2>3 DEF PiIInv, ListedFirst
  <2>5. PiTypeOK'
    BY <1>1, <1>2, <2>1, <2>4, NewIsRuntime DEF PiTypeOK, work
  <2>6. \A k \in Tool : prepared[k] = None
    BY <2>1 DEF PiIInv, PreparedSpawns
  <2>7. OwnerIsFirst' /\ OnePreparation' /\ PreparedSpawns'
    <3>1. OwnerIsFirst'
      BY <2>1, <2>2 DEF OwnerIsFirst
    <3>2. OnePreparation'
      BY <1>1, <2>1 DEF PiIInv, OnePreparation
    <3>3. PreparedSpawns'
      BY <1>1, <2>6 DEF PiIInv, PreparedSpawns, Preparing, Standing, work
    <3> QED
      BY <3>1, <3>2, <3>3
  <2>8. ListedFirst' /\ HandlesTracked'
    BY <1>1, <2>3 DEF PiIInv, ListedFirst, HandlesTracked, work
  <2>9. RecoveryDone' /\ OpenIsDriven' /\ DrivenByItsRuntime'
    <3>1. RecoveryDone'
      BY <1>1, <2>1, NewIsRuntime DEF RecoveryDone
    <3>2. DrivenByItsRuntime'
      BY <2>3 DEF DrivenByItsRuntime
    <3>3. OpenIsDriven'
      BY <1>1, <2>3, <2>4 DEF PiIInv, OpenIsDriven, ListedFirst, work
    <3> QED
      BY <3>1, <3>2, <3>3
  <2>10. ShutdownOrder' /\ ClosedIsQuiet'
    BY <1>1, <2>1, NewIsRuntime DEF ShutdownOrder, ClosedIsQuiet
  <2> QED
    BY <2>5, <2>7, <2>8, <2>9, <2>10 DEF PiIInv
<1>4. CASE owner # None
  <2>1. runtime' = Recover(runtime, owner) /\ owner' = owner
    BY <1>4 DEF StartRecovers
  <2>2. owner \in Known /\ runtime \in [Known -> Runtimes]
    BY <1>2, <1>4, PiTypes, PiDomain
  <2>3. /\ Known' = Known /\ runtime' \in [Known -> Runtimes]
        /\ \A q \in Known : q # owner => runtime'[q] = runtime[q]
        /\ runtime'[owner].lists = runtime[owner].lists
        /\ runtime'[owner].due = runtime[owner].due
        /\ runtime'[owner].close = runtime[owner].close
        /\ runtime' = runtime \/ runtime'[owner].recovery
    BY <2>1, <2>2, RecoverBegins DEF Known
  <2>4. Unlisted' <=> Unlisted
    BY <2>1, <2>3 DEF Unlisted
  <2>5. PiTypeOK'
    BY <1>1, <1>2, <2>1, <2>3 DEF PiTypeOK, work
  <2>6. OwnerIsFirst' /\ OnePreparation' /\ PreparedSpawns'
    BY <1>1, <2>1, <2>3 DEF PiIInv, OwnerIsFirst, OnePreparation, PreparedSpawns, Preparing,
                            Standing, work
  <2>7. ListedFirst' /\ HandlesTracked'
    BY <1>1, <2>4 DEF PiIInv, ListedFirst, HandlesTracked, work
  <2>8. RecoveryDone'
    BY <1>1, <2>1, <2>3 DEF PiIInv, RecoveryDone, work
  <2>9. OpenIsDriven' /\ DrivenByItsRuntime'
    BY <1>1, <2>1, <2>3, <2>4 DEF PiIInv, OpenIsDriven, DrivenByItsRuntime, work
  <2>10. ShutdownOrder' /\ ClosedIsQuiet'
    <3>1. \A q \in Known : runtime'[q].close = "open"
      BY <1>1, <2>3 DEF PiIInv, ClosedIsQuiet
    <3> QED
      BY <1>1, <2>3, <3>1 DEF ShutdownOrder, ClosedIsQuiet
  <2> QED
    BY <2>5, <2>6, <2>7, <2>8, <2>9, <2>10 DEF PiIInv
<1> QED
  BY <1>3, <1>4

LEMMA StartTracksKeeps ==
  ASSUME PiIInv, StartTracks
  PROVE  PiIInv'
<1>1. /\ UNCHANGED <<toolOf, shutdown, at, prepared, spawns, owner, runtime, driving, deferred,
                     answered, open, cancel, faults>>
      /\ start' = "backgrounds" /\ shutdown = "open"
      /\ tracked' = tracked \cup {o \in Old : <<owner, o>> \in (driving \cup deferred) \ answered}
  BY DEF StartTracks, closing
<1>2. PiTypeOK /\ ~closing
  BY DEF PiIInv, StartTracks
<1>3. Known' = Known /\ (Unlisted' <=> Unlisted)
  BY <1>1 DEF Known, Unlisted
<1>4. PiTypeOK'
  <2>1. tracked' \subseteq Work
    BY <1>1, <1>2, PiTypes DEF Work
  <2> QED
    BY <1>1, <1>2, <1>3, <2>1 DEF PiTypeOK
<1>5. OwnerIsFirst' /\ OnePreparation' /\ PreparedSpawns'
  BY <1>1, <1>3 DEF PiIInv, OwnerIsFirst, OnePreparation, PreparedSpawns, Preparing, Standing
<1>6. ListedFirst'
  BY <1>1, <1>3 DEF PiIInv, ListedFirst
<1>7. HandlesTracked'
  <2>1. \A o \in tracked' : o \in tracked \/ (o \in Old /\ cancel[o] = "none" /\ o \notin Tool)
    BY <1>1, <1>2, OpenShutdown, PiTypes
  <2> QED
    BY <1>1, <2>1 DEF PiIInv, HandlesTracked
<1>8. RecoveryDone' /\ OpenIsDriven' /\ DrivenByItsRuntime'
  BY <1>1, <1>3 DEF PiIInv, RecoveryDone, OpenIsDriven, DrivenByItsRuntime
<1>9. ShutdownOrder'
  BY <1>1 DEF ShutdownOrder
<1>10. ClosedIsQuiet'
  BY <1>1, <1>3 DEF PiIInv, ClosedIsQuiet, InFlight, Cancelling, Handle
<1> QED
  BY <1>4, <1>5, <1>6, <1>7, <1>8, <1>9, <1>10 DEF PiIInv

-----------------------------------------------------------------------------
(* The shutdown.                                                           *)

LEMMA StopAdmissionsKeeps ==
  ASSUME PiIInv, StopAdmissions
  PROVE  PiIInv'
<1>1. /\ UNCHANGED <<toolOf, start, at, prepared, spawns, owner, runtime, work, faults>>
      /\ shutdown = "open" /\ shutdown' = "admissions"
  BY DEF StopAdmissions
<1> USE DEF work
<1>2. PiTypeOK'
  BY <1>1 DEF PiIInv, PiTypeOK, Known
<1>3. OwnerIsFirst' /\ OnePreparation' /\ PreparedSpawns' /\ ListedFirst'
  BY <1>1 DEF PiIInv, OwnerIsFirst, OnePreparation, PreparedSpawns, ListedFirst, Preparing,
              Standing, Known, Unlisted
<1>4. HandlesTracked' /\ RecoveryDone' /\ OpenIsDriven' /\ DrivenByItsRuntime'
  BY <1>1 DEF PiIInv, HandlesTracked, RecoveryDone, OpenIsDriven, DrivenByItsRuntime, Known,
              Unlisted
<1>5. ShutdownOrder'
  BY <1>1 DEF ShutdownOrder
<1>6. ClosedIsQuiet'
  BY <1>1 DEF PiIInv, ClosedIsQuiet, InFlight, Cancelling, Handle, Known
<1> QED
  BY <1>2, <1>3, <1>4, <1>5, <1>6 DEF PiIInv

LEMMA CancelAllKeeps ==
  ASSUME PiIInv, CancelAll
  PROVE  PiIInv'
<1>1. /\ UNCHANGED <<toolOf, start, at, prepared, spawns, owner, runtime, driving, deferred,
                     answered, open, tracked, faults>>
      /\ shutdown = "admissions" /\ shutdown' = "cancelling" /\ ~Admitted
  BY DEF CancelAll
<1>2. cancel' \in [Work -> {"none", "asked", "awaited", "done", "failed"}]
  BY DEF CancelAll, PiIInv, PiTypeOK
<1>3. \A o \in Work :
        cancel'[o] = IF o \in tracked /\ cancel[o] \in {"none", "asked"} THEN "awaited" ELSE cancel[o]
  BY DEF CancelAll, PiIInv, PiTypeOK
<1>4. Known' = Known /\ (Unlisted' <=> Unlisted)
  BY <1>1 DEF Known, Unlisted
<1>5. PiTypeOK'
  BY <1>1, <1>2, <1>4 DEF PiIInv, PiTypeOK
<1>6. OwnerIsFirst' /\ OnePreparation' /\ PreparedSpawns'
  BY <1>1, <1>4 DEF PiIInv, OwnerIsFirst, OnePreparation, PreparedSpawns, Preparing, Standing
<1>7. ListedFirst'
  BY <1>1, <1>3, <1>4 DEF PiIInv, ListedFirst
<1>8. HandlesTracked'
  <2>1. \A o \in tracked : o \in Work
    BY PiTypes DEF PiIInv
  <2> QED
    BY <1>1, <1>3, <2>1 DEF PiIInv, HandlesTracked, Work
<1>9. RecoveryDone' /\ DrivenByItsRuntime'
  BY <1>1, <1>4 DEF PiIInv, RecoveryDone, DrivenByItsRuntime
<1>10. OpenIsDriven'
  BY <1>1, <1>3, <1>4 DEF PiIInv, OpenIsDriven, Work
<1>11. ShutdownOrder'
  <2>1. ~Admitted'
    BY <1>1 DEF Admitted
  <2>2. \A o \in tracked : cancel'[o] \in {"awaited", "failed"}
    <3> SUFFICES ASSUME NEW o \in tracked PROVE cancel'[o] \in {"awaited", "failed"}
      OBVIOUS
    <3>1. o \in Work /\ cancel[o] # "done"
      BY PiTypes DEF PiIInv, HandlesTracked
    <3>2. cancel[o] \in {"none", "asked", "awaited", "failed"}
      BY <3>1 DEF PiIInv, PiTypeOK
    <3> QED
      BY <1>3, <3>1, <3>2
  <2> QED
    BY <1>1, <2>1, <2>2 DEF ShutdownOrder
<1>12. ClosedIsQuiet'
  <2>1. \A r \in Known : runtime[r].close = "open"
    BY <1>1 DEF PiIInv, ClosedIsQuiet
  <2> QED
    BY <1>1, <1>4, <2>1 DEF ClosedIsQuiet
<1> QED
  BY <1>5, <1>6, <1>7, <1>8, <1>9, <1>10, <1>11, <1>12 DEF PiIInv

LEMMA CloseAllKeeps ==
  ASSUME PiIInv, CloseAll
  PROVE  PiIInv'
<1>1. /\ UNCHANGED <<toolOf, start, at, prepared, spawns, owner, work, faults>>
      /\ shutdown = "cancelling" /\ shutdown' = "closing"
      /\ \A o \in DOMAIN cancel : cancel[o] # "awaited"
  BY DEF CloseAll
<1> USE DEF work
<1>2. PiTypeOK /\ DOMAIN cancel = Work
  BY DEF PiIInv, PiTypeOK
<1>3. ASSUME NEW r \in Known
      PROVE  /\ runtime'[r] \in Runtimes
             /\ runtime'[r].recovery = runtime[r].recovery
             /\ runtime'[r].recovered = runtime[r].recovered
             /\ runtime'[r].failed = runtime[r].failed
             /\ runtime'[r].lists = runtime[r].lists
             /\ ~runtime'[r].due /\ runtime'[r].close = "draining"
  <2>1. runtime[r] \in Runtimes
    BY <1>2, PiTypes
  <2>2. runtime'[r] = [runtime[r] EXCEPT !.close = "draining", !.due = FALSE]
    BY DEF CloseAll
  <2>3. runtime'[r].close = "draining"
    BY <2>1, <2>2, SMT DEF Runtimes
  <2> QED
    BY <2>1, <2>2, <2>3, Zenon DEF Runtimes
<1>4. Known' = Known /\ runtime' \in [Known -> Runtimes]
  BY <1>3 DEF CloseAll, Known
<1>5. Unlisted' <=> Unlisted
  BY <1>1, <1>2, <1>3, PiTypes DEF Unlisted
<1>6. PiTypeOK'
  BY <1>1, <1>2, <1>4 DEF PiTypeOK
<1>7. OwnerIsFirst' /\ OnePreparation' /\ PreparedSpawns'
  BY <1>1, <1>4 DEF PiIInv, OwnerIsFirst, OnePreparation, PreparedSpawns, Preparing, Standing
<1>8. ListedFirst' /\ HandlesTracked'
  BY <1>1, <1>5 DEF PiIInv, ListedFirst, HandlesTracked
<1>9. RecoveryDone'
  <2>1. owner # None => owner \in Known
    BY <1>2, PiTypes
  <2> QED
    BY <1>1, <1>3, <1>4, <2>1 DEF PiIInv, RecoveryDone
<1>10. OpenIsDriven' /\ DrivenByItsRuntime'
  <2>1. owner # None => runtime'[owner].lists = runtime[owner].lists
    BY <1>2, <1>3, PiTypes
  <2>2. DrivenByItsRuntime'
    BY <1>1, <1>4, <1>5, <2>1 DEF PiIInv, DrivenByItsRuntime, Unlisted
  <2> QED
    BY <1>1, <1>4, <1>5, <2>2 DEF PiIInv, OpenIsDriven
<1>11. ShutdownOrder'
  BY <1>1, <1>2, <1>3, <1>4 DEF PiIInv, ShutdownOrder, Admitted
<1>12. ClosedIsQuiet'
  BY <1>1, <1>3, <1>4 DEF ClosedIsQuiet
<1> QED
  BY <1>6, <1>7, <1>8, <1>9, <1>10, <1>11, <1>12 DEF PiIInv

LEMMA ShutdownReturnsKeeps ==
  ASSUME PiIInv, ShutdownReturns
  PROVE  PiIInv'
<1>1. /\ UNCHANGED <<toolOf, start, at, prepared, spawns, owner, runtime, work, faults>>
      /\ shutdown = "closing" /\ shutdown' = "ended"
      /\ \A r \in Known : runtime[r].close \in {"closed", "failed"}
  BY DEF ShutdownReturns
<1> USE DEF work
<1>2. PiTypeOK'
  BY <1>1 DEF PiIInv, PiTypeOK, Known
<1>3. OwnerIsFirst' /\ OnePreparation' /\ PreparedSpawns' /\ ListedFirst'
  BY <1>1 DEF PiIInv, OwnerIsFirst, OnePreparation, PreparedSpawns, ListedFirst, Preparing,
              Standing, Known, Unlisted
<1>4. HandlesTracked' /\ RecoveryDone' /\ OpenIsDriven' /\ DrivenByItsRuntime'
  BY <1>1 DEF PiIInv, HandlesTracked, RecoveryDone, OpenIsDriven, DrivenByItsRuntime, Known,
              Unlisted
<1>5. ShutdownOrder'
  BY <1>1 DEF PiIInv, ShutdownOrder, Admitted, Known
<1>6. ClosedIsQuiet'
  BY <1>1 DEF PiIInv, ClosedIsQuiet, InFlight, Cancelling, Handle, Known
<1> QED
  BY <1>2, <1>3, <1>4, <1>5, <1>6 DEF PiIInv

-----------------------------------------------------------------------------
(* The preparation of a delegation.                                        *)

\* Nothing is cancelled or closed while something admitted is under way.
LEMMA AdmittedIsOpen ==
  ASSUME PiIInv, NEW e \in Call, at[e] \notin {"idle", "waiting", "interrupted", "ended"}
  PROVE  shutdown \in {"open", "admissions"} /\ \A r \in Known : runtime[r].close = "open"
  BY DEF PiIInv, PiTypeOK, ShutdownOrder, ClosedIsQuiet, Admitted

LEMMA OpenIsQuiet ==
  ASSUME shutdown' \in {"open", "admissions"}, \A r \in Known' : runtime'[r].close = "open"
  PROVE  ShutdownOrder' /\ ClosedIsQuiet'
  BY DEF ShutdownOrder, ClosedIsQuiet

LEMMA RecoverFrame ==
  ASSUME PiTypeOK, NEW p \in Known, runtime' = runtime \/ runtime' = Recover(runtime, p)
  PROVE  /\ Known' = Known /\ runtime' \in [Known -> Runtimes]
         /\ \A q \in Known : /\ runtime'[q].lists = runtime[q].lists
                             /\ runtime'[q].due = runtime[q].due
                             /\ runtime'[q].close = runtime[q].close
                             /\ runtime'[q] = runtime[q] \/ runtime'[q].recovery
<1>1. CASE runtime' = runtime
  BY <1>1 DEF PiTypeOK, Known
<1>2. CASE runtime' = Recover(runtime, p)
  <2>1. /\ runtime' \in [Known -> Runtimes] /\ DOMAIN runtime' = Known
        /\ \A q \in Known : q # p => runtime'[q] = runtime[q]
        /\ runtime'[p].lists = runtime[p].lists /\ runtime'[p].due = runtime[p].due
        /\ runtime'[p].close = runtime[p].close
        /\ runtime' = runtime \/ runtime'[p].recovery
    BY <1>2, PiDomain, RecoverBegins
  <2> QED
    BY <2>1 DEF Known
<1> QED
  BY <1>1, <1>2

LEMMA ExecuteKeeps ==
  ASSUME PiIInv, NEW e \in Call, Execute(e)
  PROVE  PiIInv'
<1>1. /\ UNCHANGED <<toolOf, shutdown, start, prepared, spawns, owner, runtime, work, faults>>
      /\ at[e] = "idle" /\ shutdown = "open"
      /\ at' = [f \in Call |-> IF f \in {e} THEN "resolving" ELSE at[f]]
  BY DEF Execute, Goto, closing
<1>2. at' \in [Call -> Standings]
  BY <1>1 DEF PiIInv, PiTypeOK, Standings
<1>3. \A f \in Call : at'[f] = IF f = e THEN "resolving" ELSE at[f]
  BY <1>1
<1>4. OnePreparation' /\ \A k \in Tool : Preparing(k) => Preparing(k)'
  BY <1>1, <1>3 DEF PiIInv, OnePreparation, Preparing, Standing, Known
<1>5. faults' \in Nat /\ start' \in {"idle", "resolving", "recovering", "backgrounds", "ended"}
  BY <1>1 DEF PiIInv, PiTypeOK
<1> QED
  BY <1>1, <1>2, <1>3, <1>4, <1>5, PlacesKeep

LEMMA PrepareKeeps ==
  ASSUME PiIInv, NEW e \in Call, Prepare(e)
  PROVE  PiIInv'
<1> DEFINE k == toolOf[e]
           place == IF closing                               THEN "ended"
                    ELSE IF Preparing(k)                     THEN "joining"
                    ELSE IF prepared[k] = None               THEN "configuring"
                    ELSE IF spawns[k] \in {"failed", "kept"} THEN "ended"
                    ELSE IF spawns[k] = "made"               THEN "waiting"
                    ELSE "sharing"
<1>1. /\ UNCHANGED <<toolOf, shutdown, start, prepared, spawns, owner, runtime, work, faults>>
      /\ at[e] = "resolving"
      /\ at' = [f \in Call |-> IF f \in {e} THEN place ELSE at[f]]
  BY DEF Prepare, Goto
<1>2. PiTypeOK /\ k \in Tool /\ spawns[k] \in Spawning
  BY PiTypes DEF PiIInv
<1>3. /\ place \in {"ended", "joining", "configuring", "sharing", "waiting"}
      /\ place = "configuring" => prepared[k] = None /\ ~Preparing(k)
      /\ place = "waiting" => spawns[k] = "made"
  <2>1. spawns[k] = "none" => prepared[k] = None \/ Preparing(k)
    BY <1>2 DEF PiIInv, PreparedSpawns
  <2> QED
    BY <1>2, <2>1 DEF Spawning
<1> HIDE DEF place
<1>4. \A f \in Call : at'[f] = IF f = e THEN place ELSE at[f]
  BY <1>1
<1>5. at' \in [Call -> Standings]
  <2>1. place \in Standings /\ at \in [Call -> Standings]
    BY <1>2, <1>3 DEF PiTypeOK, Standings
  <2> QED
    BY <1>1, <2>1
<1>6. place = "configuring" => spawns[k] = "none"
  BY <1>2, <1>3 DEF PiIInv, PreparedSpawns
<1>7. ASSUME NEW f \in Call, NEW g \in Call, toolOf[f] = toolOf[g],
             {at'[f], at'[g]} \subseteq {"configuring", "ownerReady", "ownReady"}
      PROVE  f = g
  <2>1. CASE f # e /\ g # e
    BY <1>4, <1>7, <2>1 DEF PiIInv, OnePreparation
  <2>2. CASE place = "configuring" /\ (f = e \/ g = e)
    BY <1>3, <1>4, <1>7, <2>2 DEF Preparing, Standing
  <2> QED
    BY <1>3, <1>4, <1>7, <2>1, <2>2
<1>8. OnePreparation'
  <2>1. ASSUME NEW f \in Call
        PROVE  /\ at'[f] = "configuring" => prepared[toolOf[f]] = None
               /\ at'[f] \in {"ownerReady", "ownReady"} => prepared[toolOf[f]] \in Known
               /\ at'[f] \in {"configuring", "ownerReady", "ownReady"} => spawns[toolOf[f]] = "none"
               /\ at'[f] \in {"waiting", "interrupted"} => spawns[toolOf[f]] = "made"
    BY <1>3, <1>4, <1>6 DEF PiIInv, OnePreparation
  <2> QED
    BY <1>1, <1>7, <2>1 DEF OnePreparation, Known
<1>9. \A j \in Tool : Preparing(j) => Preparing(j)'
  BY <1>1, <1>4 DEF Preparing, Standing
<1>10. shutdown \notin {"cancelling", "closing", "ended"}
  BY <1>1, AdmittedIsOpen
<1>11. faults' \in Nat /\ start' \in {"idle", "resolving", "recovering", "backgrounds", "ended"}
  BY <1>1, <1>2 DEF PiTypeOK
<1>12. \A f \in Call : /\ at[f] = "spawning" => at'[f] = "spawning"
                       /\ at'[f] = "ownReady" => at[f] = "ownReady"
  BY <1>1, <1>3, <1>4
<1> HIDE DEF k
<1> QED
  BY <1>1, <1>5, <1>8, <1>9, <1>10, <1>11, <1>12, PlacesKeep

LEMMA ReturnKeeps ==
  ASSUME PiIInv, NEW e \in Call, Return(e)
  PROVE  PiIInv'
<1>1. /\ UNCHANGED <<toolOf, shutdown, start, prepared, spawns, owner, runtime, work, faults>>
      /\ at[e] \in {"waiting", "interrupted"}
      /\ at' = [f \in Call |-> IF f \in {e} THEN "ended" ELSE at[f]]
  BY DEF Return, Goto
<1>2. at' \in [Call -> Standings]
  BY <1>1 DEF PiIInv, PiTypeOK, Standings
<1>3. \A f \in Call : at'[f] = IF f = e THEN "ended" ELSE at[f]
  BY <1>1
<1>4. OnePreparation' /\ \A k \in Tool : Preparing(k) => Preparing(k)'
  BY <1>1, <1>3 DEF PiIInv, OnePreparation, Preparing, Standing, Known
<1>5. faults' \in Nat /\ start' \in {"idle", "resolving", "recovering", "backgrounds", "ended"}
  BY <1>1 DEF PiIInv, PiTypeOK
<1>6. shutdown \in {"cancelling", "closing", "ended"} => ~Admitted'
  BY <1>1, <1>3 DEF PiIInv, ShutdownOrder, Admitted
<1>7. \A f \in Call : /\ at[f] = "spawning" => at'[f] = "spawning"
                      /\ at'[f] = "ownReady" => at[f] = "ownReady"
  BY <1>1, <1>3
<1> QED
  BY <1>1, <1>2, <1>4, <1>5, <1>6, <1>7, PlacesKeep

\* What was prepared for a tool call counts once it is spawned.
LEMMA NotSpawnedYet ==
  ASSUME PiIInv, NEW k \in Tool, spawns[k] # "made"
  PROVE  /\ cancel[k] = "none" /\ k \notin tracked
         /\ ~Unlisted /\ runtime[owner].lists < 2 =>
              \A r \in Known : <<r, k>> \notin driving \cup deferred
  BY DEF PiIInv, HandlesTracked, DrivenByItsRuntime

LEMMA PreparationFailsKeeps ==
  ASSUME PiIInv, NEW e \in Call, at[e] \in {"configuring", "ownerReady", "ownReady"},
         PreparationFails(e), faults' \in Nat
  PROVE  PiIInv'
<1> DEFINE k == toolOf[e]
<1>1. /\ UNCHANGED <<toolOf, shutdown, start, spawns, owner, runtime, work>>
      /\ at' = [f \in Call |-> IF f \in Standing(k, {"joining"}) \cup {e} THEN "ended" ELSE at[f]]
      /\ prepared' = [prepared EXCEPT ![k] = None]
  BY DEF PreparationFails, Goto
<1>2. PiTypeOK /\ k \in Tool /\ spawns[k] = "none"
  BY PiTypes DEF PiIInv, OnePreparation
<1> HIDE DEF k
<1>3. /\ Known' = Known /\ (Unlisted' <=> Unlisted)
  BY <1>1 DEF Known, Unlisted
<1>4. /\ \A f \in Call : at'[f] # at[f] => at'[f] = "ended" /\ at[f] # "spawning"
      /\ \A f \in Call : at'[f] # "ended" => f # e
      /\ \A f \in Call : at[f] \in {"configuring", "ownerReady", "ownReady"} /\ toolOf[f] # k => at'[f] = at[f]
  BY <1>1 DEF Standing, k
<1>4a. \A j \in Tool : prepared'[j] = IF j = k THEN None ELSE prepared[j]
  BY <1>1, <1>2 DEF PiTypeOK
<1>5. PiTypeOK'
  <2>1. at' \in [Call -> Standings]
    BY <1>1, <1>2 DEF PiTypeOK, Standings
  <2>2. prepared' \in [Tool -> Config \cup {None}]
    BY <1>1, <1>2 DEF PiTypeOK
  <2> QED
    BY <1>1, <1>2, <1>3, <2>1, <2>2 DEF PiTypeOK, work
<1>6. \A f \in Call : at'[f] \in {"configuring", "ownerReady", "ownReady"} =>
        at'[f] = at[f] /\ toolOf[f] # k
  BY <1>4, <1>4a DEF PiIInv, OnePreparation, k
<1>7. OnePreparation'
  <2>1. ASSUME NEW f \in Call, NEW g \in Call, toolOf[f] = toolOf[g],
               {at'[f], at'[g]} \subseteq {"configuring", "ownerReady", "ownReady"}
        PROVE  f = g
    BY <1>6, <2>1 DEF PiIInv, OnePreparation
  <2>2. ASSUME NEW f \in Call
        PROVE  /\ at'[f] = "configuring" => prepared'[toolOf[f]] = None
               /\ at'[f] \in {"ownerReady", "ownReady"} => prepared'[toolOf[f]] \in Known
               /\ at'[f] \in {"configuring", "ownerReady", "ownReady"} => spawns[toolOf[f]] = "none"
               /\ at'[f] \in {"waiting", "interrupted"} => spawns[toolOf[f]] = "made"
    BY <1>2, <1>4, <1>4a, <1>6, PiTypes DEF PiIInv, OnePreparation
  <2> QED
    BY <1>1, <1>3, <2>1, <2>2 DEF OnePreparation
<1>8. OwnerIsFirst' /\ ListedFirst'
  BY <1>1, <1>3, <1>4, <1>4a DEF PiIInv, OwnerIsFirst, ListedFirst, work
<1>9. PreparedSpawns'
  <2> SUFFICES ASSUME NEW j \in Tool
               PROVE  /\ prepared'[j] # None => prepared'[j] \in Known
                      /\ spawns[j] = "none" => prepared'[j] = None \/ Preparing(j)'
                      /\ spawns[j] # "none" => prepared'[j] # None
                      /\ spawns[j] \in {"pending", "creating"} =>
                           \E f \in Call : toolOf[f] = j /\ at'[f] = "spawning"
                      /\ spawns[j] \in {"none", "pending"} => j \notin open
    BY <1>1, <1>3 DEF PreparedSpawns, work
  <2>1. j # k /\ Preparing(j) => Preparing(j)'
    BY <1>1, <1>4, <1>4a DEF Preparing, Standing
  <2> QED
    BY <1>2, <1>4, <1>4a, <2>1 DEF PiIInv, PreparedSpawns
<1>10. HandlesTracked'
  <2>1. \A j \in Tool : spawns[j] = "made" => prepared'[j] = prepared[j]
    BY <1>2, <1>4a
  <2>2. \A j \in Tool : spawns[j] = "made" /\ <<prepared'[j], j>> \notin answered => j \in tracked
    <3> SUFFICES ASSUME NEW j \in Tool, spawns[j] = "made", <<prepared'[j], j>> \notin answered
                 PROVE  j \in tracked
      OBVIOUS
    <3> QED
      BY <2>1 DEF PiIInv, HandlesTracked
  <2> QED
    BY <1>1, <2>2 DEF PiIInv, HandlesTracked, work
<1>11. RecoveryDone'
  BY <1>1, <1>3 DEF PiIInv, RecoveryDone, work
<1>12. OpenIsDriven'
  BY <1>1, <1>2, <1>3, <1>4, <1>4a DEF PiIInv, OpenIsDriven, work
<1>13. DrivenByItsRuntime'
  <2>1. \A j \in Tool : spawns[j] = "made" => prepared'[j] = prepared[j]
    BY <1>2, <1>4a
  <2> QED
    BY <1>1, <1>3, <2>1 DEF PiIInv, DrivenByItsRuntime, work
<1>14. ShutdownOrder' /\ ClosedIsQuiet'
  BY <1>1, <1>3, AdmittedIsOpen, OpenIsQuiet
<1> QED
  BY <1>5, <1>7, <1>8, <1>9, <1>10, <1>11, <1>12, <1>13, <1>14 DEF PiIInv

LEMMA PreparationEndsKeeps ==
  ASSUME PiIInv, NEW e \in Call, AcquireFails(e) \/ ReadyFails(e)
  PROVE  PiIInv'
<1>1. faults' \in Nat
  BY DEF PiIInv, PiTypeOK, AcquireFails, ReadyFails, Fault, NoFault
<1>2. at[e] \in {"configuring", "ownerReady", "ownReady"} /\ PreparationFails(e)
  BY DEF AcquireFails, ReadyFails
<1> QED
  BY <1>1, <1>2, PreparationFailsKeeps

\* The first Runtime is made with its recovery under way, and the owner recovers.
LEMMA AcquireMakes ==
  ASSUME PiIInv, NEW e \in Call, NEW c \in Config, Acquire(e, c)
  PROVE  /\ Known' = Known \cup {c} /\ runtime' \in [Known \cup {c} -> Runtimes]
         /\ owner' = IF owner = None THEN c ELSE owner
         /\ \A q \in Known : /\ runtime'[q].lists = runtime[q].lists
                             /\ runtime'[q].close = runtime[q].close
                             /\ runtime'[q] = runtime[q] \/ runtime'[q].recovery
         /\ c \notin Known => /\ runtime'[c].recovery /\ runtime'[c].lists = 0
                              /\ runtime'[c].close = "open"
<1> DEFINE D    == Known \cup {c}
           made == [r \in D |-> IF r \in Known THEN runtime[r] ELSE NewRuntime]
           new  == IF owner = None THEN c ELSE owner
<1>1. PiTypeOK /\ owner' = new
  BY DEF PiIInv, Acquire
<1>2. runtime' = Recover(made, new)
  BY <1>1 DEF Acquire
<1>3. new \in D /\ made \in [D -> Runtimes]
  BY <1>1, PiTypes, NewIsRuntime
<1>4. /\ \A q \in Known : made[q] = runtime[q]
      /\ c \notin Known => made[c] = NewRuntime
  OBVIOUS
<1> HIDE DEF D, made, new
<1>5. /\ runtime' \in [D -> Runtimes] /\ DOMAIN runtime' = D
      /\ \A q \in D : q # new => runtime'[q] = made[q]
      /\ runtime'[new].lists = made[new].lists
      /\ runtime'[new].close = made[new].close
      /\ runtime' = made \/ runtime'[new].recovery
  BY <1>2, <1>3, RecoverBegins
<1>6. \A q \in D : /\ runtime'[q].lists = made[q].lists
                   /\ runtime'[q].close = made[q].close
                   /\ runtime'[q] = made[q] \/ runtime'[q].recovery
  BY <1>3, <1>5
<1>7. Known \subseteq D /\ c \in D
  BY DEF D
<1>8. c \notin Known => /\ runtime'[c].recovery /\ runtime'[c].lists = 0
                        /\ runtime'[c].close = "open"
  BY <1>4, <1>6, <1>7, NewIsRuntime
<1> QED
  BY <1>1, <1>4, <1>5, <1>6, <1>7, <1>8 DEF D, new, Known

LEMMA AcquireKeeps ==
  ASSUME PiIInv, NEW e \in Call, NEW c \in Config, Acquire(e, c)
  PROVE  PiIInv'
<1> DEFINE k == toolOf[e]
<1>1. /\ UNCHANGED <<toolOf, shutdown, start, spawns, work, faults>>
      /\ at[e] = "configuring" /\ shutdown = "open"
      /\ at' = [f \in Call |-> IF f \in {e} THEN "ownerReady" ELSE at[f]]
      /\ prepared' = [prepared EXCEPT ![k] = c]
  BY DEF Acquire, Goto, closing
<1>2. PiTypeOK /\ k \in Tool /\ spawns[k] = "none" /\ prepared[k] = None /\ c # None
  BY <1>1, PiTypes, PiSessionAssumption DEF PiIInv, OnePreparation
<1> HIDE DEF k
<1>3. /\ Known' = Known \cup {c} /\ runtime' \in [Known \cup {c} -> Runtimes]
      /\ owner' = IF owner = None THEN c ELSE owner
      /\ \A q \in Known : /\ runtime'[q].lists = runtime[q].lists
                          /\ runtime'[q].close = runtime[q].close
                          /\ runtime'[q] = runtime[q] \/ runtime'[q].recovery
      /\ c \notin Known => /\ runtime'[c].recovery /\ runtime'[c].lists = 0
                           /\ runtime'[c].close = "open"
  BY AcquireMakes
<1>4. \A f \in Call : at'[f] = IF f = e THEN "ownerReady" ELSE at[f]
  BY <1>1
<1>5. \A j \in Tool : prepared'[j] = IF j = k THEN c ELSE prepared[j]
  BY <1>1, <1>2 DEF PiTypeOK
<1>6. owner = None => Known = {} /\ c \notin Known
  BY DEF PiIInv, OwnerIsFirst
<1>7. owner # None => owner \in Known /\ owner' = owner
  BY <1>2, <1>3, PiTypes
<1>8. Unlisted' <=> Unlisted
  BY <1>2, <1>3, <1>6, <1>7 DEF Unlisted
<1>9. PiTypeOK'
  <2>1. at' \in [Call -> Standings]
    BY <1>1, <1>2 DEF PiTypeOK, Standings
  <2>2. prepared' \in [Tool -> Config \cup {None}]
    BY <1>1, <1>2 DEF PiTypeOK
  <2>3. driving' \subseteq Known' \X Work /\ deferred' \subseteq Known' \X Work
        /\ answered' \subseteq Known' \X Work
    BY <1>1, <1>2, <1>3, PiTypes DEF work
  <2>4. owner' \in Known' \cup {None} /\ Known' \subseteq Config \cup {Boot}
    BY <1>2, <1>3, <1>7 DEF PiTypeOK
  <2> QED
    BY <1>1, <1>2, <1>3, <2>1, <2>2, <2>3, <2>4 DEF PiTypeOK, work
<1>10. OwnerIsFirst'
  BY <1>2, <1>3 DEF OwnerIsFirst
<1>11. OnePreparation'
  <2>1. ASSUME NEW f \in Call, NEW g \in Call, toolOf[f] = toolOf[g],
               {at'[f], at'[g]} \subseteq {"configuring", "ownerReady", "ownReady"}
        PROVE  f = g
    BY <1>1, <1>4, <2>1 DEF PiIInv, OnePreparation
  <2>2. ASSUME NEW f \in Call
        PROVE  /\ at'[f] = "configuring" => prepared'[toolOf[f]] = None
               /\ at'[f] \in {"ownerReady", "ownReady"} => prepared'[toolOf[f]] \in Known'
               /\ at'[f] \in {"configuring", "ownerReady", "ownReady"} => spawns[toolOf[f]] = "none"
               /\ at'[f] \in {"waiting", "interrupted"} => spawns[toolOf[f]] = "made"
    <3>1. toolOf[f] \in Tool /\ toolOf[e] = k
      BY <1>2, PiTypes DEF k
    <3>2. at'[f] = "configuring" => toolOf[f] # k
      BY <1>1, <1>4, <3>1 DEF PiIInv, OnePreparation
    <3> QED
      BY <1>2, <1>3, <1>4, <1>5, <3>1, <3>2 DEF PiIInv, OnePreparation
  <2> QED
    BY <1>1, <2>1, <2>2 DEF OnePreparation
<1>12. PreparedSpawns'
  <2> SUFFICES ASSUME NEW j \in Tool
               PROVE  /\ prepared'[j] # None => prepared'[j] \in Known'
                      /\ spawns[j] = "none" => prepared'[j] = None \/ Preparing(j)'
                      /\ spawns[j] # "none" => prepared'[j] # None
                      /\ spawns[j] \in {"pending", "creating"} =>
                           \E f \in Call : toolOf[f] = j /\ at'[f] = "spawning"
                      /\ spawns[j] \in {"none", "pending"} => j \notin open
    BY <1>1 DEF PreparedSpawns, work
  <2>1. j # k /\ Preparing(j) => Preparing(j)'
    BY <1>1, <1>4 DEF Preparing, Standing, k
  <2>2. j = k => Preparing(j)'
    BY <1>1, <1>4 DEF Preparing, Standing, k
  <2>3. \A f \in Call : at[f] = "spawning" => at'[f] = "spawning"
    BY <1>1, <1>4
  <2> QED
    BY <1>2, <1>3, <1>5, <2>1, <2>2, <2>3 DEF PiIInv, PreparedSpawns
<1>13. ListedFirst'
  BY <1>1, <1>4, <1>8 DEF PiIInv, ListedFirst, work
<1>14. HandlesTracked'
  <2>1. \A j \in Tool : spawns[j] = "made" => prepared'[j] = prepared[j]
    BY <1>2, <1>5
  <2>2. \A j \in Tool : spawns[j] = "made" /\ <<prepared'[j], j>> \notin answered => j \in tracked
    <3> SUFFICES ASSUME NEW j \in Tool, spawns[j] = "made", <<prepared'[j], j>> \notin answered
                 PROVE  j \in tracked
      OBVIOUS
    <3> QED
      BY <2>1 DEF PiIInv, HandlesTracked
  <2> QED
    BY <1>1, <2>2 DEF PiIInv, HandlesTracked, work
<1>15. RecoveryDone'
  <2>1. ASSUME NEW q \in Known', runtime'[q].recovered /\ ~runtime'[q].recovery, NEW o \in Work
        PROVE  <<q, o>> \notin deferred
    BY <1>3, <2>1 DEF PiIInv, RecoveryDone
  <2>2. ~runtime'[owner'].recovery => owner # None /\ runtime'[owner] = runtime[owner]
    BY <1>3, <1>6, <1>7
  <2> QED
    BY <1>1, <1>7, <2>1, <2>2 DEF PiIInv, RecoveryDone, work
<1>16. OpenIsDriven'
  <2>1. \A q \in Known', o \in Old : <<q, o>> \in driving \cup deferred => q = owner'
    <3>1. CASE owner = None
      BY <3>1 DEF PiIInv, ListedFirst, Unlisted
    <3>2. CASE owner # None
      BY <1>2, <1>7, <3>2, PiTypes DEF PiIInv, OpenIsDriven
    <3> QED
      BY <3>1, <3>2
  <2>2. ~Unlisted => owner' = owner
    BY <1>7 DEF Unlisted
  <2>3. ASSUME NEW j \in Tool, j \in open, spawns[j] = "made"
        PROVE  <<prepared'[j], j>> \in driving \cup deferred \/ cancel[j] \in {"asked", "awaited"}
    <3>1. prepared'[j] = prepared[j]
      BY <1>2, <1>5, <2>3
    <3> QED
      BY <2>3, <3>1 DEF PiIInv, OpenIsDriven
  <2>4. ~Unlisted => \A o \in Old \cap open : <<owner', o>> \in driving \cup deferred
    BY <2>2 DEF PiIInv, OpenIsDriven
  <2> QED
    BY <1>1, <1>8, <2>1, <2>3, <2>4 DEF OpenIsDriven, work
<1>17. DrivenByItsRuntime'
  <2> SUFFICES ASSUME ~Unlisted, runtime'[owner'].lists < 2,
                      NEW q \in Known', NEW j \in Tool, <<q, j>> \in driving \cup deferred
               PROVE  q = prepared'[j] /\ spawns[j] = "made"
    BY <1>1, <1>8 DEF DrivenByItsRuntime, work
  <2>1. owner # None /\ runtime[owner].lists < 2
    BY <1>3, <1>7 DEF Unlisted
  <2>2. q \in Known
    BY <1>2, PiTypes
  <2>3. q = prepared[j] /\ spawns[j] = "made"
    BY <2>1, <2>2 DEF PiIInv, DrivenByItsRuntime
  <2> QED
    BY <1>2, <1>5, <2>3
<1>18. ShutdownOrder' /\ ClosedIsQuiet'
  <2>1. \A q \in Known' : runtime'[q].close = "open"
    BY <1>1, <1>3, AdmittedIsOpen
  <2> QED
    BY <1>1, <2>1, OpenIsQuiet
<1> QED
  BY <1>9, <1>10, <1>11, <1>12, <1>13, <1>14, <1>15, <1>16, <1>17, <1>18 DEF PiIInv

\* Its preparation goes on, and a recovery may begin.
LEMMA OwnerIsReadyKeeps ==
  ASSUME PiIInv, NEW e \in Call, OwnerIsReady(e)
  PROVE  PiIInv'
<1> DEFINE p == prepared[toolOf[e]]
<1>1. /\ UNCHANGED <<toolOf, shutdown, start, prepared, spawns, owner, work, faults>>
      /\ at[e] = "ownerReady" /\ ~runtime[owner].recovery /\ ~runtime[owner].failed
      /\ at' = [f \in Call |-> IF f \in {e} THEN "ownReady" ELSE at[f]]
      /\ runtime' = runtime \/ runtime' = Recover(runtime, p)
  BY DEF OwnerIsReady, Goto
<1>2. PiTypeOK /\ p \in Known
  BY <1>1 DEF PiIInv, OnePreparation
<1> HIDE DEF p
<1>3. /\ Known' = Known /\ runtime' \in [Known -> Runtimes]
      /\ \A q \in Known : /\ runtime'[q].lists = runtime[q].lists
                          /\ runtime'[q].due = runtime[q].due
                          /\ runtime'[q].close = runtime[q].close
                          /\ runtime'[q] = runtime[q] \/ runtime'[q].recovery
  BY <1>1, <1>2, RecoverFrame
<1>4. \A f \in Call : at'[f] = IF f = e THEN "ownReady" ELSE at[f]
  BY <1>1
<1>5. owner \in Known /\ runtime[owner].lists # 0
  <2>1. owner \in Known
    BY <1>2, PiTypes DEF PiIInv, OwnerIsFirst
  <2> QED
    BY <1>1, <1>2, <2>1, PiTypes DEF PiIInv, RecoveryDone
<1>6. ~Unlisted /\ ~Unlisted'
  BY <1>1, <1>2, <1>3, <1>5, PiTypes DEF Unlisted
<1>7. PiTypeOK'
  <2>1. at' \in [Call -> Standings]
    BY <1>1, <1>2 DEF PiTypeOK, Standings
  <2> QED
    BY <1>1, <1>2, <1>3, <2>1 DEF PiTypeOK, work
<1>8. OwnerIsFirst' /\ ListedFirst'
  BY <1>1, <1>3, <1>6 DEF PiIInv, OwnerIsFirst, ListedFirst
<1>9. OnePreparation'
  BY <1>1, <1>3, <1>4 DEF PiIInv, OnePreparation
<1>10. PreparedSpawns'
  <2>1. \A j \in Tool : Preparing(j) => Preparing(j)'
    BY <1>1, <1>4 DEF Preparing, Standing
  <2>2. \A f \in Call : at[f] = "spawning" => at'[f] = "spawning"
    BY <1>1, <1>4
  <2> QED
    BY <1>1, <1>3, <2>1, <2>2 DEF PiIInv, PreparedSpawns, work
<1>11. HandlesTracked'
  BY <1>1 DEF PiIInv, HandlesTracked, work
<1>12. RecoveryDone'
  BY <1>1, <1>3, <1>5 DEF PiIInv, RecoveryDone, work
<1>13. OpenIsDriven' /\ DrivenByItsRuntime'
  BY <1>1, <1>3, <1>5, <1>6 DEF PiIInv, OpenIsDriven, DrivenByItsRuntime, work
<1>14. ShutdownOrder' /\ ClosedIsQuiet'
  BY <1>1, <1>3, AdmittedIsOpen, OpenIsQuiet
<1> QED
  BY <1>7, <1>8, <1>9, <1>10, <1>11, <1>12, <1>13, <1>14 DEF PiIInv

-----------------------------------------------------------------------------
(* The spawn of a delegation, and the wait for it.                         *)

LEMMA OwnIsReadyKeeps ==
  ASSUME PiIInv, NEW e \in Call, OwnIsReady(e)
  PROVE  PiIInv'
<1> DEFINE k == toolOf[e]
<1>1. /\ UNCHANGED <<toolOf, shutdown, start, prepared, owner, work, faults>>
      /\ at[e] = "ownReady" /\ shutdown = "open"
      /\ at' = [f \in Call |-> IF f = e THEN "spawning"
                               ELSE IF f \in Standing(k, {"joining"}) THEN "sharing" ELSE at[f]]
      /\ spawns' = [spawns EXCEPT ![k] = "pending"]
      /\ runtime' = Recover(runtime, prepared[k])
  BY DEF OwnIsReady, closing
<1>2. PiTypeOK /\ k \in Tool /\ spawns[k] = "none" /\ prepared[k] \in Known
  BY <1>1, PiTypes DEF PiIInv, OnePreparation
<1>3. /\ Known' = Known /\ runtime' \in [Known -> Runtimes]
      /\ \A q \in Known : /\ runtime'[q].lists = runtime[q].lists
                          /\ runtime'[q].due = runtime[q].due
                          /\ runtime'[q].close = runtime[q].close
                          /\ runtime'[q] = runtime[q] \/ runtime'[q].recovery
  BY <1>1, <1>2, RecoverFrame
<1>4. /\ at'[e] = "spawning"
      /\ \A f \in Call : at'[f] = at[f] \/ f = e \/ (at[f] = "joining" /\ at'[f] = "sharing")
  BY <1>1 DEF Standing
<1>5. toolOf[e] = k
  BY DEF k
<1> HIDE DEF k
<1>6. \A j \in Tool : spawns'[j] = IF j = k THEN "pending" ELSE spawns[j]
  BY <1>1, <1>2 DEF PiTypeOK
<1>7. owner \in Known /\ ~Unlisted /\ ~Unlisted'
  <2>1. ~Unlisted
    BY <1>1 DEF PiIInv, ListedFirst
  <2>2. owner \in Known
    BY <1>2, <2>1, PiTypes DEF Unlisted
  <2> QED
    BY <1>1, <1>3, <2>1, <2>2 DEF Unlisted
<1>8. PiTypeOK'
  <2>1. at' \in [Call -> Standings]
    BY <1>1, <1>2 DEF PiTypeOK, Standings
  <2>2. spawns' \in [Tool -> Spawning]
    BY <1>1, <1>2 DEF PiTypeOK, Spawning
  <2> QED
    BY <1>1, <1>2, <1>3, <2>1, <2>2 DEF PiTypeOK, work
<1>9. OwnerIsFirst' /\ ListedFirst'
  BY <1>1, <1>3, <1>7 DEF PiIInv, OwnerIsFirst, ListedFirst
<1>10. OnePreparation'
  <2>1. ASSUME NEW f \in Call, at'[f] \in {"configuring", "ownerReady", "ownReady", "waiting", "interrupted"}
        PROVE  /\ at'[f] = at[f] /\ f # e /\ toolOf[f] # k /\ toolOf[f] \in Tool
               /\ spawns'[toolOf[f]] = spawns[toolOf[f]]
    <3>1. at'[f] = at[f] /\ f # e
      BY <1>4, <2>1
    <3>2. toolOf[f] # k
      BY <1>1, <1>2, <1>5, <2>1, <3>1 DEF PiIInv, OnePreparation
    <3> QED
      BY <1>2, <1>6, <3>1, <3>2, PiTypes
  <2>2. ASSUME NEW f \in Call, NEW g \in Call, toolOf[f] = toolOf[g],
               {at'[f], at'[g]} \subseteq {"configuring", "ownerReady", "ownReady"}
        PROVE  f = g
    BY <2>1, <2>2 DEF PiIInv, OnePreparation
  <2>3. ASSUME NEW f \in Call
        PROVE  /\ at'[f] = "configuring" => prepared[toolOf[f]] = None
               /\ at'[f] \in {"ownerReady", "ownReady"} => prepared[toolOf[f]] \in Known
               /\ at'[f] \in {"configuring", "ownerReady", "ownReady"} => spawns'[toolOf[f]] = "none"
               /\ at'[f] \in {"waiting", "interrupted"} => spawns'[toolOf[f]] = "made"
    BY <2>1 DEF PiIInv, OnePreparation
  <2> QED
    BY <1>1, <1>3, <2>2, <2>3 DEF OnePreparation
<1>11. PreparedSpawns'
  <2> SUFFICES ASSUME NEW j \in Tool
               PROVE  /\ prepared[j] # None => prepared[j] \in Known
                      /\ spawns'[j] = "none" => prepared[j] = None \/ Preparing(j)'
                      /\ spawns'[j] # "none" => prepared[j] # None
                      /\ spawns'[j] \in {"pending", "creating"} =>
                           \E f \in Call : toolOf[f] = j /\ at'[f] = "spawning"
                      /\ spawns'[j] \in {"none", "pending"} => j \notin open
    BY <1>1, <1>3 DEF PreparedSpawns, work
  <2>1. j # k /\ Preparing(j) => Preparing(j)'
    BY <1>1, <1>4, <1>5 DEF Preparing, Standing
  <2>2. \A f \in Call : at[f] = "spawning" => at'[f] = "spawning"
    BY <1>1, <1>4
  <2>3. prepared[k] # None
    BY <1>2, PiTypes
  <2> QED
    BY <1>2, <1>4, <1>5, <1>6, <2>1, <2>2, <2>3 DEF PiIInv, PreparedSpawns
<1>12. \A j \in Tool : spawns'[j] = "made" <=> spawns[j] = "made"
  BY <1>2, <1>6
<1>13. HandlesTracked'
  BY <1>1, <1>12 DEF PiIInv, HandlesTracked, work
<1>14. RecoveryDone'
  BY <1>1, <1>3, <1>7 DEF PiIInv, RecoveryDone, work
<1>15. OpenIsDriven' /\ DrivenByItsRuntime'
  BY <1>1, <1>3, <1>7, <1>12 DEF PiIInv, OpenIsDriven, DrivenByItsRuntime, work
<1>16. ShutdownOrder' /\ ClosedIsQuiet'
  BY <1>1, <1>3, AdmittedIsOpen, OpenIsQuiet
<1> QED
  BY <1>8, <1>9, <1>10, <1>11, <1>13, <1>14, <1>15, <1>16 DEF PiIInv

LEMMA CreateKeeps ==
  ASSUME PiIInv, NEW e \in Call, Create(e)
  PROVE  PiIInv'
<1> DEFINE k == toolOf[e]
<1>1. /\ UNCHANGED <<toolOf, shutdown, start, at, prepared, owner, runtime, driving, deferred,
                     answered, tracked, cancel, faults>>
      /\ at[e] = "spawning" /\ spawns[k] = "pending"
      /\ spawns' = [spawns EXCEPT ![k] = "creating"]
      /\ open' = open \cup {k}
  BY DEF Create
<1>2. PiTypeOK /\ k \in Tool
  BY PiTypes DEF PiIInv
<1>3. toolOf[e] = k
  BY DEF k
<1> HIDE DEF k
<1>4. \A j \in Tool : spawns'[j] = IF j = k THEN "creating" ELSE spawns[j]
  BY <1>1, <1>2 DEF PiTypeOK
<1>5. Known' = Known /\ ~Unlisted /\ ~Unlisted'
  BY <1>1, <1>2 DEF PiIInv, ListedFirst, Known, Unlisted
<1>6. PiTypeOK'
  <2>1. spawns' \in [Tool -> Spawning]
    BY <1>1, <1>2 DEF PiTypeOK, Spawning
  <2>2. open' \subseteq Work
    BY <1>1, <1>2, PiTypes
  <2> QED
    BY <1>1, <1>2, <1>5, <2>1, <2>2 DEF PiTypeOK
<1>7. \A j \in Tool : /\ spawns'[j] = "made" <=> spawns[j] = "made"
                      /\ spawns'[j] = "none" <=> spawns[j] = "none"
  BY <1>1, <1>2, <1>4
<1>8. OwnerIsFirst' /\ ListedFirst'
  BY <1>1, <1>5 DEF PiIInv, OwnerIsFirst, ListedFirst
<1>9. OnePreparation'
  <2>1. \A f \in Call : toolOf[f] \in Tool
    BY <1>2, PiTypes
  <2> QED
    BY <1>1, <1>5, <1>7, <2>1 DEF PiIInv, OnePreparation
<1>10. PreparedSpawns'
  <2> SUFFICES ASSUME NEW j \in Tool
               PROVE  /\ prepared[j] # None => prepared[j] \in Known
                      /\ spawns'[j] = "none" => prepared[j] = None \/ Preparing(j)'
                      /\ spawns'[j] # "none" => prepared[j] # None
                      /\ spawns'[j] \in {"pending", "creating"} =>
                           \E f \in Call : toolOf[f] = j /\ at[f] = "spawning"
                      /\ spawns'[j] \in {"none", "pending"} => j \notin open'
    BY <1>1, <1>5 DEF PreparedSpawns
  <2>1. Preparing(j) => Preparing(j)'
    BY <1>1 DEF Preparing, Standing
  <2>2. j # k => (j \in open' <=> j \in open)
    BY <1>1
  <2> QED
    BY <1>1, <1>2, <1>3, <1>4, <2>1, <2>2 DEF PiIInv, PreparedSpawns
<1>11. HandlesTracked'
  BY <1>1, <1>7 DEF PiIInv, HandlesTracked
<1>12. RecoveryDone' /\ DrivenByItsRuntime'
  BY <1>1, <1>5, <1>7 DEF PiIInv, RecoveryDone, DrivenByItsRuntime
<1>13. OpenIsDriven'
  <2>1. \A o \in Old : o \in open' => o \in open
    BY <1>1, <1>2, PiTypes
  <2>2. \A j \in Tool : j \in open' /\ spawns'[j] = "made" => j \in open /\ spawns[j] = "made"
    BY <1>1, <1>4
  <2> QED
    BY <1>1, <1>5, <2>1, <2>2 DEF PiIInv, OpenIsDriven
<1>14. ShutdownOrder' /\ ClosedIsQuiet'
  BY <1>1, <1>5, AdmittedIsOpen, OpenIsQuiet
<1> QED
  BY <1>6, <1>8, <1>9, <1>10, <1>11, <1>12, <1>13, <1>14 DEF PiIInv

\* What a spawn that is over means for the executions that await it.
LEMMA SpawnedPlaces ==
  ASSUME PiIInv, NEW e \in Call, at[e] = "spawning", NEW k \in Tool, k = toolOf[e],
         spawns[k] \in {"pending", "creating"},
         NEW outcome \in {"made", "failed", "kept"}, NEW place \in {"waiting", "ended"},
         place = "waiting" => outcome = "made",
         Spawned(k, outcome, place), open' = open
  PROVE  /\ UNCHANGED <<toolOf, shutdown, start, prepared, owner, runtime>>
         /\ at' \in [Call -> Standings] /\ spawns' \in [Tool -> Spawning]
         /\ \A j \in Tool : spawns'[j] = IF j = k THEN outcome ELSE spawns[j]
         /\ OnePreparation' /\ PreparedSpawns'
         /\ \A f \in Call : at'[f] = "ownReady" => at[f] = "ownReady"
<1>1. /\ UNCHANGED <<toolOf, shutdown, start, prepared, owner, runtime>>
      /\ at' = [f \in Call |-> IF f \in Standing(k, {"spawning", "sharing"}) THEN place ELSE at[f]]
      /\ spawns' = [spawns EXCEPT ![k] = outcome]
  BY DEF Spawned, Goto
<1>2. PiTypeOK
  BY DEF PiIInv
<1>3. \A j \in Tool : spawns'[j] = IF j = k THEN outcome ELSE spawns[j]
  BY <1>1, <1>2 DEF PiTypeOK
<1>4. \A f \in Call :
        \/ at'[f] = at[f]
        \/ at'[f] = place /\ toolOf[f] = k /\ at[f] \in {"spawning", "sharing"}
  BY <1>1 DEF Standing
<1>5. Known' = Known
  BY <1>1 DEF Known
<1>6. at' \in [Call -> Standings] /\ spawns' \in [Tool -> Spawning]
  BY <1>1, <1>2 DEF PiTypeOK, Standings, Spawning
<1>7. OnePreparation'
  <2>1. ASSUME NEW f \in Call, NEW g \in Call, toolOf[f] = toolOf[g],
               {at'[f], at'[g]} \subseteq {"configuring", "ownerReady", "ownReady"}
        PROVE  f = g
    BY <1>4, <2>1 DEF PiIInv, OnePreparation
  <2>2. ASSUME NEW f \in Call
        PROVE  /\ at'[f] = "configuring" => prepared[toolOf[f]] = None
               /\ at'[f] \in {"ownerReady", "ownReady"} => prepared[toolOf[f]] \in Known
               /\ at'[f] \in {"configuring", "ownerReady", "ownReady"} => spawns'[toolOf[f]] = "none"
               /\ at'[f] \in {"waiting", "interrupted"} => spawns'[toolOf[f]] = "made"
    <3>1. CASE at'[f] = at[f]
      <4>1. toolOf[f] \in Tool
        BY <1>2, PiTypes
      <4>2. at[f] \in {"configuring", "ownerReady", "ownReady", "waiting", "interrupted"} =>
              toolOf[f] # k
        BY DEF PiIInv, OnePreparation
      <4> QED
        BY <1>3, <3>1, <4>1, <4>2 DEF PiIInv, OnePreparation
    <3>2. CASE at'[f] = place /\ toolOf[f] = k
      BY <1>3, <3>2
    <3> QED
      BY <1>4, <3>1, <3>2
  <2> QED
    BY <1>1, <1>5, <2>1, <2>2 DEF OnePreparation
<1>8. PreparedSpawns'
  <2> SUFFICES ASSUME NEW j \in Tool
               PROVE  /\ prepared[j] # None => prepared[j] \in Known
                      /\ spawns'[j] = "none" => prepared[j] = None \/ Preparing(j)'
                      /\ spawns'[j] # "none" => prepared[j] # None
                      /\ spawns'[j] \in {"pending", "creating"} =>
                           \E f \in Call : toolOf[f] = j /\ at'[f] = "spawning"
                      /\ spawns'[j] \in {"none", "pending"} => j \notin open
    BY <1>1, <1>5 DEF PreparedSpawns
  <2>1. Preparing(j) => Preparing(j)'
    BY <1>1, <1>4 DEF Preparing, Standing
  <2>2. j # k => \A f \in Call : toolOf[f] = j /\ at[f] = "spawning" => at'[f] = "spawning"
    BY <1>4
  <2> QED
    BY <1>3, <2>1, <2>2 DEF PiIInv, PreparedSpawns
<1> QED
  BY <1>1, <1>3, <1>4, <1>6, <1>7, <1>8

LEMMA TrackKeeps ==
  ASSUME PiIInv, NEW e \in Call, Track(e)
  PROVE  PiIInv'
<1> DEFINE k == toolOf[e]
           p == prepared[k]
<1>1. /\ at[e] = "spawning" /\ spawns[k] = "creating" /\ Spawned(k, "made", "waiting")
      /\ driving' = driving \cup {<<p, k>>} /\ tracked' = tracked \cup {k}
      /\ UNCHANGED <<deferred, answered, open, cancel, faults>>
  BY DEF Track
<1>2. PiTypeOK /\ k \in Tool /\ k \in Work
  BY PiTypes DEF PiIInv
<1>3. /\ UNCHANGED <<toolOf, shutdown, start, prepared, owner, runtime>>
      /\ at' \in [Call -> Standings] /\ spawns' \in [Tool -> Spawning]
      /\ \A j \in Tool : spawns'[j] = IF j = k THEN "made" ELSE spawns[j]
      /\ OnePreparation' /\ PreparedSpawns'
      /\ \A f \in Call : at'[f] = "ownReady" => at[f] = "ownReady"
  BY <1>1, <1>2, SpawnedPlaces
<1>4. p \in Known /\ cancel[k] = "none" /\ p = prepared[k]
  <2>1. p # None /\ (p # None => p \in Known)
    BY <1>1, <1>2 DEF PiIInv, PreparedSpawns
  <2> QED
    BY <1>1, <1>2, <2>1, NotSpawnedYet
<1>5. shutdown \in {"open", "admissions"} /\ \A r \in Known : runtime[r].close = "open"
  BY <1>1, AdmittedIsOpen
<1> HIDE DEF k, p
<1>6. Known' = Known /\ ~Unlisted /\ ~Unlisted'
  BY <1>1, <1>2, <1>3 DEF PiIInv, ListedFirst, Known, Unlisted
<1>7. PiTypeOK'
  <2>1. driving' \subseteq Known \X Work /\ tracked' \subseteq Work
    BY <1>1, <1>2, <1>4, PiTypes
  <2> QED
    BY <1>1, <1>2, <1>3, <1>6, <2>1 DEF PiTypeOK
<1>8. OwnerIsFirst' /\ ListedFirst'
  BY <1>3, <1>6 DEF PiIInv, OwnerIsFirst, ListedFirst
<1>9. HandlesTracked'
  <2>1. \A o \in tracked' : o \in tracked \/ o = k
    BY <1>1
  <2> QED
    BY <1>1, <1>2, <1>3, <1>4, <2>1 DEF PiIInv, HandlesTracked
<1>10. RecoveryDone'
  BY <1>1, <1>3, <1>6 DEF PiIInv, RecoveryDone
<1>11. \A q, o : <<q, o>> \in driving' \cup deferred' <=>
         <<q, o>> \in driving \cup deferred \/ (q = p /\ o = k)
  BY <1>1
<1>12. OpenIsDriven'
  <2>1. \A r \in Known, o \in Old : <<r, o>> \in driving' \cup deferred' => r = owner
    BY <1>2, <1>11, PiTypes DEF PiIInv, OpenIsDriven
  <2>2. \A o \in Old \cap open : <<owner, o>> \in driving' \cup deferred'
    BY <1>6, <1>11 DEF PiIInv, OpenIsDriven
  <2>3. \A j \in Tool \cap open : spawns'[j] = "made" =>
          \/ <<prepared[j], j>> \in driving' \cup deferred'
          \/ cancel[j] \in {"asked", "awaited"}
    BY <1>3, <1>4, <1>11 DEF PiIInv, OpenIsDriven
  <2> QED
    BY <1>1, <1>3, <1>6, <2>1, <2>2, <2>3 DEF OpenIsDriven
<1>13. DrivenByItsRuntime'
  <2> SUFFICES ASSUME runtime[owner].lists < 2,
                      NEW r \in Known, NEW j \in Tool, <<r, j>> \in driving' \cup deferred'
               PROVE  r = prepared[j] /\ spawns'[j] = "made"
    BY <1>3, <1>6 DEF DrivenByItsRuntime
  <2> QED
    BY <1>3, <1>4, <1>6, <1>11 DEF PiIInv, DrivenByItsRuntime
<1>14. ShutdownOrder' /\ ClosedIsQuiet'
  BY <1>3, <1>5, <1>6, OpenIsQuiet
<1> QED
  BY <1>3, <1>7, <1>8, <1>9, <1>10, <1>12, <1>13, <1>14 DEF PiIInv

LEMMA SpawnFailsKeeps ==
  ASSUME PiIInv, NEW e \in Call, SpawnFails(e)
  PROVE  PiIInv'
<1> DEFINE k == toolOf[e]
<1>1. PICK outcome \in {"failed", "kept"} :
        /\ at[e] = "spawning" /\ spawns[k] \in {"pending", "creating"}
        /\ Spawned(k, outcome, "ended") /\ UNCHANGED work
  BY DEF SpawnFails
<1>2. PiTypeOK /\ k \in Tool /\ faults' \in Nat
  BY PiTypes DEF PiIInv, PiTypeOK, SpawnFails, Fault, NoFault
<1>3. /\ UNCHANGED <<toolOf, shutdown, start, prepared, owner, runtime>>
      /\ at' \in [Call -> Standings] /\ spawns' \in [Tool -> Spawning]
      /\ \A j \in Tool : spawns'[j] = IF j = k THEN outcome ELSE spawns[j]
      /\ OnePreparation' /\ PreparedSpawns'
      /\ \A f \in Call : at'[f] = "ownReady" => at[f] = "ownReady"
  BY <1>1, <1>2, SpawnedPlaces DEF work
<1>4. shutdown \in {"open", "admissions"} /\ \A r \in Known : runtime[r].close = "open"
  BY <1>1, AdmittedIsOpen
<1> HIDE DEF k
<1>5. Known' = Known /\ ~Unlisted /\ ~Unlisted'
  BY <1>1, <1>2, <1>3 DEF PiIInv, ListedFirst, Known, Unlisted
<1>6. \A j \in Tool : spawns'[j] = "made" <=> spawns[j] = "made"
  BY <1>1, <1>3
<1>7. PiTypeOK'
  BY <1>1, <1>2, <1>3, <1>5 DEF PiTypeOK, work
<1>8. OwnerIsFirst' /\ ListedFirst' /\ HandlesTracked'
  BY <1>1, <1>3, <1>5, <1>6 DEF PiIInv, OwnerIsFirst, ListedFirst, HandlesTracked, work
<1>9. RecoveryDone' /\ OpenIsDriven' /\ DrivenByItsRuntime'
  BY <1>1, <1>3, <1>5, <1>6 DEF PiIInv, RecoveryDone, OpenIsDriven, DrivenByItsRuntime, work
<1>10. ShutdownOrder' /\ ClosedIsQuiet'
  BY <1>3, <1>4, <1>5, OpenIsQuiet
<1> QED
  BY <1>3, <1>7, <1>8, <1>9, <1>10 DEF PiIInv

LEMMA InterruptKeeps ==
  ASSUME PiIInv, NEW e \in Call, Interrupt(e)
  PROVE  PiIInv'
<1> DEFINE k == toolOf[e]
<1>1. /\ UNCHANGED <<toolOf, shutdown, start, prepared, spawns, owner, runtime, driving, deferred,
                     answered, open, tracked, faults>>
      /\ at[e] = "waiting" /\ <<Handle(k), k>> \notin answered
      /\ at' = [f \in Call |-> IF f \in {e} THEN "interrupted" ELSE at[f]]
      /\ cancel' = [cancel EXCEPT ![k] = IF @ = "none" THEN "asked" ELSE @]
  BY DEF Interrupt, Goto
<1>2. PiTypeOK /\ k \in Tool /\ k \in Work /\ spawns[k] = "made" /\ Handle(k) = prepared[k]
  BY <1>1, PiTypes DEF PiIInv, OnePreparation, Handle
<1>3. k \in tracked
  BY <1>1, <1>2 DEF PiIInv, HandlesTracked
<1> HIDE DEF k
<1>4. \A f \in Call : at'[f] = IF f = e THEN "interrupted" ELSE at[f]
  BY <1>1
<1>5. /\ cancel' \in [Work -> {"none", "asked", "awaited", "done", "failed"}]
      /\ \A o \in Work : cancel'[o] = IF o = k /\ cancel[k] = "none" THEN "asked" ELSE cancel[o]
  BY <1>1, <1>2 DEF PiTypeOK
<1>6. Known' = Known /\ ~Unlisted /\ ~Unlisted'
  BY <1>1, <1>2 DEF PiIInv, ListedFirst, Known, Unlisted
<1>7. shutdown \in {"cancelling", "closing", "ended"} => cancel' = cancel
  <2>1. shutdown \in {"cancelling", "closing", "ended"} => cancel[k] # "none"
    BY <1>3 DEF PiIInv, ShutdownOrder
  <2> QED
    BY <1>1, <1>2, <2>1 DEF PiTypeOK
<1>8. PiTypeOK'
  <2>1. at' \in [Call -> Standings]
    BY <1>1, <1>2 DEF PiTypeOK, Standings
  <2> QED
    BY <1>1, <1>2, <1>5, <1>6, <2>1 DEF PiTypeOK
<1>9. OwnerIsFirst' /\ ListedFirst'
  BY <1>1, <1>6 DEF PiIInv, OwnerIsFirst, ListedFirst
<1>10. OnePreparation'
  <2>1. toolOf[e] = k
    BY DEF k
  <2> QED
    BY <1>1, <1>2, <1>4, <1>6, <2>1 DEF PiIInv, OnePreparation
<1>11. PreparedSpawns'
  <2>1. \A j \in Tool : Preparing(j) => Preparing(j)'
    BY <1>1, <1>4 DEF Preparing, Standing
  <2>2. \A f \in Call : at[f] = "spawning" => at'[f] = "spawning"
    BY <1>1, <1>4
  <2> QED
    BY <1>1, <1>6, <2>1, <2>2 DEF PiIInv, PreparedSpawns
<1>12. HandlesTracked'
  <2>1. \A j \in Tool : cancel'[j] # "none" => cancel[j] # "none" \/ j = k
    BY <1>5 DEF Work
  <2>2. \A o \in Old : cancel'[o] = cancel[o]
    BY <1>2, <1>5, PiTypes
  <2>3. \A o \in tracked : cancel'[o] # "done"
    BY <1>2, <1>5, PiTypes DEF PiIInv, HandlesTracked
  <2> QED
    BY <1>1, <1>2, <2>1, <2>2, <2>3 DEF PiIInv, HandlesTracked
<1>13. RecoveryDone' /\ DrivenByItsRuntime'
  BY <1>1, <1>6 DEF PiIInv, RecoveryDone, DrivenByItsRuntime
<1>14. OpenIsDriven'
  BY <1>1, <1>5, <1>6 DEF PiIInv, OpenIsDriven, Work
<1>15. ShutdownOrder'
  <2>1. Admitted' => Admitted
    BY <1>1, <1>4 DEF Admitted
  <2> QED
    BY <1>1, <1>6, <1>7, <2>1 DEF PiIInv, ShutdownOrder
<1>16. ClosedIsQuiet'
  <2>1. CASE shutdown \in {"closing", "ended"}
    <3>1. \A q \in Known : InFlight(q)' => InFlight(q)
      BY <1>1, <1>7, <2>1 DEF InFlight, Cancelling, Handle
    <3> QED
      BY <1>1, <1>6, <3>1 DEF PiIInv, ClosedIsQuiet
  <2>2. CASE shutdown \notin {"closing", "ended"}
    <3>1. \A q \in Known : runtime[q].close = "open"
      BY <2>2 DEF PiIInv, ClosedIsQuiet
    <3> QED
      BY <1>1, <1>6, <3>1 DEF ClosedIsQuiet
  <2> QED
    BY <2>1, <2>2
<1> QED
  BY <1>8, <1>9, <1>10, <1>11, <1>12, <1>13, <1>14, <1>15, <1>16 DEF PiIInv

-----------------------------------------------------------------------------
(* The theorems.                                                           *)

LEMMA PiInitially == Init => PiIInv
<1> SUFFICES ASSUME Init PROVE PiIInv
  OBVIOUS
<1>1. /\ Known = {} /\ owner = None /\ Unlisted /\ shutdown = "open"
      /\ driving = {} /\ deferred = {} /\ answered = {} /\ tracked = {} /\ open = Old
      /\ \A e \in Call : at[e] = "idle"
      /\ \A k \in Tool : prepared[k] = None /\ spawns[k] = "none" /\ k \notin Old
      /\ \A o \in Work : cancel[o] = "none"
  BY PiSessionAssumption DEF Init, Known, Unlisted, Work
<1>2. PiTypeOK
  BY <1>1, PiSessionAssumption DEF Init, PiTypeOK, Standings, Spawning, Work, Known
<1>3. OwnerIsFirst /\ OnePreparation /\ PreparedSpawns /\ ListedFirst
  BY <1>1 DEF OwnerIsFirst, OnePreparation, PreparedSpawns, ListedFirst
<1>4. HandlesTracked /\ RecoveryDone /\ OpenIsDriven /\ DrivenByItsRuntime
  BY <1>1 DEF HandlesTracked, RecoveryDone, OpenIsDriven, DrivenByItsRuntime, Work
<1>5. ShutdownOrder /\ ClosedIsQuiet
  BY <1>1 DEF ShutdownOrder, ClosedIsQuiet
<1> QED
  BY <1>2, <1>3, <1>4, <1>5 DEF PiIInv

LEMMA PiStutters ==
  ASSUME PiIInv, UNCHANGED vars
  PROVE  PiIInv'
<1>1. UNCHANGED <<toolOf, shutdown, prepared, spawns, owner, runtime, work>> /\ at' = at /\ start' = start
  BY DEF vars, calls
<1>2. faults' \in Nat /\ at' \in [Call -> Standings]
      /\ start' \in {"idle", "resolving", "recovering", "backgrounds", "ended"}
  BY <1>1 DEF PiIInv, PiTypeOK, vars
<1>3. OnePreparation' /\ \A k \in Tool : Preparing(k) => Preparing(k)'
  BY <1>1 DEF PiIInv, OnePreparation, Preparing, Standing, Known
<1>4. shutdown \in {"cancelling", "closing", "ended"} => ~Admitted'
  BY <1>1 DEF PiIInv, ShutdownOrder, Admitted
<1> QED
  BY <1>1, <1>2, <1>3, <1>4, PlacesKeep

LEMMA GoesKeeps ==
  ASSUME PiIInv, Goes
  PROVE  PiIInv'
<1>1. ASSUME NEW r \in Known,
             \/ RecoveryDue(r) \/ Recovers(r)
             \/ Drained(r) \/ CloseRecovers(r) \/ CloseRecovered(r) \/ CloseFails(r) \/ CloseReturns(r)
             \/ \E o \in Tool \cup Old : Ends(r, o)
      PROVE  PiIInv'
  BY <1>1, RecoveryDueKeeps, RecoversKeeps, CloseStepsKeep, CloseRecoversKeeps, EndsKeep DEF Work
<1>2. ASSUME NEW o \in Tool \cup Old, CancelEnds(o) \/ CancelIsLate(o)
      PROVE  PiIInv'
  BY <1>2, CancelEndsKeeps, CancelUnsettledKeeps DEF Work
<1>3. ASSUME StartRecovers \/ StartTracks \/ StartEnds
      PROVE  PiIInv'
  BY <1>3, StartRecoversKeeps, StartTracksKeeps, StartEndsKeeps
<1>4. ASSUME NEW e \in Call,
             \/ Prepare(e) \/ (\E c \in Config : Acquire(e, c)) \/ (closing /\ AcquireFails(e))
             \/ OwnerIsReady(e) \/ OwnIsReady(e) \/ ReadyFails(e)
             \/ Create(e) \/ Track(e) \/ Return(e)
             \/ SpawnFails(e) /\ NoFault
      PROVE  PiIInv'
  BY <1>4, PrepareKeeps, AcquireKeeps, PreparationEndsKeeps, OwnerIsReadyKeeps, OwnIsReadyKeeps,
     CreateKeeps, TrackKeeps, ReturnKeeps, SpawnFailsKeeps
<1>5. ASSUME CancelAll \/ CloseAll \/ ShutdownReturns
      PROVE  PiIInv'
  BY <1>5, CancelAllKeeps, CloseAllKeeps, ShutdownReturnsKeeps
<1> QED
  BY <1>1, <1>2, <1>3, <1>4, <1>5 DEF Goes

LEMMA HappensKeeps ==
  ASSUME PiIInv, Happens
  PROVE  PiIInv'
<1>1. ASSUME NEW r \in Known, RecoveryFails(r) \/ \E o \in Tool \cup Old : EndFails(r, o)
      PROVE  PiIInv'
  BY <1>1, RecoveryFailsKeeps, EndFailsKeeps DEF Work
<1>2. ASSUME NEW o \in Tool \cup Old, CancelFails(o)
      PROVE  PiIInv'
  BY <1>2, CancelUnsettledKeeps DEF Work
<1>3. ASSUME SessionStart \/ StopAdmissions
      PROVE  PiIInv'
  BY <1>3, SessionStartKeeps, StopAdmissionsKeeps
<1>4. ASSUME NEW e \in Call, Execute(e) \/ AcquireFails(e) \/ SpawnFails(e) \/ Interrupt(e)
      PROVE  PiIInv'
  BY <1>4, ExecuteKeeps, PreparationEndsKeeps, SpawnFailsKeeps, InterruptKeeps
<1> QED
  BY <1>1, <1>2, <1>3, <1>4 DEF Happens

\* The invariant behind the theorems below holds, in whatever order Pi executes its
\* tools, the session starts and ends, and calls fail.
THEOREM PiInvariant == Spec => []PiIInv
<1>1. PiIInv /\ [Next]_vars => PiIInv'
  BY GoesKeeps, HappensKeeps, PiStutters DEF Next
<1> QED
  BY PiInitially, <1>1, PTL DEF Spec

\* Every variable of a session has its type: an execution stands where the code has an
\* await, and only known Runtimes drive, defer or answer.
THEOREM PiTypeCorrect == Spec => []PiTypeOK
<1>1. PiIInv => PiTypeOK
  BY DEF PiIInv
<1> QED
  BY <1>1, PiInvariant, PTL

LEMMA DriverIsUnique == PiIInv => OneDriver
<1> SUFFICES ASSUME PiIInv, owner # None => runtime[owner].lists < 2, NEW o \in Work
             PROVE  Cardinality({r \in Known : <<r, o>> \in driving}) <= 1
  BY DEF OneDriver, Work
<1> DEFINE drivers == {r \in Known : <<r, o>> \in driving}
<1>1. drivers = {} => Cardinality(drivers) <= 1
  <2> HIDE DEF drivers
  <2>1. drivers = {} => Cardinality(drivers) = 0
    BY FS_EmptySet
  <2> QED
    BY <2>1, SMT
<1>2. \A d : drivers = {d} => Cardinality(drivers) <= 1
  <2> HIDE DEF drivers
  <2>1. \A d : drivers = {d} => Cardinality(drivers) = 1
    BY FS_Singleton
  <2> QED
    BY <2>1, SMT
<1>3. CASE Unlisted
  BY <1>1, <1>3 DEF PiIInv, ListedFirst
<1>4. CASE ~Unlisted /\ o \in Tool
  <2>1. \A r \in drivers : r = prepared[o]
    BY <1>4 DEF PiIInv, DrivenByItsRuntime, Unlisted
  <2>2. drivers = {} \/ drivers = {prepared[o]}
    BY <2>1
  <2> HIDE DEF drivers
  <2>3. Cardinality(drivers) <= 1
    BY <1>1, <1>2, <2>2
  <2> QED
    BY <2>3 DEF drivers
<1>5. CASE ~Unlisted /\ o \in Old
  <2>1. \A r \in drivers : r = owner
    BY <1>5 DEF PiIInv, OpenIsDriven
  <2>2. drivers = {} \/ drivers = {owner}
    BY <2>1
  <2> HIDE DEF drivers
  <2>3. Cardinality(drivers) <= 1
    BY <1>1, <1>2, <2>2
  <2> QED
    BY <2>3 DEF drivers
<1> QED
  BY <1>3, <1>4, <1>5 DEF Work

\* Until the owner of the recovery lists the store a second time, no two Runtimes of a
\* session drive the same Operation: neither one of a delegation, which its Runtime
\* and the owner's recovery might both take, nor one of an earlier session.
THEOREM OneDriverHolds == Spec => []OneDriver
  BY PiInvariant, DriverIsUnique, PTL

LEMMA EndIsQuiet == PiIInv => QuietAfterShutdown
<1> SUFFICES ASSUME PiIInv, shutdown = "ended" PROVE QuietAfterShutdown
  BY DEF QuietAfterShutdown
<1>1. PiTypeOK /\ ~Admitted
  BY DEF PiIInv, ShutdownOrder
<1>2. \A o \in tracked : cancel[o] = "failed"
  <2>1. \A o \in tracked : o \in Work /\ cancel[o] \in {"awaited", "failed"}
    BY <1>1, PiTypes DEF PiIInv, ShutdownOrder
  <2> QED
    BY <2>1 DEF PiIInv, ShutdownOrder
<1>3. \A r \in Known : ~runtime[r].due
  BY DEF PiIInv, ShutdownOrder
<1>4. \A r \in Known : runtime[r].close = "closed" => ~InFlight(r) /\ ~runtime[r].recovery
  BY DEF PiIInv, ClosedIsQuiet
<1>5. ASSUME Known # {}, \A r \in Known : runtime[r].close = "closed", NEW o \in open
      PROVE  o \in Tool /\ spawns[o] \in {"failed", "kept"}
  <2>1. \A r \in Known : /\ runtime[r].recovered /\ ~runtime[r].recovery /\ ~InFlight(r)
                         /\ \A p \in Work : <<r, p>> \notin driving \cup deferred
    <3>1. \A r \in Known : runtime[r].recovered /\ ~runtime[r].recovery /\ ~InFlight(r)
      BY <1>5 DEF PiIInv, ClosedIsQuiet
    <3> QED
      BY <3>1 DEF PiIInv, RecoveryDone, InFlight, Work
  <2>2. owner \in Known /\ ~Unlisted
    <3>1. owner \in Known
      BY <1>1, <1>5, PiTypes DEF PiIInv, OwnerIsFirst
    <3>2. owner # None
      BY <1>1, <3>1, PiTypes
    <3> QED
      BY <2>1, <3>1, <3>2 DEF PiIInv, RecoveryDone, Unlisted
  <2>3. o \in Work
    BY <1>1, PiTypes
  <2>4. o \notin Old
    BY <2>1, <2>2, <2>3 DEF PiIInv, OpenIsDriven
  <2>5. o \in Tool /\ spawns[o] \in Spawning
    BY <1>1, <2>3, <2>4, PiTypes DEF Work
  <2>6. spawns[o] \notin {"none", "pending"}
    BY <2>5 DEF PiIInv, PreparedSpawns
  <2>7. spawns[o] # "creating"
    BY <1>1, <2>5 DEF PiIInv, PreparedSpawns, Admitted
  <2>8. spawns[o] # "made"
    <3> SUFFICES ASSUME spawns[o] = "made" PROVE FALSE
      OBVIOUS
    <3>1. prepared[o] \in Known
      BY <2>5 DEF PiIInv, PreparedSpawns
    <3>2. cancel[o] \in {"asked", "awaited"}
      BY <2>1, <2>3, <2>5, <3>1 DEF PiIInv, OpenIsDriven
    <3>3. InFlight(prepared[o])
      BY <2>5, <3>2 DEF InFlight, Cancelling, Handle
    <3> QED
      BY <2>1, <3>1, <3>3
  <2> QED
    BY <2>5, <2>6, <2>7, <2>8 DEF Spawning
<1> QED
  BY <1>1, <1>2, <1>3, <1>4, <1>5 DEF QuietAfterShutdown

\* A shutdown that has ended leaves nothing behind: no execution and no start is under
\* way, every handle still tracked has a cancellation that failed, no recovery is due,
\* and where all Runtimes closed, every Operation but those of failed spawns is over.
THEOREM QuietAfterShutdownHolds == Spec => []QuietAfterShutdown
  BY PiInvariant, EndIsQuiet, PTL

-----------------------------------------------------------------------------
(* The end of a chunk.                                                     *)

LEMMA StartIsBound ==
  ASSUME NEW r, WellFormed(r)
  PROVE  0 \in r.bounds /\ r.bounds \subseteq Nat /\ r.length \in Nat
  BY SMT DEF WellFormed

\* A limit that falls into a character is at most three bytes behind its first
\* byte, so a limit of four bytes always has room for a character.
LEMMA EndByteFits ==
  ASSUME NEW r, WellFormed(r), NEW s \in r.bounds, NEW n \in Nat, n >= 4
  PROVE  LET e == EndByte(r, s, n) IN
           /\ e \in r.bounds
           /\ s <= e /\ e <= s + n /\ e <= r.length
           /\ s < r.length => s < e
<1> DEFINE last == Smaller(s + n, r.length)
           Fits(e) == /\ e = s \/ Decodes(r, s, e)
                      /\ \A f \in (e + 1)..last : ~Decodes(r, s, f)
<1>1. /\ s \in Nat /\ r.length \in Nat /\ s <= r.length /\ last \in Nat /\ s <= last
      /\ last <= s + n /\ last <= r.length
      /\ s < r.length => last >= s + 4 \/ last = r.length
  BY SMT DEF WellFormed, Smaller
<1>2. PICK b \in r.bounds : b <= last /\ last - b <= 3
  BY <1>1 DEF WellFormed
<1>3. b \in Nat /\ (s < r.length => s < r.length /\ (b > s \/ last = r.length))
  BY <1>1, <1>2, SMT DEF WellFormed
<1>4. \E e \in s..last : Fits(e)
  <2> DEFINE bound(e) == e \in r.bounds /\ e > s /\ e <= last
  <2>1. CASE bound(last)
    BY <1>1, <2>1, SMT DEF Decodes
  <2>2. CASE ~bound(last) /\ bound(last - 1)
    BY <1>1, <2>2, SMT DEF Decodes
  <2>3. CASE ~bound(last) /\ ~bound(last - 1) /\ bound(last - 2)
    BY <1>1, <2>3, SMT DEF Decodes
  <2>4. CASE ~bound(last) /\ ~bound(last - 1) /\ ~bound(last - 2) /\ bound(last - 3)
    BY <1>1, <2>4, SMT DEF Decodes
  <2>5. CASE ~bound(last) /\ ~bound(last - 1) /\ ~bound(last - 2) /\ ~bound(last - 3)
    <3>1. b \in {last, last - 1, last - 2, last - 3} /\ b <= s
      BY <1>1, <1>2, <1>3, <2>5, SMT
    <3>2. \A f \in (s + 1)..last : f \in {last, last - 1, last - 2, last - 3}
      BY <1>1, <1>3, <3>1, SMT
    <3>3. Fits(s)
      BY <1>1, <2>5, <3>2, SMT DEF Decodes
    <3> QED
      BY <1>1, <3>3, SMT
  <2> QED
    BY <2>1, <2>2, <2>3, <2>4, <2>5
<1>5. PICK e \in s..last : e = EndByte(r, s, n) /\ Fits(e)
  BY <1>4 DEF EndByte
<1>6. e \in r.bounds /\ s <= e /\ e <= s + n /\ e <= r.length
  BY <1>1, <1>5, SMT DEF Decodes
<1>7. ASSUME s < r.length PROVE s < e
  <2>1. last \in r.bounds \/ b > s
    BY <1>1, <1>3, <1>7 DEF WellFormed
  <2>2. \E f \in (s + 1)..last : f \in r.bounds
    BY <1>1, <1>2, <1>3, <1>7, <2>1, SMT DEF WellFormed
  <2>3. e # s
    BY <1>5, <2>2, SMT DEF Decodes
  <2> QED
    BY <1>1, <1>5, <2>3, SMT
<1> QED
  BY <1>5, <1>6, <1>7

-----------------------------------------------------------------------------
(* The inductive invariant.                                                *)

Reading(o, n) == {c \in chunks : c.operation = o /\ c.maxBytes = n}

\* Where a reading may go on: at the first byte, or behind one of its chunks.
Places(o, n) == {0} \cup {c.endByte : c \in Reading(o, n)}

\* A chunk is determined by its Operation, its limit and its first byte.
ChunksFit ==
  \A c \in chunks :
    LET r == accepted[c.operation] IN
    /\ r # NoResult
    /\ c.startByte \in r.bounds
    /\ c.endByte = EndByte(r, c.startByte, c.maxBytes)
    /\ c.startByte \in Places(c.operation, c.maxBytes)

\* A cursor points behind a chunk that is not the last.
CursorsFit ==
  \A k \in cursors :
    /\ accepted[k.operation] = k.result
    /\ k.startByte \in k.result.bounds /\ k.startByte < k.result.length
    /\ k.startByte \in Places(k.operation, k.maxBytes)

\* Only from the furthest place of a reading no chunk has been handed out yet: this
\* is what keeps a chunk from running into one handed out before.
FurthestIsOpen ==
  \A o \in Operation, n \in Limit :
    \E m \in Places(o, n) :
      \A x \in Places(o, n) :
        /\ x <= m
        /\ x # m => \E c \in Reading(o, n) : c.startByte = x

Disjoint ==
  \A c, d \in chunks :
    SameReading(c, d) /\ c # d => c.endByte <= d.startByte \/ d.endByte <= c.startByte

ReaderIInv ==
  /\ ReaderTypeOK /\ NoDeadEnd
  /\ ChunksFit /\ CursorsFit /\ FurthestIsOpen /\ Disjoint

LEMMA ChunkTypes ==
  ASSUME ReaderTypeOK, NEW c \in chunks
  PROVE  /\ c.operation \in Operation /\ c.maxBytes \in Limit
         /\ c.startByte \in Nat /\ c.endByte \in Nat
         /\ c = [operation |-> c.operation, maxBytes |-> c.maxBytes,
                 startByte |-> c.startByte, endByte |-> c.endByte]
  BY DEF ReaderTypeOK

LEMMA CursorTypes ==
  ASSUME ReaderTypeOK, NEW k \in cursors
  PROVE  /\ k.operation \in Operation /\ k.maxBytes \in Limit
         /\ k.result \in Result /\ k.startByte \in Nat
  BY DEF ReaderTypeOK

LEMMA ReaderInitially == ReaderInit => ReaderIInv
  BY SMT DEF ReaderInit, ReaderIInv, ReaderTypeOK, NoDeadEnd, ChunksFit, CursorsFit,
             FurthestIsOpen, Disjoint, Places, Reading

LEMMA AcceptKeeps ==
  ASSUME ReaderIInv, NEW o \in Operation, NEW r \in Result, Accept(o, r)
  PROVE  ReaderIInv'
<1> USE DEF Accept
<1>1. ReaderTypeOK' /\ NoDeadEnd'
  BY SMT DEF ReaderIInv, ReaderTypeOK, NoDeadEnd
<1>2. \A c \in chunks : accepted'[c.operation] = accepted[c.operation]
  BY SMT DEF ReaderIInv, ReaderTypeOK, ChunksFit
<1>3. \A k \in cursors : accepted'[k.operation] = accepted[k.operation]
  BY ReaderAssumption, SMT DEF ReaderIInv, ReaderTypeOK, CursorsFit
<1>4. ChunksFit'
  BY <1>2 DEF ReaderIInv, ChunksFit, Places, Reading
<1>5. CursorsFit'
  BY <1>3 DEF ReaderIInv, CursorsFit, Places, Reading
<1>6. FurthestIsOpen' /\ Disjoint'
  BY DEF ReaderIInv, FurthestIsOpen, Disjoint, Places, Reading, SameReading
<1> QED
  BY <1>1, <1>4, <1>5, <1>6 DEF ReaderIInv

LEMMA RefuseKeeps ==
  ASSUME ReaderIInv, NEW reason, Refuse(reason), reason # "invalid"
  PROVE  ReaderIInv'
  BY DEF Refuse, ReaderIInv, ReaderTypeOK, NoDeadEnd, ChunksFit, CursorsFit, FurthestIsOpen,
         Disjoint, Places, Reading, SameReading

\* A call that hands out what was handed out before changes no reading.
LEMMA SameChunksKeep ==
  ASSUME FurthestIsOpen, Disjoint, chunks' = chunks
  PROVE  FurthestIsOpen' /\ Disjoint'
<1>1. Disjoint'
  BY DEF Disjoint, SameReading
<1>2. ASSUME NEW o \in Operation, NEW n \in Limit
      PROVE  \E m \in Places(o, n)' :
               \A x \in Places(o, n)' :
                 /\ x <= m
                 /\ x # m => \E c \in Reading(o, n)' : c.startByte = x
  <2>1. Reading(o, n)' = Reading(o, n)
    BY DEF Reading
  <2>2. Places(o, n)' = Places(o, n)
    BY <2>1 DEF Places
  <2> QED
    BY <2>1, <2>2 DEF FurthestIsOpen
<1>3. FurthestIsOpen'
  BY <1>2 DEF FurthestIsOpen
<1> QED
  BY <1>1, <1>3

LEMMA HandOutKeeps ==
  ASSUME ReaderIInv, NEW o \in Operation, NEW n \in Limit, accepted[o] # NoResult,
         NEW s \in Places(o, n), s \in accepted[o].bounds,
         s = 0 \/ s < accepted[o].length,
         HandOut(o, n, s)
  PROVE  ReaderIInv'
<1> DEFINE r   == accepted[o]
           e   == EndByte(r, s, n)
           new == [operation |-> o, maxBytes |-> n, startByte |-> s, endByte |-> e]
           cur == [operation |-> o, result |-> r, maxBytes |-> n, startByte |-> e]
<1>1. r \in Result /\ WellFormed(r) /\ n \in Nat /\ n >= 4
  BY ReaderAssumption DEF ReaderIInv, ReaderTypeOK
<1>2. /\ e \in r.bounds /\ s <= e /\ e <= r.length
      /\ s < r.length => s < e
  BY <1>1, EndByteFits
<1>3. r.bounds \subseteq Nat /\ r.length \in Nat /\ s \in Nat /\ e \in Nat
  BY <1>1, <1>2, StartIsBound
<1>4. ~(e = s /\ r.length > 0)
  BY <1>2, <1>3, SMT
<1>5. /\ chunks' = chunks \cup {new}
      /\ cursors' = IF e = r.length THEN cursors ELSE cursors \cup {cur}
      /\ answer' = "retrieved" /\ accepted' = accepted
  BY <1>4 DEF HandOut
<1> HIDE DEF r, e
<1>6. ReaderTypeOK' /\ NoDeadEnd'
  BY <1>1, <1>3, <1>5, SMT DEF ReaderIInv, ReaderTypeOK, NoDeadEnd
<1>7. /\ \A p \in Operation, q \in Limit : Places(p, q) \subseteq Places(p, q)'
      /\ e \in Places(o, n)'
      /\ \A p \in Operation, q \in Limit : p # o \/ q # n => Places(p, q)' = Places(p, q)
      /\ Places(o, n)' = Places(o, n) \cup {e}
  <2>1. Reading(o, n)' = Reading(o, n) \cup {new}
    BY <1>5 DEF Reading
  <2>2. \A p \in Operation, q \in Limit : p # o \/ q # n => Reading(p, q)' = Reading(p, q)
    BY <1>5 DEF Reading
  <2>3. Places(o, n)' = Places(o, n) \cup {e}
    <3>1. new.endByte = e
      OBVIOUS
    <3> HIDE DEF new
    <3>2. {c.endByte : c \in Reading(o, n) \cup {new}} = {c.endByte : c \in Reading(o, n)} \cup {e}
      BY <3>1
    <3> QED
      BY <2>1, <3>2, Zenon DEF Places
  <2>4. \A p \in Operation, q \in Limit : p # o \/ q # n => Places(p, q)' = Places(p, q)
    BY <2>2, Zenon DEF Places
  <2>5. \A p \in Operation, q \in Limit : Places(p, q) \subseteq Places(p, q)'
    BY <2>3, <2>4
  <2> QED
    BY <2>3, <2>4, <2>5
<1>8. ChunksFit'
  <2> SUFFICES ASSUME NEW c \in chunks'
               PROVE  /\ accepted[c.operation] # NoResult
                      /\ c.startByte \in accepted[c.operation].bounds
                      /\ c.endByte = EndByte(accepted[c.operation], c.startByte, c.maxBytes)
                      /\ c.startByte \in Places(c.operation, c.maxBytes)'
    BY <1>5 DEF ChunksFit
  <2>1. CASE c \in chunks
    <3>1. c.operation \in Operation /\ c.maxBytes \in Limit
      BY <2>1, ChunkTypes DEF ReaderIInv
    <3> QED
      BY <1>7, <2>1, <3>1 DEF ReaderIInv, ChunksFit
  <2>2. CASE c = new
    BY <1>7, <2>2 DEF r, e
  <2> QED
    BY <1>5, <2>1, <2>2
<1>9. CursorsFit'
  <2> SUFFICES ASSUME NEW k \in cursors'
               PROVE  /\ accepted[k.operation] = k.result
                      /\ k.startByte \in k.result.bounds /\ k.startByte < k.result.length
                      /\ k.startByte \in Places(k.operation, k.maxBytes)'
    BY <1>5 DEF CursorsFit
  <2>1. CASE k \in cursors
    <3>1. k.operation \in Operation /\ k.maxBytes \in Limit
      BY <2>1, CursorTypes DEF ReaderIInv
    <3> QED
      BY <1>7, <2>1, <3>1 DEF ReaderIInv, CursorsFit
  <2>2. CASE k = cur /\ e # r.length
    <3>1. e < r.length
      BY <1>2, <1>3, <2>2, SMT
    <3> QED
      BY <1>2, <1>7, <2>2, <3>1 DEF r
  <2> QED
    BY <1>5, <2>1, <2>2
<1>10. PICK m \in Places(o, n) :
         \A x \in Places(o, n) :
           x <= m /\ (x # m => \E c \in Reading(o, n) : c.startByte = x)
  BY DEF ReaderIInv, FurthestIsOpen
<1>11. Places(o, n) \subseteq Nat
  BY SMT DEF ReaderIInv, ReaderTypeOK, Places, Reading
<1>12. CASE \E c \in Reading(o, n) : c.startByte = s
  <2>1. new \in chunks
    <3>1. PICK c \in Reading(o, n) : c.startByte = s
      BY <1>12
    <3>2. c = new
      BY <3>1, SMT DEF ReaderIInv, ReaderTypeOK, ChunksFit, Reading, r, e
    <3> QED
      BY <3>1, <3>2 DEF Reading
  <2>2. chunks' = chunks
    BY <1>5, <2>1
  <2>3. FurthestIsOpen' /\ Disjoint'
    BY <2>2, SameChunksKeep DEF ReaderIInv
  <2> QED
    BY <1>6, <1>8, <1>9, <2>3 DEF ReaderIInv
<1>13. CASE ~ \E c \in Reading(o, n) : c.startByte = s
  <2>1. s = m
    BY <1>10, <1>13
  <2>2. \A c \in Reading(o, n) : c.endByte <= s
    BY <1>10, <2>1 DEF Places
  <2>3. Disjoint'
    <3>1. \A c \in chunks : SameReading(c, new) => c \in Reading(o, n)
      BY DEF SameReading, Reading
    <3> QED
      BY <1>5, <2>2, <3>1, SMT DEF ReaderIInv, Disjoint, SameReading
  <2>4. FurthestIsOpen'
    <3>1. ASSUME NEW p \in Operation, NEW q \in Limit, p # o \/ q # n
          PROVE  \E y \in Places(p, q)' : \A x \in Places(p, q)' :
                   /\ x <= y
                   /\ x # y => \E c \in Reading(p, q)' : c.startByte = x
      <4>1. Reading(p, q)' = Reading(p, q)
        BY <1>5, <3>1 DEF Reading
      <4> QED
        BY <1>7, <3>1, <4>1 DEF ReaderIInv, FurthestIsOpen
    <3>2. \A x \in Places(o, n)' :
            /\ x <= e
            /\ x # e => \E c \in Reading(o, n)' : c.startByte = x
      <4>1. new \in Reading(o, n)' /\ Reading(o, n) \subseteq Reading(o, n)'
        BY <1>5 DEF Reading
      <4>2. m <= e
        BY <1>2, <2>1
      <4>3. ASSUME NEW x \in Places(o, n)
            PROVE  /\ x <= e
                   /\ x # e => \E c \in Reading(o, n)' : c.startByte = x
        <5>1. x <= e
          BY <1>3, <1>10, <1>11, <2>1, <4>2, SMT
        <5>2. CASE x = m
          BY <2>1, <4>1, <5>1, <5>2
        <5>3. CASE x # m
          BY <1>10, <4>1, <5>1, <5>3
        <5> QED
          BY <5>2, <5>3
      <4>4. e <= e
        BY <1>3, SMT
      <4> QED
        BY <1>7, <4>3, <4>4
    <3>3. e \in Places(o, n)'
      BY <1>7
    <3>4. ASSUME NEW p \in Operation, NEW q \in Limit
          PROVE  \E y \in Places(p, q)' : \A x \in Places(p, q)' :
                   /\ x <= y
                   /\ x # y => \E c \in Reading(p, q)' : c.startByte = x
      <4>1. CASE p # o \/ q # n
        BY <3>1, <4>1
      <4>2. CASE p = o /\ q = n
        BY <3>2, <3>3, <4>2
      <4> QED
        BY <4>1, <4>2
    <3> QED
      BY <3>4 DEF FurthestIsOpen
  <2> QED
    BY <1>6, <1>8, <1>9, <2>3, <2>4 DEF ReaderIInv
<1> QED
  BY <1>12, <1>13

LEMMA ReaderKeeps ==
  ASSUME ReaderIInv, [ReaderNext]_readerVars
  PROVE  ReaderIInv'
<1>1. ASSUME NEW o \in Operation, NEW r \in Result, Accept(o, r) PROVE ReaderIInv'
  BY <1>1, AcceptKeeps
<1>2. ASSUME NEW o \in Operation, NotRead(o) PROVE ReaderIInv'
  BY <1>2, RefuseKeeps, Zenon DEF NotRead
<1>3. ASSUME NEW o \in Operation, NEW n \in Limit, ReadFirst(o, n) PROVE ReaderIInv'
  <2>1. CASE NotRead(o)
    BY <1>2, <2>1
  <2>2. CASE accepted[o] # NoResult /\ HandOut(o, n, 0)
    <3>1. WellFormed(accepted[o])
      BY <2>2, ReaderAssumption DEF ReaderIInv, ReaderTypeOK
    <3>2. 0 \in accepted[o].bounds /\ 0 \in Places(o, n)
      BY <3>1, StartIsBound DEF Places
    <3> QED
      BY <2>2, <3>2, HandOutKeeps
  <2> QED
    BY <1>3, <2>1, <2>2 DEF ReadFirst
<1>4. ASSUME NEW o \in Operation, NEW n \in Limit, NEW k \in cursors, ReadNext(o, n, k)
      PROVE  ReaderIInv'
  <2>1. CASE k.operation # o /\ Refuse("wrong_operation")
    BY <2>1, RefuseKeeps
  <2>2. CASE k.operation = o /\ NotRead(o)
    BY <1>2, <2>2
  <2>3. CASE Refuse("result_mismatch")
    BY <2>3, RefuseKeeps
  <2>4. CASE /\ k.operation = o /\ accepted[o] # NoResult
             /\ k.result = accepted[o] /\ k.maxBytes = n
             /\ HandOut(o, n, k.startByte)
    <3>1. /\ k.startByte \in accepted[o].bounds /\ k.startByte < accepted[o].length
          /\ k.startByte \in Places(o, n)
      BY <2>4 DEF ReaderIInv, CursorsFit
    <3> QED
      BY <2>4, <3>1, HandOutKeeps
  <2> QED
    BY <1>4, <2>1, <2>2, <2>3, <2>4 DEF ReadNext
<1>5. CASE UNCHANGED readerVars
  <2> USE <1>5 DEF readerVars, ReaderIInv
  <2>1. ReaderTypeOK' /\ NoDeadEnd'
    BY DEF ReaderTypeOK, NoDeadEnd
  <2>2. ChunksFit' /\ CursorsFit'
    BY DEF ChunksFit, CursorsFit, Places, Reading
  <2>3. FurthestIsOpen' /\ Disjoint'
    BY DEF FurthestIsOpen, Disjoint, Places, Reading, SameReading
  <2> QED
    BY <2>1, <2>2, <2>3
<1> QED
  BY <1>1, <1>3, <1>4, <1>5 DEF ReaderNext

\* The invariant behind the theorems below holds, whoever reads what, how often and
\* in whatever order.
THEOREM ReaderInvariant == ReaderSpec => []ReaderIInv
  BY ReaderInitially, ReaderKeeps, PTL DEF ReaderSpec

LEMMA TilesFollow == ReaderIInv => ChunksLieEndToEnd
<1> SUFFICES ASSUME ReaderIInv, NEW c \in chunks
             PROVE  /\ accepted[c.operation] # NoResult
                    /\ {c.startByte, c.endByte} \subseteq accepted[c.operation].bounds
                    /\ c.endByte - c.startByte \in 0..c.maxBytes
                    /\ c.startByte = 0 \/ \E d \in chunks : SameReading(c, d) /\ d.endByte = c.startByte
                    /\ \A d \in chunks : SameReading(c, d) /\ c # d =>
                         c.endByte <= d.startByte \/ d.endByte <= c.startByte
  BY DEF ChunksLieEndToEnd
<1> DEFINE r == accepted[c.operation]
<1>1. /\ r # NoResult /\ c.startByte \in r.bounds /\ c.endByte = EndByte(r, c.startByte, c.maxBytes)
      /\ c.startByte \in Places(c.operation, c.maxBytes)
  BY DEF ReaderIInv, ChunksFit
<1>2. WellFormed(r) /\ c.maxBytes \in Nat /\ c.maxBytes >= 4
  <2>1. c.operation \in Operation /\ c.maxBytes \in Limit
    BY ChunkTypes DEF ReaderIInv
  <2> QED
    BY <1>1, <2>1, ReaderAssumption DEF ReaderIInv, ReaderTypeOK
<1>3. /\ c.endByte \in r.bounds /\ c.startByte <= c.endByte
      /\ c.endByte <= c.startByte + c.maxBytes
  BY <1>1, <1>2, EndByteFits
<1>4. c.endByte - c.startByte \in 0..c.maxBytes
  BY <1>1, <1>2, <1>3, StartIsBound, SMT
<1>5. c.startByte = 0 \/ \E d \in chunks : SameReading(c, d) /\ d.endByte = c.startByte
  BY <1>1 DEF Places, Reading, SameReading
<1> QED
  BY <1>1, <1>3, <1>4, <1>5 DEF ReaderIInv, Disjoint

\* The chunks of a Result, read with any limits of at least four bytes, lie end to end,
\* keep to the limit and split no character.
THEOREM ChunksTile == ReaderSpec => []ChunksLieEndToEnd
  BY ReaderInvariant, TilesFollow, PTL

\* No reader is led into a dead end: a limit of four bytes is always enough.
THEOREM ReadersGetOn == ReaderSpec => []NoDeadEnd
<1>1. ReaderIInv => NoDeadEnd
  BY DEF ReaderIInv
<1> QED
  BY <1>1, ReaderInvariant, PTL

=============================================================================
