----------------------- MODULE BackgroundOwnerProofs -----------------------
(* Theorems about BackgroundOwner, for any calls and any number of faults.  *)
EXTENDS BackgroundOwner, TLAPS

-----------------------------------------------------------------------------
(* The inductive invariant.                                                *)

\* A key that was read is the one on disk, which is never replaced; whoever has
\* come beyond reading it has one.
KeyOnDisk ==
  /\ \A p \in Process : key[p] # None => key[p] = keyFile
  /\ \A p \in Process : pc[p] = "rereading" => keyFile # None
  /\ \A o \in Call : pc[Owner(o)] = "binding" \/ Alive(o) => key[Owner(o)] # None

\* A call starts its process once.
StartsOneProcess ==
  \A c \in Call :
    (\/ pc[Caller(c)] \in {"idle", "creating", "writing", "starting", "rechecking"}
     \/ pc[Caller(c)] \in {"linking", "rereading", "connecting"} /\ c \notin retrying)
    => c \notin retrying /\ pc[Owner(c)] = "none"

\* One process at a time is between its reservation and its exit.
OneReservation == \A o, p \in Call : Alive(o) /\ Alive(p) => o = p

\* Until the Operation is cancelled or settled a Runtime leaves it only by a
\* failure, and an owner that has given it to others has failed twice.
FailuresCounted ==
  record.state \in {"none", "open"} =>
    \A o \in Call :
      /\ drive[o] \in {"none", "executing", "failed"}
      /\ drive[o] = "failed" \/ o \in retried => faults >= 1
      /\ drive[o] = "failed" /\ o \in retried => faults >= 2
      /\ handle[o] = "active" => drive[o] # "none"
      /\ pc[Owner(o)] = "released" /\ handle[o] = "active" => faults >= 2

\* Only a cancellation works in an owner that has released the Operation.
WorkKept ==
  \A o \in Call :
    /\ Working(o) /\ ~Alive(o) =>
         pc[Owner(o)] = "released" /\ cancellation[o] = "running" /\ faults >= 2
    /\ pc[Owner(o)] = "released" => drive[o] \notin {"executing", "cancelling"}

\* Who has a handle, was told of one or drives the Operation finds it on record,
\* and as far on as its cleanup or cancellation is.
HandleRecorded ==
  \A c \in Call :
    /\ handle[c] = "active" \/ ipc[c] = "started" \/ drive[c] \notin {"none", "failed"}
         => record # NoOperation
    /\ drive[c] = "cleaning" => IsFinal
    /\ cancellation[c] = "running" => record.state \in {"cancelling"} \cup Final

\* The state that a cancellation came to is the final one.
AnswersFinal ==
  \A c \in Call :
    /\ cancellation[c] \in Final => record.state = cancellation[c]
    /\ conn[c].answer \in Final => record.state = conn[c].answer

OwnerIInv ==
  /\ OwnerTypeOK /\ KeyOnDisk /\ StartsOneProcess /\ OneReservation
  /\ FailuresCounted /\ WorkKept
  /\ HandleRecorded /\ AnswersFinal /\ AnswersMatchRecord

-----------------------------------------------------------------------------
(* Processes.                                                              *)

LEMMA ProcessParts ==
  /\ \A c \in Call : Caller(c) \in Process /\ Owner(c) \in Process
  /\ \A c, d \in Call : Caller(c) # Owner(d)
  /\ \A c, d \in Call : Caller(c) = Caller(d) <=> c = d
  /\ \A c, d \in Call : Owner(c) = Owner(d) <=> c = d
  /\ \A c \in Call : /\ Caller(c)[1] = "caller" /\ Caller(c)[2] = c
                    /\ Owner(c)[1] = "owner" /\ Owner(c)[2] = c
  /\ \A p \in Process : p[2] \in Call /\ (p = Caller(p[2]) \/ p = Owner(p[2]))
  BY SMT DEF Caller, Owner, Process

-----------------------------------------------------------------------------
(* Types.                                                                  *)

LEMMA MovesTyped ==
  ASSUME OwnerTypeOK
  PROVE  /\ \A p \in Process, s \in Places : Goto(p, s) => pc' \in [Process -> Places]
         /\ \A c \in Call : StartProcess(c) => pc' \in [Process -> Places]
         /\ \A c \in Call, a \in Replies : Tell(c, a) =>
              pc' \in [Process -> Places] /\ reply' \in [Call -> Replies]
<1>1. pc \in [Process -> Places] /\ reply \in [Call -> Replies]
  BY DEF OwnerTypeOK
<1>2. "confirming" \in Places /\ "linking" \in Places /\ "done" \in Places
  BY DEF Places
<1>3. ASSUME NEW p \in Process, NEW s \in Places, Goto(p, s)
      PROVE  pc' \in [Process -> Places]
  BY <1>1, <1>3 DEF Goto
<1>4. ASSUME NEW c \in Call, StartProcess(c)
      PROVE  pc' \in [Process -> Places]
  BY <1>1, <1>2, <1>4 DEF StartProcess
<1>5. ASSUME NEW c \in Call, NEW a \in Replies, Tell(c, a)
      PROVE  pc' \in [Process -> Places] /\ reply' \in [Call -> Replies]
  <2>1. Goto(Caller(c), "done") /\ Caller(c) \in Process
    BY <1>5, ProcessParts DEF Tell
  <2> QED
    BY <1>1, <1>2, <1>3, <1>5, <2>1 DEF Tell
<1> QED
  BY <1>3, <1>4, <1>5

LEMMA BeginTyped ==
  ASSUME OwnerTypeOK, NEW c \in Call, NEW k, Begin(c, k)
  PROVE  /\ kind' \in [Call -> {"none", "background", "recover", "cancel"}]
         /\ began' \in [Call -> Nat]
<1>1. k \in {"background", "recover", "cancel"}
  BY KindsAreModelled DEF Begin
<1> QED
  BY <1>1 DEF Begin, OwnerTypeOK

LEMMA RecordTyped ==
  ASSUME OwnerTypeOK
  PROVE  /\ record.state \in {"none", "open", "cancelling"} \cup Final
         /\ record.cleanup \in BOOLEAN
         /\ IsFinal => record.state \in Replies
         /\ record = NoOperation <=> record.state = "none"
         /\ Drive \in Doings
         /\ record # NoOperation => Drive # "none"
         /\ record = NoOperation => Drive = "none"
         /\ record.state = "open" => Drive = "executing"
         /\ Drive = "cleaning" => IsFinal
<1>1. record.state \in {"none", "open", "cancelling"} \cup Final /\ record.cleanup \in BOOLEAN
  <2>1. record \in Records
    BY DEF OwnerTypeOK
  <2>2. CASE record = NoOperation
    BY <2>2 DEF NoOperation
  <2>3. CASE record \in [state : {"open", "cancelling"} \cup Final, cleanup : BOOLEAN]
    BY <2>3
  <2> QED
    BY <2>1, <2>2, <2>3 DEF Records
<1>2. IsFinal => record.state \in Replies
  BY DEF IsFinal, Replies
<1>3. Drive \in Doings
  BY <1>1 DEF Drive, Doings, IsFinal
<1>4. record = NoOperation <=> record.state = "none"
  BY DEF NoOperation, OwnerTypeOK, Records, Final
<1>5. /\ record # NoOperation => Drive # "none"
      /\ record = NoOperation => Drive = "none"
      /\ record.state = "open" => Drive = "executing"
      /\ Drive = "cleaning" => IsFinal
  <2>1. ~(record.state \in Final /\ record.state \in {"none", "open", "cancelling"})
    BY DEF Final
  <2> QED
    BY <1>1, <1>4, <2>1 DEF Drive, IsFinal
<1> QED
  BY <1>1, <1>2, <1>3, <1>4, <1>5

LEMMA LinksTyped ==
  /\ NoConn \in Links
  /\ \A o \in Call : [owner |-> o, answer |-> None] \in Links
  BY SMT DEF NoConn, Links

LEMMA RepliesTyped == {"started", "skipped", "nothing", "error"} \subseteq Replies
  BY DEF Replies

LEMMA FinalReplies == Final \subseteq Replies
  BY DEF Replies

LEMMA RecordsMade ==
  \A s \in {"open", "cancelling"} \cup Final, b \in BOOLEAN :
    [state |-> s, cleanup |-> b] \in Records
  BY DEF Records

-----------------------------------------------------------------------------
(* What a call does with the request in its file.                          *)

LEMMA BackgroundCases ==
  ASSUME OwnerTypeOK, NEW c \in Call, BeginBackground(c)
  PROVE  /\ Begin(c, "background")
         /\ UNCHANGED <<key, retrying, owners, links, files, counts>>
         /\ \/ Goto(Caller(c), "creating") /\ UNCHANGED reply
            \/ Goto(Caller(c), "starting") /\ UNCHANGED reply
            \/ Tell(c, "error")
  BY DEF BeginBackground, OwnerTypeOK

LEMMA RecoverCases ==
  ASSUME OwnerTypeOK, NEW c \in Call, BeginRecover(c)
  PROVE  /\ Begin(c, "recover")
         /\ UNCHANGED <<key, retrying, owners, links, files, counts>>
         /\ \/ Goto(Caller(c), "starting") /\ UNCHANGED reply
            \/ \E a \in {"error", "nothing", "skipped"} : Tell(c, a)
  BY DEF BeginRecover, OwnerTypeOK

LEMMA CreateCases ==
  ASSUME OwnerTypeOK, NEW c \in Call, CreateRequest(c)
  PROVE  /\ pc[Caller(c)] = "creating"
         /\ UNCHANGED <<key, kind, retrying, began, owners, links, keyFile, record, counts>>
         /\ \/ Goto(Caller(c), "writing") /\ requestFile' = "torn" /\ UNCHANGED reply
            \/ StartProcess(c) /\ UNCHANGED <<requestFile, reply>>
            \/ Tell(c, "error") /\ UNCHANGED requestFile
  BY DEF CreateRequest, OwnerTypeOK

-----------------------------------------------------------------------------
(* The record.                                                             *)

\* It does not disappear, is not opened again, and a final state stays.
RecordGoesOn ==
  /\ record # NoOperation => record' # NoOperation
  /\ IsFinal => record'.state = record.state
  /\ record.state \in {"cancelling"} \cup Final => record'.state \in {"cancelling"} \cup Final

LEMMA RecordMoves ==
  ASSUME OwnerIInv, [Next]_vars
  PROVE  RecordGoesOn
<1> USE DEF owners, calls, links, files, counts
<1>1. OwnerTypeOK
  BY DEF OwnerIInv
<1>2. CASE UNCHANGED record
  BY <1>2 DEF RecordGoesOn, IsFinal
<1>3. ASSUME NEW s \in {"open", "cancelling"} \cup Final, NEW b \in BOOLEAN,
             record' = [state |-> s, cleanup |-> b], ~IsFinal,
             s = "open" => record = NoOperation
      PROVE  RecordGoesOn
  <2>1. record' # NoOperation /\ record'.state = s
    BY <1>3 DEF NoOperation, Final
  <2>2. record.state = "cancelling" => s # "open"
    BY <1>3 DEF NoOperation
  <2> QED
    BY <1>3, <2>1, <2>2 DEF RecordGoesOn, IsFinal
<1>4. ASSUME NEW c \in Call, SpawnTask(c) \/ SpawnFails(c)
      PROVE  RecordGoesOn
  <2>1. \/ UNCHANGED record
        \/ record = NoOperation /\ record' = [state |-> "open", cleanup |-> FALSE]
    BY <1>4 DEF SpawnTask, SpawnFails
  <2>2. record = NoOperation => ~IsFinal
    BY DEF IsFinal, NoOperation, Final
  <2> QED
    BY <1>2, <1>3, <2>1, <2>2
<1>5. ASSUME NEW c \in Call, Settle(c) \/ SettleCancel(c)
      PROVE  RecordGoesOn
  <2>1. \/ UNCHANGED record
        \/ /\ record.state \in {"open", "cancelling"}
           /\ \E s \in Final, b \in BOOLEAN : record' = [state |-> s, cleanup |-> b]
    BY <1>5 DEF Settle, SettleCancel, Final
  <2> QED
    BY <1>2, <1>3, <2>1 DEF IsFinal, Final
<1>6. ASSUME NEW c \in Call, StartCancel(c)
      PROVE  RecordGoesOn
  <2>1. \/ UNCHANGED record
        \/ record.state = "open" /\ record' = [record EXCEPT !.state = "cancelling"]
    BY <1>6 DEF StartCancel
  <2>2. CASE record.state = "open" /\ record' = [record EXCEPT !.state = "cancelling"]
    <3>1. record' = [state |-> "cancelling", cleanup |-> record.cleanup] /\ record.cleanup \in BOOLEAN
      BY <1>1, <2>2 DEF OwnerTypeOK, Records, NoOperation
    <3> QED
      BY <1>3, <2>2, <3>1 DEF IsFinal, Final
  <2> QED
    BY <1>2, <2>1, <2>2
<1>7. ASSUME NEW c \in Call, CleanUp(c)
      PROVE  RecordGoesOn
  <2>1. record' = [record EXCEPT !.cleanup = FALSE] /\ IsFinal
    BY <1>7 DEF CleanUp, OwnerIInv, HandleRecorded
  <2>2. record'.state = record.state
    BY <1>1, <2>1 DEF OwnerTypeOK, Records, NoOperation
  <2> QED
    BY <2>1, <2>2 DEF RecordGoesOn, IsFinal, NoOperation, Final
<1>8. ASSUME NEW c \in Call, Arrive(c)
      PROVE  UNCHANGED record
  BY <1>8 DEF Arrive, BeginBackground, BeginRecover, BeginCancel
<1>9. ASSUME NEW c \in Call, CallStep(c)
      PROVE  UNCHANGED record
  BY <1>9 DEF CallStep, CreateRequest, WriteRequest, Start, ReceiveStarted, ReceiveAlreadyOwned,
       CheckOwned, StartFailed, LinkKey, RereadKey, Connect, Recheck, ReceiveAnswer,
       ConnectionLost, LastCheck
<1>10. ASSUME NEW c \in Call, OwnerStep(c)
      PROVE  RecordGoesOn
  <2>1. \/ SpawnTask(c) \/ Settle(c) \/ SettleCancel(c) \/ StartCancel(c) \/ CleanUp(c)
        \/ UNCHANGED record
    BY <1>10 DEF OwnerStep, LinkKey, RereadKey, Bind, ReportOwned, Recover, CleanupRecovered,
         AwaitResult, RecoverWhileClosing, Release, Exit, AnswerRequest
  <2> QED
    BY <1>2, <1>4, <1>5, <1>6, <1>7, <2>1
<1>11. ASSUME NEW c \in Call, Trouble(c)
      PROVE  RecordGoesOn
  <2>1. SpawnFails(c) \/ UNCHANGED record
    BY <1>11 DEF Trouble, RequestTimesOut, CallFails, AcquireFails, RecoverFails, DriveFails,
         StartCancelFails, CancelFails, OwnerDies, CallerDies
  <2> QED
    BY <1>2, <1>4, <2>1
<1> QED
  BY <1>2, <1>8, <1>9, <1>10, <1>11 DEF Next, vars

LEMMA OwnerNextTyped ==
  ASSUME OwnerIInv, [Next]_vars
  PROVE  OwnerTypeOK'
<1> USE DEF OwnerIInv, Goto, Fault, Death, calls, owners, links, files, counts
<1>1. ASSUME NEW c \in Call, Arrive(c) PROVE OwnerTypeOK'
  <2>1. CASE BeginBackground(c)
    <3>1. /\ Begin(c, "background")
          /\ UNCHANGED <<key, retrying, owners, links, files, counts>>
      BY <2>1 DEF BeginBackground
    <3>2. pc' \in [Process -> Places] /\ reply' \in [Call -> Replies]
      <4>1. \/ Goto(Caller(c), "creating") /\ UNCHANGED reply
            \/ Goto(Caller(c), "starting") /\ UNCHANGED reply
            \/ Tell(c, "error")
        BY <2>1 DEF BeginBackground, OwnerTypeOK
      <4>2. "creating" \in Places /\ "starting" \in Places
        BY DEF Places
      <4> QED
        BY <4>1, <4>2, ProcessParts, MovesTyped, RepliesTyped DEF OwnerTypeOK
    <3> QED
      BY <3>1, <3>2, BeginTyped DEF OwnerTypeOK
  <2>2. CASE BeginRecover(c)
    <3>1. /\ Begin(c, "recover")
          /\ UNCHANGED <<key, retrying, owners, links, files, counts>>
      BY <2>2 DEF BeginRecover
    <3>2. pc' \in [Process -> Places] /\ reply' \in [Call -> Replies]
      <4>1. \/ Goto(Caller(c), "starting") /\ UNCHANGED reply
            \/ Tell(c, "error") \/ Tell(c, "nothing") \/ Tell(c, "skipped")
        BY <2>2 DEF BeginRecover, OwnerTypeOK
      <4>2. "starting" \in Places
        BY DEF Places
      <4> QED
        BY <4>1, <4>2, ProcessParts, MovesTyped, RepliesTyped DEF OwnerTypeOK
    <3> QED
      BY <3>1, <3>2, BeginTyped DEF OwnerTypeOK
  <2>3. CASE BeginCancel(c)
    <3>1. /\ Begin(c, "cancel")
          /\ UNCHANGED <<key, retrying, owners, links, files, counts>>
      BY <2>3 DEF BeginCancel
    <3>2. pc' \in [Process -> Places] /\ reply' \in [Call -> Replies]
      <4>1. \/ Goto(Caller(c), "linking") /\ UNCHANGED reply
            \/ Tell(c, "error")
            \/ IsFinal /\ Tell(c, record.state)
        BY <2>3 DEF BeginCancel
      <4>2. "linking" \in Places
        BY DEF Places
      <4> QED
        BY <4>1, <4>2, ProcessParts, MovesTyped, RepliesTyped, RecordTyped DEF OwnerTypeOK
    <3> QED
      BY <3>1, <3>2, BeginTyped DEF OwnerTypeOK
  <2> QED
    BY <1>1, <2>1, <2>2, <2>3 DEF Arrive
<1>2. ASSUME NEW c \in Call, CallStep(c) PROVE OwnerTypeOK'
  <2>1. CASE CreateRequest(c)
    <3>1. /\ requestFile' \in {"none", "torn", "whole"}
          /\ UNCHANGED <<key, kind, retrying, began, owners, links, keyFile, record, counts>>
      BY <2>1 DEF CreateRequest, OwnerTypeOK
    <3>2. pc' \in [Process -> Places] /\ reply' \in [Call -> Replies]
      <4>1. \/ Goto(Caller(c), "writing") /\ UNCHANGED reply
            \/ StartProcess(c) /\ UNCHANGED reply
            \/ Tell(c, "error")
        BY <2>1 DEF CreateRequest, OwnerTypeOK
      <4>2. "writing" \in Places
        BY DEF Places
      <4> QED
        BY <4>1, <4>2, ProcessParts, MovesTyped, RepliesTyped DEF OwnerTypeOK
    <3> QED
      BY <3>1, <3>2 DEF OwnerTypeOK
  <2>2. CASE WriteRequest(c)
    BY <2>2, ProcessParts DEF WriteRequest, StartProcess, Places, Replies, Links, Doings, Records, OwnerTypeOK
  <2>3. CASE Start(c)
    BY <2>3, ProcessParts DEF Start, StartProcess, Places, Replies, Links, Doings, Records, OwnerTypeOK
  <2>4. CASE ReceiveStarted(c)
    <3>1. /\ ipc' \in [Call -> {None, "started", "already_owned", "failed"}]
          /\ UNCHANGED <<key, kind, began, owners, conn, files, counts>>
      BY <2>4 DEF ReceiveStarted, OwnerTypeOK
    <3>2. pc' \in [Process -> Places] /\ reply' \in [Call -> Replies] /\ retrying' \in SUBSET Call
      <4>1. \/ Goto(Caller(c), "linking") /\ UNCHANGED reply /\ retrying' = retrying \cup {c}
            \/ Tell(c, "started") /\ UNCHANGED retrying
        BY <2>4 DEF ReceiveStarted, Confirmed
      <4>2. "linking" \in Places
        BY DEF Places
      <4> QED
        BY <4>1, <4>2, ProcessParts, MovesTyped, RepliesTyped DEF OwnerTypeOK
    <3> QED
      BY <3>1, <3>2 DEF OwnerTypeOK
  <2>5. CASE ReceiveAlreadyOwned(c)
    BY <2>5, ProcessParts DEF ReceiveAlreadyOwned, Places, Replies, Links, Doings, Records, OwnerTypeOK
  <2>6. CASE CheckOwned(c)
    <3>1. /\ ipc' \in [Call -> {None, "started", "already_owned", "failed"}]
          /\ UNCHANGED <<key, kind, began, owners, conn, files, counts>>
      BY <2>6 DEF CheckOwned, OwnerTypeOK
    <3>2. pc' \in [Process -> Places] /\ reply' \in [Call -> Replies] /\ retrying' \in SUBSET Call
      <4>1. \/ Goto(Caller(c), "linking") /\ UNCHANGED reply /\ retrying' = retrying \cup {c}
            \/ Tell(c, "started") /\ UNCHANGED retrying
            \/ Tell(c, "error") /\ UNCHANGED retrying
        BY <2>6 DEF CheckOwned, Confirmed
      <4>2. "linking" \in Places
        BY DEF Places
      <4> QED
        BY <4>1, <4>2, ProcessParts, MovesTyped, RepliesTyped DEF OwnerTypeOK
    <3> QED
      BY <3>1, <3>2 DEF OwnerTypeOK
  <2>7. CASE StartFailed(c)
    BY <2>7, ProcessParts DEF StartFailed, Tell, Places, Replies, Links, Doings, Records, OwnerTypeOK
  <2>8. CASE LinkKey(Caller(c))
    BY <2>8, ProcessParts DEF LinkKey, Places, Replies, Links, Doings, Records, OwnerTypeOK
  <2>9. CASE RereadKey(Caller(c))
    BY <2>9, ProcessParts DEF RereadKey, Places, Replies, Links, Doings, Records, OwnerTypeOK
  <2>10. CASE Connect(c)
    <3>1. UNCHANGED <<key, calls, owners, ipc, files, counts>>
      BY <2>10 DEF Connect
    <3>2. PICK s \in {"asking", "lastcheck", "rechecking"} : Goto(Caller(c), s)
      BY <2>10 DEF Connect
    <3>3. pc' \in [Process -> Places]
      BY <3>2, ProcessParts, MovesTyped DEF Places
    <3>4. conn' \in [Call -> Links]
      BY <2>10, LinksTyped DEF Connect, OwnerTypeOK, Listening
    <3> QED
      BY <3>1, <3>3, <3>4 DEF OwnerTypeOK
  <2>11. CASE Recheck(c)
    <3>1. UNCHANGED <<key, kind, retrying, began, owners, links, files, counts>>
      BY <2>11 DEF Recheck
    <3>2. pc' \in [Process -> Places] /\ reply' \in [Call -> Replies]
      <4>1. \/ Goto(Caller(c), "starting") /\ UNCHANGED reply
            \/ \E a \in Final : Tell(c, a)
        BY <2>11 DEF Recheck, IsFinal
      <4>2. "starting" \in Places /\ Final \subseteq Replies
        BY DEF Places, Replies
      <4> QED
        BY <4>1, <4>2, ProcessParts, MovesTyped DEF OwnerTypeOK
    <3> QED
      BY <3>1, <3>2 DEF OwnerTypeOK
  <2>12. CASE ReceiveAnswer(c)
    <3>1. UNCHANGED <<key, kind, retrying, began, owners, ipc, files, faults, deaths>>
      BY <2>12 DEF ReceiveAnswer
    <3>2. pc' \in [Process -> Places] /\ reply' \in [Call -> Replies]
      <4>1. \/ Goto(Caller(c), "lastcheck") /\ UNCHANGED reply
            \/ \E a \in Final : Tell(c, a)
            \/ Tell(c, "error")
        BY <2>12 DEF ReceiveAnswer, AskedInVain, Final
      <4>2. "lastcheck" \in Places
        BY DEF Places
      <4> QED
        BY <4>1, <4>2, ProcessParts, MovesTyped, RepliesTyped, FinalReplies DEF OwnerTypeOK
    <3>3. conn' \in [Call -> Links]
      BY <2>12, LinksTyped DEF ReceiveAnswer, AskedInVain, OwnerTypeOK
    <3> QED
      BY <3>1, <3>2, <3>3 DEF OwnerTypeOK
  <2>13. CASE ConnectionLost(c)
    <3>1. UNCHANGED <<key, kind, retrying, began, owners, ipc, files, faults, deaths>>
      BY <2>13 DEF ConnectionLost
    <3>2. pc' \in [Process -> Places] /\ reply' \in [Call -> Replies]
      <4>1. \/ Goto(Caller(c), "lastcheck") /\ UNCHANGED reply
            \/ Tell(c, "error")
        BY <2>13 DEF ConnectionLost, AskedInVain
      <4>2. "lastcheck" \in Places
        BY DEF Places
      <4> QED
        BY <4>1, <4>2, ProcessParts, MovesTyped, RepliesTyped DEF OwnerTypeOK
    <3>3. conn' \in [Call -> Links]
      BY <2>13, LinksTyped DEF ConnectionLost, AskedInVain, OwnerTypeOK
    <3> QED
      BY <3>1, <3>2, <3>3 DEF OwnerTypeOK
  <2>14. CASE LastCheck(c)
    BY <2>14, ProcessParts DEF LastCheck, Tell, IsFinal, Places, Replies, Links, Doings, Records, OwnerTypeOK
  <2> QED
    BY <1>2, <2>1, <2>2, <2>3, <2>4, <2>5, <2>6, <2>7, <2>8, <2>9, <2>10, <2>11, <2>12, <2>13, <2>14 DEF CallStep
<1>3. ASSUME NEW c \in Call, OwnerStep(c) PROVE OwnerTypeOK'
  <2>1. CASE LinkKey(Owner(c))
    BY <2>1, ProcessParts DEF LinkKey, Places, Replies, Links, Doings, Records, OwnerTypeOK
  <2>2. CASE RereadKey(Owner(c))
    BY <2>2, ProcessParts DEF RereadKey, Places, Replies, Links, Doings, Records, OwnerTypeOK
  <2>3. CASE Bind(c)
    BY <2>3, ProcessParts DEF Bind, Places, Replies, Links, Doings, Records, OwnerTypeOK
  <2>4. CASE ReportOwned(c)
    BY <2>4, ProcessParts DEF ReportOwned, Gone, Places, Replies, Links, Doings, Records, OwnerTypeOK
  <2>5. CASE Recover(c)
    BY <2>5, ProcessParts, RecordTyped DEF Recover, Places, Replies, Links, Doings, Records, OwnerTypeOK
  <2>6. CASE CleanupRecovered(c)
    BY <2>6, ProcessParts DEF CleanupRecovered, Places, Replies, Links, Doings, Records, OwnerTypeOK
  <2>7. CASE SpawnTask(c)
    <3>1. UNCHANGED <<key, calls, cancellation, retried, conn, keyFile, requestFile, counts>>
      BY <2>7 DEF SpawnTask
    <3>2. record' \in Records
      <4>1. UNCHANGED record \/ \E s \in {"open", "cancelling"} \cup Final, b \in BOOLEAN : record' = [state |-> s, cleanup |-> b]
        BY <2>7 DEF SpawnTask, Final
      <4> QED
        BY <4>1, RecordsMade DEF OwnerTypeOK
    <3>3. drive' \in [Call -> Doings]
      <4>1. UNCHANGED drive \/ \E d \in Doings : drive' = [drive EXCEPT ![c] = d]
        BY <2>7, RecordTyped DEF SpawnTask, Doings, OwnerTypeOK
      <4> QED
        BY <4>1 DEF OwnerTypeOK
    <3>4. PICK s \in {"owning", "closing"} : Goto(Owner(c), s)
      BY <2>7 DEF SpawnTask, Activate
    <3>5. pc' \in [Process -> Places]
      BY <3>4, ProcessParts, MovesTyped DEF Places
    <3>6. /\ handle' \in [Call -> {"pending", "active", "failed"}]
          /\ ipc' \in [Call -> {None, "started", "already_owned", "failed"}]
          /\ troubled' \in SUBSET Call
      BY <2>7 DEF SpawnTask, Activate, Fails, OwnerTypeOK
    <3> QED
      BY <3>1, <3>2, <3>3, <3>5, <3>6 DEF OwnerTypeOK
  <2>8. CASE Settle(c)
    <3>1. UNCHANGED <<pc, key, calls, handle, cancellation, retried, troubled, links, keyFile, requestFile, counts>>
      BY <2>8 DEF Settle
    <3>2. record' \in Records
      <4>1. UNCHANGED record \/ \E s \in {"open", "cancelling"} \cup Final, b \in BOOLEAN : record' = [state |-> s, cleanup |-> b]
        BY <2>8 DEF Settle, Final
      <4> QED
        BY <4>1, RecordsMade DEF OwnerTypeOK
    <3>3. drive' \in [Call -> Doings]
      <4>1. UNCHANGED drive \/ \E d \in Doings : drive' = [drive EXCEPT ![c] = d]
        BY <2>8, RecordTyped DEF Settle, Doings, OwnerTypeOK
      <4> QED
        BY <4>1 DEF OwnerTypeOK
    <3> QED
      BY <3>1, <3>2, <3>3 DEF OwnerTypeOK
  <2>9. CASE CleanUp(c)
    BY <2>9, ProcessParts DEF CleanUp, Answered, HandleRecorded, IsFinal, NoOperation, Places, Replies, Links, Doings, Records, OwnerTypeOK
  <2>10. CASE AwaitResult(c)
    BY <2>10, ProcessParts DEF AwaitResult, Places, Replies, Links, Doings, Records, OwnerTypeOK
  <2>11. CASE RecoverWhileClosing(c)
    BY <2>11, ProcessParts, RecordTyped DEF RecoverWhileClosing, Places, Replies, Links, Doings, Records, OwnerTypeOK
  <2>12. CASE Release(c)
    BY <2>12, ProcessParts DEF Release, NoConn, Places, Replies, Links, Doings, Records, OwnerTypeOK
  <2>13. CASE Exit(c)
    BY <2>13, ProcessParts DEF Exit, Gone, Places, Replies, Links, Doings, Records, OwnerTypeOK
  <2>14. CASE StartCancel(c)
    <3>1. UNCHANGED <<pc, key, calls, handle, retried, troubled, links, keyFile, requestFile, counts>>
      BY <2>14 DEF StartCancel
    <3>2. record' \in Records
      <4>1. UNCHANGED record \/ record' = [record EXCEPT !.state = "cancelling"]
        BY <2>14 DEF StartCancel
      <4>2. CASE record \in [state : {"open", "cancelling"} \cup Final, cleanup : BOOLEAN]
        BY <4>1, <4>2 DEF Records
      <4>3. CASE record = NoOperation
        BY <2>14, <4>3 DEF StartCancel, CancelRefused, NoOperation, Records
      <4> QED
        BY <4>2, <4>3 DEF OwnerTypeOK, Records
    <3>3. drive' \in [Call -> Doings]
      <4>1. UNCHANGED drive \/ \E d \in Doings : drive' = [drive EXCEPT ![c] = d]
        BY <2>14, RecordTyped DEF StartCancel, Doings, CancelRefused, OwnerTypeOK
      <4> QED
        BY <4>1 DEF OwnerTypeOK
    <3>4. cancellation' \in [Call -> {"none", "running", "error"} \cup Final]
      <4>1. UNCHANGED cancellation \/ \E s \in {"running", "error", "unknown"} : cancellation' = [cancellation EXCEPT ![c] = s]
        BY <2>14 DEF StartCancel, CancelRefused
      <4> QED
        BY <4>1 DEF OwnerTypeOK, Final
    <3> QED
      BY <3>1, <3>2, <3>3, <3>4 DEF OwnerTypeOK
  <2>15. CASE SettleCancel(c)
    <3>1. UNCHANGED <<pc, key, calls, handle, retried, troubled, links, keyFile, requestFile, counts>>
      BY <2>15 DEF SettleCancel
    <3>2. record' \in Records
      <4>1. UNCHANGED record \/ \E s \in {"open", "cancelling"} \cup Final, b \in BOOLEAN : record' = [state |-> s, cleanup |-> b]
        BY <2>15 DEF SettleCancel, CancelRefused, Final
      <4> QED
        BY <4>1, RecordsMade DEF OwnerTypeOK
    <3>3. drive' \in [Call -> Doings]
      <4>1. UNCHANGED drive \/ \E d \in Doings : drive' = [drive EXCEPT ![c] = d]
        BY <2>15, RecordTyped DEF SettleCancel, Doings, CancelRefused, OwnerTypeOK
      <4> QED
        BY <4>1 DEF OwnerTypeOK
    <3>4. cancellation' \in [Call -> {"none", "running", "error"} \cup Final]
      <4>1. UNCHANGED cancellation \/ \E s \in {"running", "error", "unknown"} : cancellation' = [cancellation EXCEPT ![c] = s]
        BY <2>15 DEF SettleCancel, CancelRefused
      <4> QED
        BY <4>1 DEF OwnerTypeOK, Final
    <3> QED
      BY <3>1, <3>2, <3>3, <3>4 DEF OwnerTypeOK
  <2>16. CASE \E d \in Call : AnswerRequest(c, d)
    BY <2>16, ProcessParts DEF AnswerRequest, Waiting, Places, Replies, Links, Doings, Records, OwnerTypeOK
  <2> QED
    BY <1>3, <2>1, <2>2, <2>3, <2>4, <2>5, <2>6, <2>7, <2>8, <2>9, <2>10, <2>11, <2>12, <2>13, <2>14, <2>15, <2>16 DEF OwnerStep
<1>4. ASSUME NEW c \in Call, Trouble(c) PROVE OwnerTypeOK'
  <2>1. CASE RequestTimesOut(c)
    BY <2>1, ProcessParts DEF RequestTimesOut, Tell, AskedInVain, NoConn, Places, Replies, Links, Doings, Records, OwnerTypeOK
  <2>2. CASE CallFails(c)
    <3>1. CASE Goto(Caller(c), "lastcheck") /\ UNCHANGED reply
      BY <2>2, <3>1, ProcessParts DEF CallFails, Places, OwnerTypeOK
    <3>2. CASE Tell(c, "error")
      BY <2>2, <3>2, ProcessParts DEF CallFails, Tell, Places, Replies, OwnerTypeOK
    <3> QED
      BY <2>2, <3>1, <3>2 DEF CallFails
  <2>3. CASE AcquireFails(c)
    BY <2>3, ProcessParts DEF AcquireFails, Gone, Places, Replies, Links, Doings, Records, OwnerTypeOK
  <2>4. CASE RecoverFails(c)
    BY <2>4, ProcessParts DEF RecoverFails, Fails, Places, Replies, Links, Doings, Records, OwnerTypeOK
  <2>5. CASE SpawnFails(c)
    <3>1. UNCHANGED <<key, calls, drive, handle, cancellation, retried, links, keyFile, requestFile, deaths>>
      BY <2>5 DEF SpawnFails
    <3>2. record' \in Records
      <4>1. UNCHANGED record \/ \E s \in {"open", "cancelling"} \cup Final, b \in BOOLEAN : record' = [state |-> s, cleanup |-> b]
        BY <2>5 DEF SpawnFails, Final
      <4> QED
        BY <4>1, RecordsMade DEF OwnerTypeOK
    <3>3. Goto(Owner(c), "closing")
      BY <2>5 DEF SpawnFails
    <3>4. pc' \in [Process -> Places]
      BY <3>3, ProcessParts, MovesTyped DEF Places
    <3>5. troubled' \in SUBSET Call /\ faults' \in Nat
      BY <2>5 DEF SpawnFails, Fails, Fault, OwnerTypeOK
    <3> QED
      BY <3>1, <3>2, <3>4, <3>5 DEF OwnerTypeOK
  <2>6. CASE DriveFails(c)
    BY <2>6, ProcessParts DEF DriveFails, Answered, HandleRecorded, IsFinal, Places, Replies, Links, Doings, Records, OwnerTypeOK
  <2>7. CASE StartCancelFails(c)
    BY <2>7, ProcessParts DEF StartCancelFails, Asked, Places, Replies, Links, Doings, Records, OwnerTypeOK
  <2>8. CASE CancelFails(c)
    BY <2>8, ProcessParts DEF CancelFails, Places, Replies, Links, Doings, Records, OwnerTypeOK
  <2>9. CASE OwnerDies(c)
    BY <2>9, ProcessParts DEF OwnerDies, Gone, NoConn, Places, Replies, Links, Doings, Records, OwnerTypeOK
  <2>10. CASE CallerDies(c)
    BY <2>10, ProcessParts DEF CallerDies, NoConn, Places, Replies, Links, Doings, Records, OwnerTypeOK
  <2> QED
    BY <1>4, <2>1, <2>2, <2>3, <2>4, <2>5, <2>6, <2>7, <2>8, <2>9, <2>10 DEF Trouble
<1>5. CASE UNCHANGED vars
  BY <1>5 DEF vars, OwnerTypeOK
<1> QED
  BY <1>1, <1>2, <1>3, <1>4, <1>5 DEF Next

LEMMA KeyOnDiskKept ==
  ASSUME OwnerIInv, [Next]_vars
  PROVE  KeyOnDisk'
<1> USE DEF OwnerIInv, KeyOnDisk, Goto, Fault, Death, calls, owners, links, files, counts
<1>1. ASSUME NEW c \in Call, Arrive(c) PROVE KeyOnDisk'
  <2>1. CASE BeginBackground(c)
    BY <2>1, ProcessParts, BackgroundCases DEF Begin, Tell, OwnerTypeOK, Alive
  <2>2. CASE BeginRecover(c)
    BY <2>2, ProcessParts, RecoverCases DEF Begin, Tell, OwnerTypeOK, Alive
  <2>3. CASE BeginCancel(c)
    BY <2>3, ProcessParts DEF BeginCancel, Begin, Tell, OwnerTypeOK, Alive
  <2> QED
    BY <1>1, <2>1, <2>2, <2>3 DEF Arrive
<1>2. ASSUME NEW c \in Call, CallStep(c) PROVE KeyOnDisk'
  <2>1. CASE CreateRequest(c)
    <3>1. pc[Caller(c)] = "creating" /\ UNCHANGED <<key, keyFile>>
      BY <2>1, CreateCases
    <3>2. CASE Goto(Caller(c), "writing")
      BY <3>1, <3>2, ProcessParts DEF OwnerTypeOK, Alive
    <3>3. CASE StartProcess(c)
      BY <3>1, <3>3, ProcessParts DEF StartProcess, OwnerTypeOK, Alive
    <3>4. CASE Tell(c, "error")
      BY <3>1, <3>4, ProcessParts DEF Tell, OwnerTypeOK, Alive
    <3> QED
      BY <2>1, <3>2, <3>3, <3>4, CreateCases
  <2>2. CASE WriteRequest(c)
    BY <2>2, ProcessParts DEF WriteRequest, StartProcess, OwnerTypeOK, Alive
  <2>3. CASE Start(c)
    BY <2>3, ProcessParts DEF Start, StartProcess, OwnerTypeOK, Alive
  <2>4. CASE ReceiveStarted(c)
    BY <2>4, ProcessParts DEF ReceiveStarted, Tell, Confirmed, OwnerTypeOK, Alive
  <2>5. CASE ReceiveAlreadyOwned(c)
    BY <2>5, ProcessParts DEF ReceiveAlreadyOwned, OwnerTypeOK, Alive
  <2>6. CASE CheckOwned(c)
    BY <2>6, ProcessParts DEF CheckOwned, Tell, Confirmed, OwnerTypeOK, Alive
  <2>7. CASE StartFailed(c)
    BY <2>7, ProcessParts DEF StartFailed, Tell, OwnerTypeOK, Alive
  <2>8. CASE LinkKey(Caller(c))
    BY <2>8, ProcessParts, NoneIsNoCall DEF LinkKey, OwnerTypeOK, Alive
  <2>9. CASE RereadKey(Caller(c))
    BY <2>9, ProcessParts DEF RereadKey, OwnerTypeOK, Alive
  <2>10. CASE Connect(c)
    BY <2>10, ProcessParts DEF Connect, OwnerTypeOK, Alive
  <2>11. CASE Recheck(c)
    BY <2>11, ProcessParts DEF Recheck, Tell, OwnerTypeOK, Alive
  <2>12. CASE ReceiveAnswer(c)
    BY <2>12, ProcessParts DEF ReceiveAnswer, Tell, AskedInVain, OwnerTypeOK, Alive
  <2>13. CASE ConnectionLost(c)
    BY <2>13, ProcessParts DEF ConnectionLost, Tell, AskedInVain, OwnerTypeOK, Alive
  <2>14. CASE LastCheck(c)
    BY <2>14, ProcessParts DEF LastCheck, Tell, OwnerTypeOK, Alive
  <2> QED
    BY <1>2, <2>1, <2>2, <2>3, <2>4, <2>5, <2>6, <2>7, <2>8, <2>9, <2>10, <2>11, <2>12, <2>13, <2>14 DEF CallStep
<1>3. ASSUME NEW c \in Call, OwnerStep(c) PROVE KeyOnDisk'
  <2>1. CASE LinkKey(Owner(c))
    BY <2>1, ProcessParts, NoneIsNoCall DEF LinkKey, OwnerTypeOK, Alive
  <2>2. CASE RereadKey(Owner(c))
    BY <2>2, ProcessParts DEF RereadKey, OwnerTypeOK, Alive
  <2>3. CASE Bind(c)
    BY <2>3, ProcessParts DEF Bind, OwnerTypeOK, Alive
  <2>4. CASE ReportOwned(c)
    BY <2>4, ProcessParts DEF ReportOwned, Gone, OwnerTypeOK, Alive
  <2>5. CASE Recover(c)
    BY <2>5, ProcessParts DEF Recover, OwnerTypeOK, Alive
  <2>6. CASE CleanupRecovered(c)
    BY <2>6, ProcessParts DEF CleanupRecovered, OwnerTypeOK, Alive
  <2>7. CASE SpawnTask(c)
    BY <2>7, ProcessParts DEF SpawnTask, Activate, Fails, OwnerTypeOK, Alive
  <2>8. CASE Settle(c)
    BY <2>8, ProcessParts DEF Settle, OwnerTypeOK, Alive
  <2>9. CASE CleanUp(c)
    BY <2>9, ProcessParts DEF CleanUp, Answered, OwnerTypeOK, Alive
  <2>10. CASE AwaitResult(c)
    BY <2>10, ProcessParts DEF AwaitResult, OwnerTypeOK, Alive
  <2>11. CASE RecoverWhileClosing(c)
    BY <2>11, ProcessParts DEF RecoverWhileClosing, OwnerTypeOK, Alive
  <2>12. CASE Release(c)
    BY <2>12, ProcessParts DEF Release, OwnerTypeOK, Alive
  <2>13. CASE Exit(c)
    BY <2>13, ProcessParts DEF Exit, Gone, OwnerTypeOK, Alive
  <2>14. CASE StartCancel(c)
    BY <2>14, ProcessParts DEF StartCancel, Asked, CancelRefused, OwnerTypeOK, Alive
  <2>15. CASE SettleCancel(c)
    BY <2>15, ProcessParts DEF SettleCancel, CancelRefused, OwnerTypeOK, Alive
  <2>16. CASE \E d \in Call : AnswerRequest(c, d)
    BY <2>16, ProcessParts DEF AnswerRequest, OwnerTypeOK, Alive
  <2> QED
    BY <1>3, <2>1, <2>2, <2>3, <2>4, <2>5, <2>6, <2>7, <2>8, <2>9, <2>10, <2>11, <2>12, <2>13, <2>14, <2>15, <2>16 DEF OwnerStep
<1>4. ASSUME NEW c \in Call, Trouble(c) PROVE KeyOnDisk'
  <2>1. CASE RequestTimesOut(c)
    BY <2>1, ProcessParts DEF RequestTimesOut, Tell, AskedInVain, OwnerTypeOK, Alive
  <2>2. CASE CallFails(c)
    BY <2>2, ProcessParts DEF CallFails, Tell, OwnerTypeOK, Alive
  <2>3. CASE AcquireFails(c)
    BY <2>3, ProcessParts DEF AcquireFails, Gone, OwnerTypeOK, Alive
  <2>4. CASE RecoverFails(c)
    BY <2>4, ProcessParts DEF RecoverFails, Fails, OwnerTypeOK, Alive
  <2>5. CASE SpawnFails(c)
    BY <2>5, ProcessParts DEF SpawnFails, Fails, OwnerTypeOK, Alive
  <2>6. CASE DriveFails(c)
    BY <2>6, ProcessParts DEF DriveFails, Answered, OwnerTypeOK, Alive
  <2>7. CASE StartCancelFails(c)
    BY <2>7, ProcessParts DEF StartCancelFails, Asked, OwnerTypeOK, Alive
  <2>8. CASE CancelFails(c)
    BY <2>8, ProcessParts DEF CancelFails, OwnerTypeOK, Alive
  <2>9. CASE OwnerDies(c)
    BY <2>9, ProcessParts DEF OwnerDies, Gone, OwnerTypeOK, Alive
  <2>10. CASE CallerDies(c)
    BY <2>10, ProcessParts DEF CallerDies, OwnerTypeOK, Alive
  <2> QED
    BY <1>4, <2>1, <2>2, <2>3, <2>4, <2>5, <2>6, <2>7, <2>8, <2>9, <2>10 DEF Trouble
<1>5. CASE UNCHANGED vars
  BY <1>5 DEF vars, OwnerTypeOK, Alive
<1> QED
  BY <1>1, <1>2, <1>3, <1>4, <1>5 DEF Next

LEMMA StartsOneProcessKept ==
  ASSUME OwnerIInv, [Next]_vars
  PROVE  StartsOneProcess'
<1> USE DEF OwnerIInv, StartsOneProcess, Goto, Fault, Death, calls, owners, links, files, counts
<1>1. ASSUME NEW c \in Call, Arrive(c) PROVE StartsOneProcess'
  <2>1. CASE BeginBackground(c)
    BY <2>1, ProcessParts, BackgroundCases DEF Begin, Tell, OwnerTypeOK
  <2>2. CASE BeginRecover(c)
    BY <2>2, ProcessParts, RecoverCases DEF Begin, Tell, OwnerTypeOK
  <2>3. CASE BeginCancel(c)
    BY <2>3, ProcessParts DEF BeginCancel, Begin, Tell, OwnerTypeOK
  <2> QED
    BY <1>1, <2>1, <2>2, <2>3 DEF Arrive
<1>2. ASSUME NEW c \in Call, CallStep(c) PROVE StartsOneProcess'
  <2>1. CASE CreateRequest(c)
    BY <2>1, ProcessParts, CreateCases DEF Tell, StartProcess, OwnerTypeOK
  <2>2. CASE WriteRequest(c)
    BY <2>2, ProcessParts DEF WriteRequest, StartProcess, OwnerTypeOK
  <2>3. CASE Start(c)
    BY <2>3, ProcessParts DEF Start, StartProcess, OwnerTypeOK
  <2>4. CASE ReceiveStarted(c)
    BY <2>4, ProcessParts DEF ReceiveStarted, Tell, Confirmed, OwnerTypeOK
  <2>5. CASE ReceiveAlreadyOwned(c)
    BY <2>5, ProcessParts DEF ReceiveAlreadyOwned, OwnerTypeOK
  <2>6. CASE CheckOwned(c)
    BY <2>6, ProcessParts DEF CheckOwned, Tell, Confirmed, OwnerTypeOK
  <2>7. CASE StartFailed(c)
    BY <2>7, ProcessParts DEF StartFailed, Tell, OwnerTypeOK
  <2>8. CASE LinkKey(Caller(c))
    BY <2>8, ProcessParts DEF LinkKey, OwnerTypeOK
  <2>9. CASE RereadKey(Caller(c))
    BY <2>9, ProcessParts DEF RereadKey, OwnerTypeOK
  <2>10. CASE Connect(c)
    BY <2>10, ProcessParts DEF Connect, OwnerTypeOK
  <2>11. CASE Recheck(c)
    BY <2>11, ProcessParts DEF Recheck, Tell, OwnerTypeOK
  <2>12. CASE ReceiveAnswer(c)
    BY <2>12, ProcessParts DEF ReceiveAnswer, Tell, AskedInVain, OwnerTypeOK
  <2>13. CASE ConnectionLost(c)
    BY <2>13, ProcessParts DEF ConnectionLost, Tell, AskedInVain, OwnerTypeOK
  <2>14. CASE LastCheck(c)
    BY <2>14, ProcessParts DEF LastCheck, Tell, OwnerTypeOK
  <2> QED
    BY <1>2, <2>1, <2>2, <2>3, <2>4, <2>5, <2>6, <2>7, <2>8, <2>9, <2>10, <2>11, <2>12, <2>13, <2>14 DEF CallStep
<1>3. ASSUME NEW c \in Call, OwnerStep(c) PROVE StartsOneProcess'
  <2>1. CASE LinkKey(Owner(c))
    BY <2>1, ProcessParts DEF LinkKey, OwnerTypeOK
  <2>2. CASE RereadKey(Owner(c))
    BY <2>2, ProcessParts DEF RereadKey, OwnerTypeOK
  <2>3. CASE Bind(c)
    BY <2>3, ProcessParts DEF Bind, OwnerTypeOK
  <2>4. CASE ReportOwned(c)
    BY <2>4, ProcessParts DEF ReportOwned, Gone, OwnerTypeOK
  <2>5. CASE Recover(c)
    BY <2>5, ProcessParts DEF Recover, OwnerTypeOK
  <2>6. CASE CleanupRecovered(c)
    BY <2>6, ProcessParts DEF CleanupRecovered, OwnerTypeOK
  <2>7. CASE SpawnTask(c)
    BY <2>7, ProcessParts DEF SpawnTask, Activate, Fails, OwnerTypeOK
  <2>8. CASE Settle(c)
    BY <2>8, ProcessParts DEF Settle, OwnerTypeOK
  <2>9. CASE CleanUp(c)
    BY <2>9, ProcessParts DEF CleanUp, Answered, OwnerTypeOK
  <2>10. CASE AwaitResult(c)
    BY <2>10, ProcessParts DEF AwaitResult, OwnerTypeOK
  <2>11. CASE RecoverWhileClosing(c)
    BY <2>11, ProcessParts DEF RecoverWhileClosing, OwnerTypeOK
  <2>12. CASE Release(c)
    BY <2>12, ProcessParts DEF Release, OwnerTypeOK
  <2>13. CASE Exit(c)
    BY <2>13, ProcessParts DEF Exit, Gone, OwnerTypeOK
  <2>14. CASE StartCancel(c)
    BY <2>14, ProcessParts DEF StartCancel, Asked, CancelRefused, OwnerTypeOK
  <2>15. CASE SettleCancel(c)
    BY <2>15, ProcessParts DEF SettleCancel, CancelRefused, OwnerTypeOK
  <2>16. CASE \E d \in Call : AnswerRequest(c, d)
    BY <2>16, ProcessParts DEF AnswerRequest, OwnerTypeOK
  <2> QED
    BY <1>3, <2>1, <2>2, <2>3, <2>4, <2>5, <2>6, <2>7, <2>8, <2>9, <2>10, <2>11, <2>12, <2>13, <2>14, <2>15, <2>16 DEF OwnerStep
<1>4. ASSUME NEW c \in Call, Trouble(c) PROVE StartsOneProcess'
  <2>1. CASE RequestTimesOut(c)
    BY <2>1, ProcessParts DEF RequestTimesOut, Tell, AskedInVain, OwnerTypeOK
  <2>2. CASE CallFails(c)
    BY <2>2, ProcessParts DEF CallFails, Tell, OwnerTypeOK
  <2>3. CASE AcquireFails(c)
    BY <2>3, ProcessParts DEF AcquireFails, Gone, OwnerTypeOK
  <2>4. CASE RecoverFails(c)
    BY <2>4, ProcessParts DEF RecoverFails, Fails, OwnerTypeOK
  <2>5. CASE SpawnFails(c)
    BY <2>5, ProcessParts DEF SpawnFails, Fails, OwnerTypeOK
  <2>6. CASE DriveFails(c)
    BY <2>6, ProcessParts DEF DriveFails, Answered, OwnerTypeOK
  <2>7. CASE StartCancelFails(c)
    BY <2>7, ProcessParts DEF StartCancelFails, Asked, OwnerTypeOK
  <2>8. CASE CancelFails(c)
    BY <2>8, ProcessParts DEF CancelFails, OwnerTypeOK
  <2>9. CASE OwnerDies(c)
    BY <2>9, ProcessParts DEF OwnerDies, Gone, OwnerTypeOK
  <2>10. CASE CallerDies(c)
    BY <2>10, ProcessParts DEF CallerDies, OwnerTypeOK
  <2> QED
    BY <1>4, <2>1, <2>2, <2>3, <2>4, <2>5, <2>6, <2>7, <2>8, <2>9, <2>10 DEF Trouble
<1>5. CASE UNCHANGED vars
  BY <1>5 DEF vars, OwnerTypeOK
<1> QED
  BY <1>1, <1>2, <1>3, <1>4, <1>5 DEF Next

LEMMA OneReservationKept ==
  ASSUME OwnerIInv, [Next]_vars
  PROVE  OneReservation'
<1> USE DEF OwnerIInv, OneReservation, Goto, Fault, Death, calls, owners, links, files, counts
<1>1. ASSUME NEW c \in Call, Arrive(c) PROVE OneReservation'
  <2>1. CASE BeginBackground(c)
    BY <2>1, ProcessParts, BackgroundCases DEF Begin, Tell, OwnerTypeOK, Alive
  <2>2. CASE BeginRecover(c)
    BY <2>2, ProcessParts, RecoverCases DEF Begin, Tell, OwnerTypeOK, Alive
  <2>3. CASE BeginCancel(c)
    BY <2>3, ProcessParts DEF BeginCancel, Begin, Tell, OwnerTypeOK, Alive
  <2> QED
    BY <1>1, <2>1, <2>2, <2>3 DEF Arrive
<1>2. ASSUME NEW c \in Call, CallStep(c) PROVE OneReservation'
  <2>1. CASE CreateRequest(c)
    BY <2>1, ProcessParts, CreateCases DEF Tell, StartProcess, OwnerTypeOK, Alive
  <2>2. CASE WriteRequest(c)
    BY <2>2, ProcessParts DEF WriteRequest, StartProcess, OwnerTypeOK, Alive
  <2>3. CASE Start(c)
    BY <2>3, ProcessParts DEF Start, StartProcess, OwnerTypeOK, Alive
  <2>4. CASE ReceiveStarted(c)
    BY <2>4, ProcessParts DEF ReceiveStarted, Tell, Confirmed, OwnerTypeOK, Alive
  <2>5. CASE ReceiveAlreadyOwned(c)
    BY <2>5, ProcessParts DEF ReceiveAlreadyOwned, OwnerTypeOK, Alive
  <2>6. CASE CheckOwned(c)
    BY <2>6, ProcessParts DEF CheckOwned, Tell, Confirmed, OwnerTypeOK, Alive
  <2>7. CASE StartFailed(c)
    BY <2>7, ProcessParts DEF StartFailed, Tell, OwnerTypeOK, Alive
  <2>8. CASE LinkKey(Caller(c))
    BY <2>8, ProcessParts DEF LinkKey, OwnerTypeOK, Alive
  <2>9. CASE RereadKey(Caller(c))
    BY <2>9, ProcessParts DEF RereadKey, OwnerTypeOK, Alive
  <2>10. CASE Connect(c)
    BY <2>10, ProcessParts DEF Connect, OwnerTypeOK, Alive
  <2>11. CASE Recheck(c)
    BY <2>11, ProcessParts DEF Recheck, Tell, OwnerTypeOK, Alive
  <2>12. CASE ReceiveAnswer(c)
    BY <2>12, ProcessParts DEF ReceiveAnswer, Tell, AskedInVain, OwnerTypeOK, Alive
  <2>13. CASE ConnectionLost(c)
    BY <2>13, ProcessParts DEF ConnectionLost, Tell, AskedInVain, OwnerTypeOK, Alive
  <2>14. CASE LastCheck(c)
    BY <2>14, ProcessParts DEF LastCheck, Tell, OwnerTypeOK, Alive
  <2> QED
    BY <1>2, <2>1, <2>2, <2>3, <2>4, <2>5, <2>6, <2>7, <2>8, <2>9, <2>10, <2>11, <2>12, <2>13, <2>14 DEF CallStep
<1>3. ASSUME NEW c \in Call, OwnerStep(c) PROVE OneReservation'
  <2>1. CASE LinkKey(Owner(c))
    BY <2>1, ProcessParts DEF LinkKey, OwnerTypeOK, Alive
  <2>2. CASE RereadKey(Owner(c))
    BY <2>2, ProcessParts DEF RereadKey, OwnerTypeOK, Alive
  <2>3. CASE Bind(c)
    BY <2>3, ProcessParts DEF Bind, Listening, KeyOnDisk, OwnerTypeOK, Alive
  <2>4. CASE ReportOwned(c)
    BY <2>4, ProcessParts DEF ReportOwned, Gone, OwnerTypeOK, Alive
  <2>5. CASE Recover(c)
    BY <2>5, ProcessParts DEF Recover, OwnerTypeOK, Alive
  <2>6. CASE CleanupRecovered(c)
    BY <2>6, ProcessParts DEF CleanupRecovered, OwnerTypeOK, Alive
  <2>7. CASE SpawnTask(c)
    BY <2>7, ProcessParts DEF SpawnTask, Activate, Fails, OwnerTypeOK, Alive
  <2>8. CASE Settle(c)
    BY <2>8, ProcessParts DEF Settle, OwnerTypeOK, Alive
  <2>9. CASE CleanUp(c)
    BY <2>9, ProcessParts DEF CleanUp, Answered, OwnerTypeOK, Alive
  <2>10. CASE AwaitResult(c)
    BY <2>10, ProcessParts DEF AwaitResult, OwnerTypeOK, Alive
  <2>11. CASE RecoverWhileClosing(c)
    BY <2>11, ProcessParts DEF RecoverWhileClosing, OwnerTypeOK, Alive
  <2>12. CASE Release(c)
    BY <2>12, ProcessParts DEF Release, OwnerTypeOK, Alive
  <2>13. CASE Exit(c)
    BY <2>13, ProcessParts DEF Exit, Gone, OwnerTypeOK, Alive
  <2>14. CASE StartCancel(c)
    BY <2>14, ProcessParts DEF StartCancel, Asked, CancelRefused, OwnerTypeOK, Alive
  <2>15. CASE SettleCancel(c)
    BY <2>15, ProcessParts DEF SettleCancel, CancelRefused, OwnerTypeOK, Alive
  <2>16. CASE \E d \in Call : AnswerRequest(c, d)
    BY <2>16, ProcessParts DEF AnswerRequest, OwnerTypeOK, Alive
  <2> QED
    BY <1>3, <2>1, <2>2, <2>3, <2>4, <2>5, <2>6, <2>7, <2>8, <2>9, <2>10, <2>11, <2>12, <2>13, <2>14, <2>15, <2>16 DEF OwnerStep
<1>4. ASSUME NEW c \in Call, Trouble(c) PROVE OneReservation'
  <2>1. CASE RequestTimesOut(c)
    BY <2>1, ProcessParts DEF RequestTimesOut, Tell, AskedInVain, OwnerTypeOK, Alive
  <2>2. CASE CallFails(c)
    BY <2>2, ProcessParts DEF CallFails, Tell, OwnerTypeOK, Alive
  <2>3. CASE AcquireFails(c)
    BY <2>3, ProcessParts DEF AcquireFails, Gone, OwnerTypeOK, Alive
  <2>4. CASE RecoverFails(c)
    BY <2>4, ProcessParts DEF RecoverFails, Fails, OwnerTypeOK, Alive
  <2>5. CASE SpawnFails(c)
    BY <2>5, ProcessParts DEF SpawnFails, Fails, OwnerTypeOK, Alive
  <2>6. CASE DriveFails(c)
    BY <2>6, ProcessParts DEF DriveFails, Answered, OwnerTypeOK, Alive
  <2>7. CASE StartCancelFails(c)
    BY <2>7, ProcessParts DEF StartCancelFails, Asked, OwnerTypeOK, Alive
  <2>8. CASE CancelFails(c)
    BY <2>8, ProcessParts DEF CancelFails, OwnerTypeOK, Alive
  <2>9. CASE OwnerDies(c)
    BY <2>9, ProcessParts DEF OwnerDies, Gone, OwnerTypeOK, Alive
  <2>10. CASE CallerDies(c)
    BY <2>10, ProcessParts DEF CallerDies, OwnerTypeOK, Alive
  <2> QED
    BY <1>4, <2>1, <2>2, <2>3, <2>4, <2>5, <2>6, <2>7, <2>8, <2>9, <2>10 DEF Trouble
<1>5. CASE UNCHANGED vars
  BY <1>5 DEF vars, OwnerTypeOK, Alive
<1> QED
  BY <1>1, <1>2, <1>3, <1>4, <1>5 DEF Next

LEMMA FailuresCountedKept ==
  ASSUME OwnerIInv, [Next]_vars
  PROVE  FailuresCounted'
<1> USE DEF OwnerIInv, FailuresCounted, Goto, Fault, Death, calls, owners, links, files, counts
<1>1. ASSUME NEW c \in Call, Arrive(c) PROVE FailuresCounted'
  <2>1. CASE BeginBackground(c)
    BY <2>1, ProcessParts, BackgroundCases DEF Begin, Tell, OwnerTypeOK
  <2>2. CASE BeginRecover(c)
    BY <2>2, ProcessParts, RecoverCases DEF Begin, Tell, OwnerTypeOK
  <2>3. CASE BeginCancel(c)
    BY <2>3, ProcessParts DEF BeginCancel, Begin, Tell, OwnerTypeOK
  <2> QED
    BY <1>1, <2>1, <2>2, <2>3 DEF Arrive
<1>2. ASSUME NEW c \in Call, CallStep(c) PROVE FailuresCounted'
  <2>1. CASE CreateRequest(c)
    BY <2>1, ProcessParts, CreateCases DEF Tell, StartProcess, OwnerTypeOK
  <2>2. CASE WriteRequest(c)
    BY <2>2, ProcessParts DEF WriteRequest, StartProcess, OwnerTypeOK
  <2>3. CASE Start(c)
    BY <2>3, ProcessParts DEF Start, StartProcess, OwnerTypeOK
  <2>4. CASE ReceiveStarted(c)
    BY <2>4, ProcessParts DEF ReceiveStarted, Tell, Confirmed, OwnerTypeOK
  <2>5. CASE ReceiveAlreadyOwned(c)
    BY <2>5, ProcessParts DEF ReceiveAlreadyOwned, OwnerTypeOK
  <2>6. CASE CheckOwned(c)
    BY <2>6, ProcessParts DEF CheckOwned, Tell, Confirmed, OwnerTypeOK
  <2>7. CASE StartFailed(c)
    BY <2>7, ProcessParts DEF StartFailed, Tell, OwnerTypeOK
  <2>8. CASE LinkKey(Caller(c))
    BY <2>8, ProcessParts DEF LinkKey, OwnerTypeOK
  <2>9. CASE RereadKey(Caller(c))
    BY <2>9, ProcessParts DEF RereadKey, OwnerTypeOK
  <2>10. CASE Connect(c)
    BY <2>10, ProcessParts DEF Connect, OwnerTypeOK
  <2>11. CASE Recheck(c)
    BY <2>11, ProcessParts DEF Recheck, Tell, OwnerTypeOK
  <2>12. CASE ReceiveAnswer(c)
    BY <2>12, ProcessParts DEF ReceiveAnswer, Tell, AskedInVain, OwnerTypeOK
  <2>13. CASE ConnectionLost(c)
    BY <2>13, ProcessParts DEF ConnectionLost, Tell, AskedInVain, OwnerTypeOK
  <2>14. CASE LastCheck(c)
    BY <2>14, ProcessParts DEF LastCheck, Tell, OwnerTypeOK
  <2> QED
    BY <1>2, <2>1, <2>2, <2>3, <2>4, <2>5, <2>6, <2>7, <2>8, <2>9, <2>10, <2>11, <2>12, <2>13, <2>14 DEF CallStep
<1>3. ASSUME NEW c \in Call, OwnerStep(c) PROVE FailuresCounted'
  <2>1. CASE LinkKey(Owner(c))
    BY <2>1, ProcessParts DEF LinkKey, OwnerTypeOK
  <2>2. CASE RereadKey(Owner(c))
    BY <2>2, ProcessParts DEF RereadKey, OwnerTypeOK
  <2>3. CASE Bind(c)
    BY <2>3, ProcessParts DEF Bind, OwnerTypeOK
  <2>4. CASE ReportOwned(c)
    BY <2>4, ProcessParts DEF ReportOwned, Gone, OwnerTypeOK
  <2>5. CASE Recover(c)
    BY <2>5, ProcessParts, RecordTyped DEF Recover, HandleRecorded, NoOperation, IsFinal, OwnerTypeOK
  <2>6. CASE CleanupRecovered(c)
    BY <2>6, ProcessParts DEF CleanupRecovered, OwnerTypeOK
  <2>7. CASE SpawnTask(c)
    <3>1. /\ faults' = faults /\ retried' = retried
          /\ drive[c] # "none" \/ record = NoOperation \/ IsFinal
          /\ handle' = [handle EXCEPT ![c] = "active"]
      BY <2>7 DEF SpawnTask, Activate
    <3>2. record'.state \in {"none", "open"} => record.state \in {"none", "open"} /\ ~IsFinal
      BY <2>7 DEF SpawnTask, IsFinal, NoOperation, Final
    <3>3. \A d \in Call : pc'[Owner(d)] = "released" => pc[Owner(d)] = "released" /\ d # c
      <4>1. PICK s \in {"owning", "closing"} : Goto(Owner(c), s)
        BY <2>7 DEF SpawnTask, Activate
      <4> QED
        BY <4>1, ProcessParts DEF OwnerTypeOK
    <3>4. CASE record = NoOperation
      <4>1. drive' = [drive EXCEPT ![c] = "executing"]
        BY <2>7, <3>4 DEF SpawnTask
      <4> QED
        BY <3>1, <3>2, <3>3, <4>1 DEF OwnerTypeOK
    <3>5. CASE record # NoOperation
      <4>1. drive' = [drive EXCEPT ![c] = drive[c]]
        BY <2>7, <3>5 DEF SpawnTask
      <4> QED
        BY <3>1, <3>2, <3>3, <3>5, <4>1 DEF OwnerTypeOK
    <3> QED
      BY <3>4, <3>5
  <2>8. CASE Settle(c)
    BY <2>8, ProcessParts, RecordTyped DEF Settle, HandleRecorded, NoOperation, IsFinal, OwnerTypeOK
  <2>9. CASE CleanUp(c)
    BY <2>9, ProcessParts, RecordMoves, RecordTyped DEF CleanUp, Answered, RecordGoesOn, Drive, IsFinal, OwnerTypeOK
  <2>10. CASE AwaitResult(c)
    BY <2>10, ProcessParts DEF AwaitResult, OwnerTypeOK
  <2>11. CASE RecoverWhileClosing(c)
    <3>1. /\ record' = record /\ handle' = handle /\ faults' = faults /\ pc' = pc
          /\ retried' = retried \cup {c} /\ drive' = [drive EXCEPT ![c] = Drive]
          /\ Undone(c)
      BY <2>11 DEF RecoverWhileClosing
    <3>2. record.state \in {"none", "open"} => drive[c] = "failed"
      BY <3>1 DEF Undone
    <3>3. record.state \in {"none", "open"} => Drive \in {"none", "executing"} /\ (handle[c] = "active" => Drive # "none")
      BY RecordTyped DEF HandleRecorded
    <3> QED
      BY <3>1, <3>2, <3>3 DEF OwnerTypeOK
  <2>12. CASE Release(c)
    BY <2>12, ProcessParts DEF Release, Undone, Working, OwnerTypeOK
  <2>13. CASE Exit(c)
    BY <2>13, ProcessParts DEF Exit, Gone, OwnerTypeOK
  <2>14. CASE StartCancel(c)
    BY <2>14, ProcessParts, RecordTyped DEF StartCancel, Asked, CancelRefused, HandleRecorded, NoOperation, IsFinal, OwnerTypeOK
  <2>15. CASE SettleCancel(c)
    <3>1. record'.state \in {"cancelling"} \cup Final
      BY <2>15, RecordMoves DEF SettleCancel, HandleRecorded, RecordGoesOn
    <3> QED
      BY <3>1 DEF Final
  <2>16. CASE \E d \in Call : AnswerRequest(c, d)
    BY <2>16, ProcessParts DEF AnswerRequest, OwnerTypeOK
  <2> QED
    BY <1>3, <2>1, <2>2, <2>3, <2>4, <2>5, <2>6, <2>7, <2>8, <2>9, <2>10, <2>11, <2>12, <2>13, <2>14, <2>15, <2>16 DEF OwnerStep
<1>4. ASSUME NEW c \in Call, Trouble(c) PROVE FailuresCounted'
  <2>1. CASE RequestTimesOut(c)
    BY <2>1, ProcessParts DEF RequestTimesOut, Tell, AskedInVain, OwnerTypeOK
  <2>2. CASE CallFails(c)
    BY <2>2, ProcessParts DEF CallFails, Tell, OwnerTypeOK
  <2>3. CASE AcquireFails(c)
    BY <2>3, ProcessParts DEF AcquireFails, Gone, OwnerTypeOK
  <2>4. CASE RecoverFails(c)
    BY <2>4, ProcessParts DEF RecoverFails, Fails, OwnerTypeOK
  <2>5. CASE SpawnFails(c)
    BY <2>5, ProcessParts, RecordMoves, RecordTyped DEF SpawnFails, Fails, RecordGoesOn, Drive, IsFinal, OwnerTypeOK
  <2>6. CASE DriveFails(c)
    BY <2>6, ProcessParts DEF DriveFails, Answered, OwnerTypeOK
  <2>7. CASE StartCancelFails(c)
    BY <2>7, ProcessParts DEF StartCancelFails, Asked, OwnerTypeOK
  <2>8. CASE CancelFails(c)
    BY <2>8, ProcessParts DEF CancelFails, OwnerTypeOK
  <2>9. CASE OwnerDies(c)
    BY <2>9, ProcessParts DEF OwnerDies, Gone, OwnerTypeOK
  <2>10. CASE CallerDies(c)
    BY <2>10, ProcessParts DEF CallerDies, OwnerTypeOK
  <2> QED
    BY <1>4, <2>1, <2>2, <2>3, <2>4, <2>5, <2>6, <2>7, <2>8, <2>9, <2>10 DEF Trouble
<1>5. CASE UNCHANGED vars
  BY <1>5 DEF vars, OwnerTypeOK
<1> QED
  BY <1>1, <1>2, <1>3, <1>4, <1>5 DEF Next

LEMMA WorkKeptKept ==
  ASSUME OwnerIInv, [Next]_vars
  PROVE  WorkKept'
<1> USE DEF OwnerIInv, WorkKept, Goto, Fault, Death, calls, owners, links, files, counts
<1>1. ASSUME NEW c \in Call, Arrive(c) PROVE WorkKept'
  <2>1. CASE BeginBackground(c)
    BY <2>1, ProcessParts, BackgroundCases DEF Begin, Tell, OwnerTypeOK, Alive, Working
  <2>2. CASE BeginRecover(c)
    BY <2>2, ProcessParts, RecoverCases DEF Begin, Tell, OwnerTypeOK, Alive, Working
  <2>3. CASE BeginCancel(c)
    BY <2>3, ProcessParts DEF BeginCancel, Begin, Tell, OwnerTypeOK, Alive, Working
  <2> QED
    BY <1>1, <2>1, <2>2, <2>3 DEF Arrive
<1>2. ASSUME NEW c \in Call, CallStep(c) PROVE WorkKept'
  <2>1. CASE CreateRequest(c)
    BY <2>1, ProcessParts, CreateCases DEF Tell, StartProcess, StartsOneProcess, OwnerTypeOK, Alive, Working
  <2>2. CASE WriteRequest(c)
    BY <2>2, ProcessParts DEF WriteRequest, StartProcess, StartsOneProcess, OwnerTypeOK, Alive, Working
  <2>3. CASE Start(c)
    BY <2>3, ProcessParts DEF Start, StartProcess, StartsOneProcess, OwnerTypeOK, Alive, Working
  <2>4. CASE ReceiveStarted(c)
    BY <2>4, ProcessParts DEF ReceiveStarted, Tell, Confirmed, OwnerTypeOK, Alive, Working
  <2>5. CASE ReceiveAlreadyOwned(c)
    BY <2>5, ProcessParts DEF ReceiveAlreadyOwned, OwnerTypeOK, Alive, Working
  <2>6. CASE CheckOwned(c)
    BY <2>6, ProcessParts DEF CheckOwned, Tell, Confirmed, OwnerTypeOK, Alive, Working
  <2>7. CASE StartFailed(c)
    BY <2>7, ProcessParts DEF StartFailed, Tell, OwnerTypeOK, Alive, Working
  <2>8. CASE LinkKey(Caller(c))
    BY <2>8, ProcessParts DEF LinkKey, OwnerTypeOK, Alive, Working
  <2>9. CASE RereadKey(Caller(c))
    BY <2>9, ProcessParts DEF RereadKey, OwnerTypeOK, Alive, Working
  <2>10. CASE Connect(c)
    BY <2>10, ProcessParts DEF Connect, OwnerTypeOK, Alive, Working
  <2>11. CASE Recheck(c)
    BY <2>11, ProcessParts DEF Recheck, Tell, OwnerTypeOK, Alive, Working
  <2>12. CASE ReceiveAnswer(c)
    BY <2>12, ProcessParts DEF ReceiveAnswer, Tell, AskedInVain, OwnerTypeOK, Alive, Working
  <2>13. CASE ConnectionLost(c)
    BY <2>13, ProcessParts DEF ConnectionLost, Tell, AskedInVain, OwnerTypeOK, Alive, Working
  <2>14. CASE LastCheck(c)
    BY <2>14, ProcessParts DEF LastCheck, Tell, OwnerTypeOK, Alive, Working
  <2> QED
    BY <1>2, <2>1, <2>2, <2>3, <2>4, <2>5, <2>6, <2>7, <2>8, <2>9, <2>10, <2>11, <2>12, <2>13, <2>14 DEF CallStep
<1>3. ASSUME NEW c \in Call, OwnerStep(c) PROVE WorkKept'
  <2>1. CASE LinkKey(Owner(c))
    BY <2>1, ProcessParts DEF LinkKey, OwnerTypeOK, Alive, Working
  <2>2. CASE RereadKey(Owner(c))
    BY <2>2, ProcessParts DEF RereadKey, OwnerTypeOK, Alive, Working
  <2>3. CASE Bind(c)
    BY <2>3, ProcessParts DEF Bind, OwnerTypeOK, Alive, Working
  <2>4. CASE ReportOwned(c)
    BY <2>4, ProcessParts DEF ReportOwned, Gone, OwnerTypeOK, Alive, Working
  <2>5. CASE Recover(c)
    BY <2>5, ProcessParts DEF Recover, OwnerTypeOK, Alive, Working
  <2>6. CASE CleanupRecovered(c)
    BY <2>6, ProcessParts DEF CleanupRecovered, OwnerTypeOK, Alive, Working
  <2>7. CASE SpawnTask(c)
    BY <2>7, ProcessParts DEF SpawnTask, Activate, Fails, OwnerTypeOK, Alive, Working
  <2>8. CASE Settle(c)
    BY <2>8, ProcessParts DEF Settle, OwnerTypeOK, Alive, Working
  <2>9. CASE CleanUp(c)
    BY <2>9, ProcessParts DEF CleanUp, Answered, OwnerTypeOK, Alive, Working
  <2>10. CASE AwaitResult(c)
    BY <2>10, ProcessParts DEF AwaitResult, OwnerTypeOK, Alive, Working
  <2>11. CASE RecoverWhileClosing(c)
    BY <2>11, ProcessParts DEF RecoverWhileClosing, OwnerTypeOK, Alive, Working
  <2>12. CASE Release(c)
    BY <2>12, ProcessParts DEF Release, OwnerTypeOK, Alive, Working
  <2>13. CASE Exit(c)
    BY <2>13, ProcessParts DEF Exit, Gone, OwnerTypeOK, Alive, Working
  <2>14. CASE StartCancel(c)
    BY <2>14, ProcessParts DEF StartCancel, Asked, CancelRefused, FailuresCounted, OwnerTypeOK, Alive, Working
  <2>15. CASE SettleCancel(c)
    BY <2>15, ProcessParts DEF SettleCancel, CancelRefused, OwnerTypeOK, Alive, Working
  <2>16. CASE \E d \in Call : AnswerRequest(c, d)
    BY <2>16, ProcessParts DEF AnswerRequest, OwnerTypeOK, Alive, Working
  <2> QED
    BY <1>3, <2>1, <2>2, <2>3, <2>4, <2>5, <2>6, <2>7, <2>8, <2>9, <2>10, <2>11, <2>12, <2>13, <2>14, <2>15, <2>16 DEF OwnerStep
<1>4. ASSUME NEW c \in Call, Trouble(c) PROVE WorkKept'
  <2>1. CASE RequestTimesOut(c)
    BY <2>1, ProcessParts DEF RequestTimesOut, Tell, AskedInVain, OwnerTypeOK, Alive, Working
  <2>2. CASE CallFails(c)
    BY <2>2, ProcessParts DEF CallFails, Tell, OwnerTypeOK, Alive, Working
  <2>3. CASE AcquireFails(c)
    BY <2>3, ProcessParts DEF AcquireFails, Gone, OwnerTypeOK, Alive, Working
  <2>4. CASE RecoverFails(c)
    BY <2>4, ProcessParts DEF RecoverFails, Fails, OwnerTypeOK, Alive, Working
  <2>5. CASE SpawnFails(c)
    BY <2>5, ProcessParts DEF SpawnFails, Fails, OwnerTypeOK, Alive, Working
  <2>6. CASE DriveFails(c)
    BY <2>6, ProcessParts DEF DriveFails, Answered, OwnerTypeOK, Alive, Working
  <2>7. CASE StartCancelFails(c)
    BY <2>7, ProcessParts DEF StartCancelFails, Asked, OwnerTypeOK, Alive, Working
  <2>8. CASE CancelFails(c)
    BY <2>8, ProcessParts DEF CancelFails, OwnerTypeOK, Alive, Working
  <2>9. CASE OwnerDies(c)
    BY <2>9, ProcessParts DEF OwnerDies, Gone, OwnerTypeOK, Alive, Working
  <2>10. CASE CallerDies(c)
    BY <2>10, ProcessParts DEF CallerDies, OwnerTypeOK, Alive, Working
  <2> QED
    BY <1>4, <2>1, <2>2, <2>3, <2>4, <2>5, <2>6, <2>7, <2>8, <2>9, <2>10 DEF Trouble
<1>5. CASE UNCHANGED vars
  BY <1>5 DEF vars, OwnerTypeOK, Alive, Working
<1> QED
  BY <1>1, <1>2, <1>3, <1>4, <1>5 DEF Next

LEMMA HandleRecordedKept ==
  ASSUME OwnerIInv, [Next]_vars
  PROVE  HandleRecorded'
<1> USE DEF OwnerIInv, HandleRecorded, Goto, Fault, Death, calls, owners, links, files, counts
<1>1. ASSUME NEW c \in Call, Arrive(c) PROVE HandleRecorded'
  <2>1. CASE BeginBackground(c)
    BY <2>1, ProcessParts, BackgroundCases DEF Begin, Tell, OwnerTypeOK, IsFinal
  <2>2. CASE BeginRecover(c)
    BY <2>2, ProcessParts, RecoverCases DEF Begin, Tell, OwnerTypeOK, IsFinal
  <2>3. CASE BeginCancel(c)
    BY <2>3, ProcessParts DEF BeginCancel, Begin, Tell, OwnerTypeOK, IsFinal
  <2> QED
    BY <1>1, <2>1, <2>2, <2>3 DEF Arrive
<1>2. ASSUME NEW c \in Call, CallStep(c) PROVE HandleRecorded'
  <2>1. CASE CreateRequest(c)
    BY <2>1, ProcessParts, CreateCases DEF Tell, StartProcess, OwnerTypeOK, IsFinal
  <2>2. CASE WriteRequest(c)
    BY <2>2, ProcessParts DEF WriteRequest, StartProcess, OwnerTypeOK, IsFinal
  <2>3. CASE Start(c)
    BY <2>3, ProcessParts DEF Start, StartProcess, OwnerTypeOK, IsFinal
  <2>4. CASE ReceiveStarted(c)
    BY <2>4, ProcessParts DEF ReceiveStarted, Tell, Confirmed, OwnerTypeOK, IsFinal
  <2>5. CASE ReceiveAlreadyOwned(c)
    <3>1. /\ record' = record /\ handle' = handle /\ drive' = drive /\ cancellation' = cancellation
          /\ ipc' = [ipc EXCEPT ![c] = None] /\ ipc[c] = "already_owned"
      BY <2>5 DEF ReceiveAlreadyOwned
    <3>2. \A d \in Call : ipc'[d] = "started" => ipc[d] = "started" \/ None = "started"
      BY <3>1 DEF OwnerTypeOK
    <3> QED
      BY <3>1, <3>2, NoneIsNoAnswer DEF IsFinal
  <2>6. CASE CheckOwned(c)
    BY <2>6, ProcessParts DEF CheckOwned, Tell, Confirmed, OwnerTypeOK, IsFinal
  <2>7. CASE StartFailed(c)
    BY <2>7, ProcessParts DEF StartFailed, Tell, OwnerTypeOK, IsFinal
  <2>8. CASE LinkKey(Caller(c))
    BY <2>8, ProcessParts DEF LinkKey, OwnerTypeOK, IsFinal
  <2>9. CASE RereadKey(Caller(c))
    BY <2>9, ProcessParts DEF RereadKey, OwnerTypeOK, IsFinal
  <2>10. CASE Connect(c)
    BY <2>10, ProcessParts DEF Connect, OwnerTypeOK, IsFinal
  <2>11. CASE Recheck(c)
    BY <2>11, ProcessParts DEF Recheck, Tell, OwnerTypeOK, IsFinal
  <2>12. CASE ReceiveAnswer(c)
    BY <2>12, ProcessParts DEF ReceiveAnswer, Tell, AskedInVain, OwnerTypeOK, IsFinal
  <2>13. CASE ConnectionLost(c)
    BY <2>13, ProcessParts DEF ConnectionLost, Tell, AskedInVain, OwnerTypeOK, IsFinal
  <2>14. CASE LastCheck(c)
    BY <2>14, ProcessParts DEF LastCheck, Tell, OwnerTypeOK, IsFinal
  <2> QED
    BY <1>2, <2>1, <2>2, <2>3, <2>4, <2>5, <2>6, <2>7, <2>8, <2>9, <2>10, <2>11, <2>12, <2>13, <2>14 DEF CallStep
<1>3. ASSUME NEW c \in Call, OwnerStep(c) PROVE HandleRecorded'
  <2>1. CASE LinkKey(Owner(c))
    BY <2>1, ProcessParts DEF LinkKey, OwnerTypeOK, IsFinal
  <2>2. CASE RereadKey(Owner(c))
    BY <2>2, ProcessParts DEF RereadKey, OwnerTypeOK, IsFinal
  <2>3. CASE Bind(c)
    BY <2>3, ProcessParts DEF Bind, OwnerTypeOK, IsFinal
  <2>4. CASE ReportOwned(c)
    BY <2>4, ProcessParts DEF ReportOwned, Gone, OwnerTypeOK, IsFinal
  <2>5. CASE Recover(c)
    BY <2>5, ProcessParts, RecordMoves, RecordTyped DEF Recover, RecordGoesOn, NoOperation, IsFinal, OwnerTypeOK
  <2>6. CASE CleanupRecovered(c)
    BY <2>6, ProcessParts DEF CleanupRecovered, OwnerTypeOK, IsFinal
  <2>7. CASE SpawnTask(c)
    BY <2>7, ProcessParts, RecordMoves, RecordTyped DEF SpawnTask, Activate, Fails, RecordGoesOn, NoOperation, IsFinal, OwnerTypeOK
  <2>8. CASE Settle(c)
    <3>1. record # NoOperation
      BY <2>8 DEF Settle
    <3>2. cancellation' = cancellation /\ handle' = handle /\ ipc' = ipc
      BY <2>8 DEF Settle
    <3>3. ASSUME NEW d \in Call, drive'[d] = "cleaning"
          PROVE  record'.state \in Final
      <4>1. CASE d # c
        BY <2>8, <3>3, <4>1, RecordMoves DEF Settle, RecordGoesOn, IsFinal, OwnerTypeOK
      <4>2. CASE d = c
        BY <2>8, <3>3, <4>2, RecordTyped DEF Settle, IsFinal, Final, OwnerTypeOK
      <4> QED
        BY <4>1, <4>2
    <3> QED
      BY <3>1, <3>2, <3>3, RecordMoves DEF RecordGoesOn, IsFinal
  <2>9. CASE CleanUp(c)
    BY <2>9, ProcessParts, RecordMoves, RecordTyped DEF CleanUp, Answered, RecordGoesOn, NoOperation, IsFinal, OwnerTypeOK
  <2>10. CASE AwaitResult(c)
    BY <2>10, ProcessParts DEF AwaitResult, OwnerTypeOK, IsFinal
  <2>11. CASE RecoverWhileClosing(c)
    BY <2>11, ProcessParts, RecordMoves, RecordTyped DEF RecoverWhileClosing, RecordGoesOn, NoOperation, IsFinal, OwnerTypeOK
  <2>12. CASE Release(c)
    BY <2>12, ProcessParts DEF Release, OwnerTypeOK, IsFinal
  <2>13. CASE Exit(c)
    BY <2>13, ProcessParts DEF Exit, Gone, OwnerTypeOK, IsFinal
  <2>14. CASE StartCancel(c)
    <3>1. record # NoOperation /\ handle' = handle /\ ipc' = ipc
      BY <2>14 DEF StartCancel, Asked
    <3>2. ASSUME NEW d \in Call, cancellation'[d] = "running"
          PROVE  record'.state \in {"cancelling"} \cup Final
      <4>1. CASE d # c
        BY <2>14, <3>2, <4>1, RecordMoves DEF StartCancel, CancelRefused, RecordGoesOn, OwnerTypeOK
      <4>2. CASE d = c
        <5>1. record.state = "open" /\ record' = [record EXCEPT !.state = "cancelling"]
          BY <2>14, <3>2, <4>2 DEF StartCancel, CancelRefused, OwnerTypeOK
        <5> QED
          BY <5>1 DEF OwnerTypeOK, Records, NoOperation
      <4> QED
        BY <4>1, <4>2
    <3>3. ASSUME NEW d \in Call, drive'[d] = "cleaning"
          PROVE  record'.state \in Final
      <4>1. CASE d # c
        BY <2>14, <3>3, <4>1, RecordMoves DEF StartCancel, CancelRefused, RecordGoesOn, IsFinal, OwnerTypeOK
      <4>2. CASE d = c
        BY <2>14, <3>3, <4>2, RecordTyped, RecordMoves DEF StartCancel, CancelRefused, RecordGoesOn, IsFinal, OwnerTypeOK
      <4> QED
        BY <4>1, <4>2
    <3> QED
      BY <3>1, <3>2, <3>3, RecordMoves DEF RecordGoesOn, IsFinal
  <2>15. CASE SettleCancel(c)
    <3>1. record # NoOperation
      BY <2>15, RecordTyped DEF SettleCancel, Final, NoOperation
    <3>2. /\ handle' = handle /\ ipc' = ipc
          /\ \A d \in Call : cancellation'[d] = "running" => cancellation[d] = "running"
      BY <2>15 DEF SettleCancel, CancelRefused, OwnerTypeOK
    <3>3. ASSUME NEW d \in Call, drive'[d] = "cleaning"
          PROVE  record'.state \in Final
      <4>1. CASE d # c
        BY <2>15, <3>3, <4>1, RecordMoves DEF SettleCancel, CancelRefused, RecordGoesOn, IsFinal, OwnerTypeOK
      <4>2. CASE d = c
        BY <2>15, <3>3, <4>2, RecordTyped DEF SettleCancel, CancelRefused, IsFinal, Final, OwnerTypeOK
      <4> QED
        BY <4>1, <4>2
    <3> QED
      BY <3>1, <3>2, <3>3, RecordMoves DEF RecordGoesOn, IsFinal
  <2>16. CASE \E d \in Call : AnswerRequest(c, d)
    BY <2>16, ProcessParts DEF AnswerRequest, OwnerTypeOK, IsFinal
  <2> QED
    BY <1>3, <2>1, <2>2, <2>3, <2>4, <2>5, <2>6, <2>7, <2>8, <2>9, <2>10, <2>11, <2>12, <2>13, <2>14, <2>15, <2>16 DEF OwnerStep
<1>4. ASSUME NEW c \in Call, Trouble(c) PROVE HandleRecorded'
  <2>1. CASE RequestTimesOut(c)
    BY <2>1, ProcessParts DEF RequestTimesOut, Tell, AskedInVain, OwnerTypeOK, IsFinal
  <2>2. CASE CallFails(c)
    BY <2>2, ProcessParts DEF CallFails, Tell, OwnerTypeOK, IsFinal
  <2>3. CASE AcquireFails(c)
    BY <2>3, ProcessParts DEF AcquireFails, Gone, OwnerTypeOK, IsFinal
  <2>4. CASE RecoverFails(c)
    BY <2>4, ProcessParts DEF RecoverFails, Fails, OwnerTypeOK, IsFinal
  <2>5. CASE SpawnFails(c)
    BY <2>5, ProcessParts, RecordMoves, RecordTyped DEF SpawnFails, Fails, RecordGoesOn, NoOperation, IsFinal, OwnerTypeOK
  <2>6. CASE DriveFails(c)
    BY <2>6, ProcessParts DEF DriveFails, Answered, OwnerTypeOK, IsFinal
  <2>7. CASE StartCancelFails(c)
    BY <2>7, ProcessParts DEF StartCancelFails, Asked, OwnerTypeOK, IsFinal
  <2>8. CASE CancelFails(c)
    BY <2>8, ProcessParts, RecordTyped DEF CancelFails, NoOperation, Final, OwnerTypeOK, IsFinal
  <2>9. CASE OwnerDies(c)
    BY <2>9, ProcessParts DEF OwnerDies, Gone, OwnerTypeOK, IsFinal
  <2>10. CASE CallerDies(c)
    BY <2>10, ProcessParts DEF CallerDies, OwnerTypeOK, IsFinal
  <2> QED
    BY <1>4, <2>1, <2>2, <2>3, <2>4, <2>5, <2>6, <2>7, <2>8, <2>9, <2>10 DEF Trouble
<1>5. CASE UNCHANGED vars
  BY <1>5 DEF vars, OwnerTypeOK, IsFinal
<1> QED
  BY <1>1, <1>2, <1>3, <1>4, <1>5 DEF Next

LEMMA AnswersFinalKept ==
  ASSUME OwnerIInv, [Next]_vars
  PROVE  AnswersFinal'
<1> USE DEF OwnerIInv, AnswersFinal, Goto, Fault, Death, calls, owners, links, files, counts
<1>1. ASSUME NEW c \in Call, Arrive(c) PROVE AnswersFinal'
  <2>1. CASE BeginBackground(c)
    BY <2>1, ProcessParts, NoneIsNoAnswer, BackgroundCases DEF Begin, Tell, OwnerTypeOK, Final
  <2>2. CASE BeginRecover(c)
    BY <2>2, ProcessParts, NoneIsNoAnswer, RecoverCases DEF Begin, Tell, OwnerTypeOK, Final
  <2>3. CASE BeginCancel(c)
    BY <2>3, ProcessParts, NoneIsNoAnswer DEF BeginCancel, Begin, Tell, OwnerTypeOK, Final
  <2> QED
    BY <1>1, <2>1, <2>2, <2>3 DEF Arrive
<1>2. ASSUME NEW c \in Call, CallStep(c) PROVE AnswersFinal'
  <2>1. CASE CreateRequest(c)
    BY <2>1, ProcessParts, NoneIsNoAnswer, CreateCases DEF Tell, StartProcess, OwnerTypeOK, Final
  <2>2. CASE WriteRequest(c)
    BY <2>2, ProcessParts, NoneIsNoAnswer DEF WriteRequest, StartProcess, OwnerTypeOK, Final
  <2>3. CASE Start(c)
    BY <2>3, ProcessParts, NoneIsNoAnswer DEF Start, StartProcess, OwnerTypeOK, Final
  <2>4. CASE ReceiveStarted(c)
    BY <2>4, ProcessParts, NoneIsNoAnswer DEF ReceiveStarted, Tell, Confirmed, OwnerTypeOK, Final
  <2>5. CASE ReceiveAlreadyOwned(c)
    BY <2>5, ProcessParts, NoneIsNoAnswer DEF ReceiveAlreadyOwned, OwnerTypeOK, Final
  <2>6. CASE CheckOwned(c)
    BY <2>6, ProcessParts, NoneIsNoAnswer DEF CheckOwned, Tell, Confirmed, OwnerTypeOK, Final
  <2>7. CASE StartFailed(c)
    BY <2>7, ProcessParts, NoneIsNoAnswer DEF StartFailed, Tell, OwnerTypeOK, Final
  <2>8. CASE LinkKey(Caller(c))
    BY <2>8, ProcessParts, NoneIsNoAnswer DEF LinkKey, OwnerTypeOK, Final
  <2>9. CASE RereadKey(Caller(c))
    BY <2>9, ProcessParts, NoneIsNoAnswer DEF RereadKey, OwnerTypeOK, Final
  <2>10. CASE Connect(c)
    BY <2>10, ProcessParts, NoneIsNoAnswer DEF Connect, OwnerTypeOK, Final
  <2>11. CASE Recheck(c)
    BY <2>11, ProcessParts, NoneIsNoAnswer DEF Recheck, Tell, OwnerTypeOK, Final
  <2>12. CASE ReceiveAnswer(c)
    BY <2>12, ProcessParts, NoneIsNoAnswer DEF ReceiveAnswer, Tell, AskedInVain, NoConn, OwnerTypeOK, Final
  <2>13. CASE ConnectionLost(c)
    BY <2>13, ProcessParts, NoneIsNoAnswer DEF ConnectionLost, Tell, AskedInVain, NoConn, OwnerTypeOK, Final
  <2>14. CASE LastCheck(c)
    BY <2>14, ProcessParts, NoneIsNoAnswer DEF LastCheck, Tell, OwnerTypeOK, Final
  <2> QED
    BY <1>2, <2>1, <2>2, <2>3, <2>4, <2>5, <2>6, <2>7, <2>8, <2>9, <2>10, <2>11, <2>12, <2>13, <2>14 DEF CallStep
<1>3. ASSUME NEW c \in Call, OwnerStep(c) PROVE AnswersFinal'
  <2>1. CASE LinkKey(Owner(c))
    BY <2>1, ProcessParts, NoneIsNoAnswer DEF LinkKey, OwnerTypeOK, Final
  <2>2. CASE RereadKey(Owner(c))
    BY <2>2, ProcessParts, NoneIsNoAnswer DEF RereadKey, OwnerTypeOK, Final
  <2>3. CASE Bind(c)
    BY <2>3, ProcessParts, NoneIsNoAnswer DEF Bind, OwnerTypeOK, Final
  <2>4. CASE ReportOwned(c)
    BY <2>4, ProcessParts, NoneIsNoAnswer DEF ReportOwned, Gone, OwnerTypeOK, Final
  <2>5. CASE Recover(c)
    BY <2>5, ProcessParts, NoneIsNoAnswer DEF Recover, OwnerTypeOK, Final
  <2>6. CASE CleanupRecovered(c)
    BY <2>6, ProcessParts, NoneIsNoAnswer DEF CleanupRecovered, OwnerTypeOK, Final
  <2>7. CASE SpawnTask(c)
    BY <2>7, ProcessParts, NoneIsNoAnswer, RecordMoves DEF SpawnTask, Activate, Fails, RecordGoesOn, IsFinal, OwnerTypeOK, Final
  <2>8. CASE Settle(c)
    BY <2>8, ProcessParts, NoneIsNoAnswer, RecordMoves DEF Settle, RecordGoesOn, IsFinal, OwnerTypeOK, Final
  <2>9. CASE CleanUp(c)
    BY <2>9, ProcessParts, NoneIsNoAnswer, RecordMoves DEF CleanUp, Answered, RecordGoesOn, IsFinal, OwnerTypeOK, Final
  <2>10. CASE AwaitResult(c)
    BY <2>10, ProcessParts, NoneIsNoAnswer DEF AwaitResult, OwnerTypeOK, Final
  <2>11. CASE RecoverWhileClosing(c)
    BY <2>11, ProcessParts, NoneIsNoAnswer DEF RecoverWhileClosing, OwnerTypeOK, Final
  <2>12. CASE Release(c)
    BY <2>12, ProcessParts, NoneIsNoAnswer DEF Release, NoConn, OwnerTypeOK, Final
  <2>13. CASE Exit(c)
    BY <2>13, ProcessParts, NoneIsNoAnswer DEF Exit, Gone, OwnerTypeOK, Final
  <2>14. CASE StartCancel(c)
    BY <2>14, ProcessParts, NoneIsNoAnswer, RecordMoves DEF StartCancel, Asked, CancelRefused, RecordGoesOn, IsFinal, OwnerTypeOK, Final
  <2>15. CASE SettleCancel(c)
    BY <2>15, ProcessParts, NoneIsNoAnswer, RecordMoves DEF SettleCancel, CancelRefused, RecordGoesOn, IsFinal, OwnerTypeOK, Final
  <2>16. CASE \E d \in Call : AnswerRequest(c, d)
    BY <2>16, ProcessParts, NoneIsNoAnswer DEF AnswerRequest, Waiting, OwnerTypeOK, Final
  <2> QED
    BY <1>3, <2>1, <2>2, <2>3, <2>4, <2>5, <2>6, <2>7, <2>8, <2>9, <2>10, <2>11, <2>12, <2>13, <2>14, <2>15, <2>16 DEF OwnerStep
<1>4. ASSUME NEW c \in Call, Trouble(c) PROVE AnswersFinal'
  <2>1. CASE RequestTimesOut(c)
    BY <2>1, ProcessParts, NoneIsNoAnswer DEF RequestTimesOut, Tell, AskedInVain, NoConn, OwnerTypeOK, Final
  <2>2. CASE CallFails(c)
    BY <2>2, ProcessParts, NoneIsNoAnswer DEF CallFails, Tell, OwnerTypeOK, Final
  <2>3. CASE AcquireFails(c)
    BY <2>3, ProcessParts, NoneIsNoAnswer DEF AcquireFails, Gone, OwnerTypeOK, Final
  <2>4. CASE RecoverFails(c)
    BY <2>4, ProcessParts, NoneIsNoAnswer DEF RecoverFails, Fails, OwnerTypeOK, Final
  <2>5. CASE SpawnFails(c)
    BY <2>5, ProcessParts, NoneIsNoAnswer, RecordMoves DEF SpawnFails, Fails, RecordGoesOn, IsFinal, OwnerTypeOK, Final
  <2>6. CASE DriveFails(c)
    BY <2>6, ProcessParts, NoneIsNoAnswer DEF DriveFails, Answered, OwnerTypeOK, Final
  <2>7. CASE StartCancelFails(c)
    BY <2>7, ProcessParts, NoneIsNoAnswer DEF StartCancelFails, Asked, OwnerTypeOK, Final
  <2>8. CASE CancelFails(c)
    BY <2>8, ProcessParts, NoneIsNoAnswer DEF CancelFails, OwnerTypeOK, Final
  <2>9. CASE OwnerDies(c)
    BY <2>9, ProcessParts, NoneIsNoAnswer DEF OwnerDies, Gone, NoConn, OwnerTypeOK, Final
  <2>10. CASE CallerDies(c)
    BY <2>10, ProcessParts, NoneIsNoAnswer DEF CallerDies, NoConn, OwnerTypeOK, Final
  <2> QED
    BY <1>4, <2>1, <2>2, <2>3, <2>4, <2>5, <2>6, <2>7, <2>8, <2>9, <2>10 DEF Trouble
<1>5. CASE UNCHANGED vars
  BY <1>5 DEF vars, OwnerTypeOK, Final
<1> QED
  BY <1>1, <1>2, <1>3, <1>4, <1>5 DEF Next

LEMMA AnswersMatchRecordKept ==
  ASSUME OwnerIInv, [Next]_vars
  PROVE  AnswersMatchRecord'
<1> USE DEF OwnerIInv, AnswersMatchRecord, Goto, Fault, Death, calls, owners, links, files, counts
<1>1. ASSUME NEW c \in Call, Arrive(c) PROVE AnswersMatchRecord'
  <2>1. CASE BeginBackground(c)
    BY <2>1, ProcessParts, NoneIsNoAnswer, BackgroundCases DEF Begin, Tell, OwnerTypeOK, Final
  <2>2. CASE BeginRecover(c)
    BY <2>2, ProcessParts, NoneIsNoAnswer, RecoverCases DEF Begin, Tell, OwnerTypeOK, Final
  <2>3. CASE BeginCancel(c)
    BY <2>3, ProcessParts, NoneIsNoAnswer DEF BeginCancel, Begin, Tell, IsFinal, OwnerTypeOK, Final
  <2> QED
    BY <1>1, <2>1, <2>2, <2>3 DEF Arrive
<1>2. ASSUME NEW c \in Call, CallStep(c) PROVE AnswersMatchRecord'
  <2>1. CASE CreateRequest(c)
    BY <2>1, ProcessParts, NoneIsNoAnswer, CreateCases DEF Tell, StartProcess, OwnerTypeOK, Final
  <2>2. CASE WriteRequest(c)
    BY <2>2, ProcessParts, NoneIsNoAnswer DEF WriteRequest, StartProcess, OwnerTypeOK, Final
  <2>3. CASE Start(c)
    BY <2>3, ProcessParts, NoneIsNoAnswer DEF Start, StartProcess, OwnerTypeOK, Final
  <2>4. CASE ReceiveStarted(c)
    BY <2>4, ProcessParts, NoneIsNoAnswer DEF ReceiveStarted, Tell, Confirmed, HandleRecorded, OwnerTypeOK, Final
  <2>5. CASE ReceiveAlreadyOwned(c)
    BY <2>5, ProcessParts, NoneIsNoAnswer DEF ReceiveAlreadyOwned, OwnerTypeOK, Final
  <2>6. CASE CheckOwned(c)
    BY <2>6, ProcessParts, NoneIsNoAnswer DEF CheckOwned, Tell, Confirmed, OwnerTypeOK, Final
  <2>7. CASE StartFailed(c)
    BY <2>7, ProcessParts, NoneIsNoAnswer DEF StartFailed, Tell, OwnerTypeOK, Final
  <2>8. CASE LinkKey(Caller(c))
    BY <2>8, ProcessParts, NoneIsNoAnswer DEF LinkKey, OwnerTypeOK, Final
  <2>9. CASE RereadKey(Caller(c))
    BY <2>9, ProcessParts, NoneIsNoAnswer DEF RereadKey, OwnerTypeOK, Final
  <2>10. CASE Connect(c)
    BY <2>10, ProcessParts, NoneIsNoAnswer DEF Connect, OwnerTypeOK, Final
  <2>11. CASE Recheck(c)
    BY <2>11, ProcessParts, NoneIsNoAnswer DEF Recheck, Tell, IsFinal, OwnerTypeOK, Final
  <2>12. CASE ReceiveAnswer(c)
    BY <2>12, ProcessParts, NoneIsNoAnswer DEF ReceiveAnswer, Tell, AskedInVain, AnswersFinal, OwnerTypeOK, Final
  <2>13. CASE ConnectionLost(c)
    BY <2>13, ProcessParts, NoneIsNoAnswer DEF ConnectionLost, Tell, AskedInVain, OwnerTypeOK, Final
  <2>14. CASE LastCheck(c)
    BY <2>14, ProcessParts, NoneIsNoAnswer DEF LastCheck, Tell, IsFinal, OwnerTypeOK, Final
  <2> QED
    BY <1>2, <2>1, <2>2, <2>3, <2>4, <2>5, <2>6, <2>7, <2>8, <2>9, <2>10, <2>11, <2>12, <2>13, <2>14 DEF CallStep
<1>3. ASSUME NEW c \in Call, OwnerStep(c) PROVE AnswersMatchRecord'
  <2>1. CASE LinkKey(Owner(c))
    BY <2>1, ProcessParts, NoneIsNoAnswer DEF LinkKey, OwnerTypeOK, Final
  <2>2. CASE RereadKey(Owner(c))
    BY <2>2, ProcessParts, NoneIsNoAnswer DEF RereadKey, OwnerTypeOK, Final
  <2>3. CASE Bind(c)
    BY <2>3, ProcessParts, NoneIsNoAnswer DEF Bind, OwnerTypeOK, Final
  <2>4. CASE ReportOwned(c)
    BY <2>4, ProcessParts, NoneIsNoAnswer DEF ReportOwned, Gone, OwnerTypeOK, Final
  <2>5. CASE Recover(c)
    BY <2>5, ProcessParts, NoneIsNoAnswer DEF Recover, OwnerTypeOK, Final
  <2>6. CASE CleanupRecovered(c)
    BY <2>6, ProcessParts, NoneIsNoAnswer DEF CleanupRecovered, OwnerTypeOK, Final
  <2>7. CASE SpawnTask(c)
    BY <2>7, ProcessParts, NoneIsNoAnswer, RecordMoves DEF SpawnTask, Activate, Fails, RecordGoesOn, IsFinal, OwnerTypeOK, Final
  <2>8. CASE Settle(c)
    BY <2>8, ProcessParts, NoneIsNoAnswer, RecordMoves DEF Settle, RecordGoesOn, IsFinal, OwnerTypeOK, Final
  <2>9. CASE CleanUp(c)
    BY <2>9, ProcessParts, NoneIsNoAnswer, RecordMoves DEF CleanUp, Answered, RecordGoesOn, IsFinal, OwnerTypeOK, Final
  <2>10. CASE AwaitResult(c)
    BY <2>10, ProcessParts, NoneIsNoAnswer DEF AwaitResult, OwnerTypeOK, Final
  <2>11. CASE RecoverWhileClosing(c)
    BY <2>11, ProcessParts, NoneIsNoAnswer DEF RecoverWhileClosing, OwnerTypeOK, Final
  <2>12. CASE Release(c)
    BY <2>12, ProcessParts, NoneIsNoAnswer DEF Release, OwnerTypeOK, Final
  <2>13. CASE Exit(c)
    BY <2>13, ProcessParts, NoneIsNoAnswer DEF Exit, Gone, OwnerTypeOK, Final
  <2>14. CASE StartCancel(c)
    BY <2>14, ProcessParts, NoneIsNoAnswer, RecordMoves DEF StartCancel, Asked, CancelRefused, RecordGoesOn, IsFinal, OwnerTypeOK, Final
  <2>15. CASE SettleCancel(c)
    BY <2>15, ProcessParts, NoneIsNoAnswer, RecordMoves DEF SettleCancel, CancelRefused, RecordGoesOn, IsFinal, OwnerTypeOK, Final
  <2>16. CASE \E d \in Call : AnswerRequest(c, d)
    BY <2>16, ProcessParts, NoneIsNoAnswer DEF AnswerRequest, OwnerTypeOK, Final
  <2> QED
    BY <1>3, <2>1, <2>2, <2>3, <2>4, <2>5, <2>6, <2>7, <2>8, <2>9, <2>10, <2>11, <2>12, <2>13, <2>14, <2>15, <2>16 DEF OwnerStep
<1>4. ASSUME NEW c \in Call, Trouble(c) PROVE AnswersMatchRecord'
  <2>1. CASE RequestTimesOut(c)
    BY <2>1, ProcessParts, NoneIsNoAnswer DEF RequestTimesOut, Tell, AskedInVain, OwnerTypeOK, Final
  <2>2. CASE CallFails(c)
    BY <2>2, ProcessParts, NoneIsNoAnswer DEF CallFails, Tell, OwnerTypeOK, Final
  <2>3. CASE AcquireFails(c)
    BY <2>3, ProcessParts, NoneIsNoAnswer DEF AcquireFails, Gone, OwnerTypeOK, Final
  <2>4. CASE RecoverFails(c)
    BY <2>4, ProcessParts, NoneIsNoAnswer DEF RecoverFails, Fails, OwnerTypeOK, Final
  <2>5. CASE SpawnFails(c)
    BY <2>5, ProcessParts, NoneIsNoAnswer, RecordMoves DEF SpawnFails, Fails, RecordGoesOn, IsFinal, OwnerTypeOK, Final
  <2>6. CASE DriveFails(c)
    BY <2>6, ProcessParts, NoneIsNoAnswer DEF DriveFails, Answered, OwnerTypeOK, Final
  <2>7. CASE StartCancelFails(c)
    BY <2>7, ProcessParts, NoneIsNoAnswer DEF StartCancelFails, Asked, OwnerTypeOK, Final
  <2>8. CASE CancelFails(c)
    BY <2>8, ProcessParts, NoneIsNoAnswer DEF CancelFails, OwnerTypeOK, Final
  <2>9. CASE OwnerDies(c)
    BY <2>9, ProcessParts, NoneIsNoAnswer DEF OwnerDies, Gone, OwnerTypeOK, Final
  <2>10. CASE CallerDies(c)
    BY <2>10, ProcessParts, NoneIsNoAnswer DEF CallerDies, OwnerTypeOK, Final
  <2> QED
    BY <1>4, <2>1, <2>2, <2>3, <2>4, <2>5, <2>6, <2>7, <2>8, <2>9, <2>10 DEF Trouble
<1>5. CASE UNCHANGED vars
  BY <1>5 DEF vars, OwnerTypeOK, Final
<1> QED
  BY <1>1, <1>2, <1>3, <1>4, <1>5 DEF Next

LEMMA OwnerInit == Init => OwnerIInv
<1> SUFFICES ASSUME Init
             PROVE  OwnerIInv
  OBVIOUS
<1> USE DEF Init
<1>1. \A p \in Process : pc[p] \in {"idle", "none"}
  OBVIOUS
<1>2. \A c \in Call : pc[Owner(c)] = "none"
  BY ProcessParts
<1>3. OwnerTypeOK
  <2>1. /\ NoConn \in Links /\ NoOperation \in Records /\ "none" \in Doings
        /\ None \in Replies /\ {"idle", "none"} \subseteq Places
    BY LinksTyped DEF Records, Doings, Replies, Places
  <2>2. pc \in [Process -> Places]
    BY <2>1
  <2> QED
    BY <2>1, <2>2 DEF OwnerTypeOK
<1>4. KeyOnDisk /\ OneReservation /\ StartsOneProcess
  BY <1>1, <1>2, ProcessParts DEF KeyOnDisk, OneReservation, StartsOneProcess, Alive
<1>5. FailuresCounted /\ WorkKept
  BY <1>2 DEF FailuresCounted, WorkKept, Working
<1>6. HandleRecorded /\ AnswersFinal /\ AnswersMatchRecord
  BY NoneIsNoAnswer DEF HandleRecorded, AnswersFinal, AnswersMatchRecord, NoConn, Final
<1> QED
  BY <1>3, <1>4, <1>5, <1>6 DEF OwnerIInv

-----------------------------------------------------------------------------
(* While nothing has failed.                                               *)

\* A call begins with what nobody has done or said for it.
CallsBegin ==
  \A c \in Call :
    /\ began[c] <= deaths
    /\ pc[Caller(c)] = "idle" => reply[c] = None
    /\ pc[Owner(c)] = "none" => ipc[c] = None
    /\ reply[c] = "skipped" => IsSettled

\* What the Runtime of an owner does is what the record asks for, and it has
\* nothing left to do when it says so: without a failure no other writes the record.
DriveTrue(o) ==
  /\ pc[Owner(o)] = "recovering" => drive[o] \in {"none", "cleaning", "settled"}
  /\ drive[o] = "none" =>
       \/ pc[Owner(o)] = "recovering"
       \/ pc[Owner(o)] = "spawning" /\ record = NoOperation
  /\ drive[o] # "returned"
  /\ drive[o] \in {"settled", "failed"} => IsSettled
  /\ drive[o] = "executing" =>
       record.state = IF cancellation[o] = "running" THEN "cancelling" ELSE "open"
  /\ drive[o] = "cancelling" => record.state = "cancelling"
  /\ drive[o] # "executing" /\ cancellation[o] = "running" => drive[o] = "cleaning"

DriveIsTrue == faults = 0 => \A o \in Call : Alive(o) => DriveTrue(o)

\* A process that has not reserved the Operation has no Runtime.
DrivesWhenBound ==
  \A o \in Call : pc[Owner(o)] \in {"none", "linking", "rereading", "binding"} => drive[o] = "none"

\* Calls that were told of an owner or will be: by their own, or by one that has
\* found another in its place.
Pledged(c) ==
  \/ reply[c] = "started" \/ pc[Caller(c)] = "checking"
  \/ ipc[c] \in {"started", "already_owned"} \/ pc[Owner(c)] = "refused"

\* The owner they were told of stays until the Operation is settled.
PledgesKept ==
  \A c \in Call : faults = 0 /\ deaths = began[c] /\ Pledged(c) =>
    IsSettled \/ \E o \in Call : Alive(o)

DrivenIInv == CallsBegin /\ DrivesWhenBound /\ DriveIsTrue /\ PledgesKept

\* What a call does to the owners: nothing, but for the process it starts.
OthersStay ==
  \A o \in Call : \/ pc'[Owner(o)] = pc[Owner(o)]
                  \/ pc[Owner(o)] = "none" /\ pc'[Owner(o)] = "linking"

OwnersLeft ==
  /\ drive' = drive /\ cancellation' = cancellation /\ record' = record /\ faults' = faults
  /\ OthersStay

LEMMA CallersMove ==
  ASSUME OwnerTypeOK, NEW c \in Call
  PROVE  /\ \A s : Goto(Caller(c), s) => OthersStay
         /\ StartProcess(c) /\ pc[Owner(c)] = "none" => OthersStay
<1>1. \A o \in Call : Owner(o) \in Process /\ Owner(o) # Caller(c) /\ (Owner(o) = Owner(c) => o = c)
  BY ProcessParts
<1>2. pc \in [Process -> Places]
  BY DEF OwnerTypeOK
<1>3. ASSUME NEW s, Goto(Caller(c), s) PROVE OthersStay
  BY <1>1, <1>2, <1>3 DEF Goto, OthersStay
<1>4. StartProcess(c) /\ pc[Owner(c)] = "none" => OthersStay
  BY <1>1, <1>2 DEF StartProcess, OthersStay
<1> QED
  BY <1>3, <1>4

LEMMA CallsLeaveOwners ==
  ASSUME OwnerIInv, NEW c \in Call, Arrive(c) \/ CallStep(c)
  PROVE  OwnersLeft
<1>1. OwnerTypeOK /\ StartsOneProcess
  BY DEF OwnerIInv
<1>2. drive' = drive /\ cancellation' = cancellation /\ record' = record /\ faults' = faults
  BY DEF Arrive, BeginBackground, BeginRecover, BeginCancel, CallStep, CreateRequest,
     WriteRequest, Start, ReceiveStarted, ReceiveAlreadyOwned, CheckOwned, StartFailed, LinkKey,
     RereadKey, Connect, Recheck, ReceiveAnswer, ConnectionLost, LastCheck,
     owners, files, counts
<1>3. \A a : Tell(c, a) => Goto(Caller(c), "done")
  BY DEF Tell
<1>4. \/ \E s : Goto(Caller(c), s)
      \/ StartProcess(c) /\ pc[Owner(c)] = "none"
  <2>1. CASE Arrive(c)
    <3>1. CASE BeginBackground(c)
      BY <1>1, <1>3, <3>1, BackgroundCases
    <3>2. CASE BeginRecover(c)
      BY <1>1, <1>3, <3>2, RecoverCases
    <3>3. CASE BeginCancel(c)
      BY <1>3, <3>3 DEF BeginCancel
    <3> QED
      BY <2>1, <3>1, <3>2, <3>3 DEF Arrive
  <2>2. CASE StartProcess(c) /\ pc[Caller(c)] \in {"creating", "writing", "starting"}
    BY <1>1, <2>2 DEF StartsOneProcess
  <2>3. CASE CreateRequest(c)
    BY <1>1, <1>3, <2>2, <2>3, CreateCases
  <2>4. CASE WriteRequest(c) \/ Start(c)
    BY <2>2, <2>4 DEF WriteRequest, Start
  <2>5. CASE ReceiveStarted(c) \/ CheckOwned(c)
    BY <1>3, <2>5 DEF ReceiveStarted, CheckOwned, Confirmed
  <2>6. CASE ReceiveAlreadyOwned(c) \/ StartFailed(c) \/ LinkKey(Caller(c)) \/ RereadKey(Caller(c))
    BY <1>3, <2>6 DEF ReceiveAlreadyOwned, StartFailed, LinkKey, RereadKey
  <2>7. CASE Connect(c) \/ Recheck(c) \/ LastCheck(c)
    BY <1>3, <2>7 DEF Connect, Recheck, LastCheck
  <2>8. CASE ReceiveAnswer(c) \/ ConnectionLost(c)
    BY <1>3, <2>8 DEF ReceiveAnswer, ConnectionLost, AskedInVain
  <2> QED
    BY <2>1, <2>3, <2>4, <2>5, <2>6, <2>7, <2>8 DEF CallStep
<1> QED
  BY <1>1, <1>2, <1>4, CallersMove DEF OwnersLeft

\* What a call says for itself.
CallMoves(c) ==
  /\ \A d \in Call : d # c => pc'[Caller(d)] = pc[Caller(d)]
  /\ pc'[Caller(c)] # "idle"
  /\ ipc' \in {ipc, [ipc EXCEPT ![c] = None]}
  /\ reply' = reply \/ \E a : reply' = [reply EXCEPT ![c] = a] /\ (a = "skipped" => IsSettled)
  /\ began' = began \/ (began' = [began EXCEPT ![c] = deaths] /\ pc[Caller(c)] = "idle")
  /\ pc'[Caller(c)] = "checking" => ipc[c] = "already_owned"
  /\ reply' = reply \/ (reply'[c] = "started" => Pledged(c))

LEMMA CallGoes ==
  ASSUME OwnerTypeOK, NEW c \in Call, NEW s, Goto(Caller(c), s)
  PROVE  /\ \A d \in Call : d # c => pc'[Caller(d)] = pc[Caller(d)]
         /\ pc'[Caller(c)] = s
<1>1. \A d \in Call : Caller(d) \in Process /\ (Caller(d) = Caller(c) => c = d)
  BY ProcessParts
<1>2. pc \in [Process -> Places]
  BY DEF OwnerTypeOK
<1> QED
  BY <1>1, <1>2 DEF Goto

LEMMA CallStarts ==
  ASSUME OwnerTypeOK, NEW c \in Call, StartProcess(c)
  PROVE  /\ \A d \in Call : d # c => pc'[Caller(d)] = pc[Caller(d)]
         /\ pc'[Caller(c)] = "confirming"
<1>1. \A d \in Call : /\ Caller(d) \in Process /\ (Caller(d) = Caller(c) => c = d)
                      /\ Caller(d) # Owner(c)
  BY ProcessParts
<1>2. pc \in [Process -> Places]
  BY DEF OwnerTypeOK
<1> QED
  BY <1>1, <1>2 DEF StartProcess

\* A call that does not answer its caller yet, and one that does.
LEMMA CallProceeds ==
  ASSUME OwnerTypeOK, NEW c \in Call, NEW s, Goto(Caller(c), s), s # "idle",
         s = "checking" => ipc[c] = "already_owned",
         ipc' \in {ipc, [ipc EXCEPT ![c] = None]}, reply' = reply,
         began' = began \/ (began' = [began EXCEPT ![c] = deaths] /\ pc[Caller(c)] = "idle")
  PROVE  CallMoves(c)
  BY CallGoes DEF CallMoves

LEMMA CallTells ==
  ASSUME OwnerTypeOK, NEW c \in Call, NEW a \in Replies, Tell(c, a),
         a = "skipped" => IsSettled, a = "started" => Pledged(c),
         ipc' \in {ipc, [ipc EXCEPT ![c] = None]},
         began' = began \/ (began' = [began EXCEPT ![c] = deaths] /\ pc[Caller(c)] = "idle")
  PROVE  CallMoves(c)
<1>1. Goto(Caller(c), "done") /\ reply' = [reply EXCEPT ![c] = a] /\ reply'[c] = a
  BY DEF Tell, OwnerTypeOK
<1>2. \E b : reply' = [reply EXCEPT ![c] = b] /\ (b = "skipped" => IsSettled)
  BY <1>1
<1>3. /\ \A d \in Call : d # c => pc'[Caller(d)] = pc[Caller(d)]
      /\ pc'[Caller(c)] = "done"
  BY <1>1, CallGoes
<1> QED
  BY <1>1, <1>2, <1>3 DEF CallMoves

LEMMA CallsMove ==
  ASSUME OwnerIInv, NEW c \in Call, Arrive(c) \/ CallStep(c)
  PROVE  CallMoves(c) /\ deaths' = deaths
<1> USE DEF calls, links, files, counts
<1>1. OwnerTypeOK /\ {"error", "nothing", "skipped", "started"} \subseteq Replies /\ Final \subseteq Replies
      /\ "started" \notin Final /\ "skipped" \notin Final
  BY RepliesTyped, FinalReplies DEF OwnerIInv, Replies, Final
<1>2. deaths' = deaths
  BY DEF Arrive, BeginBackground, BeginRecover, BeginCancel, CallStep, CreateRequest,
     WriteRequest, Start, ReceiveStarted, ReceiveAlreadyOwned, CheckOwned, StartFailed, LinkKey,
     RereadKey, Connect, Recheck, ReceiveAnswer, ConnectionLost, LastCheck
<1>3. ASSUME NEW k, Begin(c, k)
      PROVE  began' = [began EXCEPT ![c] = deaths] /\ pc[Caller(c)] = "idle"
  BY <1>3 DEF Begin
<1>4. CASE BeginBackground(c)
  BY <1>1, <1>3, <1>4, BackgroundCases, CallProceeds, CallTells
<1>5. CASE BeginRecover(c)
  <2>1. \/ Goto(Caller(c), "starting") /\ UNCHANGED reply
        \/ Tell(c, "error") \/ Tell(c, "nothing")
        \/ IsSettled /\ Tell(c, "skipped")
    BY <1>1, <1>5 DEF BeginRecover, OwnerTypeOK
  <2> QED
    BY <1>1, <1>3, <1>5, <2>1, CallProceeds, CallTells DEF BeginRecover
<1>6. CASE BeginCancel(c)
  BY <1>1, <1>3, <1>6, CallProceeds, CallTells DEF BeginCancel, IsFinal
<1>7. CASE CreateRequest(c)
  <2>1. ipc' = ipc /\ began' = began
    BY <1>7 DEF CreateRequest
  <2>2. ASSUME StartProcess(c), reply' = reply PROVE CallMoves(c)
    <3>1. /\ \A d \in Call : d # c => pc'[Caller(d)] = pc[Caller(d)]
          /\ pc'[Caller(c)] = "confirming"
      BY <1>1, <2>2, CallStarts
    <3> QED
      BY <2>1, <2>2, <3>1 DEF CallMoves
  <2>3. ASSUME Goto(Caller(c), "writing"), reply' = reply PROVE CallMoves(c)
    BY <1>1, <2>1, <2>3, CallProceeds
  <2>4. ASSUME Tell(c, "error") PROVE CallMoves(c)
    BY <1>1, <2>1, <2>4, CallTells
  <2> QED
    BY <1>1, <1>7, <2>2, <2>3, <2>4, CreateCases
<1>8. CASE WriteRequest(c) \/ Start(c)
  BY <1>1, <1>8, CallStarts DEF WriteRequest, Start, CallMoves
<1>9. CASE ReceiveStarted(c) \/ CheckOwned(c)
  <2>1. Pledged(c) /\ ipc' \in {ipc, [ipc EXCEPT ![c] = None]} /\ began' = began
    BY <1>9 DEF ReceiveStarted, CheckOwned, Pledged
  <2>2. (Goto(Caller(c), "linking") /\ UNCHANGED reply) \/ Tell(c, "started") \/ Tell(c, "error")
    BY <1>9 DEF ReceiveStarted, CheckOwned, Confirmed
  <2>3. ASSUME Goto(Caller(c), "linking"), reply' = reply PROVE CallMoves(c)
    BY <1>1, <2>1, <2>3, CallProceeds
  <2>4. ASSUME NEW a \in {"started", "error"}, Tell(c, a) PROVE CallMoves(c)
    BY <1>1, <2>1, <2>4, CallTells
  <2> QED
    BY <1>2, <2>2, <2>3, <2>4
<1>10. CASE ReceiveAlreadyOwned(c)
  BY <1>1, <1>10, CallProceeds DEF ReceiveAlreadyOwned
<1>11. CASE StartFailed(c)
  BY <1>1, <1>11, CallTells DEF StartFailed
<1>12. CASE LinkKey(Caller(c)) \/ RereadKey(Caller(c))
  <2>1. Caller(c)[1] = "caller"
    BY ProcessParts
  <2> QED
    BY <1>1, <1>12, <2>1, CallProceeds DEF LinkKey, RereadKey
<1>13. CASE Connect(c) \/ Recheck(c) \/ LastCheck(c)
  BY <1>1, <1>13, CallProceeds, CallTells DEF Connect, Recheck, LastCheck, IsFinal
<1>14. CASE ReceiveAnswer(c) \/ ConnectionLost(c)
  BY <1>1, <1>14, CallProceeds, CallTells DEF ReceiveAnswer, ConnectionLost, AskedInVain, Final
<1> QED
  BY <1>2, <1>4, <1>5, <1>6, <1>7, <1>8, <1>9, <1>10, <1>11, <1>12, <1>13, <1>14 DEF Arrive, CallStep

LEMMA CallTroublesMove ==
  ASSUME OwnerIInv, NEW c \in Call, RequestTimesOut(c) \/ CallFails(c) \/ CallerDies(c)
  PROVE  /\ CallMoves(c) /\ OthersStay /\ record' = record
         /\ \/ deaths' = deaths /\ faults' # 0
            \/ deaths' = deaths + 1
<1> USE DEF calls, links, files, counts
<1>1. OwnerTypeOK /\ "error" \in Replies
  BY RepliesTyped DEF OwnerIInv
<1>2. CASE RequestTimesOut(c)
  <2>1. (Goto(Caller(c), "lastcheck") /\ reply' = reply) \/ Tell(c, "error")
    BY <1>2 DEF RequestTimesOut, AskedInVain
  <2>2. ipc' = ipc /\ began' = began /\ record' = record /\ deaths' = deaths /\ faults' # 0
    BY <1>1, <1>2 DEF RequestTimesOut, Fault, OwnerTypeOK
  <2>3. Tell(c, "error") => Goto(Caller(c), "done")
    BY DEF Tell
  <2> QED
    BY <1>1, <2>1, <2>2, <2>3, CallProceeds, CallTells, CallersMove
<1>3. CASE CallFails(c)
  <2>1. (Goto(Caller(c), "lastcheck") /\ reply' = reply) \/ Tell(c, "error")
    BY <1>3 DEF CallFails
  <2>2. ipc' = ipc /\ began' = began /\ record' = record /\ deaths' = deaths /\ faults' # 0
    BY <1>1, <1>3 DEF CallFails, Fault, OwnerTypeOK
  <2>3. Tell(c, "error") => Goto(Caller(c), "done")
    BY DEF Tell
  <2> QED
    BY <1>1, <2>1, <2>2, <2>3, CallProceeds, CallTells, CallersMove
<1>4. CASE CallerDies(c)
  <2>1. Goto(Caller(c), "dead")
    BY <1>4 DEF CallerDies
  <2>2. ipc' = ipc /\ began' = began /\ reply' = reply /\ record' = record /\ deaths' = deaths + 1
    BY <1>4 DEF CallerDies, Death
  <2> QED
    BY <1>1, <2>1, <2>2, CallProceeds, CallersMove
<1> QED
  BY <1>2, <1>3, <1>4

\* What an owner says, and where it goes.
OwnerMoves(o) ==
  /\ reply' = reply /\ began' = began
  /\ \A d \in Call : pc'[Caller(d)] = pc[Caller(d)]
  /\ \A d \in Call : d # o => pc'[Owner(d)] = pc[Owner(d)]
  /\ \/ pc' = pc /\ ipc' = ipc
     \/ /\ pc[Owner(o)] # "none" /\ pc'[Owner(o)] # "none"
        /\ ipc' = ipc \/ \E a : ipc' = [ipc EXCEPT ![o] = a]

LEMMA OwnerGoes ==
  ASSUME OwnerTypeOK, NEW o \in Call, NEW s, Goto(Owner(o), s)
  PROVE  /\ \A d \in Call : pc'[Caller(d)] = pc[Caller(d)]
         /\ \A d \in Call : d # o => pc'[Owner(d)] = pc[Owner(d)]
         /\ pc'[Owner(o)] = s
<1>1. \A d \in Call : /\ Caller(d) \in Process /\ Owner(d) \in Process
                      /\ Caller(d) # Owner(o) /\ (Owner(d) = Owner(o) => d = o)
  BY ProcessParts
<1>2. pc \in [Process -> Places]
  BY DEF OwnerTypeOK
<1> QED
  BY <1>1, <1>2 DEF Goto

LEMMA OwnersMove ==
  ASSUME OwnerIInv, NEW o \in Call,
         OwnerStep(o) \/ AcquireFails(o) \/ RecoverFails(o) \/ SpawnFails(o) \/ DriveFails(o)
         \/ StartCancelFails(o) \/ CancelFails(o) \/ OwnerDies(o)
  PROVE  OwnerMoves(o)
<1> USE DEF calls, links, files, counts
<1>1. OwnerTypeOK
  BY DEF OwnerIInv
<1>2. reply' = reply /\ began' = began
  BY DEF OwnerStep, LinkKey, RereadKey, Bind, ReportOwned, Recover, CleanupRecovered, SpawnTask,
     Settle, CleanUp, AwaitResult, RecoverWhileClosing, Release, Exit, StartCancel, SettleCancel,
     AnswerRequest, AcquireFails, RecoverFails, SpawnFails, DriveFails, StartCancelFails,
     CancelFails, OwnerDies
<1>3. ASSUME pc' = pc, ipc' = ipc PROVE OwnerMoves(o)
  BY <1>2, <1>3 DEF OwnerMoves
<1>4. ASSUME NEW s, Goto(Owner(o), s), s # "none", pc[Owner(o)] # "none",
             ipc' = ipc \/ \E a : ipc' = [ipc EXCEPT ![o] = a]
      PROVE  OwnerMoves(o)
  BY <1>1, <1>2, <1>4, OwnerGoes DEF OwnerMoves
<1>5. CASE LinkKey(Owner(o)) \/ RereadKey(Owner(o))
  <2>1. Owner(o)[1] = "owner"
    BY ProcessParts
  <2> QED
    BY <1>4, <1>5, <2>1 DEF LinkKey, RereadKey
<1>6. CASE Bind(o) \/ Recover(o) \/ CleanupRecovered(o) \/ AwaitResult(o) \/ Release(o)
  BY <1>4, <1>6 DEF Bind, Recover, CleanupRecovered, AwaitResult, Release
<1>7. CASE ReportOwned(o) \/ Exit(o) \/ AcquireFails(o) \/ OwnerDies(o)
  <2>1. Goto(Owner(o), "gone") /\ pc[Owner(o)] # "none"
    BY <1>7 DEF ReportOwned, Exit, AcquireFails, OwnerDies, Gone
  <2>2. ipc' = ipc \/ \E a : ipc' = [ipc EXCEPT ![o] = a]
    BY <1>7 DEF ReportOwned, Exit, AcquireFails, OwnerDies
  <2> QED
    BY <1>4, <2>1, <2>2
<1>8. CASE SpawnTask(o)
  BY <1>4, <1>8 DEF SpawnTask, Activate
<1>9. CASE RecoverFails(o) \/ SpawnFails(o)
  BY <1>4, <1>9 DEF RecoverFails, SpawnFails
<1>10. CASE Settle(o) \/ CleanUp(o) \/ RecoverWhileClosing(o) \/ StartCancel(o) \/ SettleCancel(o)
           \/ DriveFails(o) \/ StartCancelFails(o) \/ CancelFails(o)
           \/ \E c \in Call : AnswerRequest(o, c)
  BY <1>3, <1>10 DEF Settle, CleanUp, RecoverWhileClosing, StartCancel, SettleCancel, DriveFails,
     StartCancelFails, CancelFails, AnswerRequest
<1> QED
  BY <1>5, <1>6, <1>7, <1>8, <1>9, <1>10 DEF OwnerStep

\* A settled Operation stays so.
LEMMA SettledStays ==
  ASSUME OwnerIInv, [Next]_vars, IsSettled
  PROVE  IsSettled'
<1> USE DEF files
<1>1. IsFinal /\ ~record.cleanup /\ record # NoOperation /\ record.state \notin {"open", "cancelling"}
  BY DEF IsSettled, IsFinal, NoOperation, Final
<1>2. IsFinal'
  BY <1>1, RecordMoves DEF RecordGoesOn, IsFinal
<1>3. record' = record \/ record' = [record EXCEPT !.cleanup = FALSE]
  <2>1. ASSUME NEW c \in Call, Arrive(c) \/ CallStep(c) PROVE record' = record
    BY <2>1, CallsLeaveOwners DEF OwnersLeft
  <2>2. ASSUME NEW c \in Call, SpawnTask(c) \/ SpawnFails(c) PROVE record' = record
    BY <1>1, <2>2 DEF SpawnTask, SpawnFails
  <2>3. ASSUME NEW c \in Call, Settle(c) PROVE record' = record
    BY <1>1, <2>3 DEF Settle
  <2>4. ASSUME NEW c \in Call, StartCancel(c) \/ SettleCancel(c) PROVE record' = record
    BY <1>1, <2>4 DEF StartCancel, SettleCancel
  <2>5. ASSUME NEW c \in Call, CleanUp(c) PROVE record' = [record EXCEPT !.cleanup = FALSE]
    BY <2>5 DEF CleanUp
  <2>6. ASSUME NEW c \in Call, OwnerStep(c) PROVE \/ record' = record
                                                \/ record' = [record EXCEPT !.cleanup = FALSE]
    BY <2>2, <2>3, <2>4, <2>5, <2>6 DEF OwnerStep, LinkKey, RereadKey, Bind, ReportOwned, Recover,
       CleanupRecovered, AwaitResult, RecoverWhileClosing, Release, Exit, AnswerRequest
  <2>7. ASSUME NEW c \in Call, Trouble(c) PROVE record' = record
    BY <2>2, <2>7 DEF Trouble, RequestTimesOut, CallFails, AcquireFails, RecoverFails, DriveFails,
       StartCancelFails, CancelFails, OwnerDies, CallerDies
  <2> QED
    BY <2>1, <2>6, <2>7 DEF Next, vars
<1>4. ~record'.cleanup
  BY <1>1, <1>3 DEF OwnerIInv, OwnerTypeOK, Records, NoOperation
<1> QED
  BY <1>2, <1>4 DEF IsSettled, IsFinal

\* Every step is one of a call or one of an owner.
LEMMA WhoMoves ==
  ASSUME OwnerIInv, Next
  PROVE  \/ \E c \in Call : CallMoves(c) /\ OthersStay /\ record' = record
         \/ \E o \in Call : OwnerMoves(o)
<1> PICK x \in Call : Arrive(x) \/ CallStep(x) \/ OwnerStep(x) \/ Trouble(x)
  BY DEF Next
<1>1. CASE Arrive(x) \/ CallStep(x)
  BY <1>1, CallsMove, CallsLeaveOwners DEF OwnersLeft
<1>2. CASE OwnerStep(x)
  BY <1>2, OwnersMove
<1>3. CASE Trouble(x)
  BY <1>3, OwnersMove, CallTroublesMove DEF Trouble
<1> QED
  BY <1>1, <1>2, <1>3

LEMMA DeathsGrow ==
  ASSUME OwnerIInv, [Next]_vars
  PROVE  deaths' = deaths \/ deaths' = deaths + 1
<1> USE DEF counts
<1>1. ASSUME NEW c \in Call, Arrive(c) \/ CallStep(c) PROVE deaths' = deaths
  BY <1>1, CallsMove
<1>2. ASSUME NEW c \in Call, OwnerStep(c) PROVE deaths' = deaths
  BY <1>2 DEF OwnerStep, LinkKey, RereadKey, Bind, ReportOwned, Recover, CleanupRecovered, SpawnTask,
     Settle, CleanUp, AwaitResult, RecoverWhileClosing, Release, Exit, StartCancel, SettleCancel,
     AnswerRequest
<1>3. ASSUME NEW c \in Call, Trouble(c) PROVE deaths' = deaths \/ deaths' = deaths + 1
  BY <1>3 DEF Trouble, RequestTimesOut, CallFails, AcquireFails, RecoverFails, SpawnFails,
     DriveFails, StartCancelFails, CancelFails, OwnerDies, CallerDies, Death
<1> QED
  BY <1>1, <1>2, <1>3 DEF Next, vars

LEMMA CallsBeginKept ==
  ASSUME OwnerIInv, CallsBegin, [Next]_vars
  PROVE  CallsBegin'
<1>1. OwnerTypeOK
  BY DEF OwnerIInv
<1>2. IsSettled => IsSettled'
  BY SettledStays
<1>3. ASSUME NEW c \in Call, CallMoves(c), OthersStay
      PROVE  CallsBegin'
  <2>1. deaths \in Nat /\ began \in [Call -> Nat] /\ deaths' >= deaths
    BY <1>1, DeathsGrow DEF OwnerTypeOK
  <2>2. \A d \in Call : began'[d] <= deaths'
    <3> TAKE d \in Call
    <3>1. began[d] \in Nat /\ began[d] <= deaths /\ deaths' \in Nat
      BY <2>1, DeathsGrow DEF CallsBegin
    <3>2. began'[d] \in {began[d], deaths}
      BY <1>3, <2>1 DEF CallMoves
    <3> QED
      BY <2>1, <3>1, <3>2
  <2>3. \A d \in Call : pc'[Caller(d)] = "idle" => reply'[d] = None
    BY <1>1, <1>3 DEF CallMoves, CallsBegin, OwnerTypeOK
  <2>4. \A d \in Call : pc'[Owner(d)] = "none" => ipc'[d] = None
    BY <1>1, <1>3 DEF CallMoves, CallsBegin, OwnerTypeOK, OthersStay
  <2>5. \A d \in Call : reply'[d] = "skipped" => IsSettled'
    BY <1>1, <1>2, <1>3 DEF CallMoves, CallsBegin, OwnerTypeOK
  <2> QED
    BY <2>2, <2>3, <2>4, <2>5 DEF CallsBegin
<1>4. ASSUME NEW o \in Call, OwnerMoves(o)
      PROVE  CallsBegin'
  <2>1. deaths \in Nat /\ began \in [Call -> Nat] /\ deaths' >= deaths
    BY <1>1, DeathsGrow DEF OwnerTypeOK
  <2>2. \A d \in Call : began'[d] <= deaths'
    <3> TAKE d \in Call
    <3>1. began[d] \in Nat /\ began[d] <= deaths /\ deaths' \in Nat
      BY <2>1, DeathsGrow DEF CallsBegin
    <3>2. began'[d] \in {began[d], deaths}
      BY <1>4, <2>1 DEF OwnerMoves
    <3> QED
      BY <2>1, <3>1, <3>2
  <2>3. \A d \in Call : pc'[Owner(d)] = "none" => ipc'[d] = None
    BY <1>1, <1>4 DEF OwnerMoves, CallsBegin, OwnerTypeOK
  <2> QED
    BY <1>2, <1>4, <2>2, <2>3 DEF OwnerMoves, CallsBegin
<1>5. CASE UNCHANGED vars
  BY <1>1, <1>5 DEF vars, calls, links, files, counts, CallsBegin, IsSettled, IsFinal
<1> QED
  BY <1>3, <1>4, <1>5, WhoMoves

LEMMA OwnerMovesTo ==
  ASSUME OwnerTypeOK, NEW o \in Call, NEW s, Goto(Owner(o), s)
  PROVE  pc'[Owner(o)] = s
  BY OwnerGoes

\* Without a failure an owner gives up nothing but a settled Operation.
LEMMA AliveUntilSettled ==
  ASSUME OwnerIInv, DriveIsTrue, faults = 0, NEW o \in Call, OwnerStep(o), Alive(o)
  PROVE  Alive(o)' \/ IsSettled
<1> USE OwnerMovesTo
<1>1. OwnerTypeOK /\ pc[Owner(o)] \in {"recovering", "spawning", "owning", "closing"}
  BY DEF OwnerIInv, Alive
<1>2. CASE Release(o)
  <2>1. pc[Owner(o)] = "closing" /\ drive[o] \notin {"executing", "cancelling", "cleaning"}
    BY <1>2 DEF Release, Working
  <2>2. drive[o] \in {"settled", "failed"}
    BY <1>1, <2>1 DEF DriveIsTrue, DriveTrue, OwnerTypeOK, Doings
  <2> QED
    BY <2>2 DEF DriveIsTrue, DriveTrue
<1>3. CASE pc' = pc
  BY <1>3 DEF Alive
<1>4. CASE Recover(o) \/ CleanupRecovered(o) \/ AwaitResult(o)
  BY <1>1, <1>4 DEF Recover, CleanupRecovered, AwaitResult, Alive
<1>5. CASE SpawnTask(o)
  BY <1>1, <1>5 DEF SpawnTask, Activate, Alive
<1>6. ~(LinkKey(Owner(o)) \/ RereadKey(Owner(o)) \/ Bind(o) \/ ReportOwned(o) \/ Exit(o))
  BY <1>1 DEF LinkKey, RereadKey, Bind, ReportOwned, Exit
<1>7. Settle(o) \/ CleanUp(o) \/ RecoverWhileClosing(o) \/ StartCancel(o) \/ SettleCancel(o)
      \/ (\E c \in Call : AnswerRequest(o, c)) => pc' = pc
  BY DEF Settle, CleanUp, RecoverWhileClosing, StartCancel, SettleCancel, AnswerRequest
<1> QED
  BY <1>2, <1>3, <1>4, <1>5, <1>6, <1>7 DEF OwnerStep

\* Who is refused the address was refused it by another owner.
LEMMA RefusedByAnother ==
  ASSUME OwnerIInv, NEW o \in Call, OwnerStep(o), pc'[Owner(o)] = "refused", pc[Owner(o)] # "refused"
  PROVE  \E p \in Call : p # o /\ Alive(p)
<1>1. OwnerTypeOK
  BY DEF OwnerIInv
<1>2. \A s : Goto(Owner(o), s) => s = "refused"
  BY <1>1, OwnerMovesTo
<1>3. Owner(o)[1] = "owner"
  BY ProcessParts
<1>4. Bind(o)
  BY <1>2, <1>3 DEF OwnerStep, LinkKey, RereadKey, ReportOwned, Gone, Recover, CleanupRecovered,
     SpawnTask, Activate, Settle, CleanUp, AwaitResult, RecoverWhileClosing, Release, Exit,
     StartCancel, SettleCancel, AnswerRequest
<1>5. pc[Owner(o)] = "binding" /\ Listening(key[Owner(o)]) # {}
  BY <1>2, <1>4 DEF Bind
<1> QED
  BY <1>5 DEF Listening, Alive

\* A caller hears of a start when the handle is there.
LEMMA ToldWhenActive ==
  ASSUME OwnerIInv, NEW o \in Call, OwnerStep(o), pc[Owner(o)] # "refused",
         ipc[o] \notin {"started", "already_owned"}, ipc'[o] \in {"started", "already_owned"}
  PROVE  Alive(o)'
<1>1. OwnerTypeOK
  BY DEF OwnerIInv
<1>2. ipc' # ipc
  OBVIOUS
<1>3. ~Exit(o)
  BY <1>1 DEF Exit, OwnerTypeOK
<1>4. SpawnTask(o)
  BY <1>2, <1>3 DEF OwnerStep, LinkKey, RereadKey, Bind, ReportOwned, Recover, CleanupRecovered,
     Settle, CleanUp, AwaitResult, RecoverWhileClosing, Release,
     StartCancel, SettleCancel, AnswerRequest, links
<1>5. Goto(Owner(o), "owning") \/ Goto(Owner(o), "closing")
  BY <1>4 DEF SpawnTask, Activate
<1> QED
  BY <1>1, <1>5, OwnerMovesTo DEF Alive

LEMMA PledgesKeptKept ==
  ASSUME OwnerIInv, CallsBegin, DriveIsTrue, PledgesKept, [Next]_vars
  PROVE  PledgesKept'
<1> SUFFICES ASSUME NEW d \in Call, faults' = 0, deaths' = began'[d], Pledged(d)'
             PROVE  IsSettled' \/ \E o \in Call : Alive(o)'
  BY DEF PledgesKept
<1>1. OwnerTypeOK /\ StartsOneProcess
  BY DEF OwnerIInv
<1>2. IsSettled => IsSettled'
  BY SettledStays
<1>3. Pledged(d) /\ deaths' = deaths /\ began'[d] = began[d] /\ faults' = faults
      => IsSettled \/ \E o \in Call : Alive(o)
  BY DEF PledgesKept
<1>4. began[d] \in Nat /\ deaths \in Nat /\ faults \in Nat /\ began[d] <= deaths
  BY <1>1 DEF OwnerTypeOK, CallsBegin
\* Nothing has been promised to a call that begins.
<1>5. pc[Caller(d)] = "idle" => ~Pledged(d)
  BY <1>1, NoneIsNoAnswer DEF StartsOneProcess, CallsBegin, Pledged
<1>6. ASSUME NEW c \in Call, Arrive(c) \/ CallStep(c)
      PROVE  IsSettled' \/ \E o \in Call : Alive(o)'
  <2>1. CallMoves(c) /\ deaths' = deaths /\ OwnersLeft
    BY <1>6, CallsMove, CallsLeaveOwners
  <2>2. Pledged(d)
    <3>1. ipc'[d] \in {"started", "already_owned"} => ipc[d] = ipc'[d]
      BY <1>1, <2>1, NoneIsNoAnswer DEF CallMoves, OwnerTypeOK
    <3>2. reply'[d] = "started" => Pledged(d)
      BY <1>1, <2>1 DEF CallMoves, OwnerTypeOK, Pledged
    <3>3. pc'[Caller(d)] = "checking" => Pledged(d)
      BY <2>1 DEF CallMoves, Pledged
    <3>4. pc'[Owner(d)] = "refused" => Pledged(d)
      BY <2>1 DEF OwnersLeft, OthersStay, Pledged
    <3> QED
      BY <3>1, <3>2, <3>3, <3>4 DEF Pledged
  <2>3. began'[d] = began[d]
    BY <1>1, <1>5, <2>1, <2>2 DEF CallMoves, OwnerTypeOK
  <2>4. \A o \in Call : Alive(o) => Alive(o)'
    BY <2>1 DEF OwnersLeft, OthersStay, Alive
  <2> QED
    BY <1>2, <1>3, <2>1, <2>2, <2>3, <2>4 DEF OwnersLeft
<1>7. ASSUME NEW o \in Call, OwnerStep(o)
      PROVE  IsSettled' \/ \E p \in Call : Alive(p)'
  <2>1. OwnerMoves(o)
    BY <1>7, OwnersMove
  <2>2. faults' = faults /\ deaths' = deaths /\ began' = began
    BY <1>7, <2>1 DEF OwnerMoves, OwnerStep, LinkKey, RereadKey, Bind, ReportOwned, Recover,
       CleanupRecovered, SpawnTask, Settle, CleanUp, AwaitResult, RecoverWhileClosing, Release,
       Exit, StartCancel, SettleCancel, AnswerRequest, counts
  <2>3. \A p \in Call : p # o /\ Alive(p) => Alive(p)'
    BY <2>1 DEF OwnerMoves, Alive
  <2>4. Alive(o) => Alive(o)' \/ IsSettled
    BY <1>7, <2>2, AliveUntilSettled
  <2>5. CASE Pledged(d)
    BY <1>2, <1>3, <2>2, <2>3, <2>4, <2>5
  <2>6. CASE ~Pledged(d)
    <3>1. d = o
      BY <1>1, <2>1, <2>6 DEF OwnerMoves, OwnerTypeOK, Pledged
    <3>2. CASE pc'[Owner(o)] = "refused"
      BY <1>7, <2>3, <2>6, <3>1, <3>2, RefusedByAnother DEF Pledged
    <3>3. CASE pc'[Owner(o)] # "refused"
      <4>1. pc[Caller(o)] # "checking" /\ reply[o] # "started" /\ pc[Owner(o)] # "refused"
            /\ ipc[o] \notin {"started", "already_owned"}
        BY <2>6, <3>1 DEF Pledged
      <4>2. ipc'[o] \in {"started", "already_owned"}
        BY <2>1, <3>1, <3>3, <4>1 DEF OwnerMoves, Pledged
      <4> QED
        BY <1>1, <1>7, <4>1, <4>2, ToldWhenActive
    <3> QED
      BY <3>2, <3>3
  <2> QED
    BY <2>5, <2>6
<1>8. ASSUME NEW c \in Call, Trouble(c)
      PROVE  FALSE
  <2>1. faults' = faults + 1 \/ deaths' = deaths + 1
    BY <1>8 DEF Trouble, RequestTimesOut, CallFails, AcquireFails, RecoverFails, SpawnFails,
       DriveFails, StartCancelFails, CancelFails, OwnerDies, CallerDies, Fault, Death
  <2>2. began' = began
    BY <1>8 DEF Trouble, RequestTimesOut, CallFails, AcquireFails, RecoverFails, SpawnFails,
       DriveFails, StartCancelFails, CancelFails, OwnerDies, CallerDies, calls
  <2> QED
    BY <1>4, <2>1, <2>2
<1>9. CASE UNCHANGED vars
  BY <1>3, <1>9 DEF vars, calls, links, files, counts, Pledged, Alive, IsSettled, IsFinal
<1> QED
  BY <1>6, <1>7, <1>8, <1>9 DEF Next

\* Without a failure nobody writes the record but the owner that lives.
LEMMA RecordLeft ==
  ASSUME OwnerIInv, NEW o \in Call, OwnerStep(o), ~Alive(o), faults = 0
  PROVE  record' = record
<1>1. ~Working(o)
  BY DEF OwnerIInv, WorkKept
<1>2. ~(Settle(o) \/ CleanUp(o) \/ SettleCancel(o) \/ SpawnTask(o))
  BY <1>1 DEF Working, Settle, CleanUp, SettleCancel, SpawnTask, Alive
<1>3. CASE StartCancel(o)
  <2>1. pc[Owner(o)] = "released" /\ handle[o] = "active"
    BY <1>3 DEF StartCancel, Asked, Alive
  <2>2. record.state # "open"
    BY <2>1 DEF OwnerIInv, FailuresCounted
  <2> QED
    BY <1>3, <2>2 DEF StartCancel
<1> QED
  BY <1>2, <1>3 DEF OwnerStep, LinkKey, RereadKey, Bind, ReportOwned, Recover, CleanupRecovered,
     AwaitResult, RecoverWhileClosing, Release, Exit, AnswerRequest, files

LEMMA DriveFits ==
  ASSUME OwnerTypeOK
  PROVE  /\ Drive \in {"none", "executing", "cancelling", "cleaning", "settled"}
         /\ Drive = "none" => record = NoOperation
         /\ Drive = "executing" => record.state = "open"
         /\ Drive = "cancelling" => record.state = "cancelling"
         /\ Drive = "settled" <=> IsSettled
<1>1. record.state \in {"none", "open", "cancelling"} \cup Final
      /\ (record = NoOperation <=> record.state = "none")
  BY RecordTyped
<1> QED
  BY <1>1 DEF Drive, IsSettled, IsFinal, Final

LEMMA DrivesWhenBoundKept ==
  ASSUME OwnerIInv, DrivesWhenBound, [Next]_vars
  PROVE  DrivesWhenBound'
<1> SUFFICES ASSUME NEW p \in Call, pc'[Owner(p)] \in {"none", "linking", "rereading", "binding"}
             PROVE  drive'[p] = "none"
  BY DEF DrivesWhenBound
<1>1. OwnerTypeOK
  BY DEF OwnerIInv
<1>2. pc[Owner(p)] \in {"none", "linking", "rereading", "binding"} => drive[p] = "none" /\ ~Working(p)
  BY DEF DrivesWhenBound, OwnerIInv, WorkKept, Alive
<1>3. ASSUME NEW c \in Call, Arrive(c) \/ CallStep(c)
      PROVE  drive'[p] = "none"
  BY <1>2, <1>3, CallsLeaveOwners DEF OwnersLeft, OthersStay
<1>4. ASSUME NEW o \in Call, OwnerStep(o) \/ Trouble(o)
      PROVE  drive'[p] = "none"
  <2>1. OwnerMoves(o) \/ (OthersStay /\ drive' = drive)
    BY <1>4, OwnersMove, CallTroublesMove DEF Trouble, RequestTimesOut, CallFails, CallerDies, owners
  <2>2. drive' = drive \/ drive'[p] = drive[p] \/ p = o
    BY <1>1, <1>4 DEF OwnerStep, LinkKey, RereadKey, Bind, ReportOwned, Gone, Recover,
       CleanupRecovered, SpawnTask, Settle, CleanUp, AwaitResult, RecoverWhileClosing,
       Release, Exit, StartCancel, SettleCancel, CancelRefused, AnswerRequest, owners, OwnerTypeOK,
       Trouble, RequestTimesOut, CallFails, AcquireFails, RecoverFails, SpawnFails,
       DriveFails, StartCancelFails, CancelFails, OwnerDies, CallerDies
  <2>3. CASE p # o
    <3>1. pc'[Owner(p)] = pc[Owner(p)] \/ pc[Owner(p)] = "none"
      BY <2>1, <2>3 DEF OwnerMoves, OthersStay
    <3> QED
      BY <1>2, <2>2, <2>3, <3>1
  <2>4. CASE p = o
    <3>1. CASE pc[Owner(p)] \in {"none", "linking", "rereading", "binding"}
      <4>1. drive[p] = "none" /\ ~Working(p)
        BY <1>2, <3>1
      <4>2. drive' = drive \/ Goto(Owner(p), "gone")
        BY <1>4, <2>4, <3>1, <4>1 DEF OwnerStep, LinkKey, RereadKey, Bind, ReportOwned, Gone, Recover,
           CleanupRecovered, SpawnTask, Settle, CleanUp, AwaitResult, RecoverWhileClosing,
           Release, Exit, StartCancel, Asked, SettleCancel, AnswerRequest, owners, Working,
           Trouble, RequestTimesOut, CallFails, AcquireFails, RecoverFails, SpawnFails,
           DriveFails, StartCancelFails, CancelFails, OwnerDies, CallerDies
      <4>3. ~Goto(Owner(p), "gone")
        BY <1>1, OwnerMovesTo
      <4> QED
        BY <4>1, <4>2, <4>3
    <3>2. CASE pc[Owner(p)] \notin {"none", "linking", "rereading", "binding"}
      <4>1. ASSUME NEW s, Goto(Owner(p), s) PROVE s \in {"none", "linking", "rereading", "binding"}
        BY <1>1, <4>1, OwnerMovesTo
      <4>2. ASSUME OthersStay PROVE FALSE
        BY <3>2, <4>2 DEF OthersStay
      <4>3. pc' # pc
        BY <3>2
      <4>4. ASSUME OwnerStep(p) PROVE FALSE
        BY <3>2, <4>1, <4>3, <4>4 DEF OwnerStep, LinkKey, RereadKey, Bind, ReportOwned, Gone, Recover,
           CleanupRecovered, SpawnTask, Activate, Settle, CleanUp, AwaitResult, RecoverWhileClosing,
           Release, Exit, StartCancel, SettleCancel, AnswerRequest
      <4>5. ASSUME Trouble(p) PROVE FALSE
        BY <3>2, <4>1, <4>2, <4>3, <4>5, CallTroublesMove DEF Trouble, AcquireFails, Gone, RecoverFails,
           SpawnFails, DriveFails, StartCancelFails, CancelFails, OwnerDies
      <4> QED
        BY <1>4, <2>4, <4>4, <4>5
    <3> QED
      BY <3>1, <3>2
  <2> QED
    BY <2>3, <2>4
<1>5. CASE UNCHANGED vars
  BY <1>2, <1>5 DEF vars, owners
<1> QED
  BY <1>3, <1>4, <1>5 DEF Next

LEMMA DriveIsTrueKept ==
  ASSUME OwnerIInv, DrivesWhenBound, DriveIsTrue, [Next]_vars
  PROVE  DriveIsTrue'
<1> SUFFICES ASSUME faults' = 0, NEW p \in Call, Alive(p)' PROVE DriveTrue(p)'
  BY DEF DriveIsTrue
<1>1. OwnerTypeOK
  BY DEF OwnerIInv
<1>2. ASSUME faults' = faults, drive'[p] = drive[p], cancellation'[p] = cancellation[p],
             record' = record, pc'[Owner(p)] = pc[Owner(p)]
      PROVE  DriveTrue(p)'
  BY <1>2 DEF DriveIsTrue, DriveTrue, Alive, IsSettled, IsFinal
<1>3. ASSUME NEW c \in Call, Arrive(c) \/ CallStep(c)
      PROVE  DriveTrue(p)'
  BY <1>2, <1>3, CallsLeaveOwners DEF OwnersLeft, OthersStay, Alive
<1>4. ASSUME NEW o \in Call, OwnerStep(o), p # o
      PROVE  DriveTrue(p)'
  <2>1. OwnerMoves(o) /\ faults' = faults
    BY <1>4, OwnersMove DEF OwnerStep, LinkKey, RereadKey, Bind, ReportOwned, Recover,
       CleanupRecovered, SpawnTask, Settle, CleanUp, AwaitResult, RecoverWhileClosing, Release,
       Exit, StartCancel, SettleCancel, AnswerRequest, counts
  <2>2. drive'[p] = drive[p] /\ cancellation'[p] = cancellation[p]
    BY <1>1, <1>4 DEF OwnerStep, LinkKey, RereadKey, Bind, ReportOwned, Gone, Recover,
       CleanupRecovered, SpawnTask, Settle, CleanUp, Answered, AwaitResult, RecoverWhileClosing,
       Release, Exit, StartCancel, SettleCancel, CancelRefused, AnswerRequest, owners, OwnerTypeOK
  <2>3. pc'[Owner(p)] = pc[Owner(p)] /\ Alive(p)
    BY <1>4, <2>1 DEF OwnerMoves, Alive
  <2>4. ~Alive(o)
    BY <1>4, <2>3 DEF OwnerIInv, OneReservation
  <2> QED
    BY <1>2, <1>4, <2>1, <2>2, <2>3, <2>4, RecordLeft
<1>5. ASSUME OwnerStep(p)
      PROVE  DriveTrue(p)'
  <2> USE DEF owners, calls, links, files, counts
  <2>1. OwnerMoves(p) /\ faults' = faults
    BY <1>5, OwnersMove DEF OwnerStep, LinkKey, RereadKey, Bind, ReportOwned, Recover,
       CleanupRecovered, SpawnTask, Settle, CleanUp, AwaitResult, RecoverWhileClosing, Release,
       Exit, StartCancel, SettleCancel, AnswerRequest
  <2>2. ASSUME drive'[p] = drive[p], cancellation'[p] = cancellation[p], record' = record,
               pc'[Owner(p)] = pc[Owner(p)]
        PROVE  DriveTrue(p)'
    BY <1>2, <2>1, <2>2
  <2>3. Alive(p) => DriveTrue(p)
    BY <2>1 DEF DriveIsTrue
  <2>4. ASSUME NEW s, Goto(Owner(p), s) PROVE s \in {"recovering", "spawning", "owning", "closing"}
    BY <1>1, <2>4, OwnerMovesTo DEF Alive
  <2>5. ~(LinkKey(Owner(p)) \/ RereadKey(Owner(p)) \/ ReportOwned(p) \/ Release(p) \/ Exit(p))
    <3>1. Owner(p)[1] = "owner"
      BY ProcessParts
    <3> QED
      BY <2>4, <3>1 DEF LinkKey, RereadKey, ReportOwned, Gone, Release, Exit
  <2>6. CASE Bind(p)
    <3>1. drive[p] = "none" /\ drive' = drive /\ cancellation' = cancellation
      BY <2>6 DEF Bind, DrivesWhenBound
    <3>2. cancellation[p] # "running"
      BY <2>6 DEF Bind, OwnerIInv, WorkKept, Working, Alive
    <3>3. pc'[Owner(p)] = "recovering"
      BY <1>1, <2>4, <2>6, OwnerMovesTo DEF Bind
    <3> QED
      BY <3>1, <3>2, <3>3 DEF DriveTrue
  <2>7. CASE Recover(p)
    <3>1. DriveTrue(p) /\ drive[p] = "none" /\ cancellation[p] # "running"
      BY <2>3, <2>7 DEF Recover, Alive, DriveTrue
    <3>2. drive'[p] = Drive /\ record' = record /\ cancellation' = cancellation
      BY <1>1, <2>7 DEF Recover, OwnerTypeOK
    <3>3. pc'[Owner(p)] = IF Drive = "cleaning" THEN "recovering" ELSE "spawning"
      BY <1>1, <2>7, OwnerMovesTo DEF Recover
    <3>4. cancellation'[p] # "running" /\ (IsSettled' <=> IsSettled)
      BY <3>1, <3>2 DEF IsSettled, IsFinal
    <3>5. CASE Drive = "cleaning"
      BY <3>2, <3>3, <3>4, <3>5 DEF DriveTrue
    <3>6. CASE Drive = "none"
      <4>1. record = NoOperation /\ pc'[Owner(p)] = "spawning"
        BY <1>1, <3>3, <3>6, DriveFits
      <4> QED
        BY <3>2, <3>4, <3>6, <4>1 DEF DriveTrue, NoOperation
    <3>7. CASE Drive \in {"executing", "cancelling"}
      <4>1. record.state = IF Drive = "executing" THEN "open" ELSE "cancelling"
        BY <1>1, <3>7, DriveFits
      <4> QED
        BY <3>2, <3>3, <3>4, <3>7, <4>1 DEF DriveTrue
    <3>8. CASE Drive = "settled"
      <4>1. IsSettled
        BY <1>1, <3>8, DriveFits
      <4> QED
        BY <3>2, <3>3, <3>4, <3>8, <4>1 DEF DriveTrue
    <3> QED
      BY <1>1, <3>5, <3>6, <3>7, <3>8, DriveFits
  <2>8. CASE CleanupRecovered(p)
    <3>1. DriveTrue(p) /\ drive[p] = "settled" /\ pc'[Owner(p)] = "spawning"
      BY <1>1, <2>3, <2>8, OwnerMovesTo DEF CleanupRecovered, Alive
    <3>2. drive' = drive /\ record' = record /\ cancellation' = cancellation
      BY <2>8 DEF CleanupRecovered
    <3> QED
      BY <3>1, <3>2 DEF DriveTrue, IsSettled, IsFinal
  <2>9. CASE SpawnTask(p)
    <3>1. DriveTrue(p) /\ pc[Owner(p)] = "spawning" /\ cancellation' = cancellation
      BY <2>3, <2>9 DEF SpawnTask, Alive
    <3>2. pc'[Owner(p)] \in {"owning", "closing"}
      BY <1>1, <2>9, OwnerMovesTo DEF SpawnTask, Activate
    <3>3. CASE record = NoOperation
      <4>1. record'.state = "open" /\ drive'[p] = "executing"
        BY <1>1, <2>9, <3>3 DEF SpawnTask, OwnerTypeOK
      <4>2. cancellation[p] # "running"
        BY <3>3 DEF OwnerIInv, HandleRecorded, NoOperation, Final
      <4> QED
        BY <3>1, <3>2, <4>1, <4>2 DEF DriveTrue
    <3>4. CASE record # NoOperation
      <4>1. record' = record /\ drive'[p] = drive[p] /\ drive[p] # "none"
        BY <1>1, <2>9, <3>1, <3>4 DEF SpawnTask, OwnerTypeOK, DriveTrue
      <4> QED
        BY <3>1, <3>2, <4>1 DEF DriveTrue, IsSettled, IsFinal
    <3> QED
      BY <3>3, <3>4
  <2>10. CASE Settle(p)
    <3>1. DriveTrue(p) /\ pc' = pc /\ cancellation' = cancellation /\ cancellation[p] # "running"
          /\ drive[p] \in {"executing", "cancelling"}
      BY <2>3, <2>10 DEF Settle, Alive
    <3>2. record.state = IF drive[p] = "executing" THEN "open" ELSE "cancelling"
      BY <3>1 DEF DriveTrue
    <3>3. PICK s \in Final : /\ record' = [state |-> s, cleanup |-> s # "unknown"]
                            /\ drive' = [drive EXCEPT ![p] = IF s = "unknown" THEN "settled" ELSE "cleaning"]
      BY <2>10, <3>2 DEF Settle, Final
    <3>4. drive'[p] = (IF s = "unknown" THEN "settled" ELSE "cleaning") /\ (s = "unknown" => IsSettled')
      BY <1>1, <3>3 DEF OwnerTypeOK, IsSettled, IsFinal
    <3> QED
      BY <3>1, <3>4 DEF DriveTrue
  <2>11. CASE CleanUp(p)
    <3>1. IsFinal /\ pc' = pc /\ drive'[p] = "settled" /\ record' = [record EXCEPT !.cleanup = FALSE]
      BY <1>1, <2>11 DEF CleanUp, OwnerTypeOK, OwnerIInv, HandleRecorded
    <3>2. IsSettled'
      BY <1>1, <3>1 DEF OwnerTypeOK, Records, NoOperation, IsSettled, IsFinal, Final
    <3>3. cancellation'[p] # "running"
      BY <1>1, <2>11, <3>1 DEF CleanUp, Answered, OwnerTypeOK, IsFinal, Final
    <3> QED
      BY <3>1, <3>2, <3>3 DEF DriveTrue
  <2>12. CASE AwaitResult(p)
    <3>1. DriveTrue(p) /\ drive[p] \in {"settled", "failed"} /\ pc'[Owner(p)] = "closing"
      BY <1>1, <2>3, <2>12, OwnerMovesTo DEF AwaitResult, Alive
    <3>2. drive' = drive /\ record' = record /\ cancellation' = cancellation
      BY <2>12 DEF AwaitResult
    <3> QED
      BY <3>1, <3>2 DEF DriveTrue, IsSettled, IsFinal
  <2>13. CASE RecoverWhileClosing(p)
    <3>1. DriveTrue(p) /\ drive[p] \in {"settled", "failed"} /\ pc[Owner(p)] = "closing"
      BY <2>3, <2>13 DEF RecoverWhileClosing, Undone, Alive
    <3>2. drive'[p] = Drive /\ record' = record /\ cancellation' = cancellation /\ pc' = pc
      BY <1>1, <2>13 DEF RecoverWhileClosing, OwnerTypeOK
    <3>3. IsSettled /\ IsSettled' /\ Drive = "settled"
      BY <1>1, <3>1, <3>2, DriveFits DEF DriveTrue, IsSettled, IsFinal
    <3> QED
      BY <3>1, <3>2, <3>3 DEF DriveTrue
  <2>14. CASE StartCancel(p)
    <3>1. /\ DriveTrue(p) /\ pc[Owner(p)] \in {"owning", "closing"} /\ pc' = pc
          /\ cancellation[p] = "none" /\ drive[p] \notin {"none", "returned"}
      BY <2>3, <2>14 DEF StartCancel, Asked, Alive, DriveTrue
    <3>2. CASE record.state = "open"
      <4>1. drive[p] = "executing"
        BY <1>1, <3>1, <3>2 DEF DriveTrue, IsSettled, IsFinal, Final, OwnerTypeOK, Doings,
           OwnerIInv, HandleRecorded
      <4>2. record'.state = "cancelling" /\ cancellation'[p] = "running" /\ drive' = drive
        BY <1>1, <2>14, <3>2 DEF StartCancel, OwnerTypeOK, Records, NoOperation
      <4> QED
        BY <3>1, <4>1, <4>2 DEF DriveTrue
    <3>3. CASE record.state # "open"
      <4>1. drive[p] # "executing" /\ record' = record /\ cancellation'[p] = "error"
        BY <1>1, <2>14, <3>1, <3>3 DEF DriveTrue, StartCancel, CancelRefused, OwnerTypeOK
      <4>2. CASE drive[p] \in {"cancelling", "cleaning"}
        <5>1. drive'[p] = drive[p]
          BY <1>1, <2>14, <3>3, <4>2 DEF StartCancel, CancelRefused, OwnerTypeOK
        <5> QED
          BY <3>1, <4>1, <4>2, <5>1 DEF DriveTrue
      <4>3. CASE drive[p] \in {"settled", "failed"}
        <5>1. IsSettled /\ IsSettled' /\ Drive = "settled"
          BY <1>1, <3>1, <4>1, <4>3, DriveFits DEF DriveTrue, IsSettled, IsFinal
        <5>2. drive'[p] \in {"settled", "failed"}
          BY <1>1, <2>14, <3>3, <4>3, <5>1 DEF StartCancel, CancelRefused, OwnerTypeOK
        <5> QED
          BY <3>1, <4>1, <5>1, <5>2 DEF DriveTrue
      <4> QED
        BY <1>1, <3>1, <4>1, <4>2, <4>3 DEF OwnerTypeOK, Doings
    <3> QED
      BY <3>2, <3>3
  <2>15. CASE SettleCancel(p)
    <3>1. DriveTrue(p) /\ cancellation[p] = "running" /\ drive[p] # "cleaning" /\ pc' = pc
      BY <2>3, <2>15 DEF SettleCancel, Alive
    <3>2. drive[p] = "executing" /\ record.state = "cancelling"
      BY <3>1 DEF DriveTrue
    <3>3. \/ drive'[p] = "cleaning"
          \/ drive'[p] = "settled" /\ IsSettled' /\ cancellation'[p] # "running"
      BY <1>1, <2>15, <3>2 DEF SettleCancel, OwnerTypeOK, IsSettled, IsFinal, Final
    <3> QED
      BY <3>1, <3>2, <3>3 DEF DriveTrue
  <2>16. CASE \E c \in Call : AnswerRequest(p, c)
    BY <2>2, <2>16 DEF AnswerRequest
  <2> QED
    BY <1>5, <2>5, <2>6, <2>7, <2>8, <2>9, <2>10, <2>11, <2>12, <2>13, <2>14, <2>15, <2>16 DEF OwnerStep
<1>6. ASSUME NEW c \in Call, Trouble(c)
      PROVE  DriveTrue(p)'
  <2>1. CASE CallerDies(c)
    <3>1. OthersStay /\ drive' = drive /\ cancellation' = cancellation /\ faults' = faults /\ record' = record
      BY <2>1, CallTroublesMove DEF CallerDies, owners
    <3> QED
      BY <1>2, <3>1 DEF OthersStay, Alive
  <2>2. CASE OwnerDies(c)
    <3>1. OwnerMoves(c) /\ faults' = faults /\ record' = record /\ Goto(Owner(c), "gone")
      BY <2>2, OwnersMove DEF OwnerDies, Gone, files
    <3>2. p # c
      BY <1>1, <3>1, OwnerMovesTo DEF Alive
    <3>3. drive'[p] = drive[p] /\ cancellation'[p] = cancellation[p]
      BY <1>1, <2>2, <3>2 DEF OwnerDies, Gone, OwnerTypeOK
    <3> QED
      BY <1>2, <3>1, <3>2, <3>3 DEF OwnerMoves
  <2>3. ~(CallerDies(c) \/ OwnerDies(c)) => faults' = faults + 1
    BY <1>6 DEF Trouble, RequestTimesOut, CallFails, AcquireFails, RecoverFails, SpawnFails,
       DriveFails, StartCancelFails, CancelFails, Fault
  <2> QED
    BY <1>1, <2>1, <2>2, <2>3 DEF OwnerTypeOK
<1>7. CASE UNCHANGED vars
  BY <1>2, <1>7 DEF vars, owners, files, counts
<1> QED
  BY <1>3, <1>4, <1>5, <1>6, <1>7 DEF Next

LEMMA DrivenInit == Init => DrivenIInv
<1> SUFFICES ASSUME Init PROVE DrivenIInv
  OBVIOUS
<1>1. \A c \in Call : /\ Caller(c) \in Process /\ Owner(c) \in Process
                      /\ pc[Caller(c)] = "idle" /\ pc[Owner(c)] = "none"
  BY ProcessParts DEF Init
<1>2. \A c \in Call : drive[c] = "none" /\ reply[c] = None /\ ipc[c] = None /\ began[c] = 0
  BY DEF Init
<1>3. deaths = 0
  BY DEF Init
<1>4. CallsBegin
  BY <1>2, <1>3, NoneIsNoAnswer DEF CallsBegin
<1>5. DrivesWhenBound
  BY <1>2 DEF DrivesWhenBound
<1>6. DriveIsTrue
  BY <1>1 DEF DriveIsTrue, Alive
<1>7. PledgesKept
  BY <1>1, <1>2, NoneIsNoAnswer DEF PledgesKept, Pledged
<1> QED
  BY <1>4, <1>5, <1>6, <1>7 DEF DrivenIInv

LEMMA DrivenStep ==
  ASSUME OwnerIInv, DrivenIInv, [Next]_vars
  PROVE  DrivenIInv'
  BY CallsBeginKept, DrivesWhenBoundKept, DriveIsTrueKept, PledgesKeptKept DEF DrivenIInv



-----------------------------------------------------------------------------
(* The theorems.                                                           *)

\* Keys, reservations, failures, the record and what was answered about it
\* agree in every state: background-owner.ts:97-147 with the Runtime it opens.
THEOREM OwnerInvariant == Spec => []OwnerIInv
<1>1. OwnerIInv /\ [Next]_vars => OwnerIInv'
  BY OwnerNextTyped, KeyOnDiskKept, StartsOneProcessKept, OneReservationKept,
     FailuresCountedKept, WorkKeptKept, HandleRecordedKept, AnswersFinalKept,
     AnswersMatchRecordKept DEF OwnerIInv
<1> QED
  BY OwnerInit, <1>1, PTL DEF Spec

\* Every variable keeps its type.
THEOREM OwnerTypeCorrect == Spec => []OwnerTypeOK
<1>1. OwnerIInv => OwnerTypeOK
  BY DEF OwnerIInv
<1> QED
  BY OwnerInvariant, <1>1, PTL

\* However many sessions start, recover and cancel an Operation, and whatever
\* fails or dies, one process at a time owns it, and who works on it besides
\* serves a cancellation after two failures: ownerKey and acquireOwnerControl,
\* background-owner.ts.
THEOREM OneOwnerHolds == Spec => []OneOwner
<1>1. OwnerIInv => OneOwner
  BY DEF OwnerIInv, OneReservation, WorkKept, OneOwner
<1> QED
  BY OwnerInvariant, <1>1, PTL

\* A confirmed start is on record and a state that a cancellation returned is
\* final, for any number of calls, failures and deaths: startBackgroundProcess
\* and cancelBackgroundProcess, background-process.ts.
THEOREM AnswersMatchRecordHolds == Spec => []AnswersMatchRecord
<1>1. OwnerIInv => AnswersMatchRecord
  BY DEF OwnerIInv
<1> QED
  BY OwnerInvariant, <1>1, PTL

\* The record of an Operation does not disappear, is not opened again, and
\* keeps its final state, whoever writes it.
THEOREM RecordGoesOnHolds == Spec => [][RecordGoesOn]_vars
<1>1. OwnerIInv /\ [Next]_vars => [RecordGoesOn]_vars
  BY RecordMoves
<1> QED
  BY OwnerInvariant, <1>1, PTL DEF Spec

\* Without a failure an owner drives the Operation as long as the record asks
\* for it, and gives up its address only when the Operation is settled:
\* runBackgroundOwner and Runtime.close, background-owner.ts.
THEOREM DrivenInvariant == Spec => []DrivenIInv
  BY OwnerInvariant, DrivenInit, DrivenStep, PTL DEF Spec

\* A caller that is told started, or that there is nothing to recover, is told
\* the truth while nothing fails and nobody dies after it has called, also when
\* its own process found another owner: startBackgroundProcess and
\* recoverBackgroundProcesses, background-process.ts.
THEOREM ConfirmedIsDrivenHolds == Spec => []ConfirmedIsDriven
<1>1. DrivenIInv => ConfirmedIsDriven
  BY DEF DrivenIInv, CallsBegin, PledgesKept, Pledged, ConfirmedIsDriven
<1> QED
  BY DrivenInvariant, <1>1, PTL

=============================================================================
