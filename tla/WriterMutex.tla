--------------------------- MODULE WriterMutex ---------------------------
(***************************************************************************)
(* What the writer lock of an Operation promises to the event store: at    *)
(* most one process is inside, and it got in only after the one before it  *)
(* was out, by returning or by dying.                                      *)
(***************************************************************************)
CONSTANT Process

VARIABLE inside    \* the processes that may write the record now

MutexInit == inside = {}

EnterAlone == inside = {} /\ \E p \in Process : inside' = {p}

Leave == inside # {} /\ inside' = {}

MutexSpec == MutexInit /\ [][EnterAlone \/ Leave]_inside

=============================================================================
