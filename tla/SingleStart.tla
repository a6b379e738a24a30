--------------------------- MODULE SingleStart ---------------------------
(***************************************************************************)
(* What the delivery of a start promises to successive Runtimes, without   *)
(* their connections, frames and files: the worker takes up one            *)
(* instruction at most, which the generation that governs allows, and      *)
(* prompts its agent once for it; the record learns of no other            *)
(* instruction; and a generation that is on record as refused is followed  *)
(* by no older start.                                                      *)
(***************************************************************************)
EXTENDS Naturals

CONSTANT None

VARIABLES
  governing,   \* the generation that may start the worker
  taken,       \* the instruction the worker has taken up
  prompts,     \* how often its agent was prompted
  recorded,    \* the instruction that is on record as accepted
  refused      \* the generations that are on record as not accepted

startVars == <<governing, taken, prompts, recorded, refused>>

StartInit ==
  governing = 1 /\ taken = None /\ prompts = 0 /\ recorded = None /\ refused = {}

Govern ==
  /\ governing' > governing
  /\ UNCHANGED <<taken, prompts, recorded, refused>>

TakeUp ==
  /\ taken = None /\ taken' # None /\ taken'.deliveryGeneration = governing
  /\ UNCHANGED <<governing, prompts, recorded, refused>>

Prompt ==
  /\ taken # None /\ prompts = 0 /\ prompts' = 1
  /\ UNCHANGED <<governing, taken, recorded, refused>>

Record ==
  /\ taken # None /\ recorded = None /\ recorded' = taken
  /\ UNCHANGED <<governing, taken, prompts, refused>>

RecordRefusal ==
  /\ \E g \in 1 .. governing :
       /\ taken # None => taken.deliveryGeneration >= g
       /\ refused' = refused \cup {g}
  /\ UNCHANGED <<governing, taken, prompts, recorded>>

StartNext == Govern \/ TakeUp \/ Prompt \/ Record \/ RecordRefusal

StartSpec == StartInit /\ [][StartNext]_startVars

=============================================================================
