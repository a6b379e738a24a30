--------------------------- MODULE MCPiExtension ---------------------------
(* Instances of PiSession and ResultReader for TLC: two tool calls, or one    *)
(* that is executed twice, and Results given by the widths of their           *)
(* characters.  They share nothing, so a behaviour is one of the session or   *)
(* one of the readers: each moves only while the other has not begun.         *)
EXTENDS PiSession, ResultReader, TLC, SequencesExt

CONSTANTS e1, e2, k1, k2

SomeSessions == {e1 :> k1 @@ e2 :> k1, e1 :> k1 @@ e2 :> k2}

Sums(s) == {FoldSeq(+, 0, SubSeq(s, 1, n)) : n \in 0..Len(s)}

OfWidths(s) == [length |-> FoldSeq(+, 0, s), bounds |-> Sums(s)]

SomeResults ==
  {OfWidths(s) : s \in {<<>>, <<3>>, <<4, 4>>, <<1, 4, 4, 2>>, <<3, 3, 3, 3>>, <<1, 1, 1, 1, 4, 1>>,
                        <<2, 4, 1, 3, 4>>}}

SessionMoves == ReaderInit /\ Next /\ UNCHANGED readerVars
ReadersMove  == Init /\ ReaderNext /\ UNCHANGED vars

ExtensionInit == Init /\ ReaderInit
ExtensionNext == SessionMoves \/ ReadersMove

ExtensionSpec == ExtensionInit /\ [][ExtensionNext]_<<vars, readerVars>>

=============================================================================
