-------------------------- MODULE ResultReader --------------------------
(***************************************************************************)
(* readResultChunk of the Operation reader, behind the tool pions_result:  *)
(* an accepted Result is handed out in chunks of a limited size, each of   *)
(* which comes with a cursor for the next.  Readers may repeat a call, mix *)
(* limits and Operations, and come back with a cursor at any time.         *)
(*                                                                         *)
(* Of the text of a Result only the places count where a character ends.   *)
(***************************************************************************)
EXTENDS Integers, FiniteSets

CONSTANTS
  Operation,
  Result,      \* Results: their length in bytes and where characters begin and end
  Limit,       \* values of maxBytes
  NoResult

\* In UTF-8 a character has at most four bytes, so one begins or ends at a given
\* byte or at most three before it.
WellFormed(r) ==
  /\ r.length \in Nat
  /\ r.bounds \subseteq 0..r.length
  /\ r.length \in r.bounds
  /\ \A p \in 0..r.length : \E b \in r.bounds : b <= p /\ p - b <= 3

ASSUME ReaderAssumption ==
  /\ \A r \in Result : WellFormed(r)
  /\ Limit \subseteq {n \in Nat : n >= 4}
  /\ NoResult \notin Result

VARIABLES
  accepted,    \* the Result of each Operation
  chunks,      \* what was handed out
  cursors,     \* the cursors that were handed out
  answer       \* how the last call was answered

readerVars == <<accepted, chunks, cursors, answer>>

ReaderInit ==
  /\ accepted = [o \in Operation |-> NoResult]
  /\ chunks = {} /\ cursors = {}
  /\ answer = "none"

-----------------------------------------------------------------------------

Smaller(i, j) == IF i < j THEN i ELSE j

\* Whole characters only are decoded.
Decodes(r, from, to) == from \in r.bounds /\ to \in r.bounds

\* Mutant: a slice that ends within a character is not shortened.
EndByteSplitting(r, startByte, maxBytes) == Smaller(startByte + maxBytes, r.length)

\* Mutant: a slice is shortened by two bytes at most.
EndByteHasty(r, startByte, maxBytes) ==
  LET last == Smaller(startByte + maxBytes, r.length) IN
  CHOOSE e \in startByte..last :
    /\ e = startByte \/ (e >= last - 2 /\ Decodes(r, startByte, e))
    /\ \A f \in (e + 1)..last : f >= last - 2 => ~Decodes(r, startByte, f)

\* The longest slice within the limit that decodes, the empty one if none does.
EndByte(r, startByte, maxBytes) ==
  LET last == Smaller(startByte + maxBytes, r.length) IN
  CHOOSE e \in startByte..last :
    /\ e = startByte \/ Decodes(r, startByte, e)
    /\ \A f \in (e + 1)..last : ~Decodes(r, startByte, f)

Accept(o, r) ==
  /\ accepted[o] = NoResult
  /\ accepted' = [accepted EXCEPT ![o] = r]
  /\ UNCHANGED <<chunks, cursors, answer>>

Refuse(reason) == answer' = reason /\ UNCHANGED <<accepted, chunks, cursors>>

\* There is no Result yet, or it is unreadable or damaged.
NotRead(o) == Refuse(IF accepted[o] = NoResult THEN "not_accepted" ELSE "unavailable")

HandOut(o, maxBytes, startByte) ==
  LET r       == accepted[o]
      endByte == EndByte(r, startByte, maxBytes)
  IN
  IF endByte = startByte /\ r.length > 0
    THEN Refuse("invalid")
    ELSE /\ chunks' = chunks \cup {[operation |-> o, maxBytes |-> maxBytes,
                                    startByte |-> startByte, endByte |-> endByte]}
         /\ cursors' = IF endByte = r.length
                         THEN cursors
                         ELSE cursors \cup {[operation |-> o, result |-> r,
                                             maxBytes |-> maxBytes, startByte |-> endByte]}
         /\ answer' = "retrieved"
         /\ UNCHANGED accepted

ReadFirst(o, maxBytes) ==
  \/ NotRead(o)
  \/ accepted[o] # NoResult /\ HandOut(o, maxBytes, 0)

\* A cursor is good for the Operation, the acceptance and the limit it was made for.
ReadNext(o, maxBytes, cursor) ==
  \/ cursor.operation # o /\ Refuse("wrong_operation")
  \/ cursor.operation = o /\ NotRead(o)
  \/ /\ cursor.operation = o /\ accepted[o] # NoResult
     /\ cursor.result # accepted[o] \/ cursor.maxBytes # maxBytes
     /\ Refuse("result_mismatch")
  \/ /\ cursor.operation = o /\ accepted[o] # NoResult
     /\ cursor.result = accepted[o] /\ cursor.maxBytes = maxBytes
     /\ HandOut(o, maxBytes, cursor.startByte)

ReaderNext ==
  \E o \in Operation :
    \/ \E r \in Result : Accept(o, r)
    \/ \E maxBytes \in Limit :
         \/ ReadFirst(o, maxBytes)
         \/ \E cursor \in cursors : ReadNext(o, maxBytes, cursor)

ReaderSpec == ReaderInit /\ [][ReaderNext]_readerVars

-----------------------------------------------------------------------------
(* Properties.                                                             *)

ReaderTypeOK ==
  /\ accepted \in [Operation -> Result \cup {NoResult}]
  /\ chunks \subseteq [operation : Operation, maxBytes : Limit, startByte : Nat, endByte : Nat]
  /\ cursors \subseteq [operation : Operation, result : Result, maxBytes : Limit, startByte : Nat]

SameReading(c, d) == c.operation = d.operation /\ c.maxBytes = d.maxBytes

\* However the calls are repeated and mixed, the chunks of an Operation for one
\* limit lie end to end from the first byte on, so that no byte is skipped or
\* handed out in two of them; each keeps its limit and consists of whole characters.
ChunksLieEndToEnd ==
  \A c \in chunks :
    /\ accepted[c.operation] # NoResult
    /\ {c.startByte, c.endByte} \subseteq accepted[c.operation].bounds
    /\ c.endByte - c.startByte \in 0..c.maxBytes
    /\ c.startByte = 0 \/ \E d \in chunks : SameReading(c, d) /\ d.endByte = c.startByte
    /\ \A d \in chunks :
         SameReading(c, d) /\ c # d =>
           c.endByte <= d.startByte \/ d.endByte <= c.startByte

\* No limit and no cursor leads into a dead end: a call for a part of the Result
\* that is there is never answered with an empty chunk.
NoDeadEnd == answer # "invalid"

=============================================================================
