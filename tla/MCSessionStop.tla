--------------------------- MODULE MCSessionStop ---------------------------
(* Instance of SessionStop for TLC: a cancellation beside the run.          *)
EXTENDS SessionStop

CONSTANT c1

OneCancellation == {c1, Run}

KindsOfAttempts ==
  [a \in OneCancellation |-> IF a = Run THEN {"success", "recover"} ELSE {"cancel"}]

KindsOfSuccess ==
  [a \in OneCancellation |-> IF a = Run THEN {"success"} ELSE {"cancel"}]

=============================================================================
