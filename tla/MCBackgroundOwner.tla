------------------------- MODULE MCBackgroundOwner -------------------------
(* Instance of BackgroundOwner for TLC: a call starts the Operation, the    *)
(* second repeats it or recovers, the third cancels.                         *)
EXTENDS BackgroundOwner, TLC

CONSTANTS c1, c2, c3

ThreeCalls == {c1, c2, c3}

KindsOfCalls ==
  (c1 :> {"background"}) @@ (c2 :> {"background", "recover"}) @@ (c3 :> {"cancel"})

=============================================================================
