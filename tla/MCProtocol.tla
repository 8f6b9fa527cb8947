----------------------------- MODULE MCProtocol -----------------------------
(* Values of the constants of Protocol for TLC.                            *)
EXTENDS ProtocolRefinement, TLC

CONSTANTS p1, p2

\* what the master is run with, run after run
OnePicture == <<<<p1>>>>
TwoPictures == <<<<p1, p2>>>>
EmptyThenOne == <<<<p1, Unreadable, p2>>, <<p1>>, <<p1>>>>
EmptyThenTwo == <<<<Unreadable, p2>>, <<p1, Unreadable, p1>>>>

Counts31 == p1 :> 3 @@ p2 :> 1
Counts20 == p1 :> 2 @@ p2 :> 0
=============================================================================
