------------------------- MODULE ProtocolRefinement -------------------------
(* The protocol against the service it provides.                           *)
EXTENDS Protocol

\* The protocol implements the service its users see: retries, lost frames and
\* the order in which the two programs run do not show (one session).
Service == INSTANCE PictureService WITH
    Originals <- [k \in 1..Len(Sessions[1]) |-> FramesOf(Sessions[1][k])],
    StreamOf <- LAMBDA b : [i \in 1..BitFrames(b) |-> <<b, i>>],
    encoded <- [k \in 1..Len(Files) |-> bits[k - 1]],
    delivered <- saved

RefinesService == Service!Spec
=============================================================================
