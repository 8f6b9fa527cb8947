--------------------------- MODULE PictureService ---------------------------
(***************************************************************************)
(* What the system as a whole promises its user: every picture given to    *)
(* the master is encoded by the board, once and as it is, and its bit      *)
(* stream is then written to a file; the files are written in the order of *)
(* the pictures, after all pictures have been encoded.                     *)
(***************************************************************************)
EXTENDS Integers, Sequences

CONSTANTS
    Originals,     \* the frames of every picture, in order
    StreamOf(_)    \* the frames of the bit stream made from some frames

VARIABLES
    encoded,       \* what the board has encoded, <<>> if nothing
    delivered      \* what has been saved, <<>> if nothing

Index == 1..Len(Originals)

Init ==
    /\ encoded = [k \in Index |-> <<>>]
    /\ delivered = [k \in Index |-> <<>>]

\* The board has received the k-th picture and encodes it.
Encode(k) ==
    /\ encoded[k] = <<>>
    /\ \A j \in 1..(k - 1) : encoded[j] # <<>>
    /\ encoded' = [encoded EXCEPT ![k] = Originals[k]]
    /\ UNCHANGED delivered

\* The master saves the k-th bit stream.
Deliver(k) ==
    /\ delivered[k] = <<>>
    /\ \A j \in Index : encoded[j] # <<>>
    /\ \A j \in 1..(k - 1) : delivered[j] # <<>>
    /\ delivered' = [delivered EXCEPT ![k] = StreamOf(encoded[k])]
    /\ UNCHANGED encoded

Next == \E k \in Index : Encode(k) \/ Deliver(k)

Spec ==
    /\ Init
    /\ [][Next]_<<encoded, delivered>>
    /\ WF_<<encoded, delivered>>(Next)
=============================================================================
