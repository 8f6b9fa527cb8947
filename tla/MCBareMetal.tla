----------------------------- MODULE MCBareMetal -----------------------------
(* BareMetal for TLC: a picture of two chunks and weights of two.         *)
EXTENDS BareMetal

ChunksOfFiles == [picture |-> 2, weights |-> 2]
=============================================================================
