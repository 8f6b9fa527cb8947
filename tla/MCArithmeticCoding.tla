------------------------- MODULE MCArithmeticCoding -------------------------
(* ArithmeticCoding for TLC: small tables.                                 *)
EXTENDS CodedStream

\* With the resolution of 30 a subband from -1 to 2 has the largest total, 34.
LensOf == <<3, 2>>
CoefficientOf == {-1, 0, 2}

\* A rising table around its middle, and one of exponentials
CdfOf == [i \in 0..8 |-> <<0, 1, 1, 4, 8, 11, 14, 15, 15>>[i + 1]]
ExpOf == [i \in 0..4 |-> <<0, 1, 2, 4, 7>>[i + 1]]

\* A mixture around the coefficients, and one far from all of them
GmmsOf ==
    {[prob |-> <<3, 0, 1>>, mean |-> <<0, 2, -2>>, std |-> <<1, 1, 2>>],
     [prob |-> <<-9, 4, -9>>, mean |-> <<0, 30, 0>>, std |-> <<1, 1, 1>>]}
=============================================================================
