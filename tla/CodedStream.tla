----------------------------- MODULE CodedStream -----------------------------
(***************************************************************************)
(* The stream of ArithmeticCoding at its other end: the decoder, and the   *)
(* frames it travels in.                                                   *)
(*                                                                         *)
(* The decoder is the reference that the coder is checked against; the     *)
(* repository has none.  It knows the lengths of the subbands, their       *)
(* bounds and the parameters of the coefficients.                          *)
(***************************************************************************)
EXTENDS ArithmeticCoding, Framing

-----------------------------------------------------------------------------
(* Bits.                                                                   *)

BitWeight == <<128, 64, 32, 16, 8, 4, 2, 1>>

\* The bits of a stream; after its end a decoder reads zeros.
Bits(bytes) ==
    [i \in Nat \ {0} |->
        LET k == (i - 1) \div 8
        IN  IF k < Len(bytes) THEN (bytes[k + 1] \div BitWeight[((i - 1) % 8) + 1]) % 2
                              ELSE 0]

\* The number that the first n bits make
Number(w) ==
    LET number[n \in Nat] == IF n = 0 THEN 0 ELSE 2 * number[n - 1] + w[n]
    IN  number

-----------------------------------------------------------------------------
(* The decoder: its interval, the code word in it, the bits read, its      *)
(* place, and the coefficients it has got.                                 *)

DecoderStart(w) ==
    [low |-> 0, high |-> Full - 1, code |-> Number(w)[StateBits], pos |-> StateBits,
     sub |-> 1, p |-> 1, data |-> <<>>]

\* The turns of the two loops of update, with the code word moving along
ShiftedBack(s, w) ==
    [s EXCEPT !.low = (2 * @) % Full, !.high = ((2 * @) % Full) + 1,
              !.code = ((2 * @) % Full) + w[s.pos + 1], !.pos = @ + 1]

Widened(s, w) ==
    [s EXCEPT !.low = 2 * @ - Half, !.high = 2 * @ - Half + 1,
              !.code = 2 * @ - Half + w[s.pos + 1], !.pos = @ + 1]

\* More coefficients
With(data, new) ==
    [place \in DOMAIN data \cup DOMAIN new |->
        IF place \in DOMAIN new THEN new[place] ELSE data[place]]

\* A subband that is not coded
Skipped(s, b) ==
    [s EXCEPT !.sub = @ + 1,
              !.data = With(@, [place \in {s.sub} \X (1..Lens[s.sub]) |-> b.xmin])]

\* A coefficient: the value whose interval the code word lies in.
Decoded(s, b, g) ==
    LET range == s.high - s.low + 1
        total == TotalFreqs(g, b.xmin, b.xmax)
        value == ((s.code - s.low + 1) * total - 1) \div range
        x == CHOOSE y \in b.xmin..b.xmax :
                SymLow(g, y, b.xmin) <= value /\ value < SymHigh(g, y, b.xmin)
        last == s.p = Lens[s.sub]
    IN  [s EXCEPT !.low = s.low + (SymLow(g, x, b.xmin) * range) \div total,
                  !.high = s.low + (SymHigh(g, x, b.xmin) * range) \div total - 1,
                  !.sub = IF last THEN @ + 1 ELSE @,
                  !.p = IF last THEN 1 ELSE @ + 1,
                  !.data = With(@, [place \in {<<s.sub, s.p>>} |-> x])]

DecoderStep(s, w, side) ==
    IF (s.low < Half) <=> (s.high < Half) THEN ShiftedBack(s, w)
    ELSE IF s.low >= Quarter /\ s.high < Half + Quarter THEN Widened(s, w)
    ELSE IF s.sub > Len(Lens) THEN s
    ELSE LET b == side[s.sub].bounds
         IN  IF b.xmin >= b.xmax THEN Skipped(s, b)
                                 ELSE Decoded(s, b, side[s.sub].gmm[s.p])

\* The decoder after n steps
Decoder(w, side) ==
    LET after[n \in Nat] ==
            IF n = 0 THEN DecoderStart(w) ELSE DecoderStep(after[n - 1], w, side)
    IN  after

\* All coefficients
Places == Before(Len(Lens) + 1)

\* Enough steps for a decoder: as many bits as the state has and one step for every
\* coefficient, and one for every subband.
StepLimit == (StateBits + 1) * Cardinality(Places) + Len(Lens)

Decode(bytes, side) == Decoder(Bits(bytes), side)[StepLimit].data

\* What a decoder must know: header, and the parameters.
SideInformation ==
    [k \in 1..Len(header) |-> [bounds |-> header[k], gmm |-> input[k].gmm]]

-----------------------------------------------------------------------------
\* A decoder that has the parameters and the header gets back the coefficients of
\* all subbands, however many bits were left open when codings ended (finish
\* writes a single 1 and fills the last byte with zeros).
RoundTrip ==
    pc = "done" =>
        Decode(bout.bytes, SideInformation) =
            [place \in Places |-> input[place[1]].datum[place[2]]]

\* The frames hold just these bytes, and none of them is empty: data_len 0 is how
\* receive_data_frames and the master know a frame that has not come.
Travels(bytes) ==
    LET frames == DataToDataFrames(bytes)
    IN  /\ DataFramesToData(frames) = bytes
        /\ \A k \in 1..Len(frames) : frames[k].data_len \in 1..FrameLen

\* A stream gets through the data frames, unless an n_frame_t cannot count them: the
\* slave then announces the remainder of the count, and the end of the stream is lost.
StreamTravels == pc = "done" => (Travels(bout.bytes) <=> ~Outgrown(Len(bout.bytes)))
=============================================================================
