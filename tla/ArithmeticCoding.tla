-------------------------- MODULE ArithmeticCoding --------------------------
(***************************************************************************)
(* The entropy coder of the slave: the frequency table of a coefficient    *)
(* (EncTable), the arithmetic encoder with its stream of bits              *)
(* (arithmetic_coding.cpp), and codings (coding.cpp), which codes the      *)
(* coefficients of all subbands with them.                                 *)
(*                                                                         *)
(* The encoder narrows the interval [low, high] with every coefficient.    *)
(* Leading bits on which low and high agree are written; an interval that  *)
(* lies around the middle is widened and the bit that is still open is     *)
(* counted in numUnderflow.                                                *)
(***************************************************************************)
EXTENDS Integers, Sequences, FiniteSets, Functions

CONSTANTS
    StateBits,    \* numStateBits: 32
    Lens,         \* lens: the number of coefficients of every subband
    Coefficient,  \* the values of a coefficient, an int16_t
    Gmms,         \* the parameters the accelerator gives for a coefficient
    ScalePred,    \* gmm_scale: 10000
    ExpTable,     \* exp.bin
    ExpBase,      \* its last index: 12 * exp_scale
    ExpScale,     \* exp_scale: 1000
    CdfTable,     \* cdf.bin
    CdfBase,      \* the index of the middle: 5 * cdf_scale
    CdfScale,     \* cdf_scale: 10000
    YBound,       \* the largest value in the table, UINT32_MAX
    Resolution    \* freqs_resolution: 1000000

Component == 1..3

\* The powers of two
Power[n \in 0..StateBits] == IF n = 0 THEN 1 ELSE 2 * Power[n - 1]

\* fullRange, halfRange, quarterRange, minimumRange
Full == Power[StateBits]
Half == Full \div 2
Quarter == Half \div 2
MinimumRange == Quarter + 2

\* gmm_t
Gmm == [prob : [Component -> Int], mean : [Component -> Int], std : [Component -> Nat \ {0}]]

\* int16_t
Int16 == -(2^15)..(2^15 - 1)

\* What is coded.  A deviation must not be 0.
ASSUME DataAssumption ==
    /\ Lens \in Seq(Nat \ {0})
    /\ Coefficient \subseteq Int16
    /\ Gmms \subseteq Gmm

\* The coefficients and their edges are whole in units of the parameters.
ASSUME ScaleAssumption ==
    /\ ScalePred \in Nat \ {0}
    /\ ScalePred % 2 = 0

\* exp.bin ends with exp(0).
ASSUME ExpAssumption ==
    /\ ExpBase \in Nat
    /\ ExpScale \in Nat \ {0}
    /\ ExpTable \in [0..ExpBase -> Nat]
    /\ ExpTable[ExpBase] > 0

\* cdf.bin: cumulative probabilities rise.
ASSUME CdfAssumption ==
    /\ CdfBase \in Nat
    /\ CdfScale \in Nat \ {0}
    /\ YBound \in Nat \ {0}
    /\ CdfTable \in [0..(2 * CdfBase) -> 0..YBound]
    /\ \A i, j \in 0..(2 * CdfBase) : i <= j => CdfTable[i] <= CdfTable[j]

\* A frequency table must not have a larger total than the narrowest interval
\* (maximumTotal, which the code does not test).
ASSUME RangeAssumption ==
    /\ StateBits \in Nat \ {0, 1}
    /\ Resolution \in Nat
    /\ \A x, y \in Coefficient : Resolution + (y - x + 1) <= MinimumRange

VARIABLES
    pc,            \* where codings or ArithmeticCoderBase::update is
    sub,           \* i + 1
    p,             \* p + 1
    datum,         \* the coefficients of the subband
    gmm,           \* and their parameters
    header,        \* xmin and xmax of the subbands so far
    low, high,     \* ArithmeticCoderBase
    numUnderflow,  \* ArithmeticEncoder
    bout,          \* BitOutputStream: bytes, currentByte, numBitsFilled
    input          \* history: the subbands so far with their parameters

vars == <<pc, sub, p, datum, gmm, header, low, high, numUnderflow, bout, input>>

-----------------------------------------------------------------------------
(* EncTable                                                                *)

\* The quotient of C, rounded towards zero, of a positive divisor
CDiv(a, b) == IF a >= 0 THEN a \div b ELSE -((-a) \div b)

clamp(x, l, r) == IF x < l THEN l ELSE IF x > r THEN r ELSE x

LargerOf(a, b) == IF a >= b THEN a ELSE b

\* softmax: what the three probabilities of a mixture become
softmax(g) ==
    LET mx == LargerOf(g.prob[1], LargerOf(g.prob[2], g.prob[3]))
    IN  [c \in Component |->
            ExpTable[LargerOf(CDiv((g.prob[c] - mx) * ExpScale, ScalePred) + ExpBase,
                              0)]]

\* The index in the table for a distance from the mean
CdfIndex(distance, std) ==
    clamp(CDiv(distance * CdfScale, std), -CdfBase, CdfBase) + CdfBase

\* The cumulative frequency up to an edge between two coefficients.
CumFreq(g, edge) ==
    LET probs == softmax(g)
        sum == probs[1] + probs[2] + probs[3]
        Term(c) == ((Resolution * CdfTable[CdfIndex(edge - g.mean[c], g.std[c])])
                        \div sum) * probs[c]
    IN  (Term(1) + Term(2) + Term(3)) \div YBound

LeftEdge(x) == x * ScalePred - ScalePred \div 2

\* The edge of a value is the value (a mutant of RightEdge).
RightEdgeInside(x) == x * ScalePred

RightEdge(x) == x * ScalePred + ScalePred \div 2

\* get_bound: sym_low, sym_high and total_freqs of the coefficient x among the
\* values from xmin to xmax.  Every value gets one more than its frequency.
SymLow(g, x, xmin) == CumFreq(g, LeftEdge(x)) - CumFreq(g, LeftEdge(xmin)) + (x - xmin)

SymHigh(g, x, xmin) ==
    CumFreq(g, RightEdge(x)) - CumFreq(g, LeftEdge(xmin)) + (x - xmin + 1)

TotalFreqs(g, xmin, xmax) ==
    CumFreq(g, RightEdge(xmax)) - CumFreq(g, LeftEdge(xmin)) + (xmax - xmin + 1)

-----------------------------------------------------------------------------
(* BitOutputStream                                                         *)

\* BitOutputStream::write
WriteBit(out, b) ==
    LET byte == 2 * out.currentByte + b
    IN  IF out.numBitsFilled = 7
        THEN [bytes |-> Append(out.bytes, byte), currentByte |-> 0, numBitsFilled |-> 0]
        ELSE [out EXCEPT !.currentByte = byte, !.numBitsFilled = @ + 1]

-----------------------------------------------------------------------------
(* codings and ArithmeticCoderBase::update                                 *)

Init ==
    /\ pc = "subband"
    /\ sub = 1
    /\ p = 1
    /\ datum = <<>>
    /\ gmm = <<>>
    /\ header = <<>>
    /\ low = 0
    /\ high = Full - 1
    /\ numUnderflow = 0
    /\ bout = [bytes |-> <<>>, currentByte |-> 0, numBitsFilled |-> 0]
    /\ input = <<>>

Bounds(d) ==
    [xmin |-> CHOOSE x \in Range(d) : \A y \in Range(d) : x <= y,
     xmax |-> CHOOSE x \in Range(d) : \A y \in Range(d) : x >= y]

\* A subband: its bounds go to the header, and if they differ it is coded.
BeginSubband ==
    /\ pc = "subband"
    /\ sub <= Len(Lens)
    /\ \E d \in [1..Lens[sub] -> Coefficient], g \in [1..Lens[sub] -> Gmms] :
          /\ header' = Append(header, Bounds(d))
          /\ input' = Append(input, [datum |-> d, gmm |-> g])
          /\ IF Bounds(d).xmin >= Bounds(d).xmax
             THEN sub' = sub + 1 /\ UNCHANGED <<pc, p, datum, gmm>>
             ELSE pc' = "symbol" /\ p' = 1 /\ datum' = d /\ gmm' = g /\ UNCHANGED sub
    /\ UNCHANGED <<low, high, numUnderflow, bout>>

\* A coefficient: EncTable and the narrowing of the interval.
Symbol ==
    /\ pc = "symbol"
    /\ LET b     == header[sub]
           total == TotalFreqs(gmm[p], b.xmin, b.xmax)
           range == high - low + 1
       IN  /\ low' = low + (SymLow(gmm[p], datum[p], b.xmin) * range) \div total
           /\ high' = low + (SymHigh(gmm[p], datum[p], b.xmin) * range) \div total - 1
    /\ pc' = "shift"
    /\ UNCHANGED <<sub, p, datum, gmm, header, numUnderflow, bout, input>>

\* low and high agree in their first bit.
TopBitsAgree == (low < Half) <=> (high < Half)

\* The bit that low and high agree on
TopBit == IF low < Half THEN 0 ELSE 1

\* A turn of the first loop of update: ArithmeticEncoder::shift writes the bit.
Shift ==
    /\ pc = "shift"
    /\ TopBitsAgree
    /\ bout' = WriteBit(bout, TopBit)
    /\ pc' = "open"
    /\ UNCHANGED <<sub, p, datum, gmm, header, low, high, numUnderflow, input>>

\* An open bit is written like the one that settles it (a mutant of WriteOpenBit).
WriteOpenBitAlike ==
    /\ pc = "open"
    /\ numUnderflow > 0
    /\ bout' = WriteBit(bout, TopBit)
    /\ numUnderflow' = numUnderflow - 1
    /\ UNCHANGED <<pc, sub, p, datum, gmm, header, low, high, input>>

\* The count of open bits stays (a mutant of WriteOpenBit).
WriteOpenBitAgain ==
    /\ pc = "open"
    /\ numUnderflow > 0
    /\ bout' = WriteBit(bout, 1 - TopBit)
    /\ UNCHANGED <<pc, sub, p, datum, gmm, header, low, high, numUnderflow, input>>

\* ArithmeticEncoder::shift: the inverse of the bit for one of the bits left open
WriteOpenBit ==
    /\ pc = "open"
    /\ numUnderflow > 0
    /\ bout' = WriteBit(bout, 1 - TopBit)
    /\ numUnderflow' = numUnderflow - 1
    /\ UNCHANGED <<pc, sub, p, datum, gmm, header, low, high, input>>

\* stateMask is forgotten (a mutant of EndShiftTurn).
EndShiftTurnNoMask ==
    /\ pc = "open"
    /\ numUnderflow = 0
    /\ low' = 2 * low
    /\ high' = 2 * high + 1
    /\ pc' = "shift"
    /\ UNCHANGED <<sub, p, datum, gmm, header, numUnderflow, bout, input>>

\* The end of the turn: the interval without the bit
EndShiftTurn ==
    /\ pc = "open"
    /\ numUnderflow = 0
    /\ low' = (2 * low) % Full
    /\ high' = ((2 * high) % Full) + 1
    /\ pc' = "shift"
    /\ UNCHANGED <<sub, p, datum, gmm, header, numUnderflow, bout, input>>

EndShift ==
    /\ pc = "shift"
    /\ ~TopBitsAgree
    /\ pc' = "underflow"
    /\ UNCHANGED <<sub, p, datum, gmm, header, low, high, numUnderflow, bout, input>>

\* The second loop is left out (a mutant of AroundMiddle).
NeverAround == FALSE

\* The second bit of low is set and that of high is not.
AroundMiddle == low % Half >= Quarter /\ high % Half < Quarter

\* x ^ halfRange
Flipped(x) == IF x % Full >= Half THEN x - Half ELSE x + Half

\* A turn of the second loop of update.  2 * Flipped(high) has the bits halfRange
\* and 1 clear before they are set.
Underflow ==
    /\ pc = "underflow"
    /\ AroundMiddle
    /\ numUnderflow' = numUnderflow + 1
    /\ low' = Flipped(2 * low)
    /\ high' = 2 * Flipped(high) + Half + 1
    /\ UNCHANGED <<pc, sub, p, datum, gmm, header, bout, input>>

\* The first loop is entered again (a mutant of EndUnderflow).
EndUnderflowAgain ==
    /\ pc = "underflow"
    /\ ~AroundMiddle
    /\ pc' = "shift"
    /\ UNCHANGED <<sub, p, datum, gmm, header, low, high, numUnderflow, bout, input>>

\* The coefficient is coded; the next one, or the next subband.
EndUnderflow ==
    /\ pc = "underflow"
    /\ ~AroundMiddle
    /\ IF p < Lens[sub] THEN pc' = "symbol" /\ p' = p + 1 /\ UNCHANGED sub
                        ELSE pc' = "subband" /\ sub' = sub + 1 /\ UNCHANGED p
    /\ UNCHANGED <<datum, gmm, header, low, high, numUnderflow, bout, input>>

\* The end of codings: ArithmeticEncoder::finish
Finish ==
    /\ pc = "subband"
    /\ sub > Len(Lens)
    /\ bout' = WriteBit(bout, 1)
    /\ pc' = "fill"
    /\ UNCHANGED <<sub, p, datum, gmm, header, low, high, numUnderflow, input>>

\* BitOutputStream::finish: a turn of its loop
Fill ==
    /\ pc = "fill"
    /\ IF bout.numBitsFilled # 0
       THEN bout' = WriteBit(bout, 0) /\ UNCHANGED pc
       ELSE pc' = "done" /\ UNCHANGED bout
    /\ UNCHANGED <<sub, p, datum, gmm, header, low, high, numUnderflow, input>>

Done == pc = "done" /\ UNCHANGED vars

CoderStep ==
    \/ BeginSubband \/ Symbol \/ Shift \/ WriteOpenBit \/ EndShiftTurn \/ EndShift
    \/ Underflow \/ EndUnderflow \/ Finish \/ Fill

Next == CoderStep \/ Done

\* codings is a sequential computation that nothing interrupts for good.
Spec == Init /\ [][Next]_vars /\ WF_vars(CoderStep)

-----------------------------------------------------------------------------
TypeOK ==
    /\ pc \in {"subband", "symbol", "shift", "open", "underflow", "fill", "done"}
    /\ sub \in 1..(Len(Lens) + 1)
    /\ pc \notin {"subband", "fill", "done"} => sub <= Len(Lens) /\ p \in 1..Lens[sub]
                                        /\ sub <= Len(header)
    /\ low \in 0..(Full - 1)
    /\ high \in 0..(Full - 1)
    /\ numUnderflow \in Nat
    /\ bout.numBitsFilled \in 0..7
    /\ bout.currentByte \in 0..127
    /\ \A i \in 1..Len(bout.bytes) : bout.bytes[i] \in 0..255

\* Whatever coefficient follows, there is room for it: the interval contains at
\* least one number for every unit of a total frequency up to maximumTotal ("At
\* least 2", minimumRange, arithmetic_coding.cpp), though update never looks.  So no
\* coefficient makes the interval empty, not even one of frequency 0.
RangeStaysWide ==
    /\ low <= high
    /\ pc \in {"symbol", "subband"} => high - low + 1 >= MinimumRange

\* The values between the bounds of a subband share the total among them: the
\* intervals of neighbours meet ("increment for each point", get_bound), the
\* first begins at 0, the last ends at the total, none is empty.
FrequenciesPartition ==
    pc = "symbol" =>
        LET b == header[sub]
            g == gmm[p]
        IN  /\ SymLow(g, b.xmin, b.xmin) = 0
            /\ SymHigh(g, b.xmax, b.xmin) = TotalFreqs(g, b.xmin, b.xmax)
            /\ \A x \in b.xmin..b.xmax : SymLow(g, x, b.xmin) < SymHigh(g, x, b.xmin)
            /\ \A x \in b.xmin..(b.xmax - 1) :
                  SymHigh(g, x, b.xmin) = SymLow(g, x + 1, b.xmin)

\* How many coefficients of this subband the encoder has got
Begun == IF pc = "symbol" THEN p - 1
         ELSE IF pc \in {"shift", "open", "underflow"} THEN p ELSE 0

\* The coefficients of the subbands before the k-th one
Before(k) == UNION {{i} \X (1..Lens[i]) : i \in 1..(k - 1)}

\* The coefficients that have been dealt with: those of the subbands before, also when a
\* subband was not coded, and those begun
Coded == Before(sub) \cup ({sub} \X (1..Begun))

\* A coefficient never takes more bits than the state has, 32, those left open
\* included: the 8 bytes that codings allocates for each are enough.
StreamFits ==
    8 * Len(bout.bytes) + bout.numBitsFilled + numUnderflow <=
        StateBits * Cardinality(Coded)
            + (IF pc \in {"fill", "done"} THEN 8 + numUnderflow ELSE 0)

\* codings returns.
CodingEnds == <>(pc = "done")
=============================================================================
