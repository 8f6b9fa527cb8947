---------------------------- MODULE CodingProofs ----------------------------
(***************************************************************************)
(* Safety of ArithmeticCoding for every size of the state, every table and *)
(* subbands of any length.                                                 *)
(***************************************************************************)
EXTENDS CodedStream, FileFraming, NumberLemmas, SequenceTheorems, FiniteSetTheorems, TLAPS

-----------------------------------------------------------------------------
(* The frequency table.                                                    *)

\* The parameters of a coefficient
LEMMA GmmFacts ==
    ASSUME NEW g \in Gmms
    PROVE  /\ g.prob[1] \in Int /\ g.prob[2] \in Int /\ g.prob[3] \in Int
           /\ \A c \in Component :
                 g.prob[c] \in Int /\ g.mean[c] \in Int /\ g.std[c] \in Nat \ {0}
<1>1. g \in Gmm
    BY DataAssumption
<1>2. \A c \in Component : g.prob[c] \in Int /\ g.mean[c] \in Int /\ g.std[c] \in Nat \ {0}
    BY <1>1 DEF Gmm
<1> QED
    BY <1>2 DEF Component

\* The quotient of C keeps the order, around 0 too.
LEMMA CDivFacts ==
    ASSUME NEW a \in Int, NEW b \in Int, NEW d \in Nat \ {0}, a <= b
    PROVE  /\ CDiv(a, d) \in Int /\ CDiv(b, d) \in Int
           /\ CDiv(a, d) <= CDiv(b, d)
           /\ CDiv(0, d) = 0
<1>1. \A n \in Nat : n \div d \in Nat
    BY DivMod
<1>2. CDiv(0, d) = 0
    <2>1. 0 \div d = 0
        <3>1. 0 = d * 0
            OBVIOUS
        <3> QED
            BY <3>1, DivMultiple
    <2> QED
        BY <2>1 DEF CDiv
<1>3. CASE a >= 0
    <2>1. a \in Nat /\ b \in Nat
        BY <1>3
    <2> QED
        BY <1>1, <1>2, <2>1, DivMonotone DEF CDiv
<1>4. CASE ~(a >= 0) /\ b >= 0
    <2>1. -a \in Nat /\ b \in Nat
        BY <1>4
    <2>2. CDiv(a, d) = -((-a) \div d) /\ CDiv(b, d) = b \div d
        BY <1>4 DEF CDiv
    <2> QED
        BY <1>1, <1>2, <2>1, <2>2
<1>5. CASE ~(a >= 0) /\ ~(b >= 0)
    <2>1. -a \in Nat /\ -b \in Nat /\ -b <= -a
        BY <1>5
    <2>2. CDiv(a, d) = -((-a) \div d) /\ CDiv(b, d) = -((-b) \div d)
        BY <1>5 DEF CDiv
    <2>3. (-b) \div d <= (-a) \div d
        BY <2>1, DivMonotone
    <2> QED
        BY <1>1, <1>2, <2>1, <2>2, <2>3
<1> QED
    BY <1>3, <1>4, <1>5

\* The probabilities of a mixture are not all 0: the largest one is not.
LEMMA SoftmaxFacts ==
    ASSUME NEW g \in Gmms
    PROVE  LET probs == softmax(g) IN
           /\ probs[1] \in Nat /\ probs[2] \in Nat /\ probs[3] \in Nat
           /\ probs[1] + probs[2] + probs[3] \in Nat \ {0}
<1> DEFINE mx == LargerOf(g.prob[1], LargerOf(g.prob[2], g.prob[3]))
           index(c) == LargerOf(CDiv((g.prob[c] - mx) * ExpScale, ScalePred) + ExpBase, 0)
           probs == softmax(g)
<1>1. /\ g.prob[1] \in Int /\ g.prob[2] \in Int /\ g.prob[3] \in Int
      /\ ExpScale \in Nat \ {0} /\ ScalePred \in Nat \ {0} /\ ExpBase \in Nat
      /\ ExpTable \in [0..ExpBase -> Nat] /\ ExpTable[ExpBase] > 0
    BY GmmFacts, ExpAssumption, ScaleAssumption
<1>2. /\ mx \in Int /\ g.prob[1] <= mx /\ g.prob[2] <= mx /\ g.prob[3] <= mx
      /\ g.prob[1] = mx \/ g.prob[2] = mx \/ g.prob[3] = mx
    BY <1>1 DEF LargerOf
<1>2a. mx \in Int /\ \A c \in Component : g.prob[c] <= mx
    BY <1>2 DEF Component
<1>3. \A c \in Component : probs[c] = ExpTable[index(c)]
    BY DEF softmax
<1> HIDE DEF mx, probs
<1>4. ASSUME NEW c \in Component
      PROVE  /\ index(c) \in 0..ExpBase
             /\ g.prob[c] = mx => index(c) = ExpBase
    <2> DEFINE a == (g.prob[c] - mx) * ExpScale
    <2>1. g.prob[c] \in Int /\ g.prob[c] - mx \in Int /\ g.prob[c] - mx <= 0
        BY <1>2a, GmmFacts
    <2>2. a \in Int /\ a <= 0 /\ (g.prob[c] = mx => a = 0)
        <3>1. \A d \in Int, e \in Nat : d <= 0 => d * e \in Int /\ d * e <= 0
            BY SMT
        <3>2. ExpScale \in Nat
            BY <1>1
        <3>3. a \in Int /\ a <= 0
            BY <2>1, <3>1, <3>2
        <3>4. g.prob[c] = mx => g.prob[c] - mx = 0
            BY <1>1, <1>2a, <2>1
        <3>5. 0 * ExpScale = 0
            BY <3>2
        <3> QED
            BY <3>3, <3>4, <3>5
    <2> HIDE DEF a
    <2>3. CDiv(a, ScalePred) \in Int /\ CDiv(a, ScalePred) <= 0 /\ CDiv(0, ScalePred) = 0
        <3>1. ScalePred \in Nat \ {0} /\ 0 \in Int
            BY ScaleAssumption
        <3> QED
            BY <2>2, <3>1, CDivFacts
    <2>4. index(c) = LargerOf(CDiv(a, ScalePred) + ExpBase, 0)
        BY DEF a
    <2> HIDE DEF index
    <2> QED
        BY <1>1, <2>2, <2>3, <2>4 DEF LargerOf
<1> HIDE DEF index
<1>5. \A c \in Component : probs[c] \in Nat /\ (g.prob[c] = mx => probs[c] > 0)
    BY <1>1, <1>3, <1>4
<1>6. 1 \in Component /\ 2 \in Component /\ 3 \in Component
    BY DEF Component
<1>7. probs[1] \in Nat /\ probs[2] \in Nat /\ probs[3] \in Nat
      /\ (probs[1] > 0 \/ probs[2] > 0 \/ probs[3] > 0)
    BY <1>2, <1>5, <1>6
<1>8. probs[1] + probs[2] + probs[3] \in Nat \ {0}
    <2>1. \A a, b, c \in Nat : a > 0 \/ b > 0 \/ c > 0 => a + b + c \in Nat \ {0}
        OBVIOUS
    <2> QED
        BY <1>7, <2>1
<1> QED
    BY <1>7, <1>8 DEF probs

\* The table is read inside its bounds, further to the right for a larger distance.
LEMMA CdfIndexFacts ==
    ASSUME NEW x \in Int, NEW y \in Int, NEW std \in Nat \ {0}, x <= y
    PROVE  /\ CdfIndex(x, std) \in 0..(2 * CdfBase)
           /\ CdfIndex(y, std) \in 0..(2 * CdfBase)
           /\ CdfIndex(x, std) <= CdfIndex(y, std)
<1> DEFINE a == CDiv(x * CdfScale, std)
           b == CDiv(y * CdfScale, std)
<1>1. CdfScale \in Nat \ {0} /\ CdfBase \in Nat
    BY CdfAssumption
<1>2. x * CdfScale \in Int /\ y * CdfScale \in Int /\ x * CdfScale <= y * CdfScale
    BY <1>1
<1>3. a \in Int /\ b \in Int /\ a <= b
    BY <1>2, CDivFacts
<1>4. CdfIndex(x, std) = clamp(a, -CdfBase, CdfBase) + CdfBase
      /\ CdfIndex(y, std) = clamp(b, -CdfBase, CdfBase) + CdfBase
    BY DEF CdfIndex
<1> HIDE DEF a, b
<1> QED
    BY <1>1, <1>3, <1>4 DEF clamp

\* One component's share grows with the cumulative probability.
LEMMA ShareFacts ==
    ASSUME NEW x \in Nat, NEW y \in Nat, x <= y, NEW sum \in Nat \ {0}, NEW prob \in Nat
    PROVE  /\ ((Resolution * x) \div sum) * prob \in Nat
           /\ ((Resolution * x) \div sum) * prob <= ((Resolution * y) \div sum) * prob
<1>1. Resolution * x \in Nat /\ Resolution * y \in Nat /\ Resolution * x <= Resolution * y
    BY RangeAssumption
<1> DEFINE a == (Resolution * x) \div sum
           b == (Resolution * y) \div sum
<1>2. a \in Nat /\ b \in Nat /\ a <= b
    BY <1>1, DivMod, DivMonotone
<1> HIDE DEF a, b
<1>3. a * prob \in Nat /\ a * prob <= b * prob
    BY <1>2
<1> QED
    BY <1>3 DEF a, b

\* The cumulative frequencies of a coefficient rise from 0 to the resolution at most.
LEMMA CumFreqFacts ==
    ASSUME NEW g \in Gmms, NEW d \in Int, NEW e \in Int, d <= e
    PROVE  /\ CumFreq(g, d) \in 0..Resolution
           /\ CumFreq(g, e) \in 0..Resolution
           /\ CumFreq(g, d) <= CumFreq(g, e)
<1> DEFINE probs == softmax(g)
           sum == probs[1] + probs[2] + probs[3]
           x(c) == CdfTable[CdfIndex(d - g.mean[c], g.std[c])]
           y(c) == CdfTable[CdfIndex(e - g.mean[c], g.std[c])]
           share(n, c) == ((Resolution * n) \div sum) * probs[c]
           S == share(x(1), 1) + share(x(2), 2) + share(x(3), 3)
           T == share(y(1), 1) + share(y(2), 2) + share(y(3), 3)
<1>1. /\ \A c \in Component : probs[c] \in Nat
      /\ sum \in Nat \ {0}
      /\ sum = probs[1] + probs[2] + probs[3]
      /\ 1 \in Component /\ 2 \in Component /\ 3 \in Component
    BY SoftmaxFacts DEF Component
<1>2. CumFreq(g, d) = S \div YBound /\ CumFreq(g, e) = T \div YBound
    BY DEF CumFreq
<1> HIDE DEF probs, sum
<1>3. YBound \in Nat \ {0} /\ Resolution \in Nat
    BY CdfAssumption, RangeAssumption
<1>4. ASSUME NEW c \in Component
      PROVE  x(c) \in 0..YBound /\ y(c) \in 0..YBound /\ x(c) <= y(c)
    <2> DEFINE i == CdfIndex(d - g.mean[c], g.std[c])
               j == CdfIndex(e - g.mean[c], g.std[c])
    <2>1. i \in 0..(2 * CdfBase) /\ j \in 0..(2 * CdfBase) /\ i <= j
        <3>1. g.std[c] \in Nat \ {0} /\ g.mean[c] \in Int
            BY GmmFacts
        <3>2. d - g.mean[c] \in Int /\ e - g.mean[c] \in Int /\ d - g.mean[c] <= e - g.mean[c]
            BY <3>1
        <3> QED
            BY <3>1, <3>2, CdfIndexFacts
    <2> HIDE DEF i, j
    <2>2. CdfTable[i] \in 0..YBound /\ CdfTable[j] \in 0..YBound /\ CdfTable[i] <= CdfTable[j]
        BY <2>1, CdfAssumption
    <2> QED
        BY <2>2 DEF i, j
<1> HIDE DEF x, y
<1>5. ASSUME NEW c \in Component
      PROVE  /\ share(x(c), c) \in Nat /\ share(y(c), c) \in Nat /\ share(YBound, c) \in Nat
             /\ share(x(c), c) <= share(y(c), c)
             /\ share(y(c), c) <= share(YBound, c)
    <2>1. x(c) \in Nat /\ y(c) \in Nat /\ x(c) <= y(c) /\ y(c) <= YBound /\ YBound \in Nat
        BY <1>3, <1>4
    <2>2. ASSUME NEW a \in Nat, NEW b \in Nat, a <= b
          PROVE  share(a, c) \in Nat /\ share(a, c) <= share(b, c)
        <3>1. probs[c] \in Nat
            BY <1>1
        <3> QED
            BY <1>1, <2>2, <3>1, ShareFacts
    <2> HIDE DEF share
    <2>3. share(x(c), c) \in Nat /\ share(x(c), c) <= share(y(c), c)
        BY <2>1, <2>2
    <2>4. share(y(c), c) \in Nat /\ share(y(c), c) <= share(YBound, c)
        BY <2>1, <2>2
    <2>5. share(YBound, c) \in Nat
        BY <2>1, <2>2
    <2> QED
        BY <2>3, <2>4, <2>5
<1>6. share(YBound, 1) + share(YBound, 2) + share(YBound, 3) <= Resolution * YBound
    <2> DEFINE most == Resolution * YBound
               m == most \div sum
               r == most % sum
    <2>1. most \in Nat
        BY <1>3
    <2> HIDE DEF most
    <2>2. most = sum * m + r /\ m \in Nat /\ r \in Nat
        <3>1. sum \in Nat \ {0}
            BY <1>1
        <3>2. \A n \in Nat, k \in Nat \ {0} : n = k * (n \div k) + (n % k)
                                              /\ n \div k \in Nat /\ n % k \in Nat
            BY DivMod
        <3> HIDE DEF share
        <3> QED
            BY <2>1, <3>1, <3>2
    <2>3. share(YBound, 1) = m * probs[1] /\ share(YBound, 2) = m * probs[2]
          /\ share(YBound, 3) = m * probs[3]
        BY DEF most
    <2> HIDE DEF m, r, share
    <2>4. m * probs[1] + m * probs[2] + m * probs[3] = sum * m
        <3>1. \A a, b, c, k \in Nat : k * a + k * b + k * c = (a + b + c) * k
            OBVIOUS
        <3> QED
            BY <1>1, <2>2, <3>1
    <2>5. sum * m \in Nat
        BY <1>1, <2>2
    <2>6. share(YBound, 1) + share(YBound, 2) + share(YBound, 3) <= most
        BY <2>1, <2>2, <2>3, <2>4, <2>5
    <2> QED
        BY <2>6 DEF most
<1> HIDE DEF share
<1>7. S \in Nat /\ T \in Nat /\ S <= T /\ T <= Resolution * YBound
    <2>1. Resolution * YBound \in Nat
        BY <1>3
    <2> QED
        BY <1>1, <1>5, <1>6, <2>1
<1> HIDE DEF S, T
<1>8. T \div YBound <= Resolution /\ T \div YBound \in Nat /\ S \div YBound \in Nat
    <2>1. T < YBound * (Resolution + 1)
        <3>1. YBound * (Resolution + 1) = Resolution * YBound + YBound /\ Resolution * YBound \in Nat
            BY <1>3
        <3> QED
            BY <1>3, <1>7, <3>1
    <2>2. T \div YBound < Resolution + 1
        BY <1>3, <1>7, <2>1, DivLess
    <2>3. T \div YBound \in Nat /\ S \div YBound \in Nat
        BY <1>3, <1>7, DivMod
    <2> QED
        BY <1>3, <2>2, <2>3
<1>9. S \div YBound <= T \div YBound
    BY <1>3, <1>7, DivMonotone
<1> QED
    BY <1>2, <1>3, <1>8, <1>9

\* The edges: the right edge of a value is the left one of the next.
LEMMA EdgeFacts ==
    ASSUME NEW x \in Int, NEW y \in Int, x <= y
    PROVE  /\ LeftEdge(x) \in Int /\ RightEdge(x) \in Int /\ LeftEdge(y) \in Int /\ RightEdge(y) \in Int
           /\ LeftEdge(x) <= LeftEdge(y) /\ RightEdge(x) <= RightEdge(y)
           /\ LeftEdge(x) <= RightEdge(x)
           /\ RightEdge(x) = LeftEdge(x + 1)
<1> DEFINE h == ScalePred \div 2
<1>1. ScalePred = 2 * h /\ h \in Nat /\ ScalePred \in Nat
    <2>1. 2 \in Nat \ {0}
        OBVIOUS
    <2>2. ScalePred = 2 * h + (ScalePred % 2) /\ h \in Nat
        BY <2>1, ScaleAssumption, DivMod
    <2> QED
        BY <2>2, ScaleAssumption
<1>2. /\ LeftEdge(x) = x * ScalePred - h /\ RightEdge(x) = x * ScalePred + h
      /\ LeftEdge(y) = y * ScalePred - h /\ RightEdge(y) = y * ScalePred + h
      /\ LeftEdge(x + 1) = (x + 1) * ScalePred - h
    BY DEF LeftEdge, RightEdge
<1> HIDE DEF h
<1>3. x * ScalePred \in Int /\ y * ScalePred \in Int /\ x * ScalePred <= y * ScalePred
      /\ (x + 1) * ScalePred = x * ScalePred + ScalePred
    BY <1>1
<1> QED
    BY <1>1, <1>2, <1>3

\* The intervals of the values between two bounds share the total among them.
LEMMA FrequencyFacts ==
    ASSUME NEW g \in Gmms, NEW lo \in Int, NEW hi \in Int, lo <= hi,
           NEW x \in Int, lo <= x, x <= hi
    PROVE  /\ SymLow(g, x, lo) \in Nat /\ SymHigh(g, x, lo) \in Nat
           /\ SymLow(g, x, lo) < SymHigh(g, x, lo)
           /\ SymHigh(g, x, lo) <= TotalFreqs(g, lo, hi)
           /\ TotalFreqs(g, lo, hi) \in Nat \ {0}
           /\ TotalFreqs(g, lo, hi) <= Resolution + (hi - lo + 1)
           /\ SymLow(g, lo, lo) = 0
           /\ SymHigh(g, hi, lo) = TotalFreqs(g, lo, hi)
           /\ SymHigh(g, x, lo) = SymLow(g, x + 1, lo)
<1> DEFINE F(e) == CumFreq(g, e)
<1>1. /\ LeftEdge(lo) \in Int /\ LeftEdge(x) \in Int /\ RightEdge(x) \in Int /\ RightEdge(hi) \in Int
      /\ LeftEdge(lo) <= LeftEdge(x) /\ LeftEdge(x) <= RightEdge(x) /\ RightEdge(x) <= RightEdge(hi)
      /\ RightEdge(x) = LeftEdge(x + 1)
    BY EdgeFacts
<1>2. /\ F(LeftEdge(lo)) \in 0..Resolution /\ F(LeftEdge(x)) \in 0..Resolution
      /\ F(RightEdge(x)) \in 0..Resolution /\ F(RightEdge(hi)) \in 0..Resolution
      /\ F(LeftEdge(lo)) <= F(LeftEdge(x)) /\ F(LeftEdge(x)) <= F(RightEdge(x))
      /\ F(RightEdge(x)) <= F(RightEdge(hi))
      /\ Resolution \in Nat
    BY <1>1, CumFreqFacts, RangeAssumption
<1>3. /\ SymLow(g, x, lo) = F(LeftEdge(x)) - F(LeftEdge(lo)) + (x - lo)
      /\ SymHigh(g, x, lo) = F(RightEdge(x)) - F(LeftEdge(lo)) + (x - lo + 1)
      /\ TotalFreqs(g, lo, hi) = F(RightEdge(hi)) - F(LeftEdge(lo)) + (hi - lo + 1)
      /\ SymLow(g, lo, lo) = F(LeftEdge(lo)) - F(LeftEdge(lo)) + (lo - lo)
      /\ SymHigh(g, hi, lo) = F(RightEdge(hi)) - F(LeftEdge(lo)) + (hi - lo + 1)
      /\ SymLow(g, x + 1, lo) = F(LeftEdge(x + 1)) - F(LeftEdge(lo)) + (x + 1 - lo)
    BY DEF SymLow, SymHigh, TotalFreqs
<1> HIDE DEF F
<1> QED
    BY <1>1, <1>2, <1>3

-----------------------------------------------------------------------------
(* The inductive invariant.                                                *)

\* The bytes that n bits can make
Values(n) ==
    CASE n = 0 -> 1 [] n = 1 -> 2 [] n = 2 -> 4 [] n = 3 -> 8
      [] n = 4 -> 16 [] n = 5 -> 32 [] n = 6 -> 64 [] n = 7 -> 128

Byte == 0..255

Stream == [bytes : Seq(Byte), currentByte : Nat, numBitsFilled : 0..7]

\* The bits of the byte that is not full yet
StreamFollows == bout \in Stream /\ bout.currentByte < Values(bout.numBitsFilled)

\* The interval after either loop of update
IntervalFollows ==
    /\ low <= high
    /\ pc = "open" => TopBitsAgree
    /\ pc \in {"underflow", "symbol", "subband"} => low < Half /\ Half <= high
    /\ pc \in {"symbol", "subband"} => ~AroundMiddle

InSubband == pc \in {"symbol", "shift", "open", "underflow"}

\* The header and the coefficients of the subband that is coded
SubbandFollows ==
    /\ header \in Seq([xmin : Coefficient, xmax : Coefficient])
    /\ Len(header) = IF InSubband THEN sub ELSE sub - 1
    /\ InSubband =>
         /\ datum \in [1..Lens[sub] -> Coefficient]
         /\ gmm \in [1..Lens[sub] -> Gmms]
         /\ header[sub].xmin < header[sub].xmax
         /\ \A i \in 1..Lens[sub] : header[sub].xmin <= datum[i] /\ datum[i] <= header[sub].xmax

Inv == TypeOK /\ StreamFollows /\ IntervalFollows /\ SubbandFollows

-----------------------------------------------------------------------------
(* Bits, intervals and bounds.                                             *)

\* A bit goes to the byte, or ends it.
LEMMA WriteBitFacts ==
    ASSUME NEW out \in Stream, out.currentByte < Values(out.numBitsFilled), NEW b \in 0..1
    PROVE  /\ WriteBit(out, b) \in Stream
           /\ WriteBit(out, b).currentByte < Values(WriteBit(out, b).numBitsFilled)
<1> DEFINE n == out.numBitsFilled
           byte == 2 * out.currentByte + b
<1>1. n \in 0..7 /\ out.currentByte \in Nat /\ out.bytes \in Seq(Byte) /\ byte \in Nat
      /\ out.currentByte < Values(n) /\ byte < 2 * Values(n)
    <2>1. n \in 0..7 /\ out.currentByte \in Nat /\ out.bytes \in Seq(Byte)
        BY DEF Stream
    <2>2. byte \in Nat
        BY <2>1
    <2>3. \A v : out.currentByte < v /\ v \in Nat => byte < 2 * v
        BY <2>1
    <2>4. Values(n) \in Nat
        BY <2>1 DEF Values
    <2> QED
        BY <2>1, <2>2, <2>3, <2>4
<1>2. CASE n = 7
    <2>1. byte \in Byte
        <3>1. byte < 256
            BY <1>1, <1>2 DEF Values
        <3>2. byte \in Nat
            BY <1>1
        <3> HIDE DEF byte, n
        <3> QED
            BY <3>1, <3>2 DEF Byte
    <2>2. WriteBit(out, b) = [bytes |-> Append(out.bytes, byte), currentByte |-> 0, numBitsFilled |-> 0]
        BY <1>2 DEF WriteBit
    <2> HIDE DEF byte
    <2> QED
        BY <1>1, <2>1, <2>2 DEF Stream, Values
<1>3. CASE n # 7
    <2>1. WriteBit(out, b) = [out EXCEPT !.currentByte = byte, !.numBitsFilled = n + 1]
        BY <1>3 DEF WriteBit
    <2>2. n + 1 \in 0..7 /\ Values(n + 1) = 2 * Values(n)
        BY <1>1, <1>3 DEF Values
    <2> HIDE DEF n, byte
    <2>3. /\ WriteBit(out, b).currentByte = byte
          /\ WriteBit(out, b).numBitsFilled = n + 1
          /\ WriteBit(out, b) \in Stream
        BY <1>1, <2>1, <2>2 DEF Stream
    <2> QED
        BY <1>1, <2>2, <2>3
<1> QED
    BY <1>2, <1>3

\* What the bits of the byte that is not full say about its type
LEMMA StreamType ==
    ASSUME NEW out \in Stream, out.currentByte < Values(out.numBitsFilled)
    PROVE  /\ out.numBitsFilled \in 0..7
           /\ out.currentByte \in 0..127
           /\ \A i \in 1..Len(out.bytes) : out.bytes[i] \in 0..255
<1>1. out.numBitsFilled \in 0..7 /\ out.currentByte \in Nat /\ out.bytes \in Seq(Byte)
    BY DEF Stream
<1>2. Values(out.numBitsFilled) <= 128 /\ Values(out.numBitsFilled) \in Nat
    BY <1>1 DEF Values
<1>3. out.currentByte \in 0..127
    <2>1. out.currentByte \in Nat /\ out.currentByte < 128
        BY <1>1, <1>2
    <2> QED
        BY <2>1
<1>4. \A i \in 1..Len(out.bytes) : out.bytes[i] \in 0..255
    <2>1. \A i \in 1..Len(out.bytes) : out.bytes[i] \in Byte
        BY <1>1
    <2> QED
        BY <2>1 DEF Byte
<1> QED
    BY <1>1, <1>3, <1>4

\* A coefficient narrows the interval to a part that is not empty.
LEMMA NarrowFacts ==
    ASSUME NEW range \in Nat, NEW total \in Nat \ {0}, total <= range,
           NEW l \in Nat, NEW h \in Nat, l < h, h <= total
    PROVE  /\ (l * range) \div total \in Nat /\ (h * range) \div total \in Nat
           /\ (l * range) \div total + 1 <= (h * range) \div total
           /\ (h * range) \div total <= range
<1> DEFINE a == l * range
           b == h * range
           c == total * range
           q == a \div total
           r == a % total
<1>1. a \in Nat /\ b \in Nat /\ c \in Nat /\ a + range <= b /\ b <= c
    <2>1. (l + 1) * range <= h * range /\ (l + 1) * range = l * range + range
        OBVIOUS
    <2>2. h * range <= total * range
        OBVIOUS
    <2> QED
        BY <2>1, <2>2
<1>2. c \div total = range
    BY DivMultiple
<1> HIDE DEF a, b, c
<1>3. a = total * q + r /\ q \in Nat /\ r \in Nat
    BY <1>1, DivMod
<1> HIDE DEF q, r
<1>4. q + 1 <= b \div total
    <2>1. total * (q + 1) = total * q + total /\ total * q \in Nat
        BY <1>3
    <2>2. total * (q + 1) <= b
        BY <1>1, <1>3, <2>1
    <2> QED
        BY <1>1, <1>3, <2>2, DivAtLeast
<1>5. b \div total <= range /\ b \div total \in Nat
    BY <1>1, <1>2, DivMonotone, DivMod
<1> QED
    BY <1>3, <1>4, <1>5 DEF a, b, q

\* The powers of two are what their definition says: it has a solution up to every
\* exponent, for there is no least one up to which it has none.
LEMMA PowerFacts ==
    /\ Power[0] = 1
    /\ \A n \in 0..(StateBits - 1) : Power[n + 1] = 2 * Power[n]
    /\ \A n \in 0..StateBits : Power[n] \in Nat \ {0}
<1> DEFINE Step(f, m) == [n \in 0..m |-> IF n = 0 THEN 1 ELSE 2 * f[n - 1]]
           Solved(m) == \E f : f = Step(f, m)
           T == {m \in Nat : ~Solved(m)}
<1>1. StateBits \in Nat
    BY RangeAssumption
<1>2. T = {}
    <2> SUFFICES ASSUME T # {} PROVE FALSE
        OBVIOUS
    <2>1. PICK m \in T : \A k \in T : m <= k
        <3>1. T \in SUBSET Nat
            OBVIOUS
        <3> HIDE DEF T
        <3> QED
            BY <3>1, NatMin
    <2>2. CASE m = 0
        <3> DEFINE f == [n \in 0..0 |-> 1]
        <3>1. Step(f, 0) = [n \in 0..0 |-> IF n = 0 THEN 1 ELSE 2 * f[n - 1]]
            OBVIOUS
        <3>2. \A n \in 0..0 : n = 0
            OBVIOUS
        <3>3. Step(f, 0) = f
            BY <3>2, Zenon
        <3> HIDE DEF f
        <3> QED
            BY <2>1, <2>2, <3>3
    <2>3. CASE m # 0
        <3>1. m - 1 \in Nat /\ m - 1 < m /\ m \in Nat
            BY <2>1, <2>3
        <3>2. Solved(m - 1)
            <4>1. m - 1 \notin T
                <5>1. m \in Nat /\ \A k \in T : m <= k
                    BY <2>1, <3>1
                <5> HIDE DEF T
                <5> QED
                    BY <3>1, <5>1
            <4> HIDE DEF Solved
            <4> QED
                BY <3>1, <4>1
        <3>3. PICK f : f = Step(f, m - 1)
            BY <3>2
        <3> DEFINE g == [n \in 0..m |-> IF n = 0 THEN 1 ELSE 2 * f[n - 1]]
        <3>4. \A n \in 0..(m - 1) : f[n] = IF n = 0 THEN 1 ELSE 2 * f[n - 1]
            <4> HIDE <3>2
            <4> QED
                BY <3>3
        <3>5. \A n \in 0..(m - 1) : g[n] = f[n]
            BY <3>1, <3>4
        <3>6. \A n \in 0..m : n # 0 => n - 1 \in 0..(m - 1)
            BY <3>1
        <3>7. \A n \in 0..m : n # 0 => g[n - 1] = f[n - 1]
            BY <3>5, <3>6
        <3>8. g = Step(g, m)
            <4>1. \A n \in 0..m : g[n] = IF n = 0 THEN 1 ELSE 2 * g[n - 1]
                BY <3>7
            <4>2. g = [n \in 0..m |-> g[n]]
                OBVIOUS
            <4> HIDE DEF g
            <4> QED
                BY <4>1, <4>2
        <3> HIDE DEF g
        <3> QED
            BY <2>1, <3>8
    <2> QED
        BY <2>2, <2>3
<1>3. \E f : f = Step(f, StateBits)
    BY <1>1, <1>2
<1>4. Power = CHOOSE f : f = Step(f, StateBits)
    BY DEF Power
<1>5. Power = Step(Power, StateBits)
    BY <1>3, <1>4, Zenon
<1>6. \A n \in 0..StateBits : Power[n] = IF n = 0 THEN 1 ELSE 2 * Power[n - 1]
    BY <1>5
<1>7. Power[0] = 1
    BY <1>1, <1>6
<1>8. \A n \in 0..(StateBits - 1) : Power[n + 1] = 2 * Power[n]
    <2> SUFFICES ASSUME NEW n \in 0..(StateBits - 1) PROVE Power[n + 1] = 2 * Power[n]
        OBVIOUS
    <2>1. n + 1 \in 0..StateBits /\ n + 1 # 0 /\ (n + 1) - 1 = n
        BY <1>1
    <2> QED
        BY <1>6, <2>1
<1>9. \A n \in 0..StateBits : Power[n] \in Nat \ {0}
    <2> DEFINE U == {n \in 0..StateBits : Power[n] \notin Nat \ {0}}
    <2> SUFFICES ASSUME U # {} PROVE FALSE
        OBVIOUS
    <2>1. PICK n \in U : \A k \in U : n <= k
        <3>1. U \in SUBSET Nat
            BY <1>1
        <3> HIDE DEF U
        <3> QED
            BY <3>1, NatMin
    <2>2. n # 0
        BY <1>7, <2>1
    <2>3. n - 1 \in 0..(StateBits - 1) /\ n - 1 \in 0..StateBits /\ (n - 1) + 1 = n /\ n - 1 < n
        BY <1>1, <2>1, <2>2
    <2>4. Power[n - 1] \in Nat \ {0}
        BY <2>1, <2>3
    <2>5. Power[n] = 2 * Power[n - 1]
        BY <1>8, <2>3
    <2>6. \A x \in Nat \ {0} : 2 * x \in Nat \ {0}
        OBVIOUS
    <2> QED
        BY <2>1, <2>4, <2>5, <2>6
<1> QED
    BY <1>7, <1>8, <1>9

\* The ranges of the coder are halves and quarters of a power of two.
LEMMA StateFacts ==
    /\ Quarter \in Nat \ {0}
    /\ Half = 2 * Quarter
    /\ Full = 4 * Quarter
    /\ MinimumRange = Quarter + 2
<1>1. StateBits \in Nat /\ StateBits >= 2
    BY RangeAssumption
<1> DEFINE n == StateBits - 2
           q == Power[n]
<1>2. /\ n \in 0..StateBits /\ n \in 0..(StateBits - 1) /\ n + 1 \in 0..(StateBits - 1)
      /\ (n + 1) + 1 = StateBits
    BY <1>1
<1> HIDE DEF n
<1>3. q \in Nat \ {0} /\ Power[n + 1] = 2 * q /\ Power[StateBits] = 2 * Power[n + 1]
    BY <1>2, PowerFacts
<1> HIDE DEF q
<1>4. Full = 2 * (2 * q) /\ Full = 4 * q
    BY <1>3 DEF Full
<1>5. Half = 2 * q
    <2>1. 2 * q \in Nat /\ 2 \in Nat \ {0}
        BY <1>3
    <2> QED
        BY <1>4, <2>1, DivMultiple DEF Half
<1>6. Quarter = q
    <2>1. q \in Nat /\ 2 \in Nat \ {0}
        BY <1>3
    <2> QED
        BY <1>5, <2>1, DivMultiple DEF Quarter
<1> QED
    BY <1>3, <1>4, <1>5, <1>6 DEF MinimumRange

\* The remainders that the bit masks take, for a number of the interval
LEMMA MaskFacts ==
    ASSUME NEW x \in 0..(Full - 1)
    PROVE  /\ x < Half => x % Half = x /\ (2 * x) % Full = 2 * x
           /\ Half <= x => x % Half = x - Half /\ (2 * x) % Full = 2 * x - Full
<1>1. Quarter \in Nat \ {0} /\ Half = 2 * Quarter /\ Full = 4 * Quarter
      /\ Half \in Nat \ {0} /\ Full \in Nat \ {0}
    BY StateFacts
<1>2. ASSUME x < Half PROVE x % Half = x /\ (2 * x) % Full = 2 * x
    <2>1. x \in Nat /\ 2 * x \in Nat /\ x = Half * 0 + x /\ 2 * x = Full * 0 + 2 * x /\ 2 * x < Full
        BY <1>1, <1>2
    <2> QED
        BY <1>1, <1>2, <2>1, DivUnique
<1>3. ASSUME Half <= x PROVE x % Half = x - Half /\ (2 * x) % Full = 2 * x - Full
    <2> DEFINE r == x - Half
               t == 2 * x - Full
    <2>1. x \in Nat /\ r \in Nat /\ x = Half * 1 + r /\ r < Half
        BY <1>1, <1>3
    <2>2. 2 * x \in Nat /\ t \in Nat /\ 2 * x = Full * 1 + t /\ t < Full
        BY <1>1, <1>3
    <2>3. 1 \in Nat
        OBVIOUS
    <2> HIDE DEF r, t
    <2>4. x % Half = r
        BY <1>1, <2>1, <2>3, DivUnique
    <2>5. (2 * x) % Full = t
        BY <1>1, <2>2, <2>3, DivUnique
    <2> QED
        BY <2>4, <2>5 DEF r, t
<1> QED
    BY <1>2, <1>3

\* Coefficients are integers.
LEMMA CoefficientsAreIntegers == \A x \in Coefficient : x \in Int
<1>1. Coefficient \subseteq Int16
    BY DataAssumption
<1>2. \A x \in Int16 : x \in Int
    BY DEF Int16
<1> QED
    BY <1>1, <1>2

\* The bounds of a subband are coefficients of it, and no coefficient is outside.
LEMMA BoundsFacts ==
    ASSUME NEW n \in Nat \ {0}, NEW d \in [1..n -> Coefficient]
    PROVE  /\ Bounds(d) \in [xmin : Coefficient, xmax : Coefficient]
           /\ \A i \in 1..n : Bounds(d).xmin <= d[i] /\ d[i] <= Bounds(d).xmax
<1> DEFINE R == Range(d)
<1>1. /\ \A x \in R : x \in Coefficient
      /\ \A i \in 1..n : d[i] \in R
      /\ d[1] \in R
    BY DEF Range
<1>2. \A x \in R : x \in Int /\ -(2^15) <= x /\ x <= 2^15 - 1
    <2>1. \A x \in Int16 : x \in Int /\ -(2^15) <= x /\ x <= 2^15 - 1
        BY DEF Int16
    <2>2. Coefficient \subseteq Int16
        BY DataAssumption
    <2> HIDE DEF R
    <2> QED
        BY <1>1, <2>1, <2>2
<1> HIDE DEF R
<1>3. \E x \in R : \A y \in R : x <= y
    <2> DEFINE T == {x + 2^15 : x \in R}
    <2>1. T \in SUBSET Nat /\ T # {}
        BY <1>1, <1>2
    <2>2. PICK t \in T : \A u \in T : t <= u
        <3> HIDE DEF T
        <3> QED
            BY <2>1, NatMin
    <2>3. PICK x \in R : t = x + 2^15
        BY <2>2
    <2>4. \A y \in R : y + 2^15 \in T
        OBVIOUS
    <2>5. \A y \in R : x + 2^15 <= y + 2^15
        BY <2>2, <2>3, <2>4
    <2> QED
        BY <1>2, <2>5
<1>4. \E x \in R : \A y \in R : x >= y
    <2> DEFINE T == {2^15 - 1 - x : x \in R}
    <2>1. T \in SUBSET Nat /\ T # {}
        BY <1>1, <1>2
    <2>2. PICK t \in T : \A u \in T : t <= u
        <3> HIDE DEF T
        <3> QED
            BY <2>1, NatMin
    <2>3. PICK x \in R : t = 2^15 - 1 - x
        BY <2>2
    <2>4. \A y \in R : 2^15 - 1 - y \in T
        OBVIOUS
    <2>5. \A y \in R : 2^15 - 1 - x <= 2^15 - 1 - y
        BY <2>2, <2>3, <2>4
    <2> QED
        BY <1>2, <2>5
<1>5. /\ Bounds(d).xmin = CHOOSE x \in R : \A y \in R : x <= y
      /\ Bounds(d).xmax = CHOOSE x \in R : \A y \in R : x >= y
      /\ Bounds(d) = [xmin |-> Bounds(d).xmin, xmax |-> Bounds(d).xmax]
    BY DEF Bounds, R
<1>6. /\ Bounds(d).xmin \in R /\ \A y \in R : Bounds(d).xmin <= y
      /\ Bounds(d).xmax \in R /\ \A y \in R : Bounds(d).xmax >= y
    BY <1>3, <1>4, <1>5, Zenon
<1>7. \A i \in 1..n : Bounds(d).xmin <= d[i] /\ d[i] <= Bounds(d).xmax
    BY <1>1, <1>2, <1>6
<1> QED
    BY <1>1, <1>5, <1>6, <1>7

-----------------------------------------------------------------------------
(* The steps.                                                              *)

\* The first state
LEMMA InitInv == Init => Inv
<1> SUFFICES ASSUME Init PROVE Inv
    OBVIOUS
<1>1. Quarter \in Nat \ {0} /\ Half = 2 * Quarter /\ Full = 4 * Quarter
    BY StateFacts
<1>2. low = 0 /\ high = Full - 1 /\ pc = "subband" /\ sub = 1 /\ header = <<>>
      /\ numUnderflow = 0
    BY DEF Init
<1>3. bout \in Stream /\ bout.currentByte < Values(bout.numBitsFilled)
    BY DEF Init, Stream, Values
<1>4. TypeOK
    <2>1. Len(Lens) \in Nat
        BY DataAssumption
    <2> QED
        BY <1>1, <1>2, <1>3, <2>1, StreamType DEF TypeOK
<1>5. IntervalFollows
    <2>1. high \in 0..(Full - 1) /\ Half <= high
        BY <1>1, <1>2
    <2>2. high % Half = high - Half
        BY <2>1, MaskFacts
    <2> QED
        BY <1>1, <1>2, <2>1, <2>2 DEF IntervalFollows, AroundMiddle
<1>6. SubbandFollows
    BY <1>2 DEF SubbandFollows, InSubband
<1> QED
    BY <1>3, <1>4, <1>5, <1>6 DEF Inv, StreamFollows

\* A subband begins, or all its coefficients are the same.
LEMMA BeginSubbandInv ==
    ASSUME Inv, BeginSubband
    PROVE  Inv'
<1>1. /\ pc = "subband" /\ sub <= Len(Lens) /\ sub \in 1..(Len(Lens) + 1)
      /\ UNCHANGED <<low, high, numUnderflow, bout>>
    BY DEF BeginSubband, Inv, TypeOK
<1>2. PICK d \in [1..Lens[sub] -> Coefficient], g \in [1..Lens[sub] -> Gmms] :
          /\ header' = Append(header, Bounds(d))
          /\ IF Bounds(d).xmin >= Bounds(d).xmax
             THEN sub' = sub + 1 /\ UNCHANGED <<pc, p, datum, gmm>>
             ELSE pc' = "symbol" /\ p' = 1 /\ datum' = d /\ gmm' = g /\ UNCHANGED sub
    BY DEF BeginSubband
<1>3. Len(Lens) \in Nat /\ sub \in 1..Len(Lens) /\ Lens[sub] \in Nat \ {0}
    <2>1. Len(Lens) \in Nat /\ \A i \in 1..Len(Lens) : Lens[i] \in Nat \ {0}
        BY DataAssumption
    <2> QED
        BY <1>1, <2>1
<1>4. /\ Bounds(d) \in [xmin : Coefficient, xmax : Coefficient]
      /\ Bounds(d).xmin \in Int /\ Bounds(d).xmax \in Int
      /\ \A i \in 1..Lens[sub] : Bounds(d).xmin <= d[i] /\ d[i] <= Bounds(d).xmax
    <2>1. /\ Bounds(d) \in [xmin : Coefficient, xmax : Coefficient]
          /\ \A i \in 1..Lens[sub] : Bounds(d).xmin <= d[i] /\ d[i] <= Bounds(d).xmax
        BY <1>3, BoundsFacts
    <2>2. \A x \in Coefficient : x \in Int
        BY CoefficientsAreIntegers
    <2> QED
        BY <2>1, <2>2
<1>5. /\ header \in Seq([xmin : Coefficient, xmax : Coefficient])
      /\ Len(header) = sub - 1
    BY <1>1 DEF Inv, SubbandFollows, InSubband
<1> DEFINE b == Bounds(d)
           B == [xmin : Coefficient, xmax : Coefficient]
<1>6. header' \in Seq(B) /\ Len(header') = sub /\ header'[sub] = b
    <2> HIDE DEF b, B
    <2>1. header' = Append(header, b) /\ b \in B /\ header \in Seq(B) /\ Len(header) = sub - 1
        BY <1>2, <1>4, <1>5 DEF b, B
    <2> QED
        BY <1>3, <2>1
<1> HIDE DEF b
<1>7. StreamFollows'
    BY <1>1 DEF Inv, StreamFollows
<1>8. CASE b.xmin >= b.xmax
    <2>1. sub' = sub + 1 /\ UNCHANGED <<pc, p, datum, gmm>>
        BY <1>2, <1>8 DEF b
    <2>2. TypeOK'
        BY <1>1, <1>3, <2>1 DEF Inv, TypeOK
    <2>3. IntervalFollows'
        BY <1>1, <2>1 DEF Inv, IntervalFollows, TopBitsAgree, AroundMiddle
    <2>4. SubbandFollows'
        BY <1>1, <1>3, <1>6, <2>1 DEF SubbandFollows, InSubband
    <2> QED
        BY <1>7, <2>2, <2>3, <2>4 DEF Inv
<1>9. CASE ~(b.xmin >= b.xmax)
    <2>1. pc' = "symbol" /\ p' = 1 /\ datum' = d /\ gmm' = g /\ UNCHANGED sub
        BY <1>2, <1>9 DEF b
    <2>2. TypeOK'
        BY <1>1, <1>3, <1>6, <2>1 DEF Inv, TypeOK
    <2>3. IntervalFollows'
        BY <1>1, <2>1 DEF Inv, IntervalFollows, TopBitsAgree, AroundMiddle
    <2>4. SubbandFollows'
        <3>1. b.xmin < b.xmax /\ \A i \in 1..Lens[sub] : b.xmin <= d[i] /\ d[i] <= b.xmax
            BY <1>4, <1>9 DEF b
        <3> QED
            BY <1>3, <1>6, <2>1, <3>1 DEF SubbandFollows, InSubband
    <2> QED
        BY <1>7, <2>2, <2>3, <2>4 DEF Inv
<1> QED
    BY <1>8, <1>9

\* What a coefficient needs to be coded: its bounds, and room for every frequency.
LEMMA SymbolFacts ==
    ASSUME Inv, pc = "symbol"
    PROVE  /\ gmm[p] \in Gmms /\ datum[p] \in Int
           /\ header[sub].xmin \in Int /\ header[sub].xmax \in Int
           /\ header[sub].xmin < header[sub].xmax
           /\ header[sub].xmin <= datum[p] /\ datum[p] <= header[sub].xmax
           /\ low \in Nat /\ high \in Nat /\ high < Full
           /\ high - low + 1 >= MinimumRange
           /\ TotalFreqs(gmm[p], header[sub].xmin, header[sub].xmax) <= MinimumRange
<1>1. /\ p \in 1..Lens[sub] /\ sub \in 1..Len(Lens) /\ sub = Len(header)
      /\ low \in 0..(Full - 1) /\ high \in 0..(Full - 1)
    BY DEF Inv, TypeOK, SubbandFollows, InSubband
<1>2. /\ datum \in [1..Lens[sub] -> Coefficient] /\ gmm \in [1..Lens[sub] -> Gmms]
      /\ header[sub].xmin < header[sub].xmax
      /\ header[sub].xmin <= datum[p] /\ datum[p] <= header[sub].xmax
    BY <1>1 DEF Inv, SubbandFollows, InSubband
<1>3. \A x \in Coefficient : x \in Int
    BY CoefficientsAreIntegers
<1>4. header[sub].xmin \in Coefficient /\ header[sub].xmax \in Coefficient
    <2> DEFINE B == [xmin : Coefficient, xmax : Coefficient]
    <2>1. header \in Seq(B)
        BY DEF Inv, SubbandFollows
    <2> HIDE DEF B
    <2>2. header[sub] \in B
        BY <1>1, <2>1
    <2> QED
        BY <2>2 DEF B
<1>5. gmm[p] \in Gmms /\ datum[p] \in Int /\ header[sub].xmin \in Int /\ header[sub].xmax \in Int
    BY <1>1, <1>2, <1>3, <1>4
<1>6. high - low + 1 >= MinimumRange /\ low \in Nat /\ high \in Nat /\ high < Full
    <2>1. Quarter \in Nat \ {0} /\ Half = 2 * Quarter /\ Full = 4 * Quarter
          /\ MinimumRange = Quarter + 2
        BY StateFacts
    <2>2. low < Half /\ Half <= high /\ ~(low % Half >= Quarter /\ high % Half < Quarter)
        BY DEF Inv, IntervalFollows, AroundMiddle
    <2>3. low % Half = low /\ high % Half = high - Half
        BY <1>1, <2>2, MaskFacts
    <2> QED
        BY <1>1, <2>1, <2>2, <2>3
<1>7. TotalFreqs(gmm[p], header[sub].xmin, header[sub].xmax) <= MinimumRange
    <2> DEFINE lo == header[sub].xmin
               hi == header[sub].xmax
               total == TotalFreqs(gmm[p], lo, hi)
    <2>1. lo \in Coefficient /\ hi \in Coefficient /\ lo \in Int /\ hi \in Int /\ lo <= hi
        BY <1>2, <1>4, <1>5
    <2>2. Resolution + (hi - lo + 1) <= MinimumRange /\ Resolution \in Nat
        BY <2>1, RangeAssumption
    <2> HIDE DEF lo, hi
    <2>3. total <= Resolution + (hi - lo + 1) /\ total \in Nat
        BY <1>5, <2>1, FrequencyFacts
    <2>4. MinimumRange \in Int
        BY StateFacts
    <2> HIDE DEF total
    <2>5. total <= MinimumRange
        BY <2>1, <2>2, <2>3, <2>4
    <2> QED
        BY <2>5 DEF total, lo, hi
<1> QED
    BY <1>2, <1>5, <1>6, <1>7

\* A coefficient narrows the interval, and it does not become empty.
LEMMA SymbolInv ==
    ASSUME Inv, Symbol
    PROVE  Inv'
<1> DEFINE lo == header[sub].xmin
           hi == header[sub].xmax
           g == gmm[p]
           total == TotalFreqs(g, lo, hi)
           range == high - low + 1
           l == SymLow(g, datum[p], lo)
           h == SymHigh(g, datum[p], lo)
<1>1. /\ pc = "symbol" /\ pc' = "shift"
      /\ low' = low + (l * range) \div total
      /\ high' = low + (h * range) \div total - 1
      /\ UNCHANGED <<sub, p, datum, gmm, header, numUnderflow, bout, input>>
    BY DEF Symbol
<1>2. /\ l \in Nat /\ h \in Nat /\ l < h /\ h <= total /\ total \in Nat \ {0}
      /\ total <= range /\ range \in Nat /\ low \in Nat /\ high \in Nat /\ high < Full
      /\ range = high - low + 1
    <2>1. /\ g \in Gmms /\ datum[p] \in Int /\ lo \in Int /\ hi \in Int /\ lo <= hi
          /\ lo <= datum[p] /\ datum[p] <= hi
          /\ low \in Nat /\ high \in Nat /\ high < Full /\ range >= MinimumRange
          /\ total <= MinimumRange
        BY <1>1, SymbolFacts
    <2>2. l \in Nat /\ h \in Nat /\ l < h /\ h <= total /\ total \in Nat \ {0}
        <3> HIDE DEF g, lo, hi
        <3> QED
            BY <2>1, FrequencyFacts
    <2>3. MinimumRange \in Nat
        BY StateFacts
    <2> HIDE DEF l, h, total, g, lo, hi
    <2> QED
        BY <2>1, <2>2, <2>3
<1> HIDE DEF l, h, total, range, g, lo, hi
<1> DEFINE a == (l * range) \div total
           b == (h * range) \div total
<1>3. a \in Nat /\ b \in Nat /\ a + 1 <= b /\ b <= range
    BY <1>2, NarrowFacts
<1>4. low' = low + a /\ high' = low + b - 1
    BY <1>1
<1> HIDE DEF a, b
<1>5. Full \in Nat
    BY StateFacts
<1>6. low' \in 0..(Full - 1) /\ high' \in 0..(Full - 1) /\ low' <= high'
    BY <1>2, <1>3, <1>4, <1>5
<1>7. TypeOK'
    <2>1. TypeOK
        BY DEF Inv
    <2>2. UNCHANGED <<sub, p, header, numUnderflow, bout>> /\ pc = "symbol" /\ pc' = "shift"
        BY <1>1
    <2> QED
        BY <2>1, <2>2, <1>6 DEF TypeOK
<1>8. StreamFollows' /\ IntervalFollows' /\ SubbandFollows'
    BY <1>1, <1>6 DEF Inv, StreamFollows, IntervalFollows, SubbandFollows, InSubband
<1> QED
    BY <1>7, <1>8 DEF Inv

\* A bit is written.
LEMMA WriteInv ==
    ASSUME Inv, Shift \/ WriteOpenBit \/ Finish \/ Fill
    PROVE  Inv'
<1>1. /\ UNCHANGED <<sub, p, datum, gmm, header, low, high>>
      /\ numUnderflow' \in Nat
      /\ bout' = bout \/ \E b \in 0..1 : bout' = WriteBit(bout, b)
      /\ \/ pc \in {"shift", "open"} /\ pc' = "open" /\ (pc = "shift" => TopBitsAgree)
         \/ pc \in {"subband", "fill"} /\ pc' \in {"fill", "done"}
    <2>1. TopBit \in 0..1 /\ 1 - TopBit \in 0..1 /\ 1 \in 0..1 /\ 0 \in 0..1
        BY DEF TopBit
    <2>2. numUnderflow \in Nat
        BY DEF Inv, TypeOK
    <2>3. CASE Shift
        BY <2>1, <2>2, <2>3 DEF Shift
    <2>4. CASE WriteOpenBit
        BY <2>1, <2>2, <2>4 DEF WriteOpenBit
    <2>5. CASE Finish
        BY <2>1, <2>2, <2>5 DEF Finish
    <2>6. CASE Fill
        BY <2>1, <2>2, <2>6 DEF Fill
    <2> QED
        BY <2>3, <2>4, <2>5, <2>6
<1>2. bout' \in Stream /\ bout'.currentByte < Values(bout'.numBitsFilled)
    BY <1>1, WriteBitFacts DEF Inv, StreamFollows
<1>3. StreamFollows'
    BY <1>2 DEF StreamFollows
<1>4. TypeOK'
    <2>1. /\ bout'.numBitsFilled \in 0..7
          /\ bout'.currentByte \in 0..127
          /\ \A i \in 1..Len(bout'.bytes) : bout'.bytes[i] \in 0..255
        BY <1>2, StreamType
    <2> QED
        BY <1>1, <2>1 DEF Inv, TypeOK
<1>5. IntervalFollows'
    BY <1>1 DEF Inv, IntervalFollows, TopBitsAgree
<1>6. SubbandFollows'
    BY <1>1 DEF Inv, SubbandFollows, InSubband
<1> QED
    BY <1>3, <1>4, <1>5, <1>6 DEF Inv

\* The loops of update end, or the interval is doubled.
LEMMA LoopInv ==
    ASSUME Inv, EndShiftTurn \/ EndShift \/ Underflow
    PROVE  Inv'
<1>1. /\ UNCHANGED <<sub, p, datum, gmm, header, bout>>
      /\ numUnderflow' \in Nat /\ InSubband /\ InSubband'
      /\ pc' \in {"shift", "underflow"}
    BY DEF EndShiftTurn, EndShift, Underflow, Inv, TypeOK, InSubband
<1>2. Quarter \in Nat \ {0} /\ Half = 2 * Quarter /\ Full = 4 * Quarter
    BY StateFacts
<1>3. low \in 0..(Full - 1) /\ high \in 0..(Full - 1) /\ low <= high
    BY DEF Inv, TypeOK, IntervalFollows
<1>4. /\ low < Half => low % Half = low /\ (2 * low) % Full = 2 * low
      /\ Half <= low => low % Half = low - Half /\ (2 * low) % Full = 2 * low - Full
      /\ high < Half => high % Half = high /\ (2 * high) % Full = 2 * high
      /\ Half <= high => high % Half = high - Half /\ (2 * high) % Full = 2 * high - Full
    BY <1>3, MaskFacts
<1>5. /\ low' \in 0..(Full - 1) /\ high' \in 0..(Full - 1) /\ low' <= high'
      /\ pc' = "underflow" => low' < Half /\ Half <= high'
    <2>1. CASE EndShiftTurn
        <3>1. TopBitsAgree /\ pc' = "shift" /\ low' = (2 * low) % Full /\ high' = ((2 * high) % Full) + 1
            BY <2>1 DEF EndShiftTurn, Inv, IntervalFollows
        <3>2. \/ low < Half /\ high < Half
              \/ Half <= low /\ Half <= high
            BY <1>2, <1>3, <3>1 DEF TopBitsAgree
        <3> QED
            BY <1>2, <1>3, <1>4, <3>1, <3>2
    <2>2. CASE EndShift
        BY <1>2, <1>3, <2>2 DEF EndShift, TopBitsAgree
    <2>3. CASE Underflow
        <3>1. /\ low % Half >= Quarter /\ high % Half < Quarter
              /\ low < Half /\ Half <= high
              /\ low' = Flipped(2 * low) /\ high' = 2 * Flipped(high) + Half + 1
            BY <2>3 DEF Underflow, AroundMiddle, Inv, IntervalFollows
        <3>2. Quarter <= low /\ high < Half + Quarter
            BY <1>2, <1>3, <1>4, <3>1
        <3>3. (2 * low) % Full = 2 * low
            BY <1>4, <3>1
        <3>4. low' = 2 * low - Half
            BY <1>2, <1>3, <3>1, <3>2, <3>3 DEF Flipped
        <3>5. high % Full = high
            <4>1. high \in Nat /\ Full \in Nat \ {0} /\ high = Full * 0 + high /\ high < Full
                BY <1>2, <1>3
            <4> QED
                BY <4>1, DivUnique
        <3>6. high' = 2 * (high - Half) + Half + 1
            BY <3>1, <3>5 DEF Flipped
        <3> QED
            BY <1>2, <1>3, <3>1, <3>2, <3>4, <3>6
    <2> QED
        BY <2>1, <2>2, <2>3
<1>6. TypeOK'
    BY <1>1, <1>5 DEF Inv, TypeOK, InSubband
<1>7. StreamFollows' /\ SubbandFollows'
    BY <1>1 DEF Inv, StreamFollows, SubbandFollows
<1>8. IntervalFollows'
    BY <1>1, <1>5 DEF IntervalFollows
<1> QED
    BY <1>6, <1>7, <1>8 DEF Inv

\* A coefficient is coded.
LEMMA EndUnderflowInv ==
    ASSUME Inv, EndUnderflow
    PROVE  Inv'
<1>1. /\ pc = "underflow" /\ ~AroundMiddle
      /\ UNCHANGED <<datum, gmm, header, low, high, numUnderflow, bout>>
      /\ \/ p < Lens[sub] /\ pc' = "symbol" /\ p' = p + 1 /\ UNCHANGED sub
         \/ ~(p < Lens[sub]) /\ pc' = "subband" /\ sub' = sub + 1 /\ UNCHANGED p
    BY DEF EndUnderflow
<1>2. /\ sub \in 1..Len(Lens) /\ p \in 1..Lens[sub] /\ Lens[sub] \in Nat /\ Len(Lens) \in Nat
      /\ Len(header) = sub
    <2>1. sub \in 1..(Len(Lens) + 1) /\ sub <= Len(Lens) /\ p \in 1..Lens[sub] /\ Len(header) = sub
        BY <1>1 DEF Inv, TypeOK, SubbandFollows, InSubband
    <2>2. Len(Lens) \in Nat /\ \A i \in 1..Len(Lens) : Lens[i] \in Nat
        BY DataAssumption
    <2> QED
        BY <2>1, <2>2
<1>3. TypeOK'
    BY <1>1, <1>2 DEF Inv, TypeOK
<1>4. StreamFollows' /\ IntervalFollows'
    BY <1>1 DEF Inv, StreamFollows, IntervalFollows, AroundMiddle
<1>5. SubbandFollows'
    BY <1>1, <1>2 DEF Inv, SubbandFollows, InSubband
<1> QED
    BY <1>3, <1>4, <1>5 DEF Inv

\* No step breaks the invariant.
LEMMA NextInv == Inv /\ [Next]_vars => Inv'
<1> SUFFICES ASSUME Inv, [Next]_vars
             PROVE  Inv'
    OBVIOUS
<1>1. CASE CoderStep
    BY <1>1, BeginSubbandInv, SymbolInv, WriteInv, LoopInv, EndUnderflowInv DEF CoderStep
<1>2. CASE UNCHANGED vars
    <2>1. UNCHANGED <<pc, sub, p, datum, gmm, header, low, high, numUnderflow, bout>>
        BY <1>2 DEF vars
    <2>2. TypeOK' /\ StreamFollows'
        BY <2>1 DEF Inv, TypeOK, StreamFollows
    <2>3. IntervalFollows' /\ SubbandFollows'
        BY <2>1 DEF Inv, IntervalFollows, SubbandFollows, InSubband, TopBitsAgree, AroundMiddle
    <2> QED
        BY <2>2, <2>3 DEF Inv
<1> QED
    BY <1>1, <1>2 DEF Next, Done

-----------------------------------------------------------------------------
(* The length of the stream.                                               *)

\* The bits written and those left open
Used == 8 * Len(bout.bytes) + bout.numBitsFilled + numUnderflow

\* As many bits for every coefficient as the state has
Allowed == StateBits * Cardinality(Coded)

\* Every bit of a coefficient has doubled the interval, which was not empty and never
\* gets larger than the state allows.
FitsFollows ==
    /\ pc \in {"subband", "symbol"} => Used <= Allowed
    /\ pc \in {"shift", "open", "underflow"} =>
          \E t \in 0..StateBits :
              /\ Power[t] <= high - low + 1
              /\ Used + StateBits <= Allowed + t + (IF pc = "open" THEN 1 ELSE 0)
    /\ pc \in {"fill", "done"} =>
          8 * Len(bout.bytes) + (IF bout.numBitsFilled = 0 THEN 0 ELSE 8) <= Allowed + 8

\* A bit makes the stream one bit longer.
LEMMA WriteBitCount ==
    ASSUME NEW out \in Stream, NEW b \in 0..1
    PROVE  LET w == WriteBit(out, b) IN
           /\ Len(out.bytes) \in Nat /\ Len(w.bytes) \in Nat
           /\ out.numBitsFilled \in 0..7 /\ w.numBitsFilled \in 0..7
           /\ 8 * Len(w.bytes) + w.numBitsFilled = 8 * Len(out.bytes) + out.numBitsFilled + 1
           /\ w.numBitsFilled # 0 => Len(w.bytes) = Len(out.bytes)
<1> DEFINE byte == 2 * out.currentByte + b
<1>1. out.bytes \in Seq(Byte) /\ out.currentByte \in Nat /\ out.numBitsFilled \in 0..7
    BY DEF Stream
<1>2. Len(out.bytes) \in Nat
    BY <1>1
<1>3. CASE out.numBitsFilled = 7
    <2>1. WriteBit(out, b) = [bytes |-> Append(out.bytes, byte), currentByte |-> 0, numBitsFilled |-> 0]
        BY <1>3 DEF WriteBit
    <2> HIDE DEF byte
    <2>2. out.bytes \in Seq(Byte \cup {byte}) /\ byte \in Byte \cup {byte}
        BY <1>1
    <2>3. Len(Append(out.bytes, byte)) = Len(out.bytes) + 1
        BY <2>2, AppendProperties
    <2> QED
        BY <1>2, <1>3, <2>1, <2>3
<1>4. CASE out.numBitsFilled # 7
    <2>1. WriteBit(out, b) = [out EXCEPT !.currentByte = byte, !.numBitsFilled = @ + 1]
        BY <1>4 DEF WriteBit
    <2> HIDE DEF byte
    <2>2. /\ WriteBit(out, b).bytes = out.bytes
          /\ WriteBit(out, b).numBitsFilled = out.numBitsFilled + 1
        BY <2>1 DEF Stream
    <2> QED
        BY <1>1, <1>2, <1>4, <2>2
<1> QED
    BY <1>3, <1>4

\* The coefficients of a part of a subband, and of the subbands before it, are finitely
\* many.
LEMMA PlacesFinite ==
    /\ \A k, n \in Nat : IsFiniteSet({k} \X (1..n))
    /\ \A n \in 1..(Len(Lens) + 1) : IsFiniteSet(Before(n))
<1>1. Len(Lens) \in Nat /\ \A k \in 1..Len(Lens) : Lens[k] \in Nat
    BY DataAssumption
<1>2. \A k, n \in Nat : IsFiniteSet({k} \X (1..n))
    <2> SUFFICES ASSUME NEW k \in Nat, NEW n \in Nat PROVE IsFiniteSet({k} \X (1..n))
        OBVIOUS
    <2>1. IsFiniteSet({k}) /\ IsFiniteSet(1..n)
        <3>1. 1 \in Int /\ n \in Int
            OBVIOUS
        <3> QED
            BY <3>1, FS_Singleton, FS_Interval
    <2> QED
        BY <2>1, FS_Product
<1>3. ASSUME NEW n \in 1..(Len(Lens) + 1)
      PROVE  IsFiniteSet(Before(n))
    <2> DEFINE I == 1..(n - 1)
               Subband == [k \in I |-> {k} \X (1..Lens[k])]
               All == {Subband[k] : k \in I}
    <2>1. IsFiniteSet(I)
        <3>1. 1 \in Int /\ n - 1 \in Int
            BY <1>1
        <3> QED
            BY <3>1, FS_Interval
    <2>2. \A k \in I : k \in Nat /\ Lens[k] \in Nat
        BY <1>1
    <2>3. \A k \in I : IsFiniteSet(Subband[k])
        BY <1>2, <2>2
    <2>4. UNION All = Before(n)
        BY DEF Before
    <2> HIDE DEF I
    <2>5. Subband \in Surjection(I, All)
        BY DEF Surjection
    <2> HIDE DEF Subband
    <2>6. IsFiniteSet(All)
        BY <2>1, <2>5, FS_Surjection
    <2>7. \A S \in All : IsFiniteSet(S)
        BY <2>3
    <2> HIDE DEF All
    <2>8. IsFiniteSet(UNION All)
        BY <2>6, <2>7, FS_UNION
    <2> QED
        BY <2>4, <2>8
<1> QED
    BY <1>2, <1>3

\* So are those coded so far.
LEMMA CodedIsFinite ==
    ASSUME TypeOK
    PROVE  IsFiniteSet(Coded) /\ Cardinality(Coded) \in Nat
<1>1. Len(Lens) \in Nat /\ \A k \in 1..Len(Lens) : Lens[k] \in Nat
    BY DataAssumption
<1>2. sub \in 1..(Len(Lens) + 1) /\ Begun \in Nat
    <2>1. /\ sub \in 1..(Len(Lens) + 1)
          /\ pc \notin {"subband", "fill", "done"} => sub \in 1..Len(Lens) /\ p \in 1..Lens[sub]
        BY <1>1 DEF TypeOK
    <2>2. pc \notin {"subband", "fill", "done"} => p \in Nat \ {0} /\ p - 1 \in Nat
        BY <1>1, <2>1
    <2> QED
        BY <2>1, <2>2 DEF Begun
<1>3. IsFiniteSet({sub} \X (1..Begun)) /\ IsFiniteSet(Before(sub))
    BY <1>1, <1>2, PlacesFinite
<1>4. IsFiniteSet(Coded)
    BY <1>3, FS_Union DEF Coded
<1> QED
    BY <1>4, FS_CardinalityType

\* The coefficients coded before a step and after it
LEMMA CodedFinite ==
    ASSUME TypeOK, TypeOK'
    PROVE  /\ IsFiniteSet(Coded) /\ Cardinality(Coded) \in Nat
           /\ IsFiniteSet(Coded') /\ Cardinality(Coded') \in Nat
<1>1. Len(Lens) \in Nat /\ \A k \in 1..Len(Lens) : Lens[k] \in Nat
    BY DataAssumption
<1>2. ASSUME NEW k \in 1..(Len(Lens) + 1), NEW n \in Nat
      PROVE  IsFiniteSet(Before(k) \cup ({k} \X (1..n)))
    <2>1. IsFiniteSet({k} \X (1..n)) /\ IsFiniteSet(Before(k))
        BY <1>1, PlacesFinite
    <2> QED
        BY <2>1, FS_Union
<1>3. /\ Coded = Before(sub) \cup ({sub} \X (1..Begun))
      /\ Coded' = Before(sub') \cup ({sub'} \X (1..Begun'))
    BY DEF Coded
<1>4. sub \in 1..(Len(Lens) + 1) /\ Begun \in Nat
    <2>1. /\ sub \in 1..(Len(Lens) + 1)
          /\ pc \notin {"subband", "fill", "done"} => sub \in 1..Len(Lens) /\ p \in 1..Lens[sub]
        BY <1>1 DEF TypeOK
    <2>2. pc \notin {"subband", "fill", "done"} => p \in Nat \ {0} /\ p - 1 \in Nat
        BY <1>1, <2>1
    <2> QED
        BY <2>1, <2>2 DEF Begun
<1>5. sub' \in 1..(Len(Lens) + 1) /\ Begun' \in Nat
    <2>1. /\ sub' \in 1..(Len(Lens) + 1)
          /\ pc' \notin {"subband", "fill", "done"} => sub' \in 1..Len(Lens) /\ p' \in 1..Lens[sub']
        BY <1>1 DEF TypeOK
    <2>2. pc' \notin {"subband", "fill", "done"} => p' \in Nat \ {0} /\ p' - 1 \in Nat
        BY <1>1, <2>1
    <2> QED
        BY <2>1, <2>2 DEF Begun
<1>6. IsFiniteSet(Coded) /\ IsFiniteSet(Coded')
    BY <1>2, <1>3, <1>4, <1>5
<1> QED
    BY <1>6, FS_CardinalityType

\* A set that grows does not get fewer elements.
LEMMA CodedKept ==
    ASSUME TypeOK, TypeOK', Coded \subseteq Coded'
    PROVE  Allowed <= Allowed' /\ Allowed \in Nat /\ Allowed' \in Nat
<1>1. IsFiniteSet(Coded') /\ Cardinality(Coded') \in Nat
    BY CodedFinite
<1>2. Cardinality(Coded) \in Nat /\ Coded \in SUBSET Coded'
    BY CodedFinite
<1>3. Cardinality(Coded) <= Cardinality(Coded')
    BY <1>1, <1>2, FS_Subset
<1>4. StateBits \in Nat
    BY RangeAssumption
<1>5. \A s, m, n \in Nat : m <= n => s * m <= s * n /\ s * m \in Nat
    OBVIOUS
<1> QED
    BY <1>1, <1>2, <1>3, <1>4, <1>5 DEF Allowed

\* What a coefficient, and the end of a subband, add to the coefficients coded so far
LEMMA CodedGrows ==
    ASSUME Inv, Inv', CoderStep
    PROVE  /\ Allowed \in Nat /\ Allowed' \in Nat
           /\ Allowed <= Allowed'
           /\ Symbol => Allowed' = Allowed + StateBits
<1>1. Len(Lens) \in Nat /\ \A k \in 1..Len(Lens) : Lens[k] \in Nat
    BY DataAssumption
<1>2. TypeOK /\ TypeOK' /\ sub \in Nat \ {0} /\ sub <= Len(Lens) + 1
    BY <1>1 DEF Inv, TypeOK
<1>3. \A n \in Nat : \A c : c \in Before(n) <=> \E i \in 1..(n - 1) : c \in {i} \X (1..Lens[i])
    BY DEF Before
<1>4. CASE Symbol
    <2>1. /\ pc = "symbol" /\ pc' = "shift" /\ sub' = sub /\ p' = p
          /\ p \in Nat \ {0}
        BY <1>1, <1>2, <1>4 DEF Symbol, TypeOK
    <2>2. Begun = p - 1 /\ Begun' = p
        BY <2>1 DEF Begun
    <2>3. {sub} \X (1..p) = ({sub} \X (1..(p - 1))) \cup {<<sub, p>>}
        <3>1. 1..p = (1..(p - 1)) \cup {p}
            BY <2>1
        <3> QED
            BY <3>1
    <2>4. <<sub, p>> \notin {sub} \X (1..(p - 1))
        BY <2>1
    <2>5. <<sub, p>> \notin Before(sub)
        <3>1. \A i \in 1..(sub - 1) : <<sub, p>> \notin {i} \X (1..Lens[i])
            BY <1>2
        <3> QED
            BY <1>2, <1>3, <3>1
    <2>6. Coded' = Coded \cup {<<sub, p>>} /\ <<sub, p>> \notin Coded
        BY <2>1, <2>2, <2>3, <2>4, <2>5 DEF Coded
    <2>7. /\ Cardinality(Coded') = Cardinality(Coded) + 1
          /\ Cardinality(Coded) \in Nat
        BY <1>2, <2>6, CodedFinite, FS_AddElement
    <2>8. StateBits \in Nat
        BY RangeAssumption
    <2>9. \A a, n \in Nat : a * (n + 1) = a * n + a /\ a * n \in Nat
        OBVIOUS
    <2> DEFINE n == Cardinality(Coded)
    <2>10. Allowed = StateBits * n /\ Allowed' = StateBits * (n + 1) /\ n \in Nat
        BY <2>7 DEF Allowed
    <2> HIDE DEF n
    <2>11. Allowed \in Nat /\ Allowed' = Allowed + StateBits
        BY <2>8, <2>9, <2>10
    <2> QED
        BY <2>8, <2>11
<1>5. CASE ~Symbol
    <2>1. Coded \subseteq Coded'
        <3>1. CASE BeginSubband
            <4>1. /\ pc = "subband" /\ Begun = 0
                  /\ \/ sub' = sub /\ pc' = "symbol" /\ p' = 1
                     \/ sub' = sub + 1 /\ pc' = "subband"
                BY <3>1 DEF BeginSubband, Begun
            <4>2. Before(sub) \subseteq Before(sub')
                <5>1. \A i \in 1..(sub - 1) : i \in 1..(sub' - 1)
                    BY <1>2, <4>1
                <5>2. sub' \in Nat /\ sub \in Nat
                    BY <1>2, <4>1
                <5> QED
                    BY <1>3, <5>1, <5>2
            <4>3. {sub} \X (1..Begun) = {}
                BY <4>1
            <4> QED
                BY <4>2, <4>3 DEF Coded
        <3>2. CASE EndUnderflow
            <4>1. /\ pc = "underflow" /\ p \in 1..Lens[sub] /\ Lens[sub] \in Nat
                  /\ sub <= Len(Lens) /\ Begun = p
                  /\ \/ p < Lens[sub] /\ pc' = "symbol" /\ p' = p + 1 /\ sub' = sub
                     \/ p = Lens[sub] /\ pc' = "subband" /\ sub' = sub + 1
                BY <1>1, <1>2, <3>2 DEF EndUnderflow, TypeOK, Begun
            <4>2. CASE sub' = sub /\ pc' = "symbol" /\ p' = p + 1
                <5>1. Begun' = Begun
                    BY <4>1, <4>2 DEF Begun
                <5> QED
                    BY <4>2, <5>1 DEF Coded
            <4>3. CASE p = Lens[sub] /\ sub' = sub + 1
                <5>1. \A i \in 1..(sub - 1) : i \in 1..(sub' - 1)
                    BY <1>2, <4>3
                <5>2. sub' \in Nat /\ sub \in 1..(sub' - 1) /\ sub \in Nat
                    BY <1>2, <4>3
                <5>3. Before(sub) \subseteq Before(sub')
                    BY <1>3, <5>1, <5>2
                <5>4. {sub} \X (1..Begun) \subseteq Before(sub')
                    <6>1. Begun = Lens[sub]
                        BY <4>1, <4>3
                    <6> QED
                        BY <1>3, <5>2, <6>1
                <5> QED
                    BY <5>3, <5>4 DEF Coded
            <4> QED
                BY <4>1, <4>2, <4>3
        <3>3. CASE sub' = sub /\ Begun' = Begun
            BY <3>3 DEF Coded
        <3> QED
            BY <1>5, <3>1, <3>2, <3>3
                DEF CoderStep, Shift, WriteOpenBit, EndShiftTurn, EndShift, Underflow,
                    Finish, Fill, Begun
    <2> QED
        BY <1>2, <1>5, <2>1, CodedKept
<1> QED
    BY <1>4, <1>5

\* A turn of a loop doubles the interval, which stays within the state.
LEMMA TurnDoubles ==
    ASSUME Inv, Inv', EndShiftTurn \/ Underflow
    PROVE  /\ high' - low' + 1 = 2 * (high - low + 1)
           /\ high' - low' + 1 <= Full
           /\ high - low + 1 \in Nat /\ Full \in Nat \ {0}
<1>1. Quarter \in Nat \ {0} /\ Half = 2 * Quarter /\ Full = 4 * Quarter
    BY StateFacts
<1>2. /\ low \in 0..(Full - 1) /\ high \in 0..(Full - 1) /\ low <= high
      /\ low' \in 0..(Full - 1) /\ high' \in 0..(Full - 1)
    BY DEF Inv, TypeOK, IntervalFollows
<1>3. /\ low < Half => low % Half = low /\ (2 * low) % Full = 2 * low
      /\ Half <= low => (2 * low) % Full = 2 * low - Full
      /\ high < Half => (2 * high) % Full = 2 * high
      /\ Half <= high => high % Half = high - Half /\ (2 * high) % Full = 2 * high - Full
    BY <1>2, MaskFacts
<1>4. high' - low' = 2 * high + 1 - 2 * low
    <2>1. CASE EndShiftTurn
        <3>1. /\ low' = (2 * low) % Full /\ high' = ((2 * high) % Full) + 1
              /\ (low < Half <=> high < Half)
            BY <2>1 DEF EndShiftTurn, Inv, IntervalFollows, TopBitsAgree
        <3>2. CASE low < Half /\ high < Half
            BY <1>1, <1>2, <1>3, <3>1, <3>2
        <3>3. CASE Half <= low /\ Half <= high
            BY <1>1, <1>2, <1>3, <3>1, <3>3
        <3> QED
            BY <1>1, <1>2, <3>1, <3>2, <3>3
    <2>2. CASE Underflow
        <3>1. /\ low % Half >= Quarter /\ high % Half < Quarter
              /\ low < Half /\ Half <= high
              /\ low' = Flipped(2 * low) /\ high' = 2 * Flipped(high) + Half + 1
            BY <2>2 DEF Underflow, AroundMiddle, Inv, IntervalFollows
        <3>2. Quarter <= low /\ (2 * low) % Full = 2 * low
            BY <1>1, <1>2, <1>3, <3>1
        <3>3. low' = 2 * low - Half
            BY <1>1, <1>2, <3>1, <3>2 DEF Flipped
        <3>4. high % Full = high
            <4>1. high \in Nat /\ Full \in Nat \ {0} /\ high = Full * 0 + high /\ high < Full
                BY <1>1, <1>2
            <4> QED
                BY <4>1, DivUnique
        <3>5. high' = 2 * (high - Half) + Half + 1
            BY <3>1, <3>4 DEF Flipped
        <3> QED
            BY <1>1, <1>2, <3>3, <3>5
    <2> QED
        BY <2>1, <2>2
<1> DEFINE l == low
           h == high
           l1 == low'
           h1 == high'
<1>5. /\ l \in Int /\ h \in Int /\ l <= h /\ l1 \in Int /\ h1 \in Int /\ 0 <= l1 /\ h1 <= Full - 1
      /\ Full \in Nat \ {0} /\ h1 - l1 = 2 * h + 1 - 2 * l
    <2>1. Full \in Nat \ {0}
        BY <1>1
    <2>2. \A x \in 0..(Full - 1) : x \in Int /\ 0 <= x /\ x <= Full - 1
        BY <2>1
    <2> QED
        BY <1>2, <1>4, <2>1, <2>2
<1> HIDE DEF l, h, l1, h1
<1>6. h1 - l1 + 1 = 2 * (h - l + 1) /\ h1 - l1 + 1 <= Full /\ h - l + 1 \in Nat
    BY <1>5
<1> QED
    BY <1>5, <1>6 DEF l, h, l1, h1

\* No step makes the stream longer than that.
LEMMA FitsKept ==
    ASSUME Inv, Inv', FitsFollows, CoderStep
    PROVE  FitsFollows'
<1> DEFINE n == Len(bout.bytes)
           f == bout.numBitsFilled
           o == numUnderflow
           w == high - low + 1
           a == Allowed
           n1 == Len(bout'.bytes)
           f1 == bout'.numBitsFilled
           o1 == numUnderflow'
           w1 == high' - low' + 1
           a1 == Allowed'
           Fit(t) == Power[t] <= w /\ 8 * n + f + o + StateBits <= a + t + (IF pc = "open" THEN 1 ELSE 0)
           Fit1(t) == Power[t] <= w1 /\ 8 * n1 + f1 + o1 + StateBits <= a1 + t + (IF pc' = "open" THEN 1 ELSE 0)
<1>1. StateBits \in Nat \ {0} /\ Power[0] = 1 /\ Power[StateBits] = Full /\ Full \in Nat \ {0}
    BY RangeAssumption, PowerFacts, StateFacts DEF Full
<1>2. a \in Nat /\ a1 \in Nat /\ a <= a1 /\ (Symbol => a1 = a + StateBits)
    BY CodedGrows
<1>3. /\ n \in Nat /\ f \in 0..7 /\ o \in Nat
      /\ n1 \in Nat /\ f1 \in 0..7 /\ o1 \in Nat
    <2>1. bout \in Stream /\ bout' \in Stream /\ numUnderflow \in Nat /\ numUnderflow' \in Nat
        BY DEF Inv, StreamFollows, TypeOK
    <2> QED
        BY <2>1 DEF Stream
<1>4. w \in Nat \ {0} /\ w1 \in Nat \ {0}
    <2> DEFINE l == low
               h == high
               l1 == low'
               h1 == high'
    <2>1. l \in Int /\ h \in Int /\ l <= h /\ l1 \in Int /\ h1 \in Int /\ l1 <= h1
        BY StateFacts DEF Inv, TypeOK, IntervalFollows
    <2> HIDE DEF l, h, l1, h1
    <2>2. h - l + 1 \in Nat \ {0} /\ h1 - l1 + 1 \in Nat \ {0}
        BY <2>1
    <2> QED
        BY <2>2 DEF l, h, l1, h1
<1>5. /\ pc \in {"subband", "symbol"} => 8 * n + f + o <= a
      /\ pc \in {"shift", "open", "underflow"} => \E t \in 0..StateBits : Fit(t)
      /\ pc \in {"fill", "done"} => 8 * n + (IF f = 0 THEN 0 ELSE 8) <= a + 8
    BY DEF FitsFollows, Used
<1>6. SUFFICES /\ pc' \in {"subband", "symbol"} => 8 * n1 + f1 + o1 <= a1
               /\ pc' \in {"shift", "open", "underflow"} => \E t \in 0..StateBits : Fit1(t)
               /\ pc' \in {"fill", "done"} => 8 * n1 + (IF f1 = 0 THEN 0 ELSE 8) <= a1 + 8
    BY DEF FitsFollows, Used
<1>7. \A b \in 0..1 : bout' = WriteBit(bout, b) =>
          8 * n1 + f1 = 8 * n + f + 1 /\ (f1 # 0 => n1 = n)
    BY WriteBitCount DEF Inv, StreamFollows
<1>8. TopBit \in 0..1 /\ 1 - TopBit \in 0..1
    BY DEF TopBit
<1>9. EndShiftTurn \/ Underflow => w1 = 2 * w /\ w1 <= Full
    BY TurnDoubles
<1>10. bout' = bout => n1 = n /\ f1 = f
    OBVIOUS
<1>11. low' = low /\ high' = high => w1 = w
    OBVIOUS
<1>12. /\ numUnderflow' = numUnderflow => o1 = o
       /\ numUnderflow' = numUnderflow - 1 => o1 = o - 1
       /\ numUnderflow' = numUnderflow + 1 => o1 = o + 1
    OBVIOUS
<1> HIDE DEF n, f, o, w, a, n1, f1, o1, w1, a1
<1>13. CASE BeginSubband
    <2>1. pc = "subband" /\ pc' \in {"subband", "symbol"} /\ n1 = n /\ f1 = f /\ o1 = o
        BY <1>10, <1>12, <1>13 DEF BeginSubband
    <2>2. 8 * n1 + f1 + o1 <= a1
        BY <1>2, <1>3, <1>5, <2>1
    <2> QED
        BY <2>1, <2>2
<1>14. CASE Symbol
    <2>1. pc = "symbol" /\ pc' = "shift" /\ n1 = n /\ f1 = f /\ o1 = o
        BY <1>10, <1>12, <1>14 DEF Symbol
    <2>2. 0 \in 0..StateBits /\ Fit1(0)
        BY <1>1, <1>2, <1>3, <1>4, <1>5, <1>14, <2>1
    <2> QED
        BY <2>1, <2>2
<1>15. CASE pc \in {"shift", "open", "underflow"}
    <2>1. PICK t \in 0..StateBits : Fit(t)
        BY <1>5, <1>15
    <2>2. Power[t] \in Nat \ {0} /\ t \in Nat /\ t <= StateBits
        BY <1>1, PowerFacts
    <2>3. CASE Shift
        <3>1. pc = "shift" /\ pc' = "open" /\ w1 = w /\ o1 = o /\ 8 * n1 + f1 = 8 * n + f + 1
            BY <1>7, <1>8, <1>11, <1>12, <2>3 DEF Shift
        <3>2. Fit1(t)
            BY <1>1, <1>2, <1>3, <2>1, <2>2, <3>1
        <3> QED
            BY <3>1, <3>2
    <2>4. CASE WriteOpenBit
        <3>1. pc = "open" /\ pc' = "open" /\ w1 = w /\ o1 = o - 1 /\ 8 * n1 + f1 = 8 * n + f + 1
            BY <1>7, <1>8, <1>11, <1>12, <2>4 DEF WriteOpenBit
        <3>2. Fit1(t)
            BY <1>1, <1>2, <1>3, <2>1, <2>2, <3>1
        <3> QED
            BY <3>1, <3>2
    <2>5. CASE EndShift
        <3>1. pc = "shift" /\ pc' = "underflow" /\ w1 = w /\ n1 = n /\ f1 = f /\ o1 = o
            BY <1>10, <1>11, <1>12, <2>5 DEF EndShift
        <3>2. Fit1(t)
            BY <1>1, <1>2, <1>3, <2>1, <2>2, <3>1
        <3> QED
            BY <3>1, <3>2
    <2>6. CASE EndShiftTurn \/ Underflow
        <3>1. /\ n1 = n /\ f1 = f
              /\ \/ pc = "open" /\ pc' = "shift" /\ o1 = o
                 \/ pc = "underflow" /\ pc' = "underflow" /\ o1 = o + 1
            BY <1>10, <1>12, <2>6 DEF EndShiftTurn, Underflow
        <3>2. w1 = 2 * w /\ w1 <= Full
            BY <1>9, <2>6
        <3>3. t # StateBits
            BY <1>1, <1>4, <2>1, <3>2
        <3>4. t \in 0..(StateBits - 1) /\ t + 1 \in 0..StateBits
            BY <1>1, <2>2, <3>3
        <3>5. Power[t + 1] = 2 * Power[t]
            BY <3>4, PowerFacts
        <3>6. Fit1(t + 1)
            <4> DEFINE q == Power[t]
                       q1 == Power[t + 1]
            <4>1. q \in Nat /\ q1 = 2 * q /\ q <= w
                BY <2>1, <2>2, <3>5
            <4> HIDE DEF q, q1
            <4>2. q1 <= w1
                BY <1>4, <3>2, <4>1
            <4>3. 8 * n1 + f1 + o1 + StateBits <= a1 + (t + 1) + 0
                BY <1>1, <1>2, <1>3, <2>1, <2>2, <3>1
            <4> QED
                BY <3>1, <4>2, <4>3 DEF q1
        <3> QED
            BY <3>1, <3>4, <3>6
    <2>7. CASE EndUnderflow
        <3>1. pc = "underflow" /\ pc' \in {"subband", "symbol"} /\ n1 = n /\ f1 = f /\ o1 = o
            BY <1>10, <1>12, <2>7 DEF EndUnderflow
        <3>2. 8 * n1 + f1 + o1 <= a1
            BY <1>1, <1>2, <1>3, <2>1, <2>2, <3>1
        <3> QED
            BY <3>1, <3>2
    <2> QED
        BY <1>15, <2>3, <2>4, <2>5, <2>6, <2>7
            DEF CoderStep, BeginSubband, Symbol, Finish, Fill
<1>16. CASE Finish
    <2>1. pc = "subband" /\ pc' = "fill" /\ 8 * n1 + f1 = 8 * n + f + 1
        BY <1>7, <1>16 DEF Finish
    <2>2. 8 * n1 + (IF f1 = 0 THEN 0 ELSE 8) <= a1 + 8
        BY <1>2, <1>3, <1>5, <2>1
    <2> QED
        BY <2>1, <2>2
<1>17. CASE Fill
    <2>1. /\ pc = "fill" /\ pc' \in {"fill", "done"}
          /\ \/ f # 0 /\ 8 * n1 + f1 = 8 * n + f + 1 /\ (f1 # 0 => n1 = n)
             \/ n1 = n /\ f1 = f
        BY <1>7, <1>10, <1>17 DEF Fill, f
    <2>2. 8 * n + (IF f = 0 THEN 0 ELSE 8) <= a + 8
        BY <1>5, <2>1
    <2>3. 8 * n1 + (IF f1 = 0 THEN 0 ELSE 8) <= a1 + 8
        BY <1>2, <1>3, <2>1, <2>2
    <2> QED
        BY <2>1, <2>3
<1> QED
    BY <1>13, <1>14, <1>15, <1>16, <1>17
        DEF CoderStep, Shift, WriteOpenBit, EndShiftTurn, EndShift, Underflow, EndUnderflow

\* The stream fits then: an interval whose first bit is settled is at most half as wide as
\* the state allows.
LEMMA FitsEnough == Inv /\ FitsFollows => StreamFits
<1> SUFFICES ASSUME Inv, FitsFollows PROVE StreamFits
    OBVIOUS
<1> DEFINE n == Len(bout.bytes)
           f == bout.numBitsFilled
           o == numUnderflow
           a == Allowed
           w == high - low + 1
<1>1. StateBits \in Nat \ {0} /\ Power[StateBits] = Full /\ Full \in Nat \ {0} /\ Full = 2 * Half
      /\ Half \in Nat
    BY RangeAssumption, PowerFacts, StateFacts DEF Full
<1>2. n \in Nat /\ f \in 0..7 /\ o \in Nat /\ a \in Nat
    <2>1. bout \in Stream /\ numUnderflow \in Nat /\ TypeOK
        BY DEF Inv, StreamFollows, TypeOK
    <2>2. Cardinality(Coded) \in Nat
        BY <2>1, PlacesFinite, CodedIsFinite
    <2>3. StateBits * Cardinality(Coded) \in Nat
        BY <1>1, <2>2
    <2> QED
        BY <2>1, <2>3 DEF Stream, Allowed
<1>3. pc = "open" => w <= Half
    <2>1. /\ low \in 0..(Full - 1) /\ high \in 0..(Full - 1)
          /\ pc = "open" => (low < Half <=> high < Half)
        BY DEF Inv, TypeOK, IntervalFollows, TopBitsAgree
    <2>2. Half \in Nat
        BY StateFacts
    <2> QED
        BY <1>1, <2>1, <2>2
<1>4. SUFFICES 8 * n + f + o <= a + (IF pc \in {"fill", "done"} THEN 8 + o ELSE 0)
    BY DEF StreamFits, Allowed
<1>5. /\ pc \in {"subband", "symbol"} => 8 * n + f + o <= a
      /\ pc \in {"shift", "open", "underflow"} =>
            \E t \in 0..StateBits :
                /\ Power[t] <= w
                /\ 8 * n + f + o + StateBits <= a + t + (IF pc = "open" THEN 1 ELSE 0)
      /\ pc \in {"fill", "done"} => 8 * n + (IF f = 0 THEN 0 ELSE 8) <= a + 8
    BY DEF FitsFollows, Used
<1>6. w \in Int
    BY <1>1 DEF Inv, TypeOK
<1> HIDE DEF n, f, o, a, w
<1>7. CASE pc \in {"subband", "symbol"}
    <2>1. 8 * n + f + o <= a + 0
        BY <1>2, <1>5, <1>7
    <2> QED
        BY <1>7, <2>1
<1>8. CASE pc \in {"shift", "open", "underflow"}
    <2>1. PICK t \in 0..StateBits :
              /\ Power[t] <= w
              /\ 8 * n + f + o + StateBits <= a + t + (IF pc = "open" THEN 1 ELSE 0)
        BY <1>5, <1>8
    <2>2. pc = "open" => t # StateBits
        BY <1>1, <1>3, <1>6, <2>1
    <2>3. 8 * n + f + o <= a + 0
        BY <1>1, <1>2, <2>1, <2>2
    <2> QED
        BY <1>8, <2>3
<1>9. CASE pc \in {"fill", "done"}
    BY <1>2, <1>5, <1>9
<1> QED
    BY <1>7, <1>8, <1>9 DEF Inv, TypeOK

-----------------------------------------------------------------------------
(* The theorems.                                                           *)

\* The invariant of the coder holds in every reachable state: between two coefficients
\* low and high differ in their first bit and do not lie around the middle.
THEOREM Safety == Spec => []Inv
<1>1. Init => Inv
    BY InitInv
<1>2. Inv /\ [Next]_vars => Inv'
    BY NextInv
<1> QED
    BY <1>1, <1>2, PTL DEF Spec

\* Every variable keeps its type: low and high never leave the bits of the state, and the
\* stream consists of bytes.
THEOREM TypeCorrect == Spec => []TypeOK
<1>1. Inv => TypeOK
    BY DEF Inv
<1> QED
    BY <1>1, Safety, PTL

\* The interval is never empty, and wide enough for every frequency table whenever a
\* coefficient is coded, for every size of the state and every table.
THEOREM IntervalWide == Spec => []RangeStaysWide
<1>1. Inv => RangeStaysWide
    <2> SUFFICES ASSUME Inv PROVE RangeStaysWide
        OBVIOUS
    <2>1. low <= high
        BY DEF Inv, IntervalFollows
    <2>2. ASSUME pc \in {"symbol", "subband"} PROVE high - low + 1 >= MinimumRange
        <3>1. Quarter \in Nat \ {0} /\ Half = 2 * Quarter /\ Full = 4 * Quarter
              /\ MinimumRange = Quarter + 2
            BY StateFacts
        <3>2. low \in 0..(Full - 1) /\ high \in 0..(Full - 1)
            BY DEF Inv, TypeOK
        <3>3. low < Half /\ Half <= high /\ ~(low % Half >= Quarter /\ high % Half < Quarter)
            BY <2>2 DEF Inv, IntervalFollows, AroundMiddle
        <3>4. low % Half = low /\ high % Half = high - Half
            BY <3>2, <3>3, MaskFacts
        <3> QED
            BY <3>1, <3>2, <3>3, <3>4
    <2> QED
        BY <2>1, <2>2 DEF RangeStaysWide
<1> QED
    BY <1>1, Safety, PTL

\* The frequencies of the values between the bounds share the total without a gap and
\* without an empty one, for all tables and parameters, although every quotient of
\* get_bound is rounded.
THEOREM FrequenciesShared == Spec => []FrequenciesPartition
<1>1. Inv => FrequenciesPartition
    <2> SUFFICES ASSUME Inv, pc = "symbol" PROVE FrequenciesPartition
        BY DEF FrequenciesPartition
    <2> DEFINE lo == header[sub].xmin
               hi == header[sub].xmax
               g == gmm[p]
    <2>1. g \in Gmms /\ lo \in Int /\ hi \in Int /\ lo <= hi
        BY SymbolFacts
    <2> HIDE DEF lo, hi, g
    <2>2. ASSUME NEW x \in lo..hi
          PROVE  /\ SymLow(g, x, lo) < SymHigh(g, x, lo)
                 /\ SymHigh(g, x, lo) = SymLow(g, x + 1, lo)
        <3>1. x \in Int /\ lo <= x /\ x <= hi
            BY <2>1
        <3> QED
            BY <2>1, <3>1, FrequencyFacts
    <2>3. SymLow(g, lo, lo) = 0 /\ SymHigh(g, hi, lo) = TotalFreqs(g, lo, hi)
        BY <2>1, FrequencyFacts
    <2>4. \A x \in lo..(hi - 1) : x \in lo..hi
        BY <2>1
    <2>5. /\ \A x \in lo..hi : SymLow(g, x, lo) < SymHigh(g, x, lo)
          /\ \A x \in lo..(hi - 1) : SymHigh(g, x, lo) = SymLow(g, x + 1, lo)
        BY <2>2, <2>4
    <2> QED
        BY <2>3, <2>5 DEF FrequenciesPartition, lo, hi, g
<1> QED
    BY <1>1, Safety, PTL

\* A coefficient never takes more bits than the state has, those that are still open
\* included, whatever coefficients and tables: the memory that codings allocates is
\* enough.
THEOREM StreamFitsMemory == Spec => []StreamFits
<1>1. Init => Inv /\ FitsFollows
    <2> SUFFICES ASSUME Init PROVE FitsFollows
        BY InitInv
    <2>1. pc = "subband" /\ sub = 1 /\ numUnderflow = 0 /\ bout.numBitsFilled = 0 /\ bout.bytes = <<>>
        BY DEF Init
    <2>2. Used = 0
        BY <2>1 DEF Used
    <2>3. TypeOK
        BY InitInv DEF Inv
    <2>4. Allowed \in Nat
        BY <2>3, CodedIsFinite, RangeAssumption DEF Allowed
    <2> QED
        BY <2>1, <2>2, <2>4 DEF FitsFollows
<1>2. Inv /\ FitsFollows /\ [Next]_vars => Inv' /\ FitsFollows'
    <2> SUFFICES ASSUME Inv, FitsFollows, [Next]_vars PROVE FitsFollows'
        BY NextInv
    <2>1. Inv'
        BY NextInv
    <2>2. CASE CoderStep
        BY <2>1, <2>2, FitsKept
    <2>3. CASE UNCHANGED vars
        <3>1. Allowed' = Allowed /\ Used' = Used
            BY <2>3 DEF vars, Allowed, Coded, Begun, Before, Used
        <3>2. UNCHANGED <<pc, low, high, bout>>
            BY <2>3 DEF vars
        <3> QED
            BY <3>1, <3>2 DEF FitsFollows
    <2> QED
        BY <2>2, <2>3 DEF Next, Done
<1>3. Inv /\ FitsFollows => StreamFits
    BY FitsEnough
<1> QED
    BY <1>1, <1>2, <1>3, PTL DEF Spec

-----------------------------------------------------------------------------
(* The frames.                                                             *)

\* All frames but the last are full, and the last is not empty.
LEMMA FramesForFacts ==
    ASSUME NEW len \in Nat
    PROVE  /\ FramesFor(len) \in Nat
           /\ len = 0 <=> FramesFor(len) = 0
           /\ len # 0 => /\ (FramesFor(len) - 1) * FrameLen < len
                         /\ len <= FramesFor(len) * FrameLen
<1>1. FrameLen \in Nat \ {0}
    BY FramingAssumption
<1>2. CASE len = 0
    <2>1. FramesFor(len) = 0
        BY <1>2 DEF FramesFor
    <2> QED
        BY <1>2, <2>1
<1>3. CASE len # 0
    <2> DEFINE q == (len - 1) \div FrameLen
               r == (len - 1) % FrameLen
    <2>1. FramesFor(len) = q + 1
        BY <1>3 DEF FramesFor
    <2>2. len - 1 \in Nat
        BY <1>3
    <2>3. q \in Nat /\ r \in 0..(FrameLen - 1) /\ len - 1 = FrameLen * q + r
        BY <1>1, <2>2, DivMod
    <2> HIDE DEF q, r
    <2>4. (q + 1) * FrameLen = FrameLen * q + FrameLen /\ ((q + 1) - 1) * FrameLen = FrameLen * q
        BY <1>1, <2>3
    <2>5. FrameLen * q \in Nat
        BY <1>1, <2>3
    <2> QED
        BY <1>1, <1>3, <2>1, <2>3, <2>4, <2>5
<1> QED
    BY <1>2, <1>3

\* An n_frame_t counts no more frames than there are, and all of them unless the data are
\* outgrown.
LEMMA NFrameFacts ==
    ASSUME NEW len \in Nat
    PROVE  /\ NFrame(len) \in Nat
           /\ NFrame(len) <= FramesFor(len)
           /\ NFrame(len) = FramesFor(len) <=> ~Outgrown(len)
<1> DEFINE N == FramesFor(len)
           n == N % NFrameMod
<1>1. N \in Nat /\ NFrameMod \in Nat \ {0}
    BY FramesForFacts, FramingAssumption
<1> HIDE DEF N
<1>2. n \in 0..(NFrameMod - 1)
    BY <1>1, DivMod
<1>3. N < NFrameMod => n = N
    <2>1. N = NFrameMod * 0 + N
        BY <1>1
    <2> QED
        BY <1>1, <2>1, DivUnique
<1>4. NFrame(len) = n /\ (Outgrown(len) <=> N >= NFrameMod)
    BY DEF NFrame, Outgrown, N
<1> HIDE DEF n
<1>5. NFrame(len) \in Nat /\ NFrame(len) <= N /\ (NFrame(len) = N <=> ~Outgrown(len))
    BY <1>1, <1>2, <1>3, <1>4
<1> QED
    BY <1>5 DEF N

\* Frame m of some bytes
Piece(bytes, m) ==
    [data |-> [j \in 1..FrameLen |->
                  IF (m - 1) * FrameLen + j <= Len(bytes) THEN bytes[(m - 1) * FrameLen + j]
                                                          ELSE 0],
     data_len |-> IF m < FramesFor(Len(bytes)) THEN FrameLen ELSE LastLen(Len(bytes))]

\* Where frame m lies in the data
LEMMA PieceFacts ==
    ASSUME NEW len \in Nat, NEW m \in 1..FramesFor(len)
    PROVE  /\ (m - 1) * FrameLen \in Nat
           /\ (m - 1) * FrameLen < len
           /\ m < FramesFor(len) => (m - 1) * FrameLen + FrameLen <= len
           /\ m = FramesFor(len) => len <= (m - 1) * FrameLen + FrameLen
<1> DEFINE n == FramesFor(len)
<1>1. FrameLen \in Nat \ {0}
    BY FramingAssumption
<1>2. n \in Nat /\ n # 0 /\ (n - 1) * FrameLen < len /\ len <= n * FrameLen
    BY FramesForFacts
<1> HIDE DEF n
<1>3. m \in 1..n
    BY DEF n
<1>4. \A a, b, c \in Nat : a <= b => a * c <= b * c
    BY SMT
<1>5. m - 1 \in Nat /\ n - 1 \in Nat /\ m - 1 <= n - 1
    BY <1>2, <1>3
<1>6. (m - 1) * FrameLen \in Nat /\ (n - 1) * FrameLen \in Nat
      /\ m * FrameLen = (m - 1) * FrameLen + FrameLen
    BY <1>1, <1>3, <1>5
<1>7. (m - 1) * FrameLen <= (n - 1) * FrameLen
    BY <1>1, <1>4, <1>5
<1>8. ASSUME m < n PROVE m * FrameLen <= (n - 1) * FrameLen
    <2>1. m \in Nat /\ m <= n - 1
        BY <1>2, <1>3, <1>8
    <2> QED
        BY <1>1, <1>4, <1>5, <2>1
<1>9. m = n => len <= (m - 1) * FrameLen + FrameLen
    BY <1>2, <1>6
<1>10. (m - 1) * FrameLen < len
    BY <1>2, <1>6, <1>7
<1>11. m < n => (m - 1) * FrameLen + FrameLen <= len
    <2> DEFINE a == (m - 1) * FrameLen
               c == (n - 1) * FrameLen
               d == m * FrameLen
    <2>1. a \in Nat /\ c \in Nat /\ c < len /\ d = a + FrameLen /\ (m < n => d <= c)
        BY <1>2, <1>6, <1>8
    <2> HIDE DEF a, c, d
    <2>2. m < n => a + FrameLen <= len
        BY <1>1, <2>1
    <2> QED
        BY <2>2 DEF a
<1> QED
    BY <1>6, <1>9, <1>10, <1>11 DEF n

\* The data in frame m: it is not empty, and what is behind it follows in the next frame.
LEMMA PieceLen ==
    ASSUME NEW bytes, Len(bytes) \in Nat, NEW m \in 1..FramesFor(Len(bytes))
    PROVE  /\ Piece(bytes, m).data_len \in 1..FrameLen
           /\ m < FramesFor(Len(bytes)) => Piece(bytes, m).data_len = FrameLen
           /\ m = FramesFor(Len(bytes)) =>
                 (m - 1) * FrameLen + Piece(bytes, m).data_len = Len(bytes)
<1> DEFINE len == Len(bytes)
           n == FramesFor(len)
           a == (m - 1) * FrameLen
           l == Piece(bytes, m).data_len
<1>1. FrameLen \in Nat \ {0} /\ len \in Nat /\ n \in Nat
    BY FramingAssumption, FramesForFacts
<1>2. a \in Nat /\ a < len /\ (m = n => len <= a + FrameLen)
    BY PieceFacts
<1>3. l = IF m < n THEN FrameLen ELSE len - (n - 1) * FrameLen
    BY DEF Piece, LastLen
<1>4. m < n \/ m = n
    BY <1>1
<1>5. m = n => l = len - a
    <2>1. m = n => ~(m < n) /\ (n - 1) * FrameLen = a
        BY <1>1
    <2> QED
        BY <1>3, <2>1
<1>6. m < n => l = FrameLen
    BY <1>3
<1> HIDE DEF len, n, a, l
<1>7. l \in 1..FrameLen /\ (m = n => a + l = len)
    BY <1>1, <1>2, <1>4, <1>5, <1>6
<1> QED
    BY <1>6, <1>7 DEF len, n, a, l

\* data_to_data_frames in pieces
LEMMA CutInPieces ==
    ASSUME NEW bytes
    PROVE  DataToDataFrames(bytes) = [m \in 1..NFrame(Len(bytes)) |-> Piece(bytes, m)]
BY DEF DataToDataFrames, Piece

\* data_frames_to_data gets back what is in the first n frames.
LEMMA PiecesKeepData ==
    ASSUME NEW S, NEW bytes \in Seq(S), NEW n \in 0..FramesFor(Len(bytes))
    PROVE  LET frames == [m \in 1..n |-> Piece(bytes, m)]
           IN  /\ DataFramesToData(frames) =
                     SubSeq(bytes, 1, IF n < FramesFor(Len(bytes)) THEN n * FrameLen ELSE Len(bytes))
               /\ \A k \in 1..Len(frames) : frames[k].data_len \in 1..FrameLen
<1> DEFINE len == Len(bytes)
           N == FramesFor(len)
           frames == [m \in 1..n |-> Piece(bytes, m)]
           End(m) == IF m < N THEN m * FrameLen ELSE len
<1>1. FrameLen \in Nat \ {0} /\ len \in Nat
    BY FramingAssumption
<1>2. n \in Nat /\ N \in Nat /\ n <= N /\ (N = 0 => len = 0)
    BY <1>1, FramesForFacts
<1>3. /\ Len(frames) = n
      /\ \A m \in 1..n :
            frames[m].data = [j \in 1..FrameLen |->
                                 IF (m - 1) * FrameLen + j <= Len(bytes)
                                 THEN bytes[(m - 1) * FrameLen + j] ELSE 0]
      /\ \A m \in 1..n : frames[m] = Piece(bytes, m)
    <2>1. \A m \in 1..n : frames[m] = Piece(bytes, m)
        OBVIOUS
    <2>2. Len(frames) = n
        BY <1>2
    <2> HIDE DEF frames
    <2>3. \A m \in 1..n :
              Piece(bytes, m).data = [j \in 1..FrameLen |->
                                         IF (m - 1) * FrameLen + j <= Len(bytes)
                                         THEN bytes[(m - 1) * FrameLen + j] ELSE 0]
        BY DEF Piece
    <2> QED
        BY <2>1, <2>2, <2>3, Zenon
<1>4. ASSUME NEW m \in 1..n
      PROVE  /\ m - 1 \in Nat /\ (m - 1) * FrameLen \in Nat
             /\ End(m - 1) = (m - 1) * FrameLen
             /\ frames[m].data_len \in 1..FrameLen
             /\ End(m) = (m - 1) * FrameLen + frames[m].data_len
             /\ End(m) \in 0..len
    <2> DEFINE a == (m - 1) * FrameLen
               l == frames[m].data_len
    <2>1. m \in 1..N /\ m - 1 \in Nat /\ m - 1 < N /\ (m < N \/ m = N)
        BY <1>2
    <2>2. m * FrameLen = a + FrameLen
        BY <1>1, <2>1
    <2>3. /\ a \in Nat /\ a < len
          /\ m < N => a + FrameLen <= len
        BY <1>1, <2>1, PieceFacts
    <2>4. /\ l \in 1..FrameLen
          /\ m < N => l = FrameLen
          /\ m = N => a + l = len
        BY <1>1, <1>3, <2>1, PieceLen
    <2>5. End(m - 1) = a
        BY <2>1
    <2>6. End(m) = a + l
        <3>1. CASE m < N
            BY <2>2, <2>4, <3>1
        <3>2. CASE m = N
            <4>1. ~(m < N)
                BY <1>2, <3>2
            <4> QED
                BY <2>4, <3>2, <4>1
        <3> QED
            BY <2>1, <3>1, <3>2
    <2> HIDE DEF a, l, End, N, frames, len
    <2>7. End(m) \in 0..len
        BY <1>1, <2>1, <2>3, <2>4, <2>6
    <2> QED
        BY <2>1, <2>3, <2>4, <2>5, <2>6, <2>7 DEF a, l
<1> HIDE DEF N, frames, len
<1> DEFINE Step(f) == [m \in 0..n |->
                          IF m = 0 THEN <<>>
                          ELSE f[m - 1] \o SubSeq(frames[m].data, 1, frames[m].data_len)]
           parts == [m \in 0..n |-> SubSeq(bytes, 1, End(m))]
<1>5. ASSUME NEW m \in 1..n
      PROVE  SubSeq(bytes, 1, End(m)) = SubSeq(bytes, 1, End(m - 1))
                                  \o SubSeq(frames[m].data, 1, frames[m].data_len)
    <2> DEFINE a == (m - 1) * FrameLen
               l == frames[m].data_len
               d == frames[m].data
               s == SubSeq(bytes, 1, a)
               t == SubSeq(d, 1, l)
               u == SubSeq(bytes, 1, a + l)
    <2>1. a \in Nat /\ l \in 1..FrameLen /\ a + l <= len /\ End(m) = a + l /\ End(m - 1) = a
        BY <1>4
    <2>2. d = [j \in 1..FrameLen |-> IF a + j <= Len(bytes) THEN bytes[a + j] ELSE 0]
        BY <1>3
    <2> HIDE DEF a, l, d, End
    <2>3. s = [i \in 1..a |-> bytes[i]] /\ u = [i \in 1..(a + l) |-> bytes[i]]
        BY <1>1, <2>1 DEF len
    <2>4. t = [i \in 1..l |-> bytes[a + i]]
        <3>1. t = [i \in 1..l |-> d[i]]
            BY <1>1, <2>1, <2>2
        <3>2. \A i \in 1..l : d[i] = bytes[a + i]
            BY <1>1, <2>1, <2>2 DEF len
        <3> QED
            BY <3>1, <3>2
    <2>5. Len(s) = a /\ Len(t) = l
        BY <2>1, <2>3, <2>4
    <2>5a. s \in Seq(S) /\ t \in Seq(S) /\ u \in Seq(S) /\ Len(u) = a + l
        <3>1. \A i \in 1..len : bytes[i] \in S
            BY <1>1 DEF len
        <3>2. /\ \A i \in 1..a : bytes[i] \in S
              /\ \A i \in 1..l : bytes[a + i] \in S
              /\ \A i \in 1..(a + l) : bytes[i] \in S
            BY <1>1, <2>1, <3>1
        <3>3. s \in [1..a -> S] /\ t \in [1..l -> S] /\ u \in [1..(a + l) -> S]
            BY <2>3, <2>4, <3>2
        <3>4. a \in Nat /\ l \in Nat /\ a + l \in Nat
            BY <1>1, <2>1
        <3> HIDE DEF s, t, u
        <3> QED
            BY <3>3, <3>4, SMTT(30)
    <2>6. /\ s \o t \in Seq(S) /\ Len(s \o t) = a + l
          /\ \A i \in 1..(a + l) : (s \o t)[i] = IF i <= a THEN s[i] ELSE t[i - a]
        <3> HIDE DEF s, t, u
        <3> QED
            BY <2>5, <2>5a, ConcatProperties
    <2>7. ASSUME NEW i \in 1..(a + l)
          PROVE  (s \o t)[i] = u[i]
        <3>0. (s \o t)[i] = (IF i <= a THEN s[i] ELSE t[i - a]) /\ u[i] = bytes[i]
            BY <2>3, <2>6
        <3>1. CASE i <= a
            <4>1. i \in 1..a /\ s[i] = bytes[i]
                BY <2>1, <2>3, <3>1
            <4> HIDE DEF s, t, u
            <4> QED
                BY <3>0, <3>1, <4>1
        <3>2. CASE ~(i <= a)
            <4>1. i - a \in 1..l /\ a + (i - a) = i
                BY <1>1, <2>1, <3>2
            <4>2. t[i - a] = bytes[i]
                BY <2>4, <4>1
            <4> HIDE DEF s, t, u
            <4> QED
                BY <3>0, <3>2, <4>2
        <3> QED
            BY <3>1, <3>2
    <2>8. s \o t = u
        <3> HIDE DEF s, t, u
        <3> QED
            BY <2>5a, <2>6, <2>7, SeqEqual
    <2> QED
        BY <2>1, <2>8 DEF l, d
<1>6. parts = Step(parts)
    <2>1. \A m \in 0..n : SubSeq(bytes, 1, End(m)) =
              IF m = 0 THEN <<>>
              ELSE parts[m - 1] \o SubSeq(frames[m].data, 1, frames[m].data_len)
        <3> TAKE m \in 0..n
        <3>1. CASE m = 0
            <4>1. End(m) = 0
                <5>1. 0 * FrameLen = 0
                    BY <1>1
                <5> QED
                    BY <1>1, <1>2, <3>1, <5>1
            <4>2. SubSeq(bytes, 1, 0) = <<>>
                OBVIOUS
            <4> QED
                BY <3>1, <4>1, <4>2
        <3>2. CASE m # 0
            <4>1. m \in 1..n /\ m - 1 \in 0..n
                BY <1>2, <3>2
            <4>2. parts[m - 1] = SubSeq(bytes, 1, End(m - 1))
                BY <4>1
            <4> QED
                BY <1>5, <3>2, <4>1, <4>2
        <3> QED
            BY <3>1, <3>2
    <2> QED
        BY <2>1
<1>7. PICK g : g = Step(g) /\ DataFramesToData(frames) = g[n]
    <2> DEFINE h == CHOOSE g : g = Step(g)
    <2>1. DataFramesToData(frames) = h[n]
        BY <1>3 DEF DataFramesToData
    <2> HIDE DEF Step
    <2>2. h = Step(h)
        BY <1>6, Zenon
    <2> QED
        BY <2>1, <2>2
<1>8. \A m \in 0..n : g[m] = IF m = 0 THEN <<>>
                             ELSE g[m - 1] \o SubSeq(frames[m].data, 1, frames[m].data_len)
    BY <1>7
<1>9. \A m \in 0..n : parts[m] = IF m = 0 THEN <<>>
                             ELSE parts[m - 1] \o SubSeq(frames[m].data, 1, frames[m].data_len)
    BY <1>6
<1>10. parts[n] = SubSeq(bytes, 1, IF n < N THEN n * FrameLen ELSE len)
    <2>1. n \in 0..n
        BY <1>2
    <2>2. parts[n] = SubSeq(bytes, 1, End(n))
        BY <2>1
    <2> QED
        BY <2>2
<1> HIDE DEF parts, Step
<1> DEFINE T == {m \in Nat : m <= n => g[m] = parts[m]}
<1>11. 0 \in T
    BY <1>2, <1>8, <1>9
<1>12. ASSUME NEW m \in T PROVE m + 1 \in T
    <2>1. SUFFICES ASSUME m + 1 <= n PROVE g[m + 1] = parts[m + 1]
        OBVIOUS
    <2>2. m + 1 \in 0..n /\ m + 1 # 0 /\ (m + 1) - 1 = m /\ g[m] = parts[m]
        BY <1>2, <2>1
    <2> QED
        BY <1>8, <1>9, <2>2
<1>13. T = Nat
    <2>1. T \in SUBSET Nat
        OBVIOUS
    <2> HIDE DEF T
    <2> QED
        BY <1>11, <1>12, <2>1, NatInduct
<1>14. g[n] = parts[n]
    BY <1>2, <1>13
<1> QED
    BY <1>3, <1>4, <1>7, <1>10, <1>14 DEF frames, N, len

\* Frames before the last hold less than all data.
LEMMA FramesBefore ==
    ASSUME NEW len \in Nat, NEW n \in Nat, n < FramesFor(len)
    PROVE  n * FrameLen \in Nat /\ n * FrameLen < len
<1>1. n + 1 \in 1..FramesFor(len) /\ (n + 1) - 1 = n
    BY FramesForFacts
<1> QED
    BY <1>1, PieceFacts

\* Data of any length get through the frames unless an n_frame_t cannot count them, and no
\* frame is empty.
LEMMA FramesKeepData ==
    ASSUME NEW S, NEW bytes \in Seq(S)
    PROVE  Travels(bytes) <=> ~Outgrown(Len(bytes))
<1> DEFINE len == Len(bytes)
           N == FramesFor(len)
           n == NFrame(len)
           frames == [m \in 1..n |-> Piece(bytes, m)]
<1>1. FrameLen \in Nat \ {0} /\ len \in Nat /\ N \in Nat /\ n \in Nat
      /\ n <= N /\ (n = N <=> ~Outgrown(len))
    BY FramingAssumption, FramesForFacts, NFrameFacts
<1>2. n \in 0..N
    BY <1>1
<1>3. /\ DataFramesToData(frames) = SubSeq(bytes, 1, IF n < N THEN n * FrameLen ELSE len)
      /\ \A k \in 1..Len(frames) : frames[k].data_len \in 1..FrameLen
    BY <1>2, PiecesKeepData
<1>4. DataToDataFrames(bytes) = frames
    BY CutInPieces
<1>5. Travels(bytes) <=> SubSeq(bytes, 1, IF n < N THEN n * FrameLen ELSE len) = bytes
    BY <1>3, <1>4 DEF Travels
<1>6. CASE n = N
    <2>1. SubSeq(bytes, 1, len) = bytes
        OBVIOUS
    <2>2. ~(n < N)
        BY <1>1, <1>6
    <2> QED
        BY <1>1, <1>5, <1>6, <2>1, <2>2
<1>7. CASE n < N
    <2>1. n * FrameLen \in Nat /\ n * FrameLen < len
        BY <1>1, <1>7, FramesBefore
    <2> HIDE DEF n, N, frames
    <2>2. PICK k \in Nat : k = n * FrameLen
        BY <2>1
    <2>3. Len(SubSeq(bytes, 1, k)) = k /\ k < len
        BY <1>1, <2>1, <2>2
    <2>4. SubSeq(bytes, 1, k) # bytes
        BY <1>1, <2>3
    <2> QED
        BY <1>1, <1>5, <1>7, <2>2, <2>4
<1> QED
    BY <1>1, <1>6, <1>7

\* A finished stream gets through the frames unless it is outgrown, and none of them is empty.
THEOREM StreamInFrames == Spec => []StreamTravels
<1>1. Inv => StreamTravels
    <2> SUFFICES ASSUME Inv PROVE StreamTravels
        OBVIOUS
    <2>1. bout.bytes \in Seq(Byte)
        BY DEF Inv, StreamFollows, Stream
    <2> QED
        BY <2>1, FramesKeepData DEF StreamTravels
<1> QED
    BY <1>1, Safety, PTL

-----------------------------------------------------------------------------
(* A file in frames: fd_to_data_frames for files of every length.          *)

\* The file with the zeros that get into its first frame
Zeroed ==
    [k \in 1..Len(content) |->
        IF lastRead < k /\ k <= FrameLen THEN 0 ELSE content[k]]

\* The frames before turn are those of the file, and the others are new; in the end
\* they are those of the file with zeros in its first frame.
FileInv ==
    LET n == NFrame(Len(content))
    IN  /\ content \in Seq(Nat)
        /\ \A k \in 1..Len(content) : content[k] = k
        /\ filePc = "read" =>
              /\ turn \in 1..(n + 1)
              /\ dataFrames = [f \in 1..n |->
                                  IF f < turn THEN Piece(content, f) ELSE NewFrame]
              /\ turn > 1 => lastRead = Piece(content, turn - 1).data_len
        /\ filePc = "done" =>
              /\ n # 0
              /\ lastRead = Piece(content, n).data_len
              /\ dataFrames = [f \in 1..n |-> Piece(Zeroed, f)]

\* Nothing has been read of a file at first.
LEMMA FileStarts ==
    ASSUME MaxFileLen \in Nat, FileInit
    PROVE  FileInv
<1>1. PICK len \in 0..MaxFileLen : content = [k \in 1..len |-> k]
    BY DEF FileInit
<1>2. len \in Nat
    OBVIOUS
<1>3. content \in Seq(Nat) /\ Len(content) = len /\ \A k \in 1..len : content[k] = k
    BY <1>1, <1>2
<1>4. NFrame(len) \in Nat
    BY <1>2, NFrameFacts
<1>5. 1 \in 1..(NFrame(len) + 1)
    BY <1>4
<1>6. turn = 1 /\ filePc = "read" /\ dataFrames = [f \in 1..NFrame(len) |-> NewFrame]
    BY <1>3 DEF FileInit
<1>7. \A f \in 1..NFrame(len) : ~(f < 1)
    BY <1>4
<1>8. dataFrames = [f \in 1..NFrame(len) |-> IF f < turn THEN Piece(content, f) ELSE NewFrame]
    BY <1>6, <1>7
<1> QED
    BY <1>3, <1>5, <1>6, <1>8 DEF FileInv

\* A turn of the loop reads the next frame of the file.
LEMMA FrameRead ==
    ASSUME FileInv, ReadFrame
    PROVE  FileInv'
<1> DEFINE len == Len(content)
           n == NFrame(len)
           N == FramesFor(len)
           a == (turn - 1) * FrameLen
           rest == SubSeq(content, a + 1, len)
           size == IF Len(rest) < FrameLen THEN Len(rest) ELSE FrameLen
<1>1. FrameLen \in Nat \ {0} /\ len \in Nat /\ n \in Nat /\ content \in Seq(Nat)
    BY FramingAssumption, NFrameFacts DEF FileInv
<1>2. /\ filePc = "read" /\ turn \in 1..(n + 1)
      /\ dataFrames = [f \in 1..n |-> IF f < turn THEN Piece(content, f) ELSE NewFrame]
    BY DEF FileInv, ReadFrame
<1>3. Len(dataFrames) = n
    <2> HIDE DEF n
    <2> QED
        BY <1>1, <1>2
<1>4. turn \in 1..n
    <2>1. turn <= n
        BY <1>3 DEF ReadFrame
    <2> HIDE DEF n
    <2> QED
        BY <1>1, <1>2, <2>1
<1>5. /\ lastRead' = size
      /\ dataFrames' = [dataFrames EXCEPT ![turn] =
                           [data |-> [j \in 1..FrameLen |->
                                         IF j <= size THEN rest[j]
                                                      ELSE dataFrames[turn].data[j]],
                            data_len |-> size]]
      /\ turn' = turn + 1 /\ content' = content /\ filePc' = filePc
    BY DEF ReadFrame
<1>5a. N \in Nat /\ turn \in 1..N
    <2>1. N \in Nat /\ n <= N
        BY <1>1, FramesForFacts, NFrameFacts
    <2> HIDE DEF n, N
    <2> QED
        BY <1>1, <1>4, <2>1
<1>6. /\ a \in Nat /\ a < len
      /\ turn < N => a + FrameLen <= len
      /\ turn = N => len <= a + FrameLen
    BY <1>1, <1>5a, PieceFacts
<1>6a. /\ Piece(content, turn).data_len \in 1..FrameLen
       /\ turn < N => Piece(content, turn).data_len = FrameLen
       /\ turn = N => a + Piece(content, turn).data_len = len
    BY <1>1, <1>5a, PieceLen
<1> HIDE DEF len, n, N, a
<1>7. Len(rest) = len - a /\ \A j \in 1..(len - a) : rest[j] = content[a + j]
    <2>1. content \in Seq(Nat) /\ len = Len(content)
        BY <1>1 DEF len
    <2> QED
        BY <1>1, <1>6, <2>1
<1> HIDE DEF rest
<1>8. size = Piece(content, turn).data_len /\ size \in 1..FrameLen
    <2>1. turn < N \/ turn = N
        BY <1>5a
    <2> QED
        BY <1>1, <1>6, <1>6a, <1>7, <2>1
<1>9. ASSUME NEW j \in 1..FrameLen
      PROVE  (IF j <= size THEN rest[j] ELSE dataFrames[turn].data[j]) =
                (IF a + j <= len THEN content[a + j] ELSE 0)
    <2>1. dataFrames[turn].data[j] = 0
        <3>1. ~(turn < turn)
            BY <1>1, <1>4
        <3>2. dataFrames[turn] = NewFrame
            BY <1>2, <1>4, <3>1
        <3> QED
            BY <3>2 DEF NewFrame, Unset
    <2>2. j <= size <=> a + j <= len
        BY <1>1, <1>6, <1>7
    <2>3. j <= size => j \in 1..(len - a)
        BY <1>1, <1>6, <1>7
    <2> HIDE DEF size
    <2> QED
        BY <1>7, <2>1, <2>2, <2>3
<1>10. [data |-> [j \in 1..FrameLen |->
                     IF j <= size THEN rest[j] ELSE dataFrames[turn].data[j]],
        data_len |-> size] = Piece(content, turn)
    <2> DEFINE d == [j \in 1..FrameLen |->
                        IF j <= size THEN rest[j] ELSE dataFrames[turn].data[j]]
               e == [j \in 1..FrameLen |->
                        IF a + j <= len THEN content[a + j] ELSE 0]
    <2>1. d = e
        <3> HIDE DEF size
        <3> QED
            BY <1>9
    <2>2. Piece(content, turn) = [data |-> e, data_len |-> Piece(content, turn).data_len]
        BY DEF Piece, a, len
    <2> HIDE DEF d, e
    <2>3. [data |-> d, data_len |-> size] = Piece(content, turn)
        BY <1>8, <2>1, <2>2
    <2> QED
        BY <2>3 DEF d
<1> HIDE DEF size
<1>11. dataFrames' = [f \in 1..n |-> IF f < turn' THEN Piece(content, f) ELSE NewFrame]
    <2>1. dataFrames' = [dataFrames EXCEPT ![turn] = Piece(content, turn)]
        BY <1>5, <1>10
    <2>2. \A f \in 1..n : f # turn => (f < turn <=> f < turn')
        BY <1>1, <1>4, <1>5
    <2>3. turn < turn'
        BY <1>1, <1>4, <1>5
    <2> QED
        BY <1>2, <1>4, <2>1, <2>2, <2>3
<1>12. turn' \in 1..(n + 1) /\ turn' - 1 = turn
    BY <1>1, <1>4, <1>5
<1>13. lastRead' = Piece(content, turn' - 1).data_len
    BY <1>5, <1>8, <1>12
<1>14. content' \in Seq(Nat) /\ \A k \in 1..Len(content') : content'[k] = k
    BY <1>5 DEF FileInv
<1>15. filePc' = "read" /\ NFrame(Len(content')) = n
    BY <1>2, <1>5 DEF n, len
<1>16. dataFrames' = [f \in 1..NFrame(Len(content')) |->
                         IF f < turn' THEN Piece(content', f) ELSE NewFrame]
    BY <1>5, <1>11, <1>15
<1>17. turn' \in 1..(NFrame(Len(content')) + 1)
       /\ lastRead' = Piece(content', turn' - 1).data_len
    BY <1>5, <1>12, <1>13, <1>15
<1> QED
    BY <1>14, <1>15, <1>16, <1>17 DEF FileInv

\* Clearing the rest of the first frame is as if the file had zeros there.
LEMMA RestCleared ==
    ASSUME FileInv, ClearRest
    PROVE  FileInv'
<1> DEFINE len == Len(content)
           n == NFrame(len)
           cleared == [j \in 1..FrameLen |->
                          IF j <= lastRead THEN dataFrames[1].data[j] ELSE 0]
<1>1. FrameLen \in Nat \ {0} /\ len \in Nat /\ n \in Nat
    BY FramingAssumption, NFrameFacts DEF FileInv
<1>2. /\ filePc = "read" /\ turn \in 1..(n + 1)
      /\ dataFrames = [f \in 1..n |-> IF f < turn THEN Piece(content, f) ELSE NewFrame]
      /\ turn > 1 => lastRead = Piece(content, turn - 1).data_len
    BY DEF FileInv, ClearRest
<1>3. UNCHANGED <<content, turn, lastRead>>
    BY DEF ClearRest
<1>4. content' \in Seq(Nat) /\ \A k \in 1..Len(content') : content'[k] = k
    BY <1>3 DEF FileInv
<1>5. NFrame(Len(content')) = n
    BY <1>3 DEF n, len
<1>6. CASE dataFrames = <<>>
    <2>1. filePc' = "overrun"
        BY <1>6 DEF ClearRest
    <2> QED
        BY <1>4, <2>1 DEF FileInv
<1>7. CASE dataFrames # <<>>
    <2>1. /\ filePc' = "done"
          /\ dataFrames' = [dataFrames EXCEPT ![1].data = cleared]
        BY <1>7 DEF ClearRest
    <2> HIDE DEF n, cleared
    <2>2. Len(dataFrames) = n
        BY <1>1, <1>2
    <2>3. n # 0
        <3>1. ASSUME n = 0 PROVE dataFrames = <<>>
            BY <1>2, <3>1
        <3> QED
            BY <1>7, <3>1
    <2>4. turn = n + 1
        <3>1. turn > n
            BY <2>2 DEF ClearRest
        <3> QED
            BY <1>1, <1>2, <3>1
    <2>5. dataFrames = [f \in 1..n |-> Piece(content, f)]
        <3>1. \A f \in 1..n : f < turn
            BY <1>1, <2>4
        <3> QED
            BY <1>2, <3>1
    <2>6. lastRead = Piece(content, n).data_len
        BY <1>1, <1>2, <2>3, <2>4
    <2>7. 1 \in 1..n
        BY <1>1, <2>3
    <2>8. /\ Len(Zeroed) = len
          /\ \A k \in 1..len : Zeroed[k] = IF lastRead < k /\ k <= FrameLen THEN 0
                                                                          ELSE content[k]
        BY <1>1 DEF Zeroed
    <2>9. [Piece(content, 1) EXCEPT !.data = cleared] = Piece(Zeroed, 1)
        <3>1. \A j \in 1..FrameLen :
                  (IF j <= lastRead THEN dataFrames[1].data[j] ELSE 0) =
                      (IF (1 - 1) * FrameLen + j <= len
                       THEN Zeroed[(1 - 1) * FrameLen + j] ELSE 0)
            <4> TAKE j \in 1..FrameLen
            <4>1. (1 - 1) * FrameLen + j = j /\ j \in Nat \ {0} /\ j <= FrameLen
                BY <1>1
            <4>2. dataFrames[1].data[j] = IF j <= len THEN content[j] ELSE 0
                <5>1. dataFrames[1] = Piece(content, 1)
                    BY <2>5, <2>7
                <5>2. dataFrames[1].data[j] =
                          IF (1 - 1) * FrameLen + j <= len
                          THEN content[(1 - 1) * FrameLen + j] ELSE 0
                    BY <5>1 DEF Piece
                <5> QED
                    BY <4>1, <5>2
            <4>3. lastRead \in Nat
                <5>1. n \in 1..FramesFor(len)
                    BY <1>1, <2>3, FramesForFacts, NFrameFacts DEF n
                <5> QED
                    BY <1>1, <2>6, <5>1, PieceLen
            <4>4. CASE j <= len
                <5>1. j \in 1..len
                    BY <1>1, <4>1, <4>4
                <5>2. Zeroed[j] = IF lastRead < j THEN 0 ELSE content[j]
                    BY <2>8, <4>1, <5>1
                <5>3. lastRead < j <=> ~(j <= lastRead)
                    BY <4>1, <4>3
                <5> QED
                    BY <4>1, <4>2, <4>4, <5>2, <5>3
            <4>5. CASE ~(j <= len)
                BY <4>1, <4>2, <4>5
            <4> QED
                BY <4>4, <4>5
        <3>2. cleared = [j \in 1..FrameLen |->
                            IF (1 - 1) * FrameLen + j <= len
                            THEN Zeroed[(1 - 1) * FrameLen + j] ELSE 0]
            BY <3>1 DEF cleared
        <3>3. cleared = Piece(Zeroed, 1).data
            BY <2>8, <3>2 DEF Piece
        <3>4. Piece(Zeroed, 1).data_len = Piece(content, 1).data_len
            BY <2>8 DEF Piece, len
        <3>5. Piece(Zeroed, 1) = [data |-> Piece(Zeroed, 1).data,
                                  data_len |-> Piece(Zeroed, 1).data_len]
              /\ Piece(content, 1) = [data |-> Piece(content, 1).data,
                                      data_len |-> Piece(content, 1).data_len]
            BY DEF Piece
        <3> HIDE DEF len
        <3>6. [Piece(content, 1) EXCEPT !.data = cleared] =
                  [data |-> cleared, data_len |-> Piece(content, 1).data_len]
            BY <3>5
        <3> QED
            BY <3>3, <3>4, <3>5, <3>6
    <2>10. ASSUME NEW f \in 1..n, f # 1
           PROVE  Piece(Zeroed, f) = Piece(content, f)
        <3> DEFINE b == (f - 1) * FrameLen
        <3>1. b \in Nat /\ FrameLen <= b
            <4>1. f \in Nat /\ f >= 2
                BY <1>1, <2>10
            <4>2. \A x, c \in Nat : x >= 1 => c <= x * c
                BY SMT
            <4>3. f - 1 \in Nat /\ f - 1 >= 1
                BY <4>1
            <4> QED
                BY <1>1, <4>2, <4>3
        <3> HIDE DEF b
        <3>2. \A j \in 1..FrameLen :
                  (IF b + j <= len THEN Zeroed[b + j] ELSE 0) =
                      (IF b + j <= len THEN content[b + j] ELSE 0)
            <4> TAKE j \in 1..FrameLen
            <4>1. b + j \in Nat \ {0} /\ ~(b + j <= FrameLen)
                BY <1>1, <3>1
            <4>2. b + j <= len => b + j \in 1..len
                BY <1>1, <4>1
            <4> QED
                BY <2>8, <4>1, <4>2
        <3>3. [j \in 1..FrameLen |-> IF b + j <= len THEN Zeroed[b + j] ELSE 0] =
                  [j \in 1..FrameLen |-> IF b + j <= len THEN content[b + j] ELSE 0]
            BY <3>2
        <3> QED
            BY <2>8, <3>3 DEF Piece, b, len
    <2>11. dataFrames' = [f \in 1..n |-> Piece(Zeroed, f)]
        <3>1. dataFrames[1] = Piece(content, 1)
            BY <2>5, <2>7
        <3>2. dataFrames' = [dataFrames EXCEPT ![1] = [dataFrames[1] EXCEPT !.data = cleared]]
            BY <2>1
        <3>3. dataFrames' = [dataFrames EXCEPT ![1] = Piece(Zeroed, 1)]
            BY <2>9, <3>1, <3>2
        <3> QED
            BY <2>5, <2>7, <2>10, <3>3
    <2>12. Zeroed' = Zeroed
        BY <1>3 DEF Zeroed
    <2> QED
        BY <1>3, <1>4, <1>5, <2>1, <2>3, <2>6, <2>11, <2>12 DEF FileInv
<1> QED
    BY <1>6, <1>7

\* The invariant holds of files of every length.
LEMMA FileInvariant ==
    ASSUME MaxFileLen \in Nat
    PROVE  FileSpec => []FileInv
<1>1. FileInit => FileInv
    BY FileStarts
<1>2. FileInv /\ [FileNext]_fileVars => FileInv'
    <2> SUFFICES ASSUME FileInv, [FileNext]_fileVars PROVE FileInv'
        OBVIOUS
    <2>1. CASE ReadFrame
        BY <2>1, FrameRead
    <2>2. CASE ClearRest
        BY <2>2, RestCleared
    <2>3. CASE UNCHANGED fileVars
        BY <2>3 DEF fileVars, FileInv, Zeroed
    <2> QED
        BY <2>1, <2>2, <2>3 DEF FileNext
<1> QED
    BY <1>1, <1>2, PTL DEF FileSpec

\* fd_to_data_frames keeps a file, whatever its length, just when its frames can be counted
\* and it fits in one frame or fills its last: the counter that hides another does harm to
\* all others.
THEOREM FileInFrames ==
    ASSUME MaxFileLen \in Nat
    PROVE  FileSpec => []FileTravelsWhenFull
<1> DEFINE len == Len(content)
           n == NFrame(len)
           N == FramesFor(len)
           Fits == len <= FrameLen \/ len % FrameLen = 0
<1>1. FileInv => FileTravelsWhenFull
    <2> SUFFICES ASSUME FileInv, filePc = "done" PROVE FileTravels <=> ~Outgrown(len) /\ Fits
        BY DEF FileTravelsWhenFull
    <2>1. /\ FrameLen \in Nat \ {0} /\ len \in Nat /\ n \in Nat /\ n # 0
          /\ content \in Seq(Nat) /\ \A k \in 1..len : content[k] = k
        BY FramingAssumption, NFrameFacts DEF FileInv
    <2>1a. N \in Nat /\ n <= N /\ (n = N <=> ~Outgrown(len))
        BY <2>1, FramesForFacts, NFrameFacts
    <2>2. lastRead = Piece(content, n).data_len
          /\ dataFrames = [f \in 1..n |-> Piece(Zeroed, f)]
        BY DEF FileInv
    <2>3. /\ Len(Zeroed) = len
          /\ \A k \in 1..len : Zeroed[k] = IF lastRead < k /\ k <= FrameLen THEN 0
                                                                          ELSE content[k]
        BY <2>1 DEF Zeroed
    <2>4. Zeroed \in Seq(Nat)
        <3>1. \A k \in 1..len : Zeroed[k] \in Nat
            BY <2>1, <2>3
        <3>2. Zeroed \in [1..len -> Nat]
            BY <3>1 DEF Zeroed
        <3> HIDE DEF len
        <3> QED
            BY <2>1, <3>2
    <2>5. DataFramesToData(dataFrames) = SubSeq(Zeroed, 1, IF n < N THEN n * FrameLen ELSE len)
        <3>1. n \in 0..FramesFor(Len(Zeroed))
            BY <2>1, <2>1a, <2>3
        <3>2. DataFramesToData([f \in 1..n |-> Piece(Zeroed, f)]) =
                  SubSeq(Zeroed, 1, IF n < FramesFor(Len(Zeroed)) THEN n * FrameLen
                                                                  ELSE Len(Zeroed))
            BY <2>4, <3>1, PiecesKeepData
        <3> QED
            BY <2>2, <2>3, <3>2
    <2>5a. CASE n < N
        <3>1. n * FrameLen \in Nat /\ n * FrameLen < len
            BY <2>1, <2>5a, FramesBefore
        <3> HIDE DEF n, N, len
        <3>2. PICK k \in Nat : k = n * FrameLen
            BY <3>1
        <3>3. Len(SubSeq(Zeroed, 1, k)) = k /\ k < len
            BY <2>1, <2>3, <2>4, <3>1, <3>2
        <3>4. SubSeq(Zeroed, 1, k) # content
            BY <2>1, <3>3 DEF len
        <3>5. ~FileTravels
            BY <2>5, <2>5a, <3>2, <3>4 DEF FileTravels
        <3> QED
            BY <2>1, <2>1a, <2>5a, <3>5
    <2>5b. CASE n = N
        <3>6. FileTravels <=> Zeroed = content
            <4>1. SubSeq(Zeroed, 1, len) = Zeroed /\ ~(n < N)
                BY <2>1, <2>1a, <2>3, <2>4, <2>5b
            <4> QED
                BY <2>5, <4>1 DEF FileTravels
        <3> DEFINE c == (n - 1) * FrameLen
        <3>7. /\ c \in Nat /\ c < len /\ len <= c + FrameLen
              /\ lastRead = len - c
            <4>1. n \in 1..N
                BY <2>1, <2>1a
            <4>2. c \in Nat /\ c < len /\ len <= c + FrameLen
                BY <2>1, <2>5b, <4>1, PieceFacts
            <4>3. c + lastRead = len /\ lastRead \in 1..FrameLen
                BY <2>1, <2>2, <2>5b, <4>1, PieceLen
            <4> HIDE DEF c, len, n, N
            <4> QED
                BY <2>1, <4>2, <4>3
        <3>8. n = 1 => c = 0
            BY <2>1
        <3>9. n # 1 => FrameLen <= c
            <4>1. \A x, y \in Nat : x >= 1 => y <= x * y
                BY SMT
            <4> HIDE DEF n
            <4>2. n # 1 => n - 1 \in Nat /\ n - 1 >= 1
                BY <2>1
            <4> QED
                BY <2>1, <4>1, <4>2
        <3>10. len = FrameLen * (n - 1) + lastRead
            <4> HIDE DEF n
            <4>1. c = FrameLen * (n - 1)
                BY <2>1
            <4> QED
                BY <2>1, <3>7, <4>1
        <3>11. lastRead < FrameLen => len % FrameLen = lastRead
            <4> HIDE DEF n, len, c
            <4>1. n - 1 \in Nat /\ lastRead \in Nat
                BY <2>1, <3>7
            <4> QED
                BY <2>1, <3>10, <4>1, DivUnique
        <3>12. lastRead = FrameLen => len % FrameLen = 0
            <4> HIDE DEF n, len, c
            <4>1. lastRead = FrameLen => len = FrameLen * n
                BY <2>1, <3>10
            <4> QED
                BY <2>1, <4>1, DivMultiple
        <3> HIDE DEF n, c
        <3>13. Fits <=> n = 1 \/ lastRead = FrameLen
            <4>1. len <= FrameLen <=> n = 1
                BY <2>1, <3>7, <3>8, <3>9
            <4>2. lastRead \in 1..FrameLen
                BY <2>1, <3>7
            <4>3. len % FrameLen = 0 <=> lastRead = FrameLen
                BY <2>1, <3>11, <3>12, <4>2
            <4> QED
                BY <4>1, <4>3
        <3>14. ASSUME Fits PROVE Zeroed = content
            <4>1. \A k \in 1..len : ~(lastRead < k /\ k <= FrameLen)
                BY <2>1, <3>7, <3>8, <3>13, <3>14
            <4>2. \A k \in 1..len : Zeroed[k] = content[k]
                BY <2>3, <4>1
            <4> QED
                BY <2>1, <2>3, <2>4, <4>2, SeqEqual
        <3>15. ASSUME ~Fits PROVE Zeroed # content
            <4>1. lastRead < FrameLen /\ FrameLen \in 1..len
                BY <2>1, <3>7, <3>9, <3>13, <3>15
            <4>2. Zeroed[FrameLen] = 0 /\ content[FrameLen] = FrameLen
                BY <2>1, <2>3, <4>1
            <4> QED
                BY <2>1, <4>2
        <3> QED
            BY <2>1a, <2>5b, <3>6, <3>14, <3>15
    <2> QED
        BY <2>1, <2>1a, <2>5a, <2>5b
<1> QED
    BY <1>1, FileInvariant, PTL
=============================================================================
