-------------------------- MODULE RoundTripProofs --------------------------
(***************************************************************************)
(* What arithmetic_coding.cpp and coding.cpp write can be read: a decoder  *)
(* that has the parameters and the header gets back every coefficient.     *)
(*                                                                         *)
(* The argument.  base + low .. base + high are the numbers that the bits  *)
(* read by the decoder may make, where base is what has been written, with *)
(* the open bits as 0 and ones or as 1 and zeros (Pending).  Every action  *)
(* of the encoder narrows the numbers that may follow, and a decoder whose *)
(* code word is among them makes the same step, one bit of the state       *)
(* ahead (Tracks, Keeps, DecoderFollows).  finish chooses the middle of    *)
(* the interval, so that the stream itself is one of them (EndsAtFinish).  *)
(***************************************************************************)
EXTENDS CodingProofs

-----------------------------------------------------------------------------
(* Recursive functions.                                                    *)

BitString == [Nat \ {0} -> 0..1]

\* The number that the first n bits make is a natural number, and one more bit doubles it.
LEMMA NumberFacts ==
    ASSUME NEW w \in BitString
    PROVE  /\ Number(w)[0] = 0
           /\ \A n \in Nat : /\ Number(w)[n] \in Nat
                             /\ Number(w)[n + 1] = 2 * Number(w)[n] + w[n + 1]
<1> DEFINE Step(f) == [n \in Nat |-> IF n = 0 THEN 0 ELSE 2 * f[n - 1] + w[n]]
           step == [x \in Nat \X Nat |-> 2 * x[2] + w[x[1] + 1]]
<1>1. \A n \in Nat : w[n + 1] \in 0..1
    BY DEF BitString
<1>2. step \in [Nat \X Nat -> Nat] /\ 0 \in Nat
    BY <1>1
<1>3. \A n, v \in Nat : step[<<n, v>>] = 2 * v + w[n + 1]
    OBVIOUS
<1> HIDE DEF step
<1>4a. PICK f \in [Nat -> Nat] : StepByStep(f, 0, step)
    BY <1>2, NatRecursion
<1>4. f[0] = 0 /\ \A n \in Nat : f[n + 1] = step[<<n, f[n]>>]
    BY <1>4a DEF StepByStep
<1>5. f = Step(f)
    <2>1. \A n \in Nat : f[n] = IF n = 0 THEN 0 ELSE 2 * f[n - 1] + w[n]
        <3> TAKE n \in Nat
        <3>1. CASE n # 0
            <4>1. n - 1 \in Nat /\ (n - 1) + 1 = n
                BY <3>1
            <4> QED
                BY <1>3, <1>4, <3>1, <4>1
        <3> QED
            BY <1>4, <3>1
    <2>2. f = [n \in Nat |-> f[n]]
        OBVIOUS
    <2> QED
        BY <2>1, <2>2
<1>6. Number(w) = CHOOSE g : g = Step(g)
    BY DEF Number
<1> HIDE DEF Step
<1>7. Number(w) = Step(Number(w))
    BY <1>5, <1>6, Zenon
<1>8. \A n \in Nat : Number(w)[n] = IF n = 0 THEN 0 ELSE 2 * Number(w)[n - 1] + w[n]
    BY <1>7 DEF Step
<1>9. Number(w)[0] = 0
    BY <1>8
<1>10. \A n \in Nat : Number(w)[n + 1] = 2 * Number(w)[n] + w[n + 1]
    <2> TAKE n \in Nat
    <2>1. n + 1 \in Nat /\ n + 1 # 0 /\ (n + 1) - 1 = n
        OBVIOUS
    <2> QED
        BY <1>8, <2>1
<1>11. \A n \in Nat : Number(w)[n] \in Nat
    <2> DEFINE T == {n \in Nat : Number(w)[n] \in Nat}
    <2>1. 0 \in T /\ \A n \in T : n + 1 \in T
        BY <1>1, <1>9, <1>10
    <2>2. T \in SUBSET Nat
        OBVIOUS
    <2>3. T = Nat
        <3> HIDE DEF T
        <3> QED
            BY <2>1, <2>2, NatInduct
    <2> QED
        BY <2>3
<1> QED
    BY <1>9, <1>10, <1>11

\* The powers of two, of any exponent
TwoTo[n \in Nat] == IF n = 0 THEN 1 ELSE 2 * TwoTo[n - 1]

\* What its definition says
LEMMA TwoToFacts ==
    /\ TwoTo[0] = 1
    /\ \A n \in Nat : TwoTo[n] \in Nat \ {0} /\ TwoTo[n + 1] = 2 * TwoTo[n]
<1> DEFINE Step(f) == [n \in Nat |-> IF n = 0 THEN 1 ELSE 2 * f[n - 1]]
           D == Nat \ {0}
           step == [x \in Nat \X D |-> 2 * x[2]]
<1>1. step \in [Nat \X D -> D] /\ 1 \in D
    OBVIOUS
<1>2. \A n \in Nat, v \in D : step[<<n, v>>] = 2 * v
    OBVIOUS
<1> HIDE DEF step, D
<1>3a. PICK f \in [Nat -> D] : StepByStep(f, 1, step)
    BY <1>1, NatRecursion
<1>3. f[0] = 1
    BY <1>3a DEF StepByStep
<1>4. \A n \in Nat : f[n + 1] = 2 * f[n]
    BY <1>2, <1>3a DEF StepByStep
<1>5. f = Step(f)
    <2>1. \A n \in Nat : f[n] = IF n = 0 THEN 1 ELSE 2 * f[n - 1]
        <3> TAKE n \in Nat
        <3>1. CASE n # 0
            <4>1. n - 1 \in Nat /\ (n - 1) + 1 = n
                BY <3>1
            <4> QED
                BY <1>4, <3>1, <4>1
        <3> QED
            BY <1>3, <3>1
    <2>2. f = [n \in Nat |-> f[n]]
        OBVIOUS
    <2> QED
        BY <2>1, <2>2
<1>6. TwoTo = CHOOSE g : g = Step(g)
    BY DEF TwoTo
<1> HIDE DEF Step
<1>7. TwoTo = Step(TwoTo)
    BY <1>5, <1>6, Zenon
<1>8. \A n \in Nat : TwoTo[n] = IF n = 0 THEN 1 ELSE 2 * TwoTo[n - 1]
    BY <1>7 DEF Step
<1>9. TwoTo[0] = 1
    BY <1>8
<1>10. \A n \in Nat : TwoTo[n + 1] = 2 * TwoTo[n]
    <2> TAKE n \in Nat
    <2>1. n + 1 \in Nat /\ n + 1 # 0 /\ (n + 1) - 1 = n
        OBVIOUS
    <2> QED
        BY <1>8, <2>1
<1>11. \A n \in Nat : TwoTo[n] \in Nat \ {0}
    <2> DEFINE T == {n \in Nat : TwoTo[n] \in Nat \ {0}}
    <2>1. 0 \in T /\ \A n \in T : n + 1 \in T
        BY <1>9, <1>10
    <2>2. T \in SUBSET Nat
        OBVIOUS
    <2>3. T = Nat
        <3> HIDE DEF T
        <3> QED
            BY <2>1, <2>2, NatInduct
    <2> QED
        BY <2>3
<1> QED
    BY <1>9, <1>10, <1>11

\* The decoder's first state, and each later one, are what its definition says: a
\* solution up to any step can be continued by one step in only one way.
LEMMA DecoderFacts ==
    ASSUME NEW w, NEW side
    PROVE  /\ Decoder(w, side)[0] = DecoderStart(w)
           /\ \A n \in Nat :
                 Decoder(w, side)[n + 1] = DecoderStep(Decoder(w, side)[n], w, side)
<1> DEFINE Go(s) == DecoderStep(s, w, side)
           Partial(f, m) ==
               /\ f = [n \in 0..m |-> f[n]]
               /\ f[0] = DecoderStart(w)
               /\ \A n \in 0..(m - 1) : f[n + 1] = Go(f[n])
<1> HIDE DEF Go
<1>1. \A m \in Nat : \E f : Partial(f, m)
    <2> DEFINE T == {m \in Nat : \E f : Partial(f, m)}
    <2>1. 0 \in T
        <3> DEFINE f == [n \in 0..0 |-> DecoderStart(w)]
        <3>1. f = [n \in 0..0 |-> f[n]] /\ f[0] = DecoderStart(w) /\ 0..(0 - 1) = {}
            OBVIOUS
        <3> HIDE DEF f
        <3>2. Partial(f, 0)
            BY <3>1
        <3> QED
            BY <3>2
    <2>2. ASSUME NEW m \in T PROVE m + 1 \in T
        <3>1. PICK f : Partial(f, m)
            OBVIOUS
        <3> DEFINE g == [n \in 0..(m + 1) |-> IF n = m + 1 THEN Go(f[m]) ELSE f[n]]
        <3>2. m \in Nat /\ m \in 0..m
            OBVIOUS
        <3>3. /\ \A n \in 0..m : g[n] = f[n]
              /\ g[m + 1] = Go(f[m])
              /\ g = [n \in 0..(m + 1) |-> g[n]]
            BY <3>2
        <3> HIDE DEF g
        <3>4. \A n \in 0..m : g[n + 1] = Go(g[n])
            <4> TAKE n \in 0..m
            <4>1. CASE n = m
                BY <3>2, <3>3, <4>1
            <4>2. CASE n # m
                <5>1. n \in 0..(m - 1) /\ n + 1 \in 0..m
                    BY <3>2, <4>2
                <5> QED
                    BY <3>1, <3>3, <5>1
            <4> QED
                BY <4>1, <4>2
        <3>5. 0 \in 0..m /\ (m + 1) - 1 = m /\ m + 1 \in Nat
            BY <3>2
        <3>6. Partial(g, m + 1)
            BY <3>1, <3>3, <3>4, <3>5
        <3> QED
            BY <3>5, <3>6
    <2>3. T \in SUBSET Nat
        OBVIOUS
    <2>4. T = Nat
        <3> HIDE DEF T
        <3> QED
            BY <2>1, <2>2, <2>3, NatInduct
    <2> HIDE DEF Partial
    <2> QED
        BY <2>4
<1>2. ASSUME NEW f, NEW g, NEW m \in Nat, Partial(f, m), Partial(g, m + 1)
      PROVE  f[m] = g[m]
    <2> DEFINE T == {i \in Nat : i <= m => f[i] = g[i]}
    <2>1. 0 \in T
        BY <1>2
    <2>2. ASSUME NEW i \in T PROVE i + 1 \in T
        <3>1. SUFFICES ASSUME i + 1 <= m PROVE f[i + 1] = g[i + 1]
            OBVIOUS
        <3>2. i \in 0..(m - 1) /\ i \in 0..((m + 1) - 1) /\ f[i] = g[i]
            BY <3>1
        <3> QED
            BY <1>2, <3>2
    <2>3. T \in SUBSET Nat
        OBVIOUS
    <2>4. T = Nat
        <3> HIDE DEF T
        <3> QED
            BY <2>1, <2>2, <2>3, NatInduct
    <2> QED
        BY <2>4
<1> DEFINE F == [m \in Nat |-> CHOOSE f : Partial(f, m)]
           d == [m \in Nat |-> F[m][m]]
           Step(f) == [n \in Nat |-> IF n = 0 THEN DecoderStart(w)
                                     ELSE DecoderStep(f[n - 1], w, side)]
<1>3. \A m \in Nat : Partial(F[m], m)
    <2> HIDE DEF Partial
    <2>1. \A m \in Nat : F[m] = CHOOSE f : Partial(f, m)
        OBVIOUS
    <2> QED
        BY <1>1, <2>1, Zenon
<1> HIDE DEF F
<1>4. ASSUME NEW n \in Nat PROVE d[n + 1] = Go(d[n])
    <2>1. n \in 0..n /\ n \in 0..((n + 1) - 1) /\ n + 1 \in Nat
        OBVIOUS
    <2>2. Partial(F[n], n) /\ Partial(F[n + 1], n + 1)
        BY <1>3, <2>1
    <2>3. F[n][n] = F[n + 1][n]
        <3> HIDE DEF Partial
        <3> QED
            BY <1>2, <2>2
    <2>4. d[n] = F[n][n] /\ d[n + 1] = F[n + 1][n + 1]
        BY <2>1
    <2> QED
        BY <2>1, <2>2, <2>3, <2>4
<1>5. d[0] = DecoderStart(w)
    BY <1>3
<1>6. d = Step(d)
    <2>1. \A n \in Nat : d[n] = IF n = 0 THEN DecoderStart(w) ELSE Go(d[n - 1])
        <3> TAKE n \in Nat
        <3>1. CASE n # 0
            <4>1. n - 1 \in Nat /\ (n - 1) + 1 = n
                BY <3>1
            <4> QED
                BY <1>4, <3>1, <4>1
        <3> QED
            BY <1>5, <3>1
    <2>2. d = [n \in Nat |-> d[n]]
        OBVIOUS
    <2> HIDE DEF d
    <2>3. \A n \in Nat : d[n] = IF n = 0 THEN DecoderStart(w)
                                ELSE DecoderStep(d[n - 1], w, side)
        BY <2>1 DEF Go
    <2> QED
        BY <2>2, <2>3
<1> HIDE DEF d
<1>7. Decoder(w, side) = CHOOSE g : g = Step(g)
    BY DEF Decoder
<1> HIDE DEF Step
<1>8. Decoder(w, side) = Step(Decoder(w, side))
    BY <1>6, <1>7, Zenon
<1>9. \A n \in Nat : Decoder(w, side)[n] =
          IF n = 0 THEN DecoderStart(w)
          ELSE DecoderStep(Decoder(w, side)[n - 1], w, side)
    BY <1>8 DEF Step
<1>10. ASSUME NEW n \in Nat
       PROVE  Decoder(w, side)[n + 1] = DecoderStep(Decoder(w, side)[n], w, side)
    <2>1. n + 1 \in Nat /\ n + 1 # 0 /\ (n + 1) - 1 = n
        OBVIOUS
    <2> QED
        BY <1>9, <2>1
<1> QED
    BY <1>9, <1>10

-----------------------------------------------------------------------------
(* The number in the stream.                                               *)

\* The number that the first n bytes make
Octets(bytes) ==
    LET number[n \in Nat] ==
            IF n = 0 THEN 0
            ELSE 256 * number[n - 1] + (IF n <= Len(bytes) THEN bytes[n] ELSE 0)
    IN  number

\* The number that all bits written so far make
Written(out) == Octets(out.bytes)[Len(out.bytes)] * Values(out.numBitsFilled) + out.currentByte

\* What its definition says
LEMMA OctetsFacts ==
    ASSUME NEW bytes \in Seq(Byte)
    PROVE  /\ Octets(bytes)[0] = 0
           /\ \A n \in Nat : Octets(bytes)[n] \in Nat
           /\ \A n \in 1..Len(bytes) : Octets(bytes)[n] = 256 * Octets(bytes)[n - 1] + bytes[n]
<1> DEFINE new(n) == IF n <= Len(bytes) THEN bytes[n] ELSE 0
           Step(f) ==
               [n \in Nat |->
                   IF n = 0 THEN 0
                   ELSE 256 * f[n - 1] + (IF n <= Len(bytes) THEN bytes[n] ELSE 0)]
           step == [x \in Nat \X Nat |-> 256 * x[2] + new(x[1] + 1)]
<1>1. Len(bytes) \in Nat /\ \A n \in Nat \ {0} : new(n) \in Nat
    <2>1. Len(bytes) \in Nat /\ \A n \in 1..Len(bytes) : bytes[n] \in Byte
        OBVIOUS
    <2>2. \A x \in Byte : x \in Nat
        BY DEF Byte
    <2>3. \A n \in Nat \ {0} : n <= Len(bytes) => n \in 1..Len(bytes)
        BY <2>1
    <2> QED
        BY <2>1, <2>2, <2>3
<1> HIDE DEF new
<1>2. step \in [Nat \X Nat -> Nat] /\ 0 \in Nat
    BY <1>1
<1>3. \A n, v \in Nat : step[<<n, v>>] = 256 * v + new(n + 1)
    OBVIOUS
<1> HIDE DEF step
<1>4. PICK f \in [Nat -> Nat] : StepByStep(f, 0, step)
    BY <1>2, NatRecursion
<1>5. f[0] = 0 /\ \A n \in Nat : f[n + 1] = 256 * f[n] + new(n + 1)
    BY <1>3, <1>4, ZenonT(40) DEF StepByStep
<1>6. f = Step(f)
    <2>1. \A n \in Nat : f[n] = IF n = 0 THEN 0 ELSE 256 * f[n - 1] + new(n)
        <3> TAKE n \in Nat
        <3>1. CASE n # 0
            <4>1. n - 1 \in Nat /\ (n - 1) + 1 = n
                BY <3>1
            <4> QED
                BY <1>5, <3>1, <4>1
        <3> QED
            BY <1>5, <3>1
    <2>2. f = [n \in Nat |-> f[n]]
        OBVIOUS
    <2> QED
        BY <2>1, <2>2 DEF new
<1>7. Octets(bytes) = CHOOSE g : g = Step(g)
    BY DEF Octets
<1> HIDE DEF Step
<1>8. Octets(bytes) = Step(Octets(bytes))
    BY <1>6, <1>7, Zenon
<1>9. \A n \in Nat : Octets(bytes)[n] =
          IF n = 0 THEN 0 ELSE 256 * Octets(bytes)[n - 1] + new(n)
    BY <1>8, ZenonT(40) DEF Step, new
<1>10. \A n \in Nat : Octets(bytes)[n] \in Nat
    <2> DEFINE T == {n \in Nat : Octets(bytes)[n] \in Nat}
    <2>1. 0 \in T
        <3>1. Octets(bytes)[0] = 0
            BY <1>9
        <3> QED
            BY <3>1
    <2>2. ASSUME NEW n \in T PROVE n + 1 \in T
        <3>1. n + 1 \in Nat \ {0} /\ (n + 1) - 1 = n /\ Octets(bytes)[n] \in Nat
            OBVIOUS
        <3>2. Octets(bytes)[n + 1] = 256 * Octets(bytes)[n] + new(n + 1)
            BY <1>9, <3>1
        <3>3. new(n + 1) \in Nat
            BY <1>1, <3>1
        <3>4. \A u, v \in Nat : 256 * u + v \in Nat
            OBVIOUS
        <3>5. 256 * Octets(bytes)[n] + new(n + 1) \in Nat
            BY <3>1, <3>3, <3>4, ZenonT(40)
        <3>6. Octets(bytes)[n + 1] \in Nat
            BY <3>2, <3>5
        <3> QED
            BY <3>1, <3>6
    <2>3. T \in SUBSET Nat
        OBVIOUS
    <2>4. T = Nat
        <3> HIDE DEF T
        <3> QED
            BY <2>1, <2>2, <2>3, NatInduct
    <2> QED
        BY <2>4
<1>11. \A n \in 1..Len(bytes) : Octets(bytes)[n] = 256 * Octets(bytes)[n - 1] + bytes[n]
    <2> TAKE n \in 1..Len(bytes)
    <2>1. n \in Nat /\ n # 0 /\ n <= Len(bytes)
        BY <1>1
    <2> QED
        BY <1>9, <2>1 DEF new
<1> QED
    BY <1>9, <1>10, <1>11

\* One more byte does not change the number of those before.
LEMMA OctetsAppend ==
    ASSUME NEW bytes \in Seq(Byte), NEW x \in Byte
    PROVE  Octets(Append(bytes, x))[Len(bytes) + 1] = 256 * Octets(bytes)[Len(bytes)] + x
<1> DEFINE more == Append(bytes, x)
           len == Len(bytes)
<1>1. /\ more \in Seq(Byte) /\ Len(more) = len + 1 /\ len \in Nat
      /\ \A n \in 1..len : more[n] = bytes[n]
      /\ more[len + 1] = x
    BY AppendProperties
<1> HIDE DEF more, len
<1>1a. \A n \in 1..(len + 1) : Octets(more)[n] = 256 * Octets(more)[n - 1] + more[n]
    <2>1. \A n \in 1..Len(more) : Octets(more)[n] = 256 * Octets(more)[n - 1] + more[n]
        <3>1. more \in Seq(Byte)
            BY <1>1, Zenon
        <3> QED
            BY <3>1, OctetsFacts, ZenonT(40)
    <2>2. Len(more) = len + 1
        BY <1>1
    <2> QED
        BY <2>1, <2>2, Zenon
<1>1b. \A n \in 1..len : Octets(bytes)[n] = 256 * Octets(bytes)[n - 1] + bytes[n]
    BY OctetsFacts DEF len
<1> DEFINE T == {n \in Nat : n <= len => Octets(more)[n] = Octets(bytes)[n]}
<1>2. 0 \in T
    BY <1>1, OctetsFacts
<1>3. ASSUME NEW n \in T PROVE n + 1 \in T
    <2>1. SUFFICES ASSUME n + 1 <= len PROVE Octets(more)[n + 1] = Octets(bytes)[n + 1]
        OBVIOUS
    <2>2. n \in Nat /\ n + 1 \in 1..len /\ n + 1 \in 1..(len + 1) /\ (n + 1) - 1 = n
          /\ Octets(more)[n] = Octets(bytes)[n]
        BY <1>1, <2>1
    <2>3. Octets(more)[n + 1] = 256 * Octets(more)[n] + more[n + 1]
        BY <1>1a, <2>2
    <2>4. Octets(bytes)[n + 1] = 256 * Octets(bytes)[n] + bytes[n + 1]
        BY <1>1b, <2>2
    <2> QED
        BY <1>1, <2>2, <2>3, <2>4
<1>4. T = Nat
    <2>1. T \in SUBSET Nat
        OBVIOUS
    <2> HIDE DEF T
    <2> QED
        BY <1>2, <1>3, <2>1, NatInduct
<1>5. Octets(more)[len] = Octets(bytes)[len]
    BY <1>1, <1>4
<1>6. Octets(more)[len + 1] = 256 * Octets(more)[len] + more[len + 1]
    <2>1. len + 1 \in 1..(len + 1) /\ (len + 1) - 1 = len
        BY <1>1
    <2> QED
        BY <1>1a, <2>1
<1> QED
    BY <1>1, <1>5, <1>6 DEF more, len

\* A bit that is written doubles the number.
LEMMA WrittenFacts ==
    ASSUME NEW out \in Stream, out.currentByte < Values(out.numBitsFilled), NEW b \in 0..1
    PROVE  /\ Written(out) \in Nat
           /\ Written(WriteBit(out, b)) = 2 * Written(out) + b
<1> DEFINE n == out.numBitsFilled
           cur == out.currentByte
           v == Octets(out.bytes)[Len(out.bytes)]
           byte == 2 * cur + b
<1>1. n \in 0..7 /\ cur \in Nat /\ out.bytes \in Seq(Byte) /\ Len(out.bytes) \in Nat
    BY DEF Stream
<1>2. v \in Nat
    BY <1>1, OctetsFacts
<1>3. Values(n) \in Nat
    BY <1>1 DEF Values
<1>4. Written(out) = v * Values(n) + cur
    BY DEF Written
<1> HIDE DEF v
<1>5. v * Values(n) \in Nat
    BY <1>2, <1>3
<1>6. CASE n = 7 /\ byte \in Byte
    <2> DEFINE out1 == WriteBit(out, b)
    <2>1. out1 = [bytes |-> Append(out.bytes, byte), currentByte |-> 0, numBitsFilled |-> 0]
        BY <1>6 DEF WriteBit
    <2>2. out1.bytes = Append(out.bytes, byte) /\ out1.currentByte = 0 /\ out1.numBitsFilled = 0
        BY <2>1
    <2> HIDE DEF out1
    <2>3. Len(Append(out.bytes, byte)) = Len(out.bytes) + 1
        BY <1>1, <1>6
    <2>4. Octets(Append(out.bytes, byte))[Len(out.bytes) + 1] = 256 * v + byte
        BY <1>1, <1>6, OctetsAppend DEF v
    <2>5. Written(out1) = (256 * v + byte) * 1 + 0
        BY <2>2, <2>3, <2>4 DEF Written, Values
    <2>6. Written(out) = v * 128 + cur
        BY <1>4, <1>6 DEF Values
    <2> QED
        BY <1>1, <1>2, <2>5, <2>6 DEF out1
<1>7. CASE n # 7
    <2> DEFINE out1 == WriteBit(out, b)
    <2>1. out1 = [out EXCEPT !.currentByte = byte, !.numBitsFilled = n + 1]
        BY <1>7 DEF WriteBit
    <2>2. out1.bytes = out.bytes /\ out1.currentByte = byte /\ out1.numBitsFilled = n + 1
        BY <2>1 DEF Stream
    <2> HIDE DEF out1
    <2>3. Values(n + 1) = 2 * Values(n)
        BY <1>1, <1>7 DEF Values
    <2>4. Written(out1) = v * (2 * Values(n)) + byte
        BY <2>2, <2>3 DEF Written, v
    <2>5. v * (2 * Values(n)) = 2 * (v * Values(n))
        BY <1>2, <1>3
    <2> QED
        BY <1>1, <1>4, <1>5, <2>4, <2>5 DEF out1
<1>8. n = 7 => byte \in Byte
    <2>1. n = 7 => cur < 128
        BY DEF Values
    <2>2. \A c \in Nat, d \in 0..1 : c < 128 => 2 * c + d \in Byte
        BY DEF Byte
    <2> QED
        BY <1>1, <2>1, <2>2
<1> QED
    BY <1>1, <1>4, <1>5, <1>6, <1>7, <1>8

\* A quotient is twice the one of twice the divisor, and a bit.
LEMMA NextBit ==
    ASSUME NEW x \in Nat, NEW k \in Nat \ {0}
    PROVE  x \div k = 2 * (x \div (2 * k)) + ((x \div k) % 2)
<1> DEFINE m == x \div (2 * k)
           r == x % (2 * k)
<1>1. x = (2 * k) * m + r /\ m \in Nat /\ r \in 0..(2 * k - 1)
    <2>1. 2 * k \in Nat \ {0}
        OBVIOUS
    <2> QED
        BY <2>1, DivMod
<1> HIDE DEF m, r
<1>2. (2 * k) * m = k * (2 * m) /\ k * (2 * m + 1) = k * (2 * m) + k
    BY <1>1
<1>3. k * (2 * m) \in Nat
    BY <1>1
<1>4. CASE r < k
    <2>1. x \div k = 2 * m
        BY <1>1, <1>2, <1>4, DivUnique
    <2>2. (2 * m) % 2 = 0
        BY <1>1, DivMultiple
    <2> QED
        BY <1>1, <2>1, <2>2 DEF m
<1>5. CASE ~(r < k)
    <2>1. r - k \in Nat /\ r - k < k /\ x = k * (2 * m + 1) + (r - k)
        BY <1>1, <1>2, <1>3, <1>5
    <2>2. x \div k = 2 * m + 1
        <3>1. 2 * m + 1 \in Nat
            BY <1>1
        <3> QED
            BY <2>1, <3>1, DivUnique
    <2>3. (2 * m + 1) % 2 = 1
        <3>1. 2 * m + 1 \in Nat /\ 2 \in Nat \ {0} /\ 1 \in Nat /\ 1 < 2
            BY <1>1
        <3> QED
            BY <1>1, <3>1, DivUnique
    <2> QED
        BY <1>1, <2>2, <2>3 DEF m
<1> QED
    BY <1>4, <1>5

\* The bits of the stream: those of its bytes, then zeros
LEMMA BitsFacts ==
    ASSUME NEW bytes \in Seq(Byte)
    PROVE  /\ Bits(bytes) \in BitString
           /\ \A i \in Nat \ {0} : i > 8 * Len(bytes) => Bits(bytes)[i] = 0
           /\ Number(Bits(bytes))[8 * Len(bytes)] = Octets(bytes)[Len(bytes)]
<1> DEFINE w == Bits(bytes)
           len == Len(bytes)
           bit(x, t) == (x \div BitWeight[t]) % 2
<1>1. len \in Nat /\ \A n \in 1..len : bytes[n] \in Nat /\ bytes[n] < 256
    <2>1. len \in Nat /\ \A n \in 1..len : bytes[n] \in Byte
        OBVIOUS
    <2>2. \A x \in Byte : x \in Nat /\ x < 256
        BY DEF Byte
    <2> QED
        BY <2>1, <2>2
<1>2. /\ BitWeight[1] = 128 /\ BitWeight[2] = 64 /\ BitWeight[3] = 32 /\ BitWeight[4] = 16
      /\ BitWeight[5] = 8 /\ BitWeight[6] = 4 /\ BitWeight[7] = 2 /\ BitWeight[8] = 1
    BY DEF BitWeight
<1>3. \A t \in 1..8 : BitWeight[t] \in Nat \ {0}
    BY <1>2
<1>4. ASSUME NEW m \in Nat, NEW t \in 1..8
      PROVE  w[8 * m + t] = IF m < len THEN bit(bytes[m + 1], t) ELSE 0
    <2> DEFINE i == 8 * m + t
    <2>1. i \in Nat \ {0} /\ i - 1 \in Nat /\ t - 1 \in Nat /\ t - 1 < 8 /\ 8 \in Nat \ {0}
          /\ i - 1 = 8 * m + (t - 1) /\ (t - 1) + 1 = t
        OBVIOUS
    <2> HIDE DEF i
    <2>2. (i - 1) \div 8 = m /\ (i - 1) % 8 = t - 1
        BY <2>1, DivUnique
    <2>3. w[i] = LET k == (i - 1) \div 8
                 IN  IF k < Len(bytes)
                     THEN (bytes[k + 1] \div BitWeight[((i - 1) % 8) + 1]) % 2 ELSE 0
        BY <2>1 DEF Bits
    <2> QED
        BY <2>1, <2>2, <2>3 DEF i
<1>5. ASSUME NEW i \in Nat \ {0}
      PROVE  \E m \in Nat, t \in 1..8 : i = 8 * m + t
    <2>1. i - 1 \in Nat /\ 8 \in Nat \ {0}
        OBVIOUS
    <2>2. i - 1 = 8 * ((i - 1) \div 8) + ((i - 1) % 8) /\ (i - 1) \div 8 \in Nat
          /\ (i - 1) % 8 \in 0..(8 - 1)
        BY <2>1, DivMod
    <2>3. ((i - 1) % 8) + 1 \in 1..8 /\ i = 8 * ((i - 1) \div 8) + (((i - 1) % 8) + 1)
        BY <2>2
    <2> QED
        BY <2>2, <2>3
<1>6. ASSUME NEW x \in Nat, NEW t \in 1..8
      PROVE  bit(x, t) \in 0..1
    <2>1. x \div BitWeight[t] \in Nat
        BY <1>3, DivMod
    <2>2. \A q \in Nat : q % 2 \in 0..1
        OBVIOUS
    <2> QED
        BY <2>1, <2>2
<1>7. w \in BitString
    <2>1. ASSUME NEW i \in Nat \ {0} PROVE w[i] \in 0..1
        <3>1. PICK m \in Nat, t \in 1..8 : i = 8 * m + t
            BY <1>5
        <3>2. m < len => m + 1 \in 1..len /\ bytes[m + 1] \in Nat
            BY <1>1
        <3> HIDE DEF bit, w
        <3>3. w[8 * m + t] = IF m < len THEN bit(bytes[m + 1], t) ELSE 0
            BY <1>4
        <3>4. m < len => bit(bytes[m + 1], t) \in 0..1
            BY <1>6, <3>2
        <3> QED
            BY <3>1, <3>3, <3>4
    <2>2. w = [i \in Nat \ {0} |-> w[i]]
        BY DEF Bits
    <2> HIDE DEF w
    <2> QED
        BY <2>1, <2>2 DEF BitString
<1>8. ASSUME NEW i \in Nat \ {0}, i > 8 * len PROVE w[i] = 0
    <2>1. PICK m \in Nat, t \in 1..8 : i = 8 * m + t
        BY <1>5
    <2>2. ~(m < len)
        BY <1>1, <1>8, <2>1
    <2> QED
        BY <1>4, <2>1, <2>2
<1> DEFINE q(x, t) == x \div BitWeight[t]
<1>9. ASSUME NEW x \in Nat, x < 256
      PROVE  /\ \A t \in 1..8 : q(x, t) \in Nat
             /\ q(x, 1) = bit(x, 1)
             /\ \A t \in 2..8 : q(x, t) = 2 * q(x, t - 1) + bit(x, t)
             /\ q(x, 8) = x
    <2>1. \A t \in 1..8 : q(x, t) \in Nat
        BY <1>3, DivMod
    <2>2. \A t \in 1..8 : q(x, t) = 2 * (x \div (2 * BitWeight[t])) + bit(x, t)
        BY <1>3, NextBit
    <2>3. x \div 256 = 0 /\ x \div 1 = x
        <3>1. x = 256 * 0 + x /\ x = 1 * x + 0 /\ 0 < 1
            OBVIOUS
        <3> QED
            BY <1>9, <3>1, DivUnique
    <2>4. q(x, 8) = x /\ x \div (2 * BitWeight[1]) = 0
        <3>1. 2 * BitWeight[1] = 256
            BY <1>2
        <3> QED
            BY <1>2, <2>3, <3>1, Zenon
    <2>5. \A t \in 2..8 : t \in 1..8 /\ 2 * BitWeight[t] = BitWeight[t - 1]
        <3>1. \A t \in {2, 3, 4, 5, 6, 7, 8} : 2 * BitWeight[t] = BitWeight[t - 1]
            BY <1>2
        <3> QED
            BY <3>1
    <2>6. \A t \in 2..8 : q(x, t) = 2 * q(x, t - 1) + bit(x, t)
        <3> TAKE t \in 2..8
        <3>1. x \div (2 * BitWeight[t]) = q(x, t - 1)
            BY <2>5, Zenon
        <3>2. q(x, t) = 2 * (x \div (2 * BitWeight[t])) + bit(x, t)
            BY <2>2, <2>5
        <3> HIDE DEF q, bit
        <3> QED
            BY <3>1, <3>2, Zenon
    <2>7. q(x, 1) = bit(x, 1)
        <3>1. q(x, 1) = 2 * (x \div (2 * BitWeight[1])) + bit(x, 1)
            BY <2>2
        <3>2. bit(x, 1) \in Nat
            BY <1>6
        <3> HIDE DEF q, bit
        <3>3. q(x, 1) = 2 * 0 + bit(x, 1)
            BY <2>4, <3>1, Zenon
        <3> QED
            BY <3>2, <3>3
    <2> HIDE DEF q, bit
    <2> QED
        BY <2>1, <2>4, <2>6, <2>7
<1> HIDE DEF q
<1> HIDE DEF bit, w
<1>10. ASSUME NEW m \in Nat, m < len
       PROVE  Number(w)[8 * (m + 1)] = 256 * Number(w)[8 * m] + bytes[m + 1]
    <2> DEFINE x == bytes[m + 1]
               N(t) == Number(w)[8 * m + t]
    <2>1. x \in Nat /\ x < 256
        <3>1. m + 1 \in 1..len
            BY <1>1, <1>10
        <3> QED
            BY <1>1, <3>1
    <2>2. \A t \in 0..7 : N(t + 1) = 2 * N(t) + bit(x, t + 1)
        <3> TAKE t \in 0..7
        <3>1. 8 * m + t \in Nat /\ (8 * m + t) + 1 = 8 * m + (t + 1) /\ t + 1 \in 1..8
            OBVIOUS
        <3>2. w[8 * m + (t + 1)] = bit(x, t + 1)
            BY <1>4, <1>10, <3>1
        <3>3. Number(w)[(8 * m + t) + 1] = 2 * Number(w)[8 * m + t] + w[(8 * m + t) + 1]
            BY <1>7, <3>1, NumberFacts
        <3> QED
            BY <3>1, <3>2, <3>3
    <2>3. N(0) \in Nat /\ 8 * m + 0 = 8 * m /\ 8 * m + 8 = 8 * (m + 1)
        BY <1>7, NumberFacts
    <2> HIDE DEF x, N
    <2>4. \A t \in 1..8 : bit(x, t) \in 0..1
        BY <1>6, <2>1
    <2>5. N(1) = 2 * N(0) + bit(x, 1)
        <3>1. 0 \in 0..7 /\ 0 + 1 = 1
            OBVIOUS
        <3> QED
            BY <2>2, <3>1
    <2>7. /\ \A t \in 1..8 : q(x, t) \in Nat
          /\ q(x, 1) = bit(x, 1)
          /\ \A t \in 2..8 : q(x, t) = 2 * q(x, t - 1) + bit(x, t)
          /\ q(x, 8) = x
        BY <1>9, <2>1
    <2>8. ASSUME NEW t \in 1..7, NEW k \in Nat, N(t) = k * N(0) + q(x, t)
          PROVE  N(t + 1) = (2 * k) * N(0) + q(x, t + 1)
        <3>1. t \in 0..7 /\ t + 1 \in 2..8 /\ (t + 1) - 1 = t /\ t \in 1..8 /\ t + 1 \in 1..8
            OBVIOUS
        <3>2. N(t + 1) = 2 * N(t) + bit(x, t + 1)
            BY <2>2, <3>1
        <3>3. q(x, t + 1) = 2 * q(x, t) + bit(x, t + 1)
            BY <2>7, <3>1
        <3>4. q(x, t) \in Nat /\ bit(x, t + 1) \in Nat /\ N(0) \in Nat
            <4>1. bit(x, t + 1) \in 0..1
                BY <2>4, <3>1
            <4>2. q(x, t) \in Nat
                BY <2>7, <3>1
            <4> QED
                BY <2>3, <4>1, <4>2
        <3>5. 2 * (k * N(0)) = (2 * k) * N(0) /\ k * N(0) \in Nat
            BY <3>4
        <3> QED
            BY <2>8, <3>2, <3>3, <3>4, <3>5, SMTT(30)
    <2>9. N(8) = 256 * N(0) + x
        <3>1. N(1) = 2 * N(0) + q(x, 1)
            BY <2>5, <2>7
        <3>2. N(2) = 4 * N(0) + q(x, 2)
            <4>1. 1 \in 1..7 /\ 2 \in Nat /\ 1 + 1 = 2 /\ 2 * 2 = 4
                OBVIOUS
            <4> QED
                BY <2>8, <3>1, <4>1
        <3>3. N(3) = 8 * N(0) + q(x, 3)
            <4>1. 2 \in 1..7 /\ 4 \in Nat /\ 2 + 1 = 3 /\ 2 * 4 = 8
                OBVIOUS
            <4> QED
                BY <2>8, <3>2, <4>1
        <3>4. N(4) = 16 * N(0) + q(x, 4)
            <4>1. 3 \in 1..7 /\ 8 \in Nat /\ 3 + 1 = 4 /\ 2 * 8 = 16
                OBVIOUS
            <4> QED
                BY <2>8, <3>3, <4>1
        <3>5. N(5) = 32 * N(0) + q(x, 5)
            <4>1. 4 \in 1..7 /\ 16 \in Nat /\ 4 + 1 = 5 /\ 2 * 16 = 32
                OBVIOUS
            <4> QED
                BY <2>8, <3>4, <4>1
        <3>6. N(6) = 64 * N(0) + q(x, 6)
            <4>1. 5 \in 1..7 /\ 32 \in Nat /\ 5 + 1 = 6 /\ 2 * 32 = 64
                OBVIOUS
            <4> QED
                BY <2>8, <3>5, <4>1
        <3>7. N(7) = 128 * N(0) + q(x, 7)
            <4>1. 6 \in 1..7 /\ 64 \in Nat /\ 6 + 1 = 7 /\ 2 * 64 = 128
                OBVIOUS
            <4> QED
                BY <2>8, <3>6, <4>1
        <3>8. N(8) = 256 * N(0) + q(x, 8)
            <4>1. 7 \in 1..7 /\ 128 \in Nat /\ 7 + 1 = 8 /\ 2 * 128 = 256
                OBVIOUS
            <4> QED
                BY <2>8, <3>7, <4>1
        <3> QED
            BY <2>7, <3>8
    <2> QED
        BY <2>3, <2>9 DEF N, x
<1> DEFINE T == {m \in Nat : m <= len => Number(w)[8 * m] = Octets(bytes)[m]}
<1>11. 0 \in T
    <2>1. 8 * 0 = 0
        OBVIOUS
    <2> QED
        BY <1>7, <2>1, NumberFacts, OctetsFacts
<1>12. ASSUME NEW m \in T PROVE m + 1 \in T
    <2>1. SUFFICES ASSUME m + 1 <= len
                   PROVE  Number(w)[8 * (m + 1)] = Octets(bytes)[m + 1]
        OBVIOUS
    <2>2. m \in Nat /\ m < len /\ Number(w)[8 * m] = Octets(bytes)[m]
        BY <1>1, <2>1
    <2>3. m + 1 \in 1..len /\ (m + 1) - 1 = m
        BY <1>1, <2>2
    <2>4. Octets(bytes)[m + 1] = 256 * Octets(bytes)[m] + bytes[m + 1]
        BY <2>3, OctetsFacts
    <2> QED
        BY <1>10, <2>2, <2>4
<1>13. T = Nat
    <2>1. T \in SUBSET Nat
        OBVIOUS
    <2> HIDE DEF T
    <2> QED
        BY <1>11, <1>12, <2>1, NatInduct
<1>14. Number(w)[8 * len] = Octets(bytes)[len]
    BY <1>1, <1>13
<1> QED
    BY <1>7, <1>8, <1>14 DEF w

\* The range of the interval and its half are powers of two.
LEMMA FullFacts ==
    /\ TwoTo[StateBits] = Full
    /\ TwoTo[StateBits - 1] = Half
<1>1. StateBits \in Nat /\ StateBits - 1 \in Nat /\ (StateBits - 1) + 1 = StateBits
    BY RangeAssumption
<1> DEFINE T == {n \in Nat : n <= StateBits => TwoTo[n] = Power[n]}
<1>2. 0 \in T
    BY PowerFacts, TwoToFacts
<1>3. ASSUME NEW n \in T PROVE n + 1 \in T
    <2>1. SUFFICES ASSUME n + 1 <= StateBits PROVE TwoTo[n + 1] = Power[n + 1]
        OBVIOUS
    <2>2. n \in Nat /\ n \in 0..(StateBits - 1) /\ TwoTo[n] = Power[n]
        BY <1>1, <2>1
    <2> QED
        BY <2>2, PowerFacts, TwoToFacts
<1>4. T = Nat
    <2>1. T \in SUBSET Nat
        OBVIOUS
    <2> HIDE DEF T
    <2> QED
        BY <1>2, <1>3, <2>1, NatInduct
<1>5. TwoTo[StateBits] = Full
    BY <1>1, <1>4 DEF Full
<1>6. TwoTo[StateBits - 1] = Half
    <2>1. TwoTo[StateBits] = 2 * TwoTo[StateBits - 1] /\ TwoTo[StateBits - 1] \in Nat
        BY <1>1, TwoToFacts
    <2>2. Full = 2 * Half /\ Half \in Nat
        BY StateFacts
    <2>3. 2 * TwoTo[StateBits - 1] = 2 * Half
        BY <1>5, <2>1, <2>2
    <2>4. \A a, b \in Nat : 2 * a = 2 * b => a = b
        OBVIOUS
    <2> QED
        BY <2>1, <2>2, <2>3, <2>4
<1> QED
    BY <1>5, <1>6

\* Bits more multiply by powers of two.
LEMMA TwoToSum ==
    ASSUME NEW m \in Nat, NEW n \in Nat
    PROVE  TwoTo[m + n] = TwoTo[m] * TwoTo[n]
<1> DEFINE T == {k \in Nat : TwoTo[m + k] = TwoTo[m] * TwoTo[k]}
<1>1. 0 \in T
    <2>1. m + 0 = m /\ TwoTo[m] \in Nat /\ TwoTo[0] = 1
        BY TwoToFacts
    <2> QED
        BY <2>1
<1>2. ASSUME NEW k \in T PROVE k + 1 \in T
    <2>1. k \in Nat /\ m + k \in Nat /\ m + (k + 1) = (m + k) + 1
          /\ TwoTo[m + k] = TwoTo[m] * TwoTo[k]
        OBVIOUS
    <2>2. TwoTo[(m + k) + 1] = 2 * TwoTo[m + k] /\ TwoTo[k + 1] = 2 * TwoTo[k]
          /\ TwoTo[m] \in Nat /\ TwoTo[k] \in Nat
        BY <2>1, TwoToFacts
    <2>3. \A a, b \in Nat : 2 * (a * b) = a * (2 * b)
        BY SMT
    <2> QED
        BY <2>1, <2>2, <2>3
<1>3. T = Nat
    <2>1. T \in SUBSET Nat
        OBVIOUS
    <2> HIDE DEF T
    <2> QED
        BY <1>1, <1>2, <2>1, NatInduct
<1> QED
    BY <1>3

\* After its last bit a stream reads as zeros.
LEMMA ZerosFollow ==
    ASSUME NEW w \in BitString, NEW n \in Nat, \A i \in Nat \ {0} : i > n => w[i] = 0,
           NEW k \in Nat
    PROVE  Number(w)[n + k] = Number(w)[n] * TwoTo[k]
<1> DEFINE T == {j \in Nat : Number(w)[n + j] = Number(w)[n] * TwoTo[j]}
<1>1. 0 \in T
    <2>1. n + 0 = n /\ Number(w)[n] \in Nat /\ TwoTo[0] = 1
        BY TwoToFacts, NumberFacts
    <2> QED
        BY <2>1
<1>2. ASSUME NEW j \in T PROVE j + 1 \in T
    <2>1. j \in Nat /\ n + j \in Nat /\ n + (j + 1) = (n + j) + 1
          /\ Number(w)[n + j] = Number(w)[n] * TwoTo[j]
        OBVIOUS
    <2>2. w[(n + j) + 1] = 0
        BY <2>1
    <2>3. Number(w)[(n + j) + 1] = 2 * Number(w)[n + j] + 0 /\ TwoTo[j + 1] = 2 * TwoTo[j]
          /\ Number(w)[n] \in Nat /\ Number(w)[n + j] \in Nat /\ TwoTo[j] \in Nat
        BY <2>1, <2>2, TwoToFacts, NumberFacts
    <2>4. \A a, b \in Nat : 2 * (a * b) = a * (2 * b)
        BY SMT
    <2> QED
        BY <2>1, <2>3, <2>4
<1>3. T = Nat
    <2>1. T \in SUBSET Nat
        OBVIOUS
    <2> HIDE DEF T
    <2> QED
        BY <1>1, <1>2, <2>1, NatInduct
<1> QED
    BY <1>3

-----------------------------------------------------------------------------
(* The decoder.                                                            *)

\* A state of the decoder
State(l, h, c, k, s, q, d) ==
    [low |-> l, high |-> h, code |-> c, pos |-> k, sub |-> s, p |-> q, data |-> d]

\* A state after a turn
Turned(a, l, h, c, k) == [a EXCEPT !.low = l, !.high = h, !.code = c, !.pos = k]

\* A turn changes four parts of a state.
LEMMA TurnedState ==
    ASSUME NEW l, NEW h, NEW c, NEW k, NEW s, NEW q, NEW d,
           NEW l2, NEW h2, NEW c2, NEW k2
    PROVE  Turned(State(l, h, c, k, s, q, d), l2, h2, c2, k2) = State(l2, h2, c2, k2, s, q, d)
<1> DEFINE a == State(l, h, c, k, s, q, d)
           b == [a EXCEPT !.low = l2, !.high = h2, !.code = c2, !.pos = k2]
           F == {"low", "high", "code", "pos", "sub", "p", "data"}
<1>1. a = [f \in F |-> a[f]] /\ a.sub = s /\ a.p = q /\ a.data = d
    BY DEF State
<1> HIDE DEF a, F
<1>2. b = [f \in F |-> b[f]]
    BY <1>1
<1>3. /\ b.low = l2 /\ b.high = h2 /\ b.code = c2 /\ b.pos = k2
      /\ b.sub = s /\ b.p = q /\ b.data = d
    BY <1>1 DEF F
<1> HIDE DEF b
<1>4. b = State(l2, h2, c2, k2, s, q, d)
    BY <1>2, <1>3 DEF State, F
<1> QED
    BY <1>4, Zenon DEF a, b, Turned

\* The turns of the two loops of update, and the end
LEMMA DecoderTurns ==
    ASSUME NEW l, NEW h, NEW c, NEW k, NEW s, NEW q, NEW d, NEW w, NEW side
    PROVE  DecoderStep(State(l, h, c, k, s, q, d), w, side) =
               IF (l < Half) <=> (h < Half)
               THEN State((2 * l) % Full, ((2 * h) % Full) + 1,
                          ((2 * c) % Full) + w[k + 1], k + 1, s, q, d)
               ELSE IF l >= Quarter /\ h < Half + Quarter
               THEN State(2 * l - Half, 2 * h - Half + 1,
                          2 * c - Half + w[k + 1], k + 1, s, q, d)
               ELSE IF s > Len(Lens) THEN State(l, h, c, k, s, q, d)
               ELSE IF side[s].bounds.xmin >= side[s].bounds.xmax
               THEN Skipped(State(l, h, c, k, s, q, d), side[s].bounds)
               ELSE Decoded(State(l, h, c, k, s, q, d), side[s].bounds, side[s].gmm[q])
<1> DEFINE a == State(l, h, c, k, s, q, d)
<1>1. /\ a.low = l /\ a.high = h /\ a.code = c /\ a.pos = k /\ a.sub = s /\ a.p = q
      /\ a.data = d
    BY DEF State
<1>2. ShiftedBack(a, w) = State((2 * l) % Full, ((2 * h) % Full) + 1,
                                ((2 * c) % Full) + w[k + 1], k + 1, s, q, d)
    <2>1. ShiftedBack(a, w) =
              [a EXCEPT !.low = (2 * a.low) % Full, !.high = ((2 * a.high) % Full) + 1,
                        !.code = ((2 * a.code) % Full) + w[a.pos + 1], !.pos = a.pos + 1]
        BY Zenon DEF ShiftedBack
    <2> HIDE DEF a
    <2>2. ShiftedBack(a, w) =
              Turned(a, (2 * l) % Full, ((2 * h) % Full) + 1, ((2 * c) % Full) + w[k + 1], k + 1)
        BY <1>1, <2>1, Zenon DEF Turned
    <2>3. \A l2, h2, c2, k2 : Turned(a, l2, h2, c2, k2) = State(l2, h2, c2, k2, s, q, d)
        BY TurnedState DEF a
    <2> QED
        BY <2>2, <2>3, Zenon
<1>3. Widened(a, w) = State(2 * l - Half, 2 * h - Half + 1,
                            2 * c - Half + w[k + 1], k + 1, s, q, d)
    <2>1. Widened(a, w) =
              [a EXCEPT !.low = 2 * a.low - Half, !.high = 2 * a.high - Half + 1,
                        !.code = 2 * a.code - Half + w[a.pos + 1], !.pos = a.pos + 1]
        BY Zenon DEF Widened
    <2> HIDE DEF a
    <2>2. Widened(a, w) =
              Turned(a, 2 * l - Half, 2 * h - Half + 1, 2 * c - Half + w[k + 1], k + 1)
        BY <1>1, <2>1, Zenon DEF Turned
    <2>3. \A l2, h2, c2, k2 : Turned(a, l2, h2, c2, k2) = State(l2, h2, c2, k2, s, q, d)
        BY TurnedState DEF a
    <2> QED
        BY <2>2, <2>3, Zenon
<1> HIDE DEF a
<1>4. DecoderStep(a, w, side) =
          IF (l < Half) <=> (h < Half) THEN ShiftedBack(a, w)
          ELSE IF l >= Quarter /\ h < Half + Quarter THEN Widened(a, w)
          ELSE IF s > Len(Lens) THEN a
          ELSE IF side[s].bounds.xmin >= side[s].bounds.xmax
               THEN Skipped(a, side[s].bounds)
               ELSE Decoded(a, side[s].bounds, side[s].gmm[q])
    BY <1>1, Zenon DEF DecoderStep
<1> QED
    BY <1>2, <1>3, <1>4, Zenon DEF a

\* What the decoder is told of the subbands so far
Known(side, hdr, inp) ==
    \A k \in 1..Len(hdr) : side[k] = [bounds |-> hdr[k], gmm |-> inp[k].gmm]

\* Whatever bits follow, a decoder that has read the first k of them and whose code word
\* lies in the interval is at the given place and has the given coefficients.
Tracks(l, h, base, k, s, q, d, hdr, inp, limit) ==
    \A w \in BitString : \A side :
        Known(side, hdr, inp) /\ base + l <= Number(w)[k] /\ Number(w)[k] <= base + h =>
            \E j \in 0..limit :
                Decoder(w, side)[j] = State(l, h, Number(w)[k] - base, k, s, q, d)

\* The decoder's first state
LEMMA TracksStart == Tracks(0, Full - 1, 0, StateBits, 1, 1, <<>>, <<>>, <<>>, 0)
<1> SUFFICES ASSUME NEW w \in BitString, NEW side
             PROVE  \E j \in 0..0 : Decoder(w, side)[j] =
                        State(0, Full - 1, Number(w)[StateBits] - 0, StateBits, 1, 1, <<>>)
    BY DEF Tracks
<1>1. Number(w)[StateBits] - 0 = Number(w)[StateBits]
    <2>1. StateBits \in Nat
        BY RangeAssumption
    <2> QED
        BY <2>1, NumberFacts
<1>2. Decoder(w, side)[0] = State(0, Full - 1, Number(w)[StateBits], StateBits, 1, 1, <<>>)
    BY DecoderFacts DEF DecoderStart, State
<1> QED
    BY <1>1, <1>2

\* The encoder goes on, the decoder needs no step.
LEMMA TracksKept ==
    ASSUME NEW l, NEW h, NEW base, NEW k, NEW s, NEW q, NEW d, NEW hdr, NEW inp,
           NEW limit \in Nat, NEW hdr2, NEW inp2, NEW limit2 \in Nat, limit <= limit2,
           \A side : Known(side, hdr2, inp2) => Known(side, hdr, inp),
           Tracks(l, h, base, k, s, q, d, hdr, inp, limit)
    PROVE  Tracks(l, h, base, k, s, q, d, hdr2, inp2, limit2)
<1> SUFFICES ASSUME NEW w \in BitString, NEW side, Known(side, hdr2, inp2),
                    base + l <= Number(w)[k], Number(w)[k] <= base + h
             PROVE  \E j \in 0..limit2 :
                        Decoder(w, side)[j] = State(l, h, Number(w)[k] - base, k, s, q, d)
    BY DEF Tracks
<1>1. PICK j \in 0..limit :
          Decoder(w, side)[j] = State(l, h, Number(w)[k] - base, k, s, q, d)
    BY DEF Tracks
<1>2. j \in 0..limit2
    OBVIOUS
<1> QED
    BY <1>1, <1>2

\* The decoder makes a step.
LEMMA TracksStep ==
    ASSUME NEW l, NEW h, NEW base, NEW k, NEW s, NEW q, NEW d, NEW hdr, NEW inp,
           NEW limit \in Nat, Tracks(l, h, base, k, s, q, d, hdr, inp, limit),
           NEW l2, NEW h2, NEW base2, NEW k2, NEW s2, NEW q2, NEW d2, NEW hdr2, NEW inp2,
           NEW limit2 \in Nat, limit + 1 <= limit2,
           \A w \in BitString : \A side :
               /\ Known(side, hdr2, inp2)
               /\ base2 + l2 <= Number(w)[k2]
               /\ Number(w)[k2] <= base2 + h2
               => /\ Known(side, hdr, inp)
                  /\ base + l <= Number(w)[k]
                  /\ Number(w)[k] <= base + h
                  /\ DecoderStep(State(l, h, Number(w)[k] - base, k, s, q, d), w, side) =
                        State(l2, h2, Number(w)[k2] - base2, k2, s2, q2, d2)
    PROVE  Tracks(l2, h2, base2, k2, s2, q2, d2, hdr2, inp2, limit2)
<1> SUFFICES ASSUME NEW w \in BitString, NEW side, Known(side, hdr2, inp2),
                    base2 + l2 <= Number(w)[k2], Number(w)[k2] <= base2 + h2
             PROVE  \E j \in 0..limit2 :
                        Decoder(w, side)[j] = State(l2, h2, Number(w)[k2] - base2, k2, s2, q2, d2)
    BY DEF Tracks
<1> DEFINE a == State(l, h, Number(w)[k] - base, k, s, q, d)
           b == State(l2, h2, Number(w)[k2] - base2, k2, s2, q2, d2)
<1>1. /\ Known(side, hdr, inp) /\ base + l <= Number(w)[k] /\ Number(w)[k] <= base + h
      /\ DecoderStep(a, w, side) = b
    OBVIOUS
<1>2. PICK j \in 0..limit : Decoder(w, side)[j] = a
    BY <1>1 DEF Tracks
<1> HIDE DEF a, b
<1>3. Decoder(w, side)[j + 1] = b
    <2>1. Decoder(w, side)[j + 1] = DecoderStep(Decoder(w, side)[j], w, side)
        BY DecoderFacts
    <2> QED
        BY <1>1, <1>2, <2>1, Zenon
<1>4. j + 1 \in 0..limit2
    OBVIOUS
<1> QED
    BY <1>3, <1>4 DEF b

\* A bit is read when low and high agree in their first one.
LEMMA TracksShifted ==
    ASSUME NEW l \in 0..(Full - 1), NEW h \in 0..(Full - 1), l <= h,
           NEW base \in Nat, NEW k \in Nat, NEW s, NEW q, NEW d, NEW hdr, NEW inp,
           NEW limit \in Nat, Tracks(l, h, base, k, s, q, d, hdr, inp, limit),
           (l < Half) <=> (h < Half), NEW limit2 \in Nat, limit + 1 <= limit2
    PROVE  Tracks((2 * l) % Full, ((2 * h) % Full) + 1,
                  2 * base + (IF l < Half THEN 0 ELSE Full), k + 1, s, q, d, hdr, inp, limit2)
<1> DEFINE l2 == (2 * l) % Full
           h2 == ((2 * h) % Full) + 1
           t == IF l < Half THEN 0 ELSE Full
           base2 == 2 * base + t
<1>1. Quarter \in Nat \ {0} /\ Half = 2 * Quarter /\ Full = 4 * Quarter
    BY StateFacts
<1>2. l2 = 2 * l - t /\ h2 = 2 * h - t + 1
    <2> DEFINE ml == (2 * l) % Full
               mh == (2 * h) % Full
    <2>1. /\ l < Half => ml = 2 * l
          /\ Half <= l => ml = 2 * l - Full
          /\ h < Half => mh = 2 * h
          /\ Half <= h => mh = 2 * h - Full
        BY MaskFacts
    <2> HIDE DEF ml, mh
    <2>2. /\ l < Half => ml = 2 * l /\ mh = 2 * h /\ t = 0
          /\ ~(l < Half) => ml = 2 * l - Full /\ mh = 2 * h - Full /\ t = Full
        BY <1>1, <2>1
    <2>3. l2 = ml /\ h2 = mh + 1
        BY DEF ml, mh
    <2> HIDE DEF l2, h2, t
    <2> QED
        BY <1>1, <2>2, <2>3
<1>3. t \in Nat /\ l \in Nat /\ h \in Nat /\ base2 = 2 * base + t
    BY <1>1
<1> HIDE DEF l2, h2, base2
<1>4. ASSUME NEW w \in BitString, NEW side, Known(side, hdr, inp),
             base2 + l2 <= Number(w)[k + 1], Number(w)[k + 1] <= base2 + h2
      PROVE  /\ base + l <= Number(w)[k]
             /\ Number(w)[k] <= base + h
             /\ DecoderStep(State(l, h, Number(w)[k] - base, k, s, q, d), w, side) =
                   State(l2, h2, Number(w)[k + 1] - base2, k + 1, s, q, d)
    <2> DEFINE n == Number(w)[k]
               c == n - base
    <2>1. n \in Nat /\ Number(w)[k + 1] = 2 * n + w[k + 1] /\ w[k + 1] \in 0..1
        <3>1. w[k + 1] \in 0..1
            BY DEF BitString
        <3> QED
            BY <3>1, NumberFacts
    <2> HIDE DEF n
    <2> HIDE DEF t
    <2>2. base + l <= n /\ n <= base + h
        BY <1>2, <1>3, <1>4, <2>1
    <2>3. c \in 0..(Full - 1) /\ l <= c /\ c <= h
        BY <1>1, <1>3, <2>1, <2>2
    <2>4. (2 * c) % Full = 2 * c - t
        <3> HIDE DEF c
        <3> DEFINE mc == (2 * c) % Full
        <3>1. (c < Half => mc = 2 * c) /\ (Half <= c => mc = 2 * c - Full)
            BY <2>3, MaskFacts
        <3> HIDE DEF mc
        <3>2. (l < Half => mc = 2 * c) /\ (~(l < Half) => mc = 2 * c - Full)
            BY <1>1, <2>3, <3>1
        <3> QED
            BY <1>1, <2>3, <3>2 DEF t, mc
    <2>5. DecoderStep(State(l, h, c, k, s, q, d), w, side) =
              State(l2, h2, ((2 * c) % Full) + w[k + 1], k + 1, s, q, d)
        <3> HIDE DEF c
        <3> QED
            BY DecoderTurns DEF l2, h2
    <2>6. ((2 * c) % Full) + w[k + 1] = Number(w)[k + 1] - base2
        BY <1>3, <2>1, <2>4
    <2> QED
        BY <2>2, <2>5, <2>6 DEF n, c
<1>5. Tracks(l2, h2, base2, k + 1, s, q, d, hdr, inp, limit2)
    BY <1>4, TracksStep
<1> QED
    BY <1>5 DEF l2, h2, base2

\* A bit is read when the interval lies around the middle.
LEMMA TracksWidened ==
    ASSUME NEW l \in 0..(Full - 1), NEW h \in 0..(Full - 1), l <= h,
           NEW base \in Nat, NEW k \in Nat, NEW s, NEW q, NEW d, NEW hdr, NEW inp,
           NEW limit \in Nat, Tracks(l, h, base, k, s, q, d, hdr, inp, limit),
           l < Half, Half <= h, Quarter <= l, h < Half + Quarter,
           NEW limit2 \in Nat, limit + 1 <= limit2
    PROVE  Tracks(2 * l - Half, 2 * h - Half + 1, 2 * base + Half, k + 1, s, q, d,
                  hdr, inp, limit2)
<1> DEFINE l2 == 2 * l - Half
           h2 == 2 * h - Half + 1
           base2 == 2 * base + Half
<1>1. Half \in Nat /\ l \in Nat /\ h \in Nat
    BY StateFacts
<1>2. ASSUME NEW w \in BitString, NEW side, Known(side, hdr, inp),
             base2 + l2 <= Number(w)[k + 1], Number(w)[k + 1] <= base2 + h2
      PROVE  /\ base + l <= Number(w)[k]
             /\ Number(w)[k] <= base + h
             /\ DecoderStep(State(l, h, Number(w)[k] - base, k, s, q, d), w, side) =
                   State(l2, h2, Number(w)[k + 1] - base2, k + 1, s, q, d)
    <2> DEFINE n == Number(w)[k]
               c == n - base
    <2>1. n \in Nat /\ Number(w)[k + 1] = 2 * n + w[k + 1] /\ w[k + 1] \in 0..1
        <3>1. w[k + 1] \in 0..1
            BY DEF BitString
        <3> QED
            BY <3>1, NumberFacts
    <2> HIDE DEF n
    <2>2. base + l <= n /\ n <= base + h
        BY <1>1, <1>2, <2>1
    <2>3. ~((l < Half) <=> (h < Half)) /\ l >= Quarter
        BY <1>1, StateFacts
    <2>4. DecoderStep(State(l, h, c, k, s, q, d), w, side) =
              State(l2, h2, 2 * c - Half + w[k + 1], k + 1, s, q, d)
        <3> HIDE DEF c
        <3> QED
            BY <2>3, DecoderTurns
    <2>5. 2 * c - Half + w[k + 1] = Number(w)[k + 1] - base2
        BY <1>1, <2>1
    <2> HIDE DEF l2, h2, base2
    <2> QED
        BY <2>2, <2>4, <2>5 DEF n, c
<1> HIDE DEF l2, h2, base2
<1>3. Tracks(l2, h2, base2, k + 1, s, q, d, hdr, inp, limit2)
    BY <1>2, TracksStep
<1> QED
    BY <1>3 DEF l2, h2, base2

\* Between the turns the decoder goes on to the next place, if there is one.
LEMMA DecoderPlaces ==
    ASSUME NEW l, NEW h, NEW c, NEW k, NEW s, NEW q, NEW d, NEW w, NEW side,
           ~((l < Half) <=> (h < Half)), ~(l >= Quarter /\ h < Half + Quarter)
    PROVE  LET a == State(l, h, c, k, s, q, d)
               step == DecoderStep(a, w, side)
               same == side[s].bounds.xmin >= side[s].bounds.xmax
           IN  /\ s > Len(Lens) => step = a
               /\ ~(s > Len(Lens)) /\ same => step = Skipped(a, side[s].bounds)
               /\ ~(s > Len(Lens)) /\ ~same =>
                      step = Decoded(a, side[s].bounds, side[s].gmm[q])
<1> DEFINE Agree == (l < Half) <=> (h < Half)
           Around == l >= Quarter /\ h < Half + Quarter
           End == s > Len(Lens)
           Same == side[s].bounds.xmin >= side[s].bounds.xmax
           a == State(l, h, c, k, s, q, d)
           Turn1 == State((2 * l) % Full, ((2 * h) % Full) + 1,
                          ((2 * c) % Full) + w[k + 1], k + 1, s, q, d)
           Turn2 == State(2 * l - Half, 2 * h - Half + 1,
                          2 * c - Half + w[k + 1], k + 1, s, q, d)
<1>1. DecoderStep(a, w, side) =
          IF Agree THEN Turn1 ELSE IF Around THEN Turn2 ELSE IF End THEN a
          ELSE IF Same THEN Skipped(a, side[s].bounds)
          ELSE Decoded(a, side[s].bounds, side[s].gmm[q])
    BY DecoderTurns
<1> HIDE DEF Agree, Around, End, Same, Turn1, Turn2, a
<1>2. /\ ~Agree /\ ~Around /\ End => DecoderStep(a, w, side) = a
      /\ ~Agree /\ ~Around /\ ~End /\ Same =>
             DecoderStep(a, w, side) = Skipped(a, side[s].bounds)
      /\ ~Agree /\ ~Around /\ ~End /\ ~Same =>
             DecoderStep(a, w, side) = Decoded(a, side[s].bounds, side[s].gmm[q])
    BY <1>1, Zenon
<1> QED
    BY <1>2, Zenon DEF Agree, Around, End, Same, a

\* A subband whose coefficients are all the same
Alike(s, v) == [place \in {s} \X (1..Lens[s]) |-> v]

\* A skipped subband changes two parts of a state.
LEMMA SkippedState ==
    ASSUME NEW l, NEW h, NEW c, NEW k, NEW s \in Nat, NEW q, NEW d, NEW b
    PROVE  Skipped(State(l, h, c, k, s, q, d), b) =
               State(l, h, c, k, s + 1, q, With(d, Alike(s, b.xmin)))
<1> DEFINE a == State(l, h, c, k, s, q, d)
           d2 == With(d, Alike(s, b.xmin))
           s2 == s + 1
           z == Skipped(a, b)
           F == {"low", "high", "code", "pos", "sub", "p", "data"}
<1>1. /\ a = [f \in F |-> a[f]]
      /\ a.low = l /\ a.high = h /\ a.code = c /\ a.pos = k /\ a.sub = s /\ a.p = q
      /\ a.data = d
    BY DEF State
<1> HIDE DEF a
<1>2. z = [a EXCEPT !.sub = s2, !.data = d2]
    BY <1>1, Zenon DEF Skipped, Alike
<1> HIDE DEF z, d2, s2, F
<1>3. z = [f \in F |-> z[f]]
    BY <1>1, <1>2
<1>4. /\ z.low = l /\ z.high = h /\ z.code = c /\ z.pos = k /\ z.sub = s2 /\ z.p = q
      /\ z.data = d2
    BY <1>1, <1>2 DEF F
<1>5. z = State(l, h, c, k, s2, q, d2)
    BY <1>3, <1>4 DEF State, F
<1> QED
    BY <1>5, Zenon DEF z, a, s2, d2

\* A subband whose coefficients are all the same is skipped.
LEMMA TracksSkipped ==
    ASSUME NEW l \in 0..(Full - 1), NEW h \in 0..(Full - 1), l < Half, Half <= h,
           ~(l >= Quarter /\ h < Half + Quarter),
           NEW base \in Nat, NEW k \in Nat, NEW s \in Nat, NEW q, NEW d, NEW hdr, NEW inp,
           NEW limit \in Nat, Tracks(l, h, base, k, s, q, d, hdr, inp, limit),
           NEW hdr2, NEW inp2, s <= Len(Lens), s \in 1..Len(hdr2),
           \A side : Known(side, hdr2, inp2) => Known(side, hdr, inp),
           hdr2[s].xmin >= hdr2[s].xmax,
           NEW limit2 \in Nat, limit + 1 <= limit2
    PROVE  Tracks(l, h, base, k, s + 1, q,
                  With(d, Alike(s, hdr2[s].xmin)),
                  hdr2, inp2, limit2)
<1> DEFINE d2 == With(d, Alike(s, hdr2[s].xmin))
<1>1. l <= h /\ ~((l < Half) <=> (h < Half))
    BY StateFacts, SMTT(30)
<1>1a. ~(s > Len(Lens))
    <2>1. Len(Lens) \in Nat
        BY DataAssumption
    <2> QED
        BY <2>1
<1>2. ASSUME NEW w \in BitString, NEW side, Known(side, hdr2, inp2),
             base + l <= Number(w)[k], Number(w)[k] <= base + h
      PROVE  /\ Known(side, hdr, inp)
             /\ DecoderStep(State(l, h, Number(w)[k] - base, k, s, q, d), w, side) =
                   State(l, h, Number(w)[k] - base, k, s + 1, q, d2)
    <2> DEFINE c == Number(w)[k] - base
    <2> HIDE DEF c
    <2>1. side[s] = [bounds |-> hdr2[s], gmm |-> inp2[s].gmm]
        BY <1>2 DEF Known
    <2>2. side[s].bounds = hdr2[s]
        BY <2>1
    <2>3. DecoderStep(State(l, h, c, k, s, q, d), w, side) =
              Skipped(State(l, h, c, k, s, q, d), hdr2[s])
        <3>1. side[s].bounds.xmin >= side[s].bounds.xmax
            BY <2>2
        <3>2. DecoderStep(State(l, h, c, k, s, q, d), w, side) =
                  Skipped(State(l, h, c, k, s, q, d), side[s].bounds)
            <4>1. ~(s > Len(Lens)) /\ side[s].bounds.xmin >= side[s].bounds.xmax =>
                      DecoderStep(State(l, h, c, k, s, q, d), w, side) =
                          Skipped(State(l, h, c, k, s, q, d), side[s].bounds)
                BY <1>1, DecoderPlaces
            <4> QED
                BY <1>1a, <3>1, <4>1, Zenon
        <3> QED
            BY <2>2, <3>2, Zenon
    <2>4. Skipped(State(l, h, c, k, s, q, d), hdr2[s]) = State(l, h, c, k, s + 1, q, d2)
        BY SkippedState
    <2> QED
        BY <1>2, <2>3, <2>4 DEF c
<1> HIDE DEF d2
<1>3. Tracks(l, h, base, k, s + 1, q, d2, hdr2, inp2, limit2)
    BY <1>2, TracksStep
<1> QED
    BY <1>3 DEF d2

\* No two values share a number of the total.
LEMMA OneValue ==
    ASSUME NEW g \in Gmms, NEW lo \in Int, NEW hi \in Int,
           NEW x \in lo..hi, NEW y \in lo..hi, x < y
    PROVE  SymHigh(g, x, lo) <= SymLow(g, y, lo)
<1>1. x \in Int /\ y \in Int /\ x + 1 \in Int /\ x + 1 <= y /\ lo <= x /\ x <= hi /\ lo <= hi
    OBVIOUS
<1>2. SymHigh(g, x, lo) = SymLow(g, x + 1, lo)
    BY <1>1, FrequencyFacts
<1>3. /\ LeftEdge(x + 1) \in Int /\ LeftEdge(y) \in Int /\ LeftEdge(x + 1) <= LeftEdge(y)
      /\ LeftEdge(lo) \in Int
    BY <1>1, EdgeFacts
<1> DEFINE e == LeftEdge(x + 1)
           f == LeftEdge(y)
           m == CumFreq(g, e)
           n == CumFreq(g, f)
           c == CumFreq(g, LeftEdge(lo))
<1>4. m \in Int /\ n \in Int /\ m <= n
    <2>1. m \in 0..Resolution /\ n \in 0..Resolution /\ m <= n
        BY <1>3, CumFreqFacts
    <2>2. Resolution \in Nat
        BY RangeAssumption
    <2> QED
        BY <2>1, <2>2
<1>5. c \in Int
    <2>1. LeftEdge(lo) <= LeftEdge(lo)
        BY <1>3
    <2>2. c \in 0..Resolution
        BY <1>3, <2>1, CumFreqFacts
    <2> QED
        BY <2>2, RangeAssumption
<1>6. /\ SymLow(g, x + 1, lo) = m - c + (x + 1 - lo)
      /\ SymLow(g, y, lo) = n - c + (y - lo)
    BY DEF SymLow
<1> HIDE DEF m, n, c
<1> QED
    BY <1>1, <1>2, <1>4, <1>5, <1>6

\* A code word in the part of a value is the value's.
LEMMA ValueFound ==
    ASSUME NEW range \in Nat, NEW total \in Nat \ {0}, NEW a \in Nat, NEW b \in Nat,
           NEW c \in Nat, c < range,
           (a * range) \div total <= c, c <= (b * range) \div total - 1
    PROVE  LET value == ((c + 1) * total - 1) \div range
           IN  a <= value /\ value < b
<1> DEFINE m == a * range
           n == b * range
           k == (c + 1) * total
           i == m \div total
           j == n \div total
           r == m % total
           t == n % total
<1>1. m \in Nat /\ n \in Nat /\ range \in Nat \ {0}
    OBVIOUS
<1>2. k \in Nat /\ k >= total
    <2>1. k = c * total + total /\ c * total \in Nat
        OBVIOUS
    <2> HIDE DEF k
    <2> QED
        BY <2>1
<1> HIDE DEF k
<1>3. /\ m = total * i + r /\ i \in Nat /\ r \in 0..(total - 1)
      /\ n = total * j + t /\ j \in Nat /\ t \in 0..(total - 1)
    <2> HIDE DEF m, n
    <2> QED
        BY <1>1, DivMod
<1>4. i <= c /\ c + 1 <= j
    <2>1. i <= c /\ c <= j - 1 /\ j \in Nat
        BY <1>3
    <2> HIDE DEF i, j
    <2> QED
        BY <2>1
<1> HIDE DEF i, j, r, t
<1>5. m <= k - 1
    <2>1. total * i <= total * c /\ total * i \in Nat /\ total * c \in Nat
        BY <1>3, <1>4
    <2>2. k = total * c + total
        BY DEF k
    <2> HIDE DEF m
    <2> QED
        BY <1>1, <1>3, <2>1, <2>2
<1>6. k <= n
    <2>1. total * (c + 1) <= total * j /\ total * j \in Nat /\ total * (c + 1) \in Nat
        BY <1>3, <1>4
    <2>2. k = total * (c + 1)
        BY DEF k
    <2> HIDE DEF n
    <2> QED
        BY <1>1, <1>3, <2>1, <2>2
<1>7. range * a = m /\ range * b = n
    OBVIOUS
<1> HIDE DEF m, n
<1>8. k - 1 \in Nat /\ range * a <= k - 1 /\ k - 1 < range * b
    BY <1>1, <1>2, <1>5, <1>6, <1>7
<1>9. a \in Int /\ b \in Int
    OBVIOUS
<1>10. a <= (k - 1) \div range
    BY <1>1, <1>8, <1>9, DivAtLeast
<1>11. (k - 1) \div range < b
    BY <1>1, <1>8, <1>9, DivLess
<1> QED
    BY <1>10, <1>11 DEF k

\* The decoder chooses the value that was coded, for no other one fits.
LEMMA ValueChosen ==
    ASSUME NEW g \in Gmms, NEW lo \in Int, NEW hi \in Int, NEW x \in lo..hi,
           NEW value \in Int, SymLow(g, x, lo) <= value, value < SymHigh(g, x, lo)
    PROVE  (CHOOSE y \in lo..hi : SymLow(g, y, lo) <= value /\ value < SymHigh(g, y, lo)) = x
<1> DEFINE Fits(y) == SymLow(g, y, lo) <= value /\ value < SymHigh(g, y, lo)
           z == CHOOSE y \in lo..hi : Fits(y)
<1>1. ASSUME NEW y \in lo..hi
      PROVE  SymLow(g, y, lo) \in Int /\ SymHigh(g, y, lo) \in Int
    <2>1. y \in Int /\ lo <= y /\ y <= hi /\ lo <= hi
        OBVIOUS
    <2> QED
        BY <2>1, FrequencyFacts
<1>2. Fits(x)
    OBVIOUS
<1>3. ASSUME NEW y \in lo..hi, Fits(y) PROVE y = x
    <2>1. /\ SymLow(g, x, lo) \in Int /\ SymHigh(g, x, lo) \in Int
          /\ SymLow(g, y, lo) \in Int /\ SymHigh(g, y, lo) \in Int
        BY <1>1
    <2>2. CASE y < x
        <3>1. SymHigh(g, y, lo) <= SymLow(g, x, lo)
            BY <2>2, OneValue
        <3> QED
            BY <1>3, <2>1, <3>1
    <2>3. CASE x < y
        <3>1. SymHigh(g, x, lo) <= SymLow(g, y, lo)
            BY <2>3, OneValue
        <3> QED
            BY <1>3, <2>1, <3>1
    <2> QED
        BY <2>2, <2>3
<1> HIDE DEF Fits
<1>4. z \in lo..hi /\ Fits(z)
    BY <1>2, Zenon
<1>5. z = x
    BY <1>3, <1>4
<1> QED
    BY <1>5, Zenon DEF z, Fits

\* A coefficient
One(s, q, x) == [place \in {<<s, q>>} |-> x]

\* The state in which the decoder has a coefficient
Further(a, l, h, s, q, d) ==
    [a EXCEPT !.low = l, !.high = h, !.sub = s, !.p = q, !.data = d]

\* A coefficient changes all of a state but the bits.
LEMMA FurtherState ==
    ASSUME NEW l, NEW h, NEW c, NEW k, NEW s, NEW q, NEW d,
           NEW l2, NEW h2, NEW s2, NEW q2, NEW d2
    PROVE  Further(State(l, h, c, k, s, q, d), l2, h2, s2, q2, d2)
               = State(l2, h2, c, k, s2, q2, d2)
<1> DEFINE a == State(l, h, c, k, s, q, d)
           b == [a EXCEPT !.low = l2, !.high = h2, !.sub = s2, !.p = q2, !.data = d2]
           F == {"low", "high", "code", "pos", "sub", "p", "data"}
<1>1. a = [f \in F |-> a[f]] /\ a.code = c /\ a.pos = k
    BY DEF State
<1> HIDE DEF a, F
<1>2. b = [f \in F |-> b[f]]
    BY <1>1
<1>3. /\ b.low = l2 /\ b.high = h2 /\ b.code = c /\ b.pos = k
      /\ b.sub = s2 /\ b.p = q2 /\ b.data = d2
    BY <1>1 DEF F
<1> HIDE DEF b
<1>4. b = State(l2, h2, c, k, s2, q2, d2)
    BY <1>2, <1>3 DEF State, F
<1> QED
    BY <1>4, Zenon DEF a, b, Further

\* The decoder gets the coefficient that the encoder coded.
LEMMA DecodedState ==
    ASSUME NEW g \in Gmms, NEW b, b.xmin \in Int, b.xmax \in Int, NEW x \in b.xmin..b.xmax,
           NEW l \in Nat, NEW h \in Nat, l <= h,
           TotalFreqs(g, b.xmin, b.xmax) <= h - l + 1,
           NEW k, NEW s \in Nat, NEW q \in Nat, NEW d, NEW c \in Int,
           NEW l2, NEW h2,
           l2 = l + (SymLow(g, x, b.xmin) * (h - l + 1)) \div TotalFreqs(g, b.xmin, b.xmax),
           h2 = l + (SymHigh(g, x, b.xmin) * (h - l + 1)) \div TotalFreqs(g, b.xmin, b.xmax) - 1,
           l2 <= c, c <= h2
    PROVE  Decoded(State(l, h, c, k, s, q, d), b, g) =
               State(l2, h2, c, k, IF q = Lens[s] THEN s + 1 ELSE s,
                     IF q = Lens[s] THEN 1 ELSE q + 1, With(d, One(s, q, x)))
<1> DEFINE a == State(l, h, c, k, s, q, d)
           range == h - l + 1
           total == TotalFreqs(g, b.xmin, b.xmax)
           value == ((c - l + 1) * total - 1) \div range
           y == CHOOSE z \in b.xmin..b.xmax :
                    SymLow(g, z, b.xmin) <= value /\ value < SymHigh(g, z, b.xmin)
           last == q = Lens[s]
           s2 == IF last THEN s + 1 ELSE s
           q2 == IF last THEN 1 ELSE q + 1
           d2 == With(d, One(s, q, x))
           i == SymLow(g, x, b.xmin)
           j == SymHigh(g, x, b.xmin)
<1>1. /\ a.low = l /\ a.high = h /\ a.code = c /\ a.sub = s /\ a.p = q /\ a.data = d
    BY DEF State
<1>2. /\ i \in Nat /\ j \in Nat /\ i < j /\ j <= total /\ total \in Nat \ {0}
      /\ x \in Int /\ b.xmin <= x /\ x <= b.xmax /\ b.xmin <= b.xmax
    <2>1. x \in Int /\ b.xmin <= x /\ x <= b.xmax /\ b.xmin <= b.xmax
        OBVIOUS
    <2> QED
        BY <2>1, FrequencyFacts
<1>3. range \in Nat /\ total <= range
    OBVIOUS
<1>4. /\ l2 = l + (i * range) \div total /\ h2 = l + (j * range) \div total - 1
    OBVIOUS
<1>5. i <= value /\ value < j /\ value \in Int
    <2> DEFINE e == c - l
               m == (i * range) \div total
               n == (j * range) \div total
    <2> HIDE DEF i, j, total, range
    <2>1. m \in Nat /\ n \in Nat /\ n <= range
        BY <1>2, <1>3, NarrowFacts
    <2>2. l2 = l + m /\ h2 = l + n - 1
        BY <1>4
    <2> HIDE DEF m, n
    <2>3. e \in Nat /\ m <= e /\ e <= n - 1 /\ e < range
        BY <1>3, <2>1, <2>2
    <2> HIDE DEF e
    <2>4. i <= ((e + 1) * total - 1) \div range /\ ((e + 1) * total - 1) \div range < j
        BY <1>2, <1>3, <2>3, ValueFound DEF m, n
    <2>5. ((e + 1) * total - 1) \div range \in Int
        <3> DEFINE f == (e + 1) * total
        <3>1. f \in Nat /\ f >= 1
            BY <1>2, <2>3
        <3>2. range \in Nat \ {0}
            BY <1>2, <1>3
        <3> HIDE DEF f
        <3>3. f - 1 \in Nat
            BY <3>1
        <3>4. (f - 1) \div range \in Nat
            BY <3>2, <3>3, DivMod
        <3> QED
            BY <3>4 DEF f
    <2> QED
        BY <2>4, <2>5 DEF e
<1>6. y = x
    <2> HIDE DEF value
    <2> QED
        BY <1>5, ValueChosen DEF i, j
<1> HIDE DEF a
<1>7. Decoded(a, b, g) =
          Further(a, l + (SymLow(g, y, b.xmin) * range) \div total,
                  l + (SymHigh(g, y, b.xmin) * range) \div total - 1, s2, q2,
                  With(d, One(s, q, y)))
    <2> DEFINE Parts(l1, h1, c1, s1, q1, d1) ==
                   LET range1 == h1 - l1 + 1
                       value1 == ((c1 - l1 + 1) * total - 1) \div range1
                       y1 == CHOOSE z \in b.xmin..b.xmax :
                                 SymLow(g, z, b.xmin) <= value1 /\ value1 < SymHigh(g, z, b.xmin)
                       last1 == q1 = Lens[s1]
                   IN  Further(a, l1 + (SymLow(g, y1, b.xmin) * range1) \div total,
                               l1 + (SymHigh(g, y1, b.xmin) * range1) \div total - 1,
                               IF last1 THEN s1 + 1 ELSE s1, IF last1 THEN 1 ELSE q1 + 1,
                               With(d1, One(s1, q1, y1)))
    <2>1. Decoded(a, b, g) = Parts(a.low, a.high, a.code, a.sub, a.p, a.data)
        BY Zenon DEF Decoded, Further, One
    <2> HIDE DEF Parts
    <2>2. Decoded(a, b, g) = Parts(l, h, c, s, q, d)
        BY <1>1, <2>1, Zenon
    <2> QED
        BY <2>2, Zenon DEF Parts
<1> HIDE DEF y, range, total, s2, q2
<1>8. Decoded(a, b, g) = Further(a, l2, h2, s2, q2, d2)
    BY <1>4, <1>6, <1>7, Zenon
<1> HIDE DEF d2
<1>9. Further(a, l2, h2, s2, q2, d2) = State(l2, h2, c, k, s2, q2, d2)
    BY FurtherState DEF a
<1> QED
    BY <1>8, <1>9, Zenon DEF a, s2, q2, d2

\* The middle of the state's range is a number.
LEMMA HalfNat == Half \in Nat
<1>1. Quarter \in Nat /\ Half = 2 * Quarter
    BY StateFacts
<1> QED
    BY <1>1

\* A coefficient narrows the interval.
LEMMA NarrowedInside ==
    ASSUME NEW l \in Nat, NEW h \in Nat, l <= h, NEW g \in Gmms,
           NEW b, b.xmin \in Int, b.xmax \in Int, NEW x \in b.xmin..b.xmax,
           TotalFreqs(g, b.xmin, b.xmax) <= h - l + 1,
           NEW l2, NEW h2,
           l2 = l + (SymLow(g, x, b.xmin) * (h - l + 1)) \div TotalFreqs(g, b.xmin, b.xmax),
           h2 = l + (SymHigh(g, x, b.xmin) * (h - l + 1)) \div TotalFreqs(g, b.xmin, b.xmax) - 1
    PROVE  l2 \in Nat /\ h2 \in Int /\ l <= l2 /\ h2 <= h
<1> DEFINE range == h - l + 1
           total == TotalFreqs(g, b.xmin, b.xmax)
           i == SymLow(g, x, b.xmin)
           j == SymHigh(g, x, b.xmin)
           m == (i * range) \div total
           n == (j * range) \div total
<1>1. x \in Int /\ b.xmin <= x /\ x <= b.xmax /\ b.xmin <= b.xmax
    OBVIOUS
<1>2. i \in Nat /\ j \in Nat /\ i < j /\ j <= total /\ total \in Nat \ {0}
    BY <1>1, FrequencyFacts
<1>3. range \in Nat
    OBVIOUS
<1>4. total <= range
    OBVIOUS
<1>5. l2 = l + m /\ h2 = l + n - 1
    OBVIOUS
<1> HIDE DEF i, j, total
<1>6. range = h - l + 1
    OBVIOUS
<1> HIDE DEF range
<1>7. m \in Nat /\ n \in Nat /\ n <= range
    BY <1>2, <1>3, <1>4, NarrowFacts
<1> HIDE DEF m, n
<1> QED
    BY <1>5, <1>6, <1>7

\* A code word in the narrower interval is in the wider one.
LEMMA Within ==
    ASSUME NEW n \in Nat, NEW base \in Nat, NEW l \in Nat, NEW h \in Nat, NEW l2 \in Nat,
           NEW h2 \in Int, l <= l2, h2 <= h, base + l2 <= n, n <= base + h2
    PROVE  /\ base + l <= n /\ n <= base + h
           /\ n - base \in Int /\ l2 <= n - base /\ n - base <= h2
    OBVIOUS

\* The decoder takes a coefficient in one step, wherever in the interval its code word lies.
Narrows(l, h, k, s, q, d, b, g, l2, h2, s2, q2, d2) ==
    \A c \in Int : l2 <= c /\ c <= h2 =>
        Decoded(State(l, h, c, k, s, q, d), b, g) = State(l2, h2, c, k, s2, q2, d2)

\* What the decoder does with a coefficient, whatever the bits that follow.
LEMMA TracksFurther ==
    ASSUME NEW l \in Nat, NEW h \in Nat, l < Half, Half <= h,
           ~(l >= Quarter /\ h < Half + Quarter),
           NEW base \in Nat, NEW k \in Nat, NEW s \in Nat, NEW q \in Nat, NEW d, NEW hdr, NEW inp,
           NEW limit \in Nat, Tracks(l, h, base, k, s, q, d, hdr, inp, limit),
           s <= Len(Lens), s \in 1..Len(hdr),
           NEW b, b = hdr[s], b.xmin \in Int, b.xmax \in Int, b.xmin < b.xmax,
           NEW g, g = inp[s].gmm[q],
           NEW l2 \in Nat, NEW h2 \in Int, l <= l2, h2 <= h, NEW s2, NEW q2, NEW d2,
           Narrows(l, h, k, s, q, d, b, g, l2, h2, s2, q2, d2),
           NEW limit2 \in Nat, limit + 1 <= limit2
    PROVE  Tracks(l2, h2, base, k, s2, q2, d2, hdr, inp, limit2)
<1>1. l <= h /\ ~((l < Half) <=> (h < Half)) /\ ~(s > Len(Lens)) /\ ~(b.xmin >= b.xmax)
    <2>1. Half \in Nat
        BY StateFacts
    <2>2. ~((l < Half) <=> (h < Half)) /\ l <= h
        BY <2>1
    <2>3. Len(Lens) \in Nat
        BY DataAssumption
    <2>4. ~(s > Len(Lens))
        BY <2>3
    <2>5. ~(b.xmin >= b.xmax)
        OBVIOUS
    <2> QED
        BY <2>2, <2>4, <2>5
<1>3. ASSUME NEW w \in BitString, NEW side, Known(side, hdr, inp),
             base + l2 <= Number(w)[k], Number(w)[k] <= base + h2
      PROVE  /\ Known(side, hdr, inp)
             /\ base + l <= Number(w)[k]
             /\ Number(w)[k] <= base + h
             /\ DecoderStep(State(l, h, Number(w)[k] - base, k, s, q, d), w, side) =
                   State(l2, h2, Number(w)[k] - base, k, s2, q2, d2)
    <2> DEFINE n == Number(w)[k]
               c == n - base
    <2>1. n \in Nat
        BY NumberFacts
    <2>2. base + l2 <= n /\ n <= base + h2
        BY <1>3
    <2> HIDE DEF n
    <2>3. base + l <= n /\ n <= base + h /\ c \in Int /\ l2 <= c /\ c <= h2
        BY <2>1, <2>2, Within DEF c
    <2> HIDE DEF c
    <2>4. side[s].bounds = b /\ side[s].gmm[q] = g
        <3>1. side[s] = [bounds |-> hdr[s], gmm |-> inp[s].gmm]
            BY <1>3 DEF Known
        <3> QED
            BY <3>1
    <2>5. DecoderStep(State(l, h, c, k, s, q, d), w, side) =
              Decoded(State(l, h, c, k, s, q, d), b, g)
        <3>1. ~(s > Len(Lens)) /\ ~(side[s].bounds.xmin >= side[s].bounds.xmax) =>
                  DecoderStep(State(l, h, c, k, s, q, d), w, side) =
                      Decoded(State(l, h, c, k, s, q, d), side[s].bounds, side[s].gmm[q])
            BY <1>1, DecoderPlaces
        <3> QED
            BY <1>1, <2>4, <3>1, Zenon
    <2>6. Decoded(State(l, h, c, k, s, q, d), b, g) = State(l2, h2, c, k, s2, q2, d2)
        BY <2>3, Zenon DEF Narrows
    <2> QED
        BY <1>3, <2>3, <2>5, <2>6 DEF n, c
<1> QED
    BY <1>3, TracksStep, SMTT(120)

\* The ends of the interval that a coefficient narrows to, and whether there is room for it
LowEnd(l, h, g, b, x) ==
    l + (SymLow(g, x, b.xmin) * (h - l + 1)) \div TotalFreqs(g, b.xmin, b.xmax)

HighEnd(l, h, g, b, x) ==
    l + (SymHigh(g, x, b.xmin) * (h - l + 1)) \div TotalFreqs(g, b.xmin, b.xmax) - 1

Room(l, h, g, b) == TotalFreqs(g, b.xmin, b.xmax) <= h - l + 1

\* DecodedState and NarrowedInside in these words
LEMMA DecodedEnds ==
    ASSUME NEW l \in Nat, NEW h \in Nat, l <= h, NEW g \in Gmms,
           NEW b, b.xmin \in Int, b.xmax \in Int, NEW x \in b.xmin..b.xmax, Room(l, h, g, b),
           NEW k, NEW s \in Nat, NEW q \in Nat, NEW d
    PROVE  /\ LowEnd(l, h, g, b, x) \in Nat /\ HighEnd(l, h, g, b, x) \in Int
           /\ l <= LowEnd(l, h, g, b, x) /\ HighEnd(l, h, g, b, x) <= h
           /\ Narrows(l, h, k, s, q, d, b, g, LowEnd(l, h, g, b, x), HighEnd(l, h, g, b, x),
                      IF q = Lens[s] THEN s + 1 ELSE s, IF q = Lens[s] THEN 1 ELSE q + 1,
                      With(d, One(s, q, x)))
<1> DEFINE l2 == LowEnd(l, h, g, b, x)
           h2 == HighEnd(l, h, g, b, x)
<1>1. /\ TotalFreqs(g, b.xmin, b.xmax) <= h - l + 1
      /\ l2 = l + (SymLow(g, x, b.xmin) * (h - l + 1)) \div TotalFreqs(g, b.xmin, b.xmax)
      /\ h2 = l + (SymHigh(g, x, b.xmin) * (h - l + 1)) \div TotalFreqs(g, b.xmin, b.xmax) - 1
    BY Zenon DEF Room, LowEnd, HighEnd
<1> HIDE DEF l2, h2
<1>2. l2 \in Nat /\ h2 \in Int /\ l <= l2 /\ h2 <= h
    BY <1>1, NarrowedInside
<1>3. ASSUME NEW c \in Int, l2 <= c, c <= h2
      PROVE  Decoded(State(l, h, c, k, s, q, d), b, g) =
                 State(l2, h2, c, k, IF q = Lens[s] THEN s + 1 ELSE s,
                       IF q = Lens[s] THEN 1 ELSE q + 1, With(d, One(s, q, x)))
    BY <1>1, <1>3, DecodedState
<1> QED
    BY <1>2, <1>3, Zenon DEF l2, h2, Narrows

\* A coefficient is coded, and the decoder gets it.
LEMMA TracksDecoded ==
    ASSUME NEW l \in Nat, NEW h \in Nat, l < Half, Half <= h,
           ~(l >= Quarter /\ h < Half + Quarter),
           NEW base \in Nat, NEW k \in Nat, NEW s \in Nat, NEW q \in Nat, NEW d, NEW hdr, NEW inp,
           NEW limit \in Nat, Tracks(l, h, base, k, s, q, d, hdr, inp, limit),
           s <= Len(Lens), s \in 1..Len(hdr),
           NEW b, b = hdr[s], b.xmin \in Int, b.xmax \in Int, b.xmin < b.xmax,
           NEW g \in Gmms, g = inp[s].gmm[q],
           NEW x \in b.xmin..b.xmax, Room(l, h, g, b),
           NEW limit2 \in Nat, limit + 1 <= limit2
    PROVE  Tracks(LowEnd(l, h, g, b, x), HighEnd(l, h, g, b, x), base, k,
                  IF q = Lens[s] THEN s + 1 ELSE s, IF q = Lens[s] THEN 1 ELSE q + 1,
                  With(d, One(s, q, x)), hdr, inp, limit2)
<1> DEFINE s2 == IF q = Lens[s] THEN s + 1 ELSE s
           q2 == IF q = Lens[s] THEN 1 ELSE q + 1
           d2 == With(d, One(s, q, x))
           l2 == LowEnd(l, h, g, b, x)
           h2 == HighEnd(l, h, g, b, x)
<1>1. l <= h
    <2>1. Half \in Nat
        BY HalfNat
    <2> QED
        BY <2>1
<1>2. /\ l2 \in Nat /\ h2 \in Int /\ l <= l2 /\ h2 <= h
      /\ Narrows(l, h, k, s, q, d, b, g, l2, h2, s2, q2, d2)
    BY <1>1, DecodedEnds
<1> HIDE DEF s2, q2, d2, l2, h2
<1>3. Tracks(l2, h2, base, k, s2, q2, d2, hdr, inp, limit2)
    BY <1>2, TracksFurther
<1> QED
    BY <1>3 DEF s2, q2, d2, l2, h2

-----------------------------------------------------------------------------
(* The decoder keeps up with the encoder.                                  *)

\* Where the interval of the decoder lies when the bits written make v and t is the power
\* of two of the bits left open: those are written as 0 and ones, or as 1 and zeros.
Pending(base, v, t) == base = (v * t) * Full + (t - 1) * Half

\* And when the bit b has been written, but not all the open ones
Opened(base, v, t, b) == 2 * base + b * Full = (v * t + (1 - b) * (t - 1)) * Full

\* Nothing is written and no bit open.
LEMMA PendingStart == Pending(0, 0, 1)
<1>1. Half \in Nat /\ Full \in Nat
    BY StateFacts
<1> QED
    BY <1>1 DEF Pending

\* The first bit is written.
LEMMA PendingOpened ==
    ASSUME NEW base \in Nat, NEW v \in Nat, NEW t \in Nat \ {0}, NEW b \in 0..1,
           Pending(base, v, t)
    PROVE  Opened(base, 2 * v + b, t, b)
<1> DEFINE x == v * t
           y == x * Full
           z == t * Half
<1>1. Half \in Nat /\ Full \in Nat /\ Full = 2 * Half
    BY StateFacts
<1>2. x \in Nat /\ y \in Nat /\ z \in Nat
    BY <1>1
<1>3. base = y + z - Half
    <2>1. (t - 1) * Half = t * Half - Half
        BY <1>1
    <2> HIDE DEF x
    <2>2. base = x * Full + (t - 1) * Half
        BY DEF Pending, x
    <2> QED
        BY <2>1, <2>2
<1>4. t * Full = 2 * z
    BY <1>1
<1>5. CASE b = 0
    <2>1. (2 * v + b) * t + (1 - b) * (t - 1) = 2 * x + t - 1
        BY <1>5
    <2> HIDE DEF x
    <2>2. (2 * x + t - 1) * Full = 2 * (x * Full) + t * Full - Full
        BY <1>1, <1>2
    <2> HIDE DEF y, z
    <2>3. (2 * x + t - 1) * Full = 2 * y + 2 * z - Full
        BY <1>4, <2>2 DEF y
    <2>4. 2 * base + b * Full = 2 * y + 2 * z - Full
        BY <1>1, <1>2, <1>3, <1>5
    <2> QED
        BY <2>1, <2>3, <2>4 DEF Opened
<1>6. CASE b = 1
    <2>1. (2 * v + b) * t + (1 - b) * (t - 1) = 2 * x + t
        BY <1>6
    <2> HIDE DEF x
    <2>2. (2 * x + t) * Full = 2 * (x * Full) + t * Full
        BY <1>1, <1>2
    <2> HIDE DEF y, z
    <2>3. (2 * x + t) * Full = 2 * y + 2 * z
        BY <1>4, <2>2 DEF y
    <2>4. 2 * base + b * Full = 2 * y + 2 * z
        BY <1>1, <1>2, <1>3, <1>6
    <2> QED
        BY <2>1, <2>3, <2>4 DEF Opened
<1> QED
    BY <1>5, <1>6

\* An open bit is written, as the inverse of the first.
LEMMA OpenedWritten ==
    ASSUME NEW base \in Nat, NEW v \in Nat, NEW t \in Nat \ {0}, NEW b \in 0..1,
           Opened(base, v, 2 * t, b)
    PROVE  Opened(base, 2 * v + (1 - b), t, b)
<1>1. v * (2 * t) + (1 - b) * (2 * t - 1) = (2 * v + (1 - b)) * t + (1 - b) * (t - 1)
    <2>1. CASE b = 0
        BY <2>1
    <2>2. CASE b = 1
        BY <2>2
    <2> QED
        BY <2>1, <2>2
<1> QED
    BY <1>1, Zenon DEF Opened

\* All open bits are written.
LEMMA OpenedEnds ==
    ASSUME NEW base \in Nat, NEW v \in Nat, NEW b \in 0..1, Opened(base, v, 1, b)
    PROVE  Pending(2 * base + b * Full, v, 1)
<1>1. Half \in Nat /\ Full \in Nat
    BY StateFacts
<1>2. v * 1 + (1 - b) * (1 - 1) = v /\ v * 1 = v /\ (1 - 1) * Half = 0
    BY <1>1
<1>3. 2 * base + b * Full = v * Full
    BY <1>2 DEF Opened
<1>4. v * Full \in Nat
    BY <1>1
<1>5. v * Full = (v * 1) * Full + (1 - 1) * Half
    <2> DEFINE x == v * Full
    <2>1. (v * 1) * Full = x
        BY <1>2
    <2> HIDE DEF x
    <2> QED
        BY <1>2, <1>4, <2>1 DEF x
<1> QED
    BY <1>3, <1>5 DEF Pending

\* A bit is left open.
LEMMA PendingMore ==
    ASSUME NEW base \in Nat, NEW v \in Nat, NEW t \in Nat \ {0}, Pending(base, v, t)
    PROVE  Pending(2 * base + Half, v, 2 * t)
<1> DEFINE x == v * t
           y == x * Full
           z == t * Half
<1>1. Half \in Nat /\ Full \in Nat
    BY StateFacts
<1>2. x \in Nat /\ y \in Nat /\ z \in Nat
    BY <1>1
<1>3. base = y + z - Half
    <2>1. (t - 1) * Half = t * Half - Half
        BY <1>1
    <2> HIDE DEF x
    <2>2. base = x * Full + (t - 1) * Half
        BY DEF Pending, x
    <2> QED
        BY <2>1, <2>2
<1>4. v * (2 * t) = 2 * x
    OBVIOUS
<1>5. (2 * t - 1) * Half = 2 * z - Half
    BY <1>1
<1> HIDE DEF x
<1>6. (2 * x) * Full = 2 * y
    BY <1>1, <1>2
<1> HIDE DEF y, z
<1>7. 2 * base + Half = 2 * y + (2 * z - Half)
    BY <1>1, <1>2, <1>3
<1> QED
    BY <1>4, <1>5, <1>6, <1>7 DEF Pending

\* codings ends: one more 1, and zeros, are the middle of the interval.
LEMMA PendingMiddle ==
    ASSUME NEW base \in Nat, NEW v \in Nat, NEW t \in Nat \ {0}, Pending(base, v, t)
    PROVE  (2 * v + 1) * (t * Half) = base + Half
<1> DEFINE x == v * t
           z == t * Half
           y == x * Half
<1>1. Half \in Nat /\ Full \in Nat /\ Full = 2 * Half
    BY StateFacts
<1>2. x \in Nat /\ y \in Nat /\ z \in Nat
    BY <1>1
<1>3. x * Full = 2 * y
    <2> HIDE DEF x
    <2> QED
        BY <1>1, <1>2
<1>4. base = 2 * y + z - Half
    <2>1. (t - 1) * Half = t * Half - Half
        BY <1>1
    <2> HIDE DEF x
    <2>2. base = x * Full + (t - 1) * Half
        BY DEF Pending, x
    <2> HIDE DEF y
    <2> QED
        BY <1>1, <1>2, <1>3, <2>1, <2>2
<1>5. v * z = y
    BY <1>1
<1> HIDE DEF z
<1>6. (2 * v + 1) * z = 2 * (v * z) + z
    BY <1>2
<1> HIDE DEF y
<1>7. (2 * v + 1) * z = base + Half
    BY <1>1, <1>2, <1>4, <1>5, <1>6
<1> QED
    BY <1>7 DEF z

\* The coefficients at these places
Given(places, inp) == [place \in places |-> inp[place[1]].datum[place[2]]]

\* The places of a subband and of those before it are those before the next one.
LEMMA BeforeNext ==
    ASSUME NEW n \in 1..Len(Lens)
    PROVE  Before(n + 1) = Before(n) \cup ({n} \X (1..Lens[n]))
<1>1. Len(Lens) \in Nat
    BY DataAssumption
<1>2. 1..((n + 1) - 1) = (1..(n - 1)) \cup {n}
    BY <1>1
<1>3. ASSUME NEW c \in Before(n + 1)
      PROVE  c \in Before(n) \cup ({n} \X (1..Lens[n]))
    <2>1. PICK i \in 1..((n + 1) - 1) : c \in {i} \X (1..Lens[i])
        BY <1>3 DEF Before
    <2>2. i \in 1..(n - 1) \/ i = n
        BY <1>2, <2>1
    <2> QED
        BY <2>1, <2>2 DEF Before
<1>4. Before(n) \subseteq Before(n + 1)
    BY <1>2 DEF Before
<1>5. {n} \X (1..Lens[n]) \subseteq Before(n + 1)
    <2>1. n \in 1..((n + 1) - 1)
        BY <1>2
    <2> QED
        BY <2>1 DEF Before
<1> QED
    BY <1>3, <1>4, <1>5

\* A place lies in one of the subbands before.
LEMMA BeforePlaces ==
    ASSUME NEW n, NEW c \in Before(n)
    PROVE  c[1] \in 1..(n - 1) /\ c[2] \in 1..Lens[c[1]] /\ c = <<c[1], c[2]>>
<1>1. PICK i \in 1..(n - 1) : c \in {i} \X (1..Lens[i])
    BY DEF Before
<1> QED
    BY <1>1

\* The same input at these places
LEMMA GivenSame ==
    ASSUME NEW places, NEW inp, NEW inp2, \A c \in places : inp2[c[1]] = inp[c[1]]
    PROVE  Given(places, inp2) = Given(places, inp)
    BY DEF Given

\* One more coefficient
LEMMA GivenMore ==
    ASSUME NEW places, NEW inp, NEW s, NEW q
    PROVE  Given(places \cup {<<s, q>>}, inp) =
               With(Given(places, inp), One(s, q, inp[s].datum[q]))
<1> DEFINE x == inp[s].datum[q]
           new == One(s, q, x)
           old == Given(places, inp)
           F == Given(places \cup {<<s, q>>}, inp)
           W == With(old, new)
<1>1. DOMAIN new = {<<s, q>>} /\ new[<<s, q>>] = x
    BY DEF One
<1>2. DOMAIN old = places /\ \A c \in places : old[c] = inp[c[1]].datum[c[2]]
    BY DEF Given
<1>3. F = [c \in places \cup {<<s, q>>} |-> inp[c[1]].datum[c[2]]]
    BY DEF Given
<1>4. W = [c \in DOMAIN old \cup DOMAIN new |-> IF c \in DOMAIN new THEN new[c] ELSE old[c]]
    BY DEF With
<1>5. ASSUME NEW c \in places \cup {<<s, q>>}
      PROVE  inp[c[1]].datum[c[2]] = IF c \in DOMAIN new THEN new[c] ELSE old[c]
    <2>1. CASE c = <<s, q>>
        BY <1>1, <2>1
    <2>2. CASE c # <<s, q>>
        BY <1>1, <1>2, <1>5, <2>2
    <2> QED
        BY <2>1, <2>2
<1> HIDE DEF new, old, F, W
<1> QED
    BY <1>1, <1>2, <1>3, <1>4, <1>5 DEF F, W, old, new

\* The places of a subband
Row(s) == {s} \X (1..Lens[s])

\* The input is the same at these places, and a subband has the same coefficient everywhere.
SameBut(places, inp, inp2, s, v) ==
    /\ \A c \in places : inp2[c[1]] = inp[c[1]] /\ c[1] # s
    /\ \A i \in 1..Lens[s] : inp2[s].datum[i] = v

\* A subband whose coefficients are all the same
LEMMA GivenAlike ==
    ASSUME NEW places, NEW inp, NEW inp2, NEW s, NEW v,
           SameBut(places, inp, inp2, s, v)
    PROVE  Given(places \cup Row(s), inp2) = With(Given(places, inp), Alike(s, v))
<1> DEFINE S == Row(s)
           new == Alike(s, v)
           old == Given(places, inp)
           F == Given(places \cup S, inp2)
           W == With(old, new)
<1>1. DOMAIN new = S /\ \A c \in S : new[c] = v
    BY DEF Alike, Row
<1>2. DOMAIN old = places /\ \A c \in places : old[c] = inp2[c[1]].datum[c[2]]
    BY DEF Given, SameBut
<1>3. F = [c \in places \cup S |-> inp2[c[1]].datum[c[2]]]
    BY DEF Given
<1>4. W = [c \in DOMAIN old \cup DOMAIN new |-> IF c \in DOMAIN new THEN new[c] ELSE old[c]]
    BY DEF With
<1>5. \A c \in S : c[1] = s /\ c[2] \in 1..Lens[s]
    BY DEF Row
<1> HIDE DEF new, old, F, W, S
<1>6. ASSUME NEW c \in places \cup S
      PROVE  inp2[c[1]].datum[c[2]] = IF c \in DOMAIN new THEN new[c] ELSE old[c]
    <2>1. CASE c \in S
        BY <1>1, <1>5, <2>1 DEF SameBut
    <2>2. CASE c \notin S
        BY <1>1, <1>2, <1>6, <2>2
    <2> QED
        BY <2>1, <2>2
<1> QED
    BY <1>1, <1>2, <1>3, <1>4, <1>6 DEF F, W, old, new, S

-----------------------------------------------------------------------------
(* What the encoder has been given.                                        *)

\* The coefficients and the parameters of a subband
Subband == [datum : UNION {[1..n -> Coefficient] : n \in Nat},
            gmm : UNION {[1..n -> Gmms] : n \in Nat}]

\* input has what the header tells of, and ends with the subband that is coded.
HistoryFollows ==
    /\ input \in Seq(Subband)
    /\ Len(input) = Len(header)
    /\ InSubband => input[sub].datum = datum /\ input[sub].gmm = gmm

\* A sequence and one more element
LEMMA OneMore ==
    ASSUME NEW S, NEW s \in Seq(S), NEW e \in S
    PROVE  /\ Append(s, e) \in Seq(S)
           /\ Len(Append(s, e)) = Len(s) + 1
           /\ Append(s, e)[Len(s) + 1] = e
           /\ \A k \in 1..Len(s) : Append(s, e)[k] = s[k]
    OBVIOUS

\* A step of the coder keeps it so.
LEMMA HistoryKept ==
    ASSUME Inv, Inv', HistoryFollows, CoderStep
    PROVE  HistoryFollows'
<1>1. CASE BeginSubband
    <2>1. PICK d \in [1..Lens[sub] -> Coefficient], g \in [1..Lens[sub] -> Gmms] :
              /\ header' = Append(header, Bounds(d))
              /\ input' = Append(input, [datum |-> d, gmm |-> g])
              /\ IF Bounds(d).xmin >= Bounds(d).xmax
                 THEN sub' = sub + 1 /\ UNCHANGED <<pc, p, datum, gmm>>
                 ELSE pc' = "symbol" /\ p' = 1 /\ datum' = d /\ gmm' = g /\ UNCHANGED sub
        BY <1>1 DEF BeginSubband
    <2> DEFINE e == [datum |-> d, gmm |-> g]
    <2>2. e \in Subband
        <3>1. Lens[sub] \in Nat
            <4>1. sub \in 1..Len(Lens)
                <5>1. sub \in 1..(Len(Lens) + 1) /\ sub <= Len(Lens) /\ Len(Lens) \in Nat
                    BY <1>1, DataAssumption DEF BeginSubband, Inv, TypeOK
                <5> QED
                    BY <5>1
            <4> QED
                BY <4>1, DataAssumption
        <3>2. d \in UNION {[1..n -> Coefficient] : n \in Nat}
            BY <3>1
        <3>3. g \in UNION {[1..n -> Gmms] : n \in Nat}
            BY <3>1
        <3> QED
            BY <3>2, <3>3 DEF Subband
    <2>3. input \in Seq(Subband) /\ Len(input) = Len(header) /\ input' = Append(input, e)
        BY <2>1 DEF HistoryFollows
    <2>4. pc = "subband" /\ Len(header) = sub - 1 /\ sub \in Nat
        BY <1>1, DataAssumption DEF Inv, TypeOK, SubbandFollows, InSubband, BeginSubband
    <2>5. e.datum = d /\ e.gmm = g
        OBVIOUS
    <2> HIDE DEF e
    <2>6. input' \in Seq(Subband) /\ Len(input') = sub /\ input'[sub] = e
        BY <2>2, <2>3, <2>4, OneMore
    <2>7. Len(header') = sub
        BY <2>1, <2>4 DEF Inv, SubbandFollows, InSubband
    <2>8. InSubband' => sub' = sub /\ datum' = d /\ gmm' = g
        BY <2>1, <2>4 DEF InSubband
    <2> QED
        BY <2>5, <2>6, <2>7, <2>8 DEF HistoryFollows
<1>2. CASE /\ UNCHANGED <<header, input, datum, gmm>>
           /\ InSubband' => InSubband /\ sub' = sub
    BY <1>2 DEF HistoryFollows
<1>3. ~BeginSubband => /\ UNCHANGED <<header, input, datum, gmm>>
                       /\ InSubband' => InSubband /\ sub' = sub
    BY DEF CoderStep, Symbol, Shift, WriteOpenBit, EndShiftTurn, EndShift, Underflow, EndUnderflow,
           Finish, Fill, InSubband
<1> QED
    BY <1>1, <1>2, <1>3

\* The header tells of the subbands whose coefficients have been dealt with.
LEMMA CodedPlaces ==
    ASSUME Inv, NEW c \in Coded
    PROVE  /\ c[1] \in 1..Len(header)
           /\ pc = "subband" => c[1] # sub
<1>1. /\ Len(Lens) \in Nat /\ sub \in 1..(Len(Lens) + 1)
      /\ Len(header) = IF InSubband THEN sub ELSE sub - 1
    BY DataAssumption DEF Inv, TypeOK, SubbandFollows
<1>2. sub - 1 \in Nat /\ sub \in Nat
    BY <1>1
<1>3. CASE c \in Before(sub)
    <2>1. c[1] \in 1..(sub - 1)
        BY <1>3, BeforePlaces
    <2> QED
        BY <1>1, <1>2, <2>1
<1>4. CASE c \in {sub} \X (1..Begun)
    <2>1. c[1] = sub /\ 1..Begun # {}
        BY <1>4
    <2>2. InSubband
        BY <1>4, <2>1 DEF Begun, InSubband
    <2> QED
        BY <1>1, <1>2, <2>1, <2>2 DEF InSubband
<1> QED
    BY <1>3, <1>4 DEF Coded

\* What a step adds to the coefficients that have been dealt with
LEMMA CodedSteps ==
    ASSUME Inv, CoderStep
    PROVE  /\ BeginSubband /\ pc' = "subband" =>
                  Coded' = Coded \cup ({sub} \X (1..Lens[sub])) /\ sub' = sub + 1
           /\ BeginSubband /\ pc' = "symbol" => Coded' = Coded /\ sub' = sub
           /\ Symbol => Coded' = Coded \cup {<<sub, p>>} /\ <<sub, p>> \notin Coded
           /\ ~BeginSubband /\ ~Symbol => Coded' = Coded
<1>1. Len(Lens) \in Nat /\ \A k \in 1..Len(Lens) : Lens[k] \in Nat
    BY DataAssumption
<1>2. TypeOK /\ sub \in Nat \ {0} /\ sub <= Len(Lens) + 1
    BY <1>1 DEF Inv, TypeOK
<1>3. /\ Coded = Before(sub) \cup ({sub} \X (1..Begun))
      /\ Coded' = Before(sub') \cup ({sub'} \X (1..Begun'))
    BY DEF Coded
<1>4. \A s : {s} \X (1..0) = {}
    OBVIOUS
<1>5. ASSUME BeginSubband
      PROVE  /\ pc' = "subband" => Coded' = Coded \cup ({sub} \X (1..Lens[sub])) /\ sub' = sub + 1
             /\ pc' = "symbol" => Coded' = Coded /\ sub' = sub
    <2>1. /\ pc = "subband" /\ Begun = 0 /\ Begun' = 0 /\ sub \in 1..Len(Lens)
          /\ \/ sub' = sub /\ pc' = "symbol" /\ p' = 1
             \/ sub' = sub + 1 /\ pc' = "subband"
        BY <1>1, <1>2, <1>5 DEF BeginSubband, Begun
    <2>2. Before(sub + 1) = Before(sub) \cup ({sub} \X (1..Lens[sub]))
        BY <2>1, BeforeNext
    <2> QED
        BY <1>3, <1>4, <2>1, <2>2
<1>6. ASSUME Symbol
      PROVE  Coded' = Coded \cup {<<sub, p>>} /\ <<sub, p>> \notin Coded
    <2>1. /\ pc = "symbol" /\ pc' = "shift" /\ sub' = sub /\ p' = p
          /\ p \in Nat \ {0}
        BY <1>1, <1>2, <1>6 DEF Symbol, TypeOK
    <2>2. Begun = p - 1 /\ Begun' = p
        BY <2>1 DEF Begun
    <2>3. {sub} \X (1..p) = ({sub} \X (1..(p - 1))) \cup {<<sub, p>>}
        <3>1. 1..p = (1..(p - 1)) \cup {p}
            BY <2>1
        <3> QED
            BY <3>1
    <2>4. <<sub, p>> \notin {sub} \X (1..(p - 1))
        BY <2>1
    <2>5. <<sub, p>> \notin Before(sub)
        <3>1. ASSUME <<sub, p>> \in Before(sub) PROVE FALSE
            <4>1. sub \in 1..(sub - 1)
                BY <3>1, BeforePlaces
            <4> QED
                BY <1>2, <4>1
        <3> QED
            BY <3>1
    <2> QED
        BY <1>3, <2>1, <2>2, <2>3, <2>4, <2>5
<1>7. ASSUME EndUnderflow PROVE Coded' = Coded
    <2>1. /\ pc = "underflow" /\ p \in 1..Lens[sub] /\ Lens[sub] \in Nat
          /\ sub \in 1..Len(Lens) /\ Begun = p
          /\ \/ p < Lens[sub] /\ pc' = "symbol" /\ p' = p + 1 /\ sub' = sub
             \/ p = Lens[sub] /\ pc' = "subband" /\ sub' = sub + 1
        BY <1>1, <1>2, <1>7 DEF EndUnderflow, TypeOK, Begun
    <2>2. CASE sub' = sub /\ pc' = "symbol" /\ p' = p + 1
        <3>1. Begun' = Begun
            BY <2>1, <2>2 DEF Begun
        <3> QED
            BY <1>3, <2>2, <3>1
    <2>3. CASE p = Lens[sub] /\ pc' = "subband" /\ sub' = sub + 1
        <3>1. Begun' = 0 /\ Begun = Lens[sub]
            BY <2>1, <2>3 DEF Begun
        <3>2. Before(sub + 1) = Before(sub) \cup ({sub} \X (1..Lens[sub]))
            BY <2>1, BeforeNext
        <3> QED
            BY <1>3, <1>4, <2>3, <3>1, <3>2
    <2> QED
        BY <2>1, <2>2, <2>3
<1>8. ASSUME Shift \/ WriteOpenBit \/ EndShiftTurn \/ EndShift \/ Underflow \/ Finish \/ Fill
      PROVE  Coded' = Coded
    <2>1. sub' = sub /\ Begun' = Begun
        BY <1>8 DEF Shift, WriteOpenBit, EndShiftTurn, EndShift, Underflow, Finish, Fill, Begun
    <2> QED
        BY <1>3, <2>1
<1> QED
    BY <1>5, <1>6, <1>7, <1>8 DEF CoderStep

\* How many there are
LEMMA CodedCount ==
    ASSUME Inv, Inv', CoderStep
    PROVE  /\ Cardinality(Coded) \in Nat /\ Cardinality(Coded') \in Nat
           /\ Cardinality(Coded) <= Cardinality(Coded')
           /\ Symbol => Cardinality(Coded) + 1 <= Cardinality(Coded')
<1>1. TypeOK /\ TypeOK'
    BY DEF Inv
<1>2. /\ IsFiniteSet(Coded) /\ Cardinality(Coded) \in Nat
      /\ IsFiniteSet(Coded') /\ Cardinality(Coded') \in Nat
    BY <1>1, CodedFinite
<1>3. Coded \in SUBSET Coded'
    <2>1. BeginSubband => pc' \in {"subband", "symbol"}
        BY DEF BeginSubband
    <2> QED
        BY <2>1, CodedSteps
<1>4. Cardinality(Coded) <= Cardinality(Coded')
    BY <1>2, <1>3, FS_Subset
<1>5. ASSUME Symbol PROVE Cardinality(Coded) + 1 <= Cardinality(Coded')
    <2>1. Coded' = Coded \cup {<<sub, p>>} /\ <<sub, p>> \notin Coded
        BY <1>5, CodedSteps
    <2>2. Cardinality(Coded') = Cardinality(Coded) + 1
        BY <1>2, <2>1, FS_AddElement
    <2> QED
        BY <1>2, <2>2
<1> QED
    BY <1>2, <1>4, <1>5

-----------------------------------------------------------------------------
(* Steps of the encoder, seen by the decoder.                              *)

\* A decoder is where the encoder is, but for a turn that the encoder has begun (open):
\* it has read pos bits and made no more than so many steps.
Keeps(l, h, v, u, b, open, pos, steps, s, q, d, hdr, inp) ==
    \E base, k, limit \in Nat :
        /\ k + open = pos
        /\ limit + open <= steps
        /\ IF open = 1 THEN Opened(base, v, TwoTo[u], b) ELSE Pending(base, v, TwoTo[u])
        /\ Tracks(l, h, base, k, s, q, d, hdr, inp, limit)

\* What a decoder was told stays true.
Extends(hdr, inp, hdr2, inp2) == \A side : Known(side, hdr2, inp2) => Known(side, hdr, inp)

\* More subbands
LEMMA KnownMore ==
    ASSUME NEW hdr, NEW inp, NEW hdr2, NEW inp2,
           Len(hdr) \in Nat, Len(hdr2) \in Nat, Len(hdr) <= Len(hdr2),
           \A k \in 1..Len(hdr) : hdr2[k] = hdr[k] /\ inp2[k] = inp[k]
    PROVE  Extends(hdr, inp, hdr2, inp2)
<1> SUFFICES ASSUME NEW side, Known(side, hdr2, inp2), NEW k \in 1..Len(hdr)
             PROVE  side[k] = [bounds |-> hdr[k], gmm |-> inp[k].gmm]
    BY DEF Extends, Known
<1>1. k \in 1..Len(hdr2) /\ hdr2[k] = hdr[k] /\ inp2[k] = inp[k]
    OBVIOUS
<1>2. side[k] = [bounds |-> hdr2[k], gmm |-> inp2[k].gmm]
    BY <1>1 DEF Known
<1> QED
    BY <1>1, <1>2

\* The encoder starts, and so does the decoder.
LEMMA KeepsStart ==
    ASSUME NEW b
    PROVE  Keeps(0, Full - 1, 0, 0, b, 0, StateBits, 0, 1, 1, <<>>, <<>>, <<>>)
<1>1. Pending(0, 0, TwoTo[0])
    <2>1. TwoTo[0] = 1
        BY TwoToFacts
    <2> QED
        BY <2>1, PendingStart, Zenon
<1>2. StateBits \in Nat
    BY RangeAssumption
<1>3. /\ 0 \in Nat /\ StateBits + 0 = StateBits /\ 0 + 0 <= 0 /\ 0 # 1
    BY <1>2
<1> QED
    BY <1>1, <1>2, <1>3, TracksStart, Zenon DEF Keeps

\* The decoder needs no step.
LEMMA KeepsKept ==
    ASSUME NEW l, NEW h, NEW v, NEW u, NEW b, NEW pos, NEW steps \in Nat, NEW s, NEW q, NEW d,
           NEW hdr, NEW inp, Keeps(l, h, v, u, b, 0, pos, steps, s, q, d, hdr, inp),
           NEW b2, NEW steps2 \in Nat, steps <= steps2,
           NEW hdr2, NEW inp2, Extends(hdr, inp, hdr2, inp2)
    PROVE  Keeps(l, h, v, u, b2, 0, pos, steps2, s, q, d, hdr2, inp2)
<1>1. PICK base \in Nat, k \in Nat, limit \in Nat :
          /\ k + 0 = pos /\ limit + 0 <= steps
          /\ Pending(base, v, TwoTo[u])
          /\ Tracks(l, h, base, k, s, q, d, hdr, inp, limit)
    BY DEF Keeps
<1>2. \A side : Known(side, hdr2, inp2) => Known(side, hdr, inp)
    BY DEF Extends
<1>3. Tracks(l, h, base, k, s, q, d, hdr2, inp2, limit)
    <2>1. limit <= limit
        OBVIOUS
    <2> QED
        BY <1>1, <1>2, <2>1, TracksKept
<1>4. limit + 0 <= steps2 /\ 0 # 1
    BY <1>1
<1> QED
    BY <1>1, <1>3, <1>4, Zenon DEF Keeps

\* The first bit of a turn
LEMMA KeepsShift ==
    ASSUME NEW l, NEW h, NEW v \in Nat, NEW u \in Nat, NEW b \in 0..1, NEW pos \in Nat,
           NEW steps \in Nat, NEW s, NEW q, NEW d, NEW hdr, NEW inp,
           Keeps(l, h, v, u, b, 0, pos, steps, s, q, d, hdr, inp)
    PROVE  Keeps(l, h, 2 * v + b, u, b, 1, pos + 1, steps + 1, s, q, d, hdr, inp)
<1>1. PICK base \in Nat, k \in Nat, limit \in Nat :
          /\ k + 0 = pos /\ limit + 0 <= steps
          /\ Pending(base, v, TwoTo[u])
          /\ Tracks(l, h, base, k, s, q, d, hdr, inp, limit)
    BY DEF Keeps
<1>2. Opened(base, 2 * v + b, TwoTo[u], b)
    <2>1. TwoTo[u] \in Nat \ {0}
        BY TwoToFacts
    <2> QED
        BY <1>1, <2>1, PendingOpened
<1>3. k + 1 = pos + 1 /\ limit + 1 <= steps + 1
    BY <1>1
<1> QED
    BY <1>1, <1>2, <1>3, Zenon DEF Keeps

\* An open bit
LEMMA KeepsWrite ==
    ASSUME NEW l, NEW h, NEW v \in Nat, NEW u \in Nat, NEW b \in 0..1, NEW pos \in Nat,
           NEW steps \in Nat, NEW s, NEW q, NEW d, NEW hdr, NEW inp,
           Keeps(l, h, v, u + 1, b, 1, pos, steps, s, q, d, hdr, inp)
    PROVE  Keeps(l, h, 2 * v + (1 - b), u, b, 1, pos, steps, s, q, d, hdr, inp)
<1>1. PICK base \in Nat, k \in Nat, limit \in Nat :
          /\ k + 1 = pos /\ limit + 1 <= steps
          /\ Opened(base, v, TwoTo[u + 1], b)
          /\ Tracks(l, h, base, k, s, q, d, hdr, inp, limit)
    BY DEF Keeps
<1>2. Opened(base, 2 * v + (1 - b), TwoTo[u], b)
    <2>1. TwoTo[u] \in Nat \ {0} /\ TwoTo[u + 1] = 2 * TwoTo[u]
        BY TwoToFacts
    <2> DEFINE t == TwoTo[u]
    <2>2. Opened(base, v, 2 * t, b) /\ t \in Nat \ {0}
        BY <1>1, <2>1
    <2> HIDE DEF t
    <2>3. Opened(base, 2 * v + (1 - b), t, b)
        BY <2>2, OpenedWritten
    <2> QED
        BY <2>3 DEF t
<1> QED
    BY <1>1, <1>2, Zenon DEF Keeps

\* The end of a turn
LEMMA KeepsTurn ==
    ASSUME NEW l \in 0..(Full - 1), NEW h \in 0..(Full - 1), l <= h, (l < Half) <=> (h < Half),
           NEW v \in Nat, NEW b \in 0..1, b = IF l < Half THEN 0 ELSE 1,
           NEW pos \in Nat, NEW steps \in Nat, NEW s, NEW q, NEW d, NEW hdr, NEW inp,
           Keeps(l, h, v, 0, b, 1, pos, steps, s, q, d, hdr, inp), NEW b2
    PROVE  Keeps((2 * l) % Full, ((2 * h) % Full) + 1, v, 0, b2, 0, pos, steps, s, q, d,
                 hdr, inp)
<1>1. PICK base \in Nat, k \in Nat, limit \in Nat :
          /\ k + 1 = pos /\ limit + 1 <= steps
          /\ Opened(base, v, TwoTo[0], b)
          /\ Tracks(l, h, base, k, s, q, d, hdr, inp, limit)
    BY DEF Keeps
<1>2. TwoTo[0] = 1
    BY TwoToFacts
<1>3. Pending(2 * base + b * Full, v, 1)
    BY <1>1, <1>2, OpenedEnds
<1>4. b * Full = IF l < Half THEN 0 ELSE Full
    BY StateFacts
<1> DEFINE base2 == 2 * base + (IF l < Half THEN 0 ELSE Full)
<1>5. Pending(base2, v, TwoTo[0])
    BY <1>2, <1>3, <1>4, Zenon
<1>6. Tracks((2 * l) % Full, ((2 * h) % Full) + 1, base2, k + 1, s, q, d, hdr, inp, limit + 1)
    <2>1. limit + 1 \in Nat /\ limit + 1 <= limit + 1
        OBVIOUS
    <2> QED
        BY <1>1, <2>1, TracksShifted
<1>7. base2 \in Nat
    BY StateFacts
<1> HIDE DEF base2
<1>8. /\ k + 1 \in Nat /\ limit + 1 \in Nat /\ (k + 1) + 0 = pos /\ (limit + 1) + 0 <= steps
      /\ 0 # 1
    BY <1>1
<1> QED
    BY <1>5, <1>6, <1>7, <1>8, Zenon DEF Keeps

\* A bit is left open.
LEMMA KeepsUnderflow ==
    ASSUME NEW l \in 0..(Full - 1), NEW h \in 0..(Full - 1), l <= h,
           l < Half, Half <= h, Quarter <= l, h < Half + Quarter,
           NEW v \in Nat, NEW u \in Nat, NEW b,
           NEW pos \in Nat, NEW steps \in Nat, NEW s, NEW q, NEW d, NEW hdr, NEW inp,
           Keeps(l, h, v, u, b, 0, pos, steps, s, q, d, hdr, inp), NEW b2
    PROVE  Keeps(2 * l - Half, 2 * h - Half + 1, v, u + 1, b2, 0, pos + 1, steps + 1, s, q, d,
                 hdr, inp)
<1>1. PICK base \in Nat, k \in Nat, limit \in Nat :
          /\ k + 0 = pos /\ limit + 0 <= steps
          /\ Pending(base, v, TwoTo[u])
          /\ Tracks(l, h, base, k, s, q, d, hdr, inp, limit)
    BY DEF Keeps
<1>2. TwoTo[u] \in Nat \ {0} /\ TwoTo[u + 1] = 2 * TwoTo[u]
    BY TwoToFacts
<1>3. Pending(2 * base + Half, v, TwoTo[u + 1])
    <2> DEFINE t == TwoTo[u]
    <2>1. Pending(base, v, t) /\ t \in Nat \ {0}
        BY <1>1, <1>2
    <2> HIDE DEF t
    <2>2. Pending(2 * base + Half, v, 2 * t)
        BY <2>1, PendingMore
    <2> QED
        BY <1>2, <2>2, Zenon DEF t
<1>4. Tracks(2 * l - Half, 2 * h - Half + 1, 2 * base + Half, k + 1, s, q, d, hdr, inp, limit + 1)
    <2>1. limit + 1 \in Nat /\ limit + 1 <= limit + 1
        OBVIOUS
    <2> QED
        BY <1>1, <2>1, TracksWidened
<1>5. 2 * base + Half \in Nat
    BY HalfNat
<1>6. /\ k + 1 \in Nat /\ limit + 1 \in Nat /\ (k + 1) + 0 = pos + 1
      /\ (limit + 1) + 0 <= steps + 1 /\ 0 # 1
    BY <1>1
<1> QED
    BY <1>3, <1>4, <1>5, <1>6, Zenon DEF Keeps

\* A subband is not coded.
LEMMA KeepsSkipped ==
    ASSUME NEW l \in 0..(Full - 1), NEW h \in 0..(Full - 1), l < Half, Half <= h,
           ~(l >= Quarter /\ h < Half + Quarter),
           NEW v \in Nat, NEW u \in Nat, NEW b,
           NEW pos \in Nat, NEW steps \in Nat, NEW s \in Nat, NEW q, NEW d, NEW hdr, NEW inp,
           Keeps(l, h, v, u, b, 0, pos, steps, s, q, d, hdr, inp),
           NEW hdr2, NEW inp2, s <= Len(Lens), s \in 1..Len(hdr2), Extends(hdr, inp, hdr2, inp2),
           hdr2[s].xmin >= hdr2[s].xmax,
           NEW b2, NEW steps2 \in Nat, steps + 1 <= steps2
    PROVE  Keeps(l, h, v, u, b2, 0, pos, steps2, s + 1, q, With(d, Alike(s, hdr2[s].xmin)),
                 hdr2, inp2)
<1>1. PICK base \in Nat, k \in Nat, limit \in Nat :
          /\ k + 0 = pos /\ limit + 0 <= steps
          /\ Pending(base, v, TwoTo[u])
          /\ Tracks(l, h, base, k, s, q, d, hdr, inp, limit)
    BY DEF Keeps
<1>2. \A side : Known(side, hdr2, inp2) => Known(side, hdr, inp)
    BY DEF Extends
<1>3. Tracks(l, h, base, k, s + 1, q, With(d, Alike(s, hdr2[s].xmin)), hdr2, inp2, limit + 1)
    <2>1. limit + 1 \in Nat /\ limit + 1 <= limit + 1
        BY SMTT(30)
    <2> QED
        BY <1>1, <1>2, <2>1, TracksSkipped
<1>4. limit + 1 \in Nat /\ (limit + 1) + 0 <= steps2 /\ 0 # 1
    BY <1>1
<1> QED
    BY <1>1, <1>3, <1>4, Zenon DEF Keeps

\* Steps are counted.
LEMMA OneStep ==
    ASSUME NEW limit \in Nat, NEW steps \in Nat, NEW steps2 \in Nat,
           limit + 0 <= steps, steps + 1 <= steps2
    PROVE  limit + 1 \in Nat /\ (limit + 1) + 0 <= steps2 /\ 0 # 1
    OBVIOUS

\* A coefficient
LEMMA KeepsDecoded ==
    ASSUME NEW l \in Nat, NEW h \in Nat, l < Half, Half <= h,
           ~(l >= Quarter /\ h < Half + Quarter),
           NEW v \in Nat, NEW u \in Nat, NEW b,
           NEW pos \in Nat, NEW steps \in Nat, NEW s \in Nat, NEW q \in Nat, NEW d,
           NEW hdr, NEW inp, Keeps(l, h, v, u, b, 0, pos, steps, s, q, d, hdr, inp),
           s <= Len(Lens), s \in 1..Len(hdr),
           NEW e, e = hdr[s], e.xmin \in Int, e.xmax \in Int, e.xmin < e.xmax,
           NEW g \in Gmms, g = inp[s].gmm[q],
           NEW x \in e.xmin..e.xmax, Room(l, h, g, e),
           NEW b2, NEW steps2 \in Nat, steps + 1 <= steps2
    PROVE  Keeps(LowEnd(l, h, g, e, x), HighEnd(l, h, g, e, x), v, u, b2, 0, pos, steps2,
                 IF q = Lens[s] THEN s + 1 ELSE s, IF q = Lens[s] THEN 1 ELSE q + 1,
                 With(d, One(s, q, x)), hdr, inp)
<1>1. PICK base \in Nat, k \in Nat, limit \in Nat :
          /\ k + 0 = pos /\ limit + 0 <= steps
          /\ Pending(base, v, TwoTo[u])
          /\ Tracks(l, h, base, k, s, q, d, hdr, inp, limit)
    BY DEF Keeps
<1> DEFINE s2 == IF q = Lens[s] THEN s + 1 ELSE s
           q2 == IF q = Lens[s] THEN 1 ELSE q + 1
<1>2. Tracks(LowEnd(l, h, g, e, x), HighEnd(l, h, g, e, x), base, k, s2, q2,
             With(d, One(s, q, x)), hdr, inp, limit + 1)
    <2>1. limit + 1 \in Nat /\ limit + 1 <= limit + 1
        OBVIOUS
    <2> QED
        BY <1>1, <2>1, TracksDecoded
<1> HIDE DEF s2, q2
<1>3. limit + 1 \in Nat /\ (limit + 1) + 0 <= steps2 /\ 0 # 1
    BY <1>1, OneStep
<1>4. Keeps(LowEnd(l, h, g, e, x), HighEnd(l, h, g, e, x), v, u, b2, 0, pos, steps2, s2, q2,
            With(d, One(s, q, x)), hdr, inp)
    BY <1>1, <1>2, <1>3, Zenon DEF Keeps
<1> QED
    BY <1>4 DEF s2, q2

-----------------------------------------------------------------------------
(* The decoder follows.                                                    *)

InUpdate == pc \in {"shift", "open", "underflow"}

\* A turn of the first loop has begun.
TurnBegun == IF pc = "open" THEN 1 ELSE 0

\* The place that the decoder is to come to next
NextSub == IF InUpdate /\ p = Lens[sub] THEN sub + 1 ELSE sub

NextP ==
    IF InUpdate THEN (IF p = Lens[sub] THEN 1 ELSE p + 1)
    ELSE IF pc = "symbol" THEN p ELSE 1

\* So many steps are enough for what has been coded: one for every bit, coefficient and
\* subband.
StepsSoFar == Used + Cardinality(Coded) + (sub - 1)

\* Whatever bits follow, a decoder gets back what has been coded.
DecoderFollows ==
    pc \notin {"fill", "done"} =>
        Keeps(low, high, Written(bout), numUnderflow, TopBit, TurnBegun, Used + StateBits,
              StepsSoFar, NextSub, NextP, Given(Coded, input), header, input)

\* Numbers
LEMMA FollowTypes ==
    ASSUME Inv
    PROVE  /\ Written(bout) \in Nat /\ numUnderflow \in Nat /\ TopBit \in 0..1
           /\ Used \in Nat /\ Used + StateBits \in Nat /\ StepsSoFar \in Nat
           /\ low \in 0..(Full - 1) /\ high \in 0..(Full - 1) /\ low <= high
           /\ sub \in Nat \ {0} /\ sub - 1 \in Nat /\ Cardinality(Coded) \in Nat
<1>1. /\ bout \in Stream /\ bout.currentByte < Values(bout.numBitsFilled)
      /\ numUnderflow \in Nat /\ TypeOK /\ low <= high
      /\ low \in 0..(Full - 1) /\ high \in 0..(Full - 1)
      /\ sub \in 1..(Len(Lens) + 1) /\ Len(Lens) \in Nat
    BY DataAssumption DEF Inv, StreamFollows, TypeOK, IntervalFollows
<1>2. Written(bout) \in Nat
    <2>1. 0 \in 0..1
        OBVIOUS
    <2> QED
        BY <1>1, <2>1, WrittenFacts
<1>3. Cardinality(Coded) \in Nat
    BY <1>1, CodedIsFinite
<1>4. TopBit \in 0..1
    BY DEF TopBit
<1>5. Used \in Nat
    <2>1. Len(bout.bytes) \in Nat /\ bout.numBitsFilled \in Nat
        BY <1>1 DEF Stream
    <2> QED
        BY <1>1, <2>1 DEF Used
<1>6. sub \in Nat \ {0} /\ sub - 1 \in Nat /\ StateBits \in Nat
    BY <1>1, RangeAssumption
<1>7. StepsSoFar \in Nat
    <2> DEFINE c == Cardinality(Coded)
               s == sub - 1
    <2>1. c \in Nat /\ s \in Nat
        BY <1>3, <1>6
    <2> HIDE DEF c, s
    <2>2. Used + c + s \in Nat
        BY <1>5, <2>1
    <2> QED
        BY <2>2 DEF StepsSoFar, c, s
<1> QED
    BY <1>1, <1>2, <1>3, <1>4, <1>5, <1>6, <1>7

\* What a written bit, and an open one, do to the numbers
LEMMA BitsCount ==
    ASSUME Inv, Inv'
    PROVE  /\ Used' \in Nat /\ numUnderflow' \in Nat
           /\ \A b \in 0..1 : bout' = WriteBit(bout, b) =>
                  /\ Written(bout)' = 2 * Written(bout) + b
                  /\ Used' - numUnderflow' = Used - numUnderflow + 1
           /\ bout' = bout => Written(bout)' = Written(bout)
                              /\ Used' - numUnderflow' = Used - numUnderflow
<1> DEFINE n == 8 * Len(bout.bytes) + bout.numBitsFilled
           n1 == 8 * Len(bout'.bytes) + bout'.numBitsFilled
           u == numUnderflow
           u1 == numUnderflow'
<1>1. /\ bout \in Stream /\ bout.currentByte < Values(bout.numBitsFilled)
      /\ bout' \in Stream /\ u \in Nat /\ u1 \in Nat
    BY DEF Inv, StreamFollows, TypeOK
<1>2. n \in Nat /\ n1 \in Nat
    BY <1>1, SMTT(30) DEF Stream
<1>3. \A b \in 0..1 : bout' = WriteBit(bout, b) =>
          /\ Written(bout') = 2 * Written(bout) + b
          /\ n1 = n + 1
    BY <1>1, WrittenFacts, WriteBitCount
<1>4. bout' = bout => n1 = n /\ Written(bout') = Written(bout)
    OBVIOUS
<1>5. Used = n + u /\ Used' = n1 + u1
    BY DEF Used
<1> HIDE DEF n, n1, u, u1
<1>6. Used - u = n /\ Used' - u1 = n1 /\ Used' \in Nat /\ u1 \in Nat
    BY <1>1, <1>2, <1>5
<1> QED
    BY <1>3, <1>4, <1>6 DEF u, u1

\* The steps that a decoder may make, before a step of the encoder and after it
LEMMA StepsCount ==
    ASSUME Inv, Inv', CoderStep
    PROVE  \A n \in Nat : Used' = Used + n =>
               /\ sub' = sub => StepsSoFar + n <= StepsSoFar'
               /\ sub' = sub /\ Coded' = Coded => StepsSoFar' = StepsSoFar + n
               /\ sub' = sub + 1 => StepsSoFar + n + 1 <= StepsSoFar'
               /\ Symbol => StepsSoFar + n + 1 <= StepsSoFar'
<1> DEFINE c == Cardinality(Coded)
           c1 == Cardinality(Coded')
           s == sub
           s1 == sub'
           a == StepsSoFar
           a1 == StepsSoFar'
           e == Used
           e1 == Used'
<1>1. /\ c \in Nat /\ c1 \in Nat /\ c <= c1 /\ (Symbol => c + 1 <= c1)
      /\ Coded' = Coded => c1 = c
    BY CodedCount
<1>2. s \in Nat /\ s1 \in Nat /\ e \in Nat
    <2>1. sub \in 1..(Len(Lens) + 1) /\ sub' \in 1..(Len(Lens) + 1) /\ Len(Lens) \in Nat
        BY DataAssumption DEF Inv, TypeOK
    <2> QED
        BY <2>1, FollowTypes
<1>3. a = e + c + (s - 1) /\ a1 = e1 + c1 + (s1 - 1)
    BY DEF StepsSoFar
<1>4. Symbol => s1 = s
    BY DEF Symbol
<1> HIDE DEF c, c1, s, s1, a, a1, e, e1
<1>5. \A n \in Nat : e1 = e + n =>
          /\ s1 = s => a + n <= a1
          /\ s1 = s /\ c1 = c => a1 = a + n
          /\ s1 = s + 1 => a + n + 1 <= a1
          /\ s1 = s /\ c + 1 <= c1 => a + n + 1 <= a1
    BY <1>1, <1>2, <1>3
<1> QED
    BY <1>1, <1>4, <1>5 DEF s, s1, a, a1, e, e1

\* Init: nothing is coded.
LEMMA FollowsStart == Init => DecoderFollows /\ HistoryFollows
<1> SUFFICES ASSUME Init PROVE DecoderFollows /\ HistoryFollows
    OBVIOUS
<1>1. /\ low = 0 /\ high = Full - 1 /\ pc = "subband" /\ sub = 1 /\ header = <<>>
      /\ numUnderflow = 0 /\ input = <<>>
      /\ bout = [bytes |-> <<>>, currentByte |-> 0, numBitsFilled |-> 0]
    BY DEF Init
<1>2. HistoryFollows
    BY <1>1 DEF HistoryFollows, InSubband
<1>3. Inv
    BY InitInv
<1>4. Coded = {}
    <2>1. Begun = 0 /\ sub = 1
        BY <1>1 DEF Begun
    <2>2. 1..0 = {} /\ 1..(1 - 1) = {}
        OBVIOUS
    <2>3. Before(1) = {} /\ {1} \X (1..0) = {}
        BY <2>2 DEF Before
    <2> QED
        BY <2>1, <2>3 DEF Coded
<1>5. Given(Coded, input) = <<>>
    <2>1. Given({}, input) = [c \in {} |-> c]
        BY DEF Given
    <2>2. <<>> = [c \in {} |-> c]
        OBVIOUS
    <2> QED
        BY <1>4, <2>1, <2>2
<1>6. Written(bout) = 0
    <2>1. bout.bytes = <<>> /\ Len(<<>>) = 0 /\ bout.numBitsFilled = 0 /\ bout.currentByte = 0
        BY <1>1
    <2>2. Octets(<<>>)[0] = 0
        <3>1. <<>> \in Seq(Byte)
            OBVIOUS
        <3> QED
            BY <3>1, OctetsFacts
    <2>3. Values(0) = 1
        BY DEF Values
    <2> QED
        BY <2>1, <2>2, <2>3 DEF Written
<1>7. Used = 0 /\ StateBits \in Nat /\ Used + StateBits = StateBits
    <2>1. bout.bytes = <<>> /\ Len(<<>>) = 0 /\ bout.numBitsFilled = 0
        BY <1>1
    <2> QED
        BY <1>1, <2>1, RangeAssumption DEF Used
<1>8. StepsSoFar = 0
    <2>1. Cardinality(Coded) = 0
        BY <1>4, FS_EmptySet
    <2> QED
        BY <1>1, <1>7, <2>1 DEF StepsSoFar
<1>9. TurnBegun = 0 /\ NextSub = 1 /\ NextP = 1
    BY <1>1 DEF TurnBegun, NextSub, NextP, InUpdate
<1>10. Keeps(0, Full - 1, 0, 0, TopBit, 0, StateBits, 0, 1, 1, <<>>, <<>>, <<>>)
    BY KeepsStart
<1> QED
    BY <1>1, <1>2, <1>5, <1>6, <1>7, <1>8, <1>9, <1>10, Zenon DEF DecoderFollows

\* Between two coefficients the decoder goes on to its next place.
LEMMA SettledInterval ==
    ASSUME Inv, pc \in {"symbol", "subband"}
    PROVE  low < Half /\ Half <= high /\ ~(low >= Quarter /\ high < Half + Quarter)
<1>1. Quarter \in Nat \ {0} /\ Half = 2 * Quarter /\ Full = 4 * Quarter
    BY StateFacts
<1>2. low < Half /\ Half <= high /\ ~(low % Half >= Quarter /\ high % Half < Quarter)
    BY DEF Inv, IntervalFollows, AroundMiddle
<1>3. low \in 0..(Full - 1) /\ high \in 0..(Full - 1)
    BY DEF Inv, TypeOK
<1>4. low % Half = low /\ high % Half = high - Half
    BY <1>2, <1>3, MaskFacts
<1> QED
    BY <1>1, <1>2, <1>3, <1>4

\* The steps are a number after a step, too.
LEMMA StepsNext ==
    ASSUME Inv, Inv'
    PROVE  StepsSoFar' \in Nat
<1> DEFINE c1 == Cardinality(Coded')
           s1 == sub'
           a1 == StepsSoFar'
           e1 == Used'
<1>1. TypeOK /\ TypeOK'
    BY DEF Inv
<1>2. c1 \in Nat /\ e1 \in Nat
    BY <1>1, CodedFinite, BitsCount
<1>3. s1 \in Nat \ {0}
    BY <1>1, DataAssumption DEF TypeOK
<1>4. a1 = e1 + c1 + (s1 - 1)
    BY DEF StepsSoFar
<1> HIDE DEF c1, s1, a1, e1
<1>5. a1 \in Nat
    BY <1>2, <1>3, <1>4
<1> QED
    BY <1>5 DEF a1

\* A bit of a turn is written.
LEMMA ShiftFollowed ==
    ASSUME Inv, Inv', DecoderFollows, Shift
    PROVE  DecoderFollows'
<1>1. /\ pc = "shift" /\ pc' = "open" /\ bout' = WriteBit(bout, TopBit)
      /\ UNCHANGED <<sub, p, header, low, high, numUnderflow, input>>
    BY DEF Shift
<1>2. CoderStep
    BY DEF CoderStep
<1>3. Coded' = Coded
    BY <1>1, <1>2, CodedSteps DEF Symbol, BeginSubband
<1>4. Written(bout)' = 2 * Written(bout) + TopBit /\ Used' = Used + 1
    <2> DEFINE u == numUnderflow
               u1 == numUnderflow'
               e == Used
               e1 == Used'
    <2>1. TopBit \in 0..1 /\ u \in Nat /\ e \in Nat
        BY FollowTypes
    <2>2. Written(bout)' = 2 * Written(bout) + TopBit /\ e1 - u1 = e - u + 1 /\ u1 = u
        BY <1>1, <2>1, BitsCount
    <2>3. e1 \in Nat
        BY BitsCount
    <2> HIDE DEF u, u1, e, e1
    <2>4. e1 = e + 1
        BY <2>1, <2>2, <2>3
    <2> QED
        BY <2>2, <2>4 DEF e, e1
<1>5. StepsSoFar' = StepsSoFar + 1
    BY <1>1, <1>2, <1>3, <1>4, StepsCount
<1>6. TurnBegun = 0 /\ TurnBegun' = 1 /\ NextSub' = NextSub /\ NextP' = NextP /\ TopBit' = TopBit
    BY <1>1 DEF TurnBegun, NextSub, NextP, InUpdate, TopBit
<1>7. Keeps(low, high, Written(bout), numUnderflow, TopBit, 0, Used + StateBits,
            StepsSoFar, NextSub, NextP, Given(Coded, input), header, input)
    BY <1>1, <1>6 DEF DecoderFollows
<1>8. Keeps(low, high, 2 * Written(bout) + TopBit, numUnderflow, TopBit, 1,
            (Used + StateBits) + 1, StepsSoFar + 1, NextSub, NextP, Given(Coded, input),
            header, input)
    BY <1>7, FollowTypes, KeepsShift
<1>9. Used' + StateBits = (Used + StateBits) + 1
    BY <1>4, FollowTypes, RangeAssumption
<1> QED
    BY <1>1, <1>3, <1>4, <1>5, <1>6, <1>8, <1>9, Zenon DEF DecoderFollows

\* An open bit is written.
LEMMA WriteOpenBitFollowed ==
    ASSUME Inv, Inv', DecoderFollows, WriteOpenBit
    PROVE  DecoderFollows'
<1>1. /\ pc = "open" /\ pc' = pc /\ bout' = WriteBit(bout, 1 - TopBit)
      /\ UNCHANGED <<sub, p, header, low, high, input>>
      /\ numUnderflow > 0 /\ numUnderflow' = numUnderflow - 1
    BY DEF WriteOpenBit
<1>2. CoderStep
    BY DEF CoderStep
<1>3. Coded' = Coded
    BY <1>1, <1>2, CodedSteps DEF Symbol, BeginSubband
<1>4. /\ Written(bout)' = 2 * Written(bout) + (1 - TopBit) /\ Used' = Used
      /\ numUnderflow' \in Nat /\ numUnderflow = numUnderflow' + 1
    <2> DEFINE u == numUnderflow
               u1 == numUnderflow'
               e == Used
               e1 == Used'
    <2>1. TopBit \in 0..1 /\ u \in Nat /\ e \in Nat /\ 1 - TopBit \in 0..1
        BY FollowTypes
    <2>2. /\ Written(bout)' = 2 * Written(bout) + (1 - TopBit) /\ e1 - u1 = e - u + 1
          /\ u1 = u - 1 /\ u > 0
        BY <1>1, <2>1, BitsCount
    <2>3. e1 \in Nat
        BY BitsCount
    <2> HIDE DEF u, u1, e, e1
    <2>4. e1 = e /\ u1 \in Nat /\ u = u1 + 1
        BY <2>1, <2>2, <2>3
    <2> QED
        BY <2>2, <2>4 DEF e, e1, u, u1
<1>5. StepsSoFar' = StepsSoFar
    <2>1. 0 \in Nat /\ Used' = Used + 0 /\ StepsSoFar + 0 = StepsSoFar
        BY <1>4, FollowTypes
    <2> QED
        BY <1>1, <1>2, <1>3, <2>1, StepsCount
<1>6. TurnBegun = 1 /\ TurnBegun' = 1 /\ NextSub' = NextSub /\ NextP' = NextP /\ TopBit' = TopBit
    BY <1>1 DEF TurnBegun, NextSub, NextP, InUpdate, TopBit
<1> DEFINE u1 == numUnderflow'
<1>7. Keeps(low, high, Written(bout), u1 + 1, TopBit, 1, Used + StateBits,
            StepsSoFar, NextSub, NextP, Given(Coded, input), header, input)
    BY <1>1, <1>4, <1>6 DEF DecoderFollows
<1>8. u1 \in Nat
    BY <1>4
<1> HIDE DEF u1
<1>9. Keeps(low, high, 2 * Written(bout) + (1 - TopBit), u1, TopBit, 1,
            Used + StateBits, StepsSoFar, NextSub, NextP, Given(Coded, input),
            header, input)
    BY <1>7, <1>8, FollowTypes, KeepsWrite
<1> QED
    BY <1>1, <1>3, <1>4, <1>5, <1>6, <1>9, Zenon DEF DecoderFollows, u1

\* A turn ends.
LEMMA EndShiftTurnFollowed ==
    ASSUME Inv, Inv', DecoderFollows, EndShiftTurn
    PROVE  DecoderFollows'
<1>1. /\ pc = "open" /\ pc' = "shift" /\ bout' = bout /\ numUnderflow = 0
      /\ UNCHANGED <<sub, p, header, numUnderflow, input>>
      /\ low' = (2 * low) % Full /\ high' = ((2 * high) % Full) + 1
    BY DEF EndShiftTurn
<1>2. CoderStep
    BY DEF CoderStep
<1>3. Coded' = Coded
    BY <1>1, <1>2, CodedSteps DEF Symbol, BeginSubband
<1>4. Written(bout)' = Written(bout) /\ Used' = Used
    BY <1>1 DEF Used
<1>5. StepsSoFar' = StepsSoFar
    <2>1. 0 \in Nat /\ Used' = Used + 0 /\ StepsSoFar + 0 = StepsSoFar
        BY <1>4, FollowTypes
    <2> QED
        BY <1>1, <1>2, <1>3, <2>1, StepsCount
<1>6. TurnBegun = 1 /\ TurnBegun' = 0 /\ NextSub' = NextSub /\ NextP' = NextP
    BY <1>1 DEF TurnBegun, NextSub, NextP, InUpdate
<1>7. Keeps(low, high, Written(bout), 0, TopBit, 1, Used + StateBits,
            StepsSoFar, NextSub, NextP, Given(Coded, input), header, input)
    BY <1>1, <1>6 DEF DecoderFollows
<1>8. ((low < Half) <=> (high < Half)) /\ TopBit = IF low < Half THEN 0 ELSE 1
    BY <1>1 DEF Inv, IntervalFollows, TopBitsAgree, TopBit
<1> DEFINE b2 == TopBit'
<1> HIDE DEF b2
<1>9. Keeps((2 * low) % Full, ((2 * high) % Full) + 1, Written(bout), 0, b2, 0,
            Used + StateBits, StepsSoFar, NextSub, NextP, Given(Coded, input),
            header, input)
    BY <1>7, <1>8, FollowTypes, KeepsTurn
<1> QED
    BY <1>1, <1>3, <1>4, <1>5, <1>6, <1>9, Zenon DEF DecoderFollows, b2

\* The first loop, or the second, ends: what the encoder has coded stays.
LEMMA EndFollowed ==
    ASSUME Inv, Inv', DecoderFollows, EndShift \/ EndUnderflow
    PROVE  DecoderFollows'
<1>1. /\ pc \in {"shift", "underflow"} /\ pc' \in {"underflow", "symbol", "subband"}
      /\ UNCHANGED <<header, low, high, numUnderflow, bout, input>>
      /\ \/ InUpdate' /\ sub' = sub /\ p' = p
         \/ p < Lens[sub] /\ pc' = "symbol" /\ sub' = sub /\ p' = p + 1
         \/ ~(p < Lens[sub]) /\ pc' = "subband" /\ sub' = sub + 1
    BY DEF EndShift, EndUnderflow, InUpdate
<1>2. CoderStep
    BY DEF CoderStep
<1>3. Coded' = Coded
    BY <1>1, <1>2, CodedSteps DEF Symbol, BeginSubband
<1>4. Written(bout)' = Written(bout) /\ Used' = Used
    BY <1>1 DEF Used
<1>5. p \in 1..Lens[sub] /\ Lens[sub] \in Nat
    <2>1. sub \in 1..(Len(Lens) + 1) /\ sub <= Len(Lens) /\ p \in 1..Lens[sub] /\ Len(Lens) \in Nat
        BY <1>1, DataAssumption DEF Inv, TypeOK
    <2>2. sub \in 1..Len(Lens)
        BY <2>1
    <2> QED
        BY <2>1, <2>2, DataAssumption
<1>6. StepsSoFar <= StepsSoFar'
    <2> DEFINE a == StepsSoFar
               a1 == StepsSoFar'
    <2>1. 0 \in Nat /\ Used' = Used + 0
        BY <1>4, FollowTypes
    <2>2. sub' = sub => a + 0 <= a1
        BY <1>2, <2>1, StepsCount
    <2>3. sub' = sub + 1 => a + 0 + 1 <= a1
        BY <1>2, <2>1, StepsCount
    <2>4. a \in Nat /\ a1 \in Nat
        BY FollowTypes, StepsNext
    <2> HIDE DEF a, a1
    <2>5. a <= a1
        BY <1>1, <2>2, <2>3, <2>4
    <2> QED
        BY <2>5 DEF a, a1
<1>7. TurnBegun = 0 /\ TurnBegun' = 0
    BY <1>1 DEF TurnBegun
<1>8. NextSub' = NextSub /\ NextP' = NextP
    <2>1. InUpdate /\ p \in Int /\ Lens[sub] \in Int /\ p <= Lens[sub]
        BY <1>1, <1>5 DEF InUpdate
    <2>2. CASE InUpdate' /\ sub' = sub /\ p' = p
        BY <2>1, <2>2 DEF NextSub, NextP
    <2>3. CASE p < Lens[sub] /\ pc' = "symbol" /\ sub' = sub /\ p' = p + 1
        <3>1. p # Lens[sub] /\ ~InUpdate'
            BY <2>1, <2>3 DEF InUpdate
        <3> QED
            BY <2>1, <2>3, <3>1 DEF NextSub, NextP
    <2>4. CASE ~(p < Lens[sub]) /\ pc' = "subband" /\ sub' = sub + 1
        <3>1. p = Lens[sub] /\ ~InUpdate' /\ pc' # "symbol"
            BY <2>1, <2>4 DEF InUpdate
        <3> QED
            BY <2>1, <2>4, <3>1 DEF NextSub, NextP
    <2> QED
        BY <1>1, <2>2, <2>3, <2>4
<1>9. Keeps(low, high, Written(bout), numUnderflow, TopBit, 0, Used + StateBits,
            StepsSoFar, NextSub, NextP, Given(Coded, input), header, input)
    BY <1>1, <1>7 DEF DecoderFollows
<1>10. Extends(header, input, header, input)
    BY DEF Extends
<1> DEFINE b2 == TopBit'
           steps2 == StepsSoFar'
<1>11. steps2 \in Nat /\ StepsSoFar <= steps2
    BY <1>6, StepsNext
<1> HIDE DEF b2, steps2
<1>12. Keeps(low, high, Written(bout), numUnderflow, b2, 0, Used + StateBits,
            steps2, NextSub, NextP, Given(Coded, input), header, input)
    BY <1>9, <1>10, <1>11, FollowTypes, KeepsKept
<1> QED
    BY <1>1, <1>3, <1>4, <1>7, <1>8, <1>12, Zenon DEF DecoderFollows, b2, steps2

\* A bit is left open.
LEMMA UnderflowFollowed ==
    ASSUME Inv, Inv', DecoderFollows, Underflow
    PROVE  DecoderFollows'
<1>1. /\ pc = "underflow" /\ pc' = pc /\ bout' = bout
      /\ UNCHANGED <<sub, p, header, input>>
      /\ numUnderflow' = numUnderflow + 1
      /\ low' = Flipped(2 * low) /\ high' = 2 * Flipped(high) + Half + 1
      /\ low % Half >= Quarter /\ high % Half < Quarter
      /\ low < Half /\ Half <= high
    BY DEF Underflow, AroundMiddle, Inv, IntervalFollows
<1>2. CoderStep
    BY DEF CoderStep
<1>3. Coded' = Coded
    BY <1>1, <1>2, CodedSteps DEF Symbol, BeginSubband
<1>4. Quarter <= low /\ high < Half + Quarter /\ low' = 2 * low - Half
      /\ high' = 2 * high - Half + 1
    <2>1. Quarter \in Nat \ {0} /\ Half = 2 * Quarter /\ Full = 4 * Quarter
        BY StateFacts
    <2>2. low \in 0..(Full - 1) /\ high \in 0..(Full - 1) /\ low <= high
        BY FollowTypes
    <2>3. /\ low % Half = low /\ (2 * low) % Full = 2 * low
          /\ high % Half = high - Half
        BY <1>1, <2>2, MaskFacts
    <2>4. Quarter <= low /\ high < Half + Quarter
        BY <1>1, <2>1, <2>2, <2>3
    <2>5. low' = 2 * low - Half
        BY <1>1, <2>1, <2>2, <2>3, <2>4 DEF Flipped
    <2>6. high % Full = high
        <3>1. /\ high \in Nat /\ Full \in Nat \ {0} /\ 0 \in Nat
              /\ high = Full * 0 + high /\ high < Full
            BY <2>1, <2>2
        <3> QED
            BY <3>1, DivUnique
    <2>7. high' = 2 * (high - Half) + Half + 1
        BY <1>1, <2>6 DEF Flipped
    <2>8. 2 * (high - Half) + Half + 1 = 2 * high - Half + 1
        BY <2>1, <2>2
    <2> QED
        BY <2>4, <2>5, <2>7, <2>8
<1>5. Written(bout)' = Written(bout) /\ Used' = Used + 1
    <2> DEFINE u == numUnderflow
               u1 == numUnderflow'
               e == Used
               e1 == Used'
    <2>1. u \in Nat /\ e \in Nat
        BY FollowTypes
    <2>2. Written(bout)' = Written(bout) /\ e1 - u1 = e - u /\ u1 = u + 1 /\ e1 \in Nat
        BY <1>1, BitsCount
    <2> HIDE DEF u, u1, e, e1
    <2>3. e1 = e + 1
        BY <2>1, <2>2
    <2> QED
        BY <2>2, <2>3 DEF e, e1
<1>6. StepsSoFar' = StepsSoFar + 1
    BY <1>1, <1>2, <1>3, <1>5, StepsCount
<1>7. TurnBegun = 0 /\ TurnBegun' = 0 /\ NextSub' = NextSub /\ NextP' = NextP
    BY <1>1 DEF TurnBegun, NextSub, NextP, InUpdate
<1>8. Keeps(low, high, Written(bout), numUnderflow, TopBit, 0, Used + StateBits,
            StepsSoFar, NextSub, NextP, Given(Coded, input), header, input)
    BY <1>1, <1>7 DEF DecoderFollows
<1> DEFINE b2 == TopBit'
<1> HIDE DEF b2
<1>9. Keeps(2 * low - Half, 2 * high - Half + 1, Written(bout), numUnderflow + 1, b2, 0,
            (Used + StateBits) + 1, StepsSoFar + 1, NextSub, NextP, Given(Coded, input),
            header, input)
    BY <1>1, <1>4, <1>8, FollowTypes, KeepsUnderflow
<1>10. Used' + StateBits = (Used + StateBits) + 1
    BY <1>5, FollowTypes, RangeAssumption
<1> QED
    BY <1>1, <1>3, <1>4, <1>5, <1>6, <1>7, <1>9, <1>10, Zenon DEF DecoderFollows, b2

\* A coefficient is coded.
LEMMA SymbolFollowed ==
    ASSUME Inv, Inv', HistoryFollows, DecoderFollows, Symbol
    PROVE  DecoderFollows'
<1> DEFINE e == header[sub]
           g == gmm[p]
           x == datum[p]
<1>1. /\ pc = "symbol" /\ pc' = "shift"
      /\ low' = LowEnd(low, high, g, e, x) /\ high' = HighEnd(low, high, g, e, x)
      /\ UNCHANGED <<sub, p, header, numUnderflow, bout, input>>
    BY DEF Symbol, LowEnd, HighEnd
<1>2. CoderStep
    BY DEF CoderStep
<1>3. Written(bout)' = Written(bout) /\ Used' = Used
    BY <1>1 DEF Used
<1>4. sub \in Nat /\ sub <= Len(Lens) /\ sub \in 1..Len(header) /\ p \in Nat
    <2>1. /\ sub \in 1..(Len(Lens) + 1) /\ sub <= Len(Lens) /\ p \in 1..Lens[sub]
          /\ Len(Lens) \in Nat /\ Len(header) = sub
        <3>1. sub \in 1..(Len(Lens) + 1) /\ sub <= Len(Lens) /\ p \in 1..Lens[sub]
            BY <1>1, ZenonT(30) DEF Inv, TypeOK
        <3>2. Len(header) = sub
            BY <1>1, ZenonT(30) DEF Inv, SubbandFollows, InSubband
        <3>3. Len(Lens) \in Nat
            BY DataAssumption, LenProperties, ZenonT(30)
        <3> QED
            BY <3>1, <3>2, <3>3, Zenon
    <2>2. sub \in 1..Len(Lens)
        BY <2>1
    <2>3. Lens[sub] \in Nat
        BY <2>2, DataAssumption
    <2> QED
        BY <2>1, <2>2, <2>3
<1>5. input[sub].datum[p] = x /\ input[sub].gmm[p] = g
    BY <1>1 DEF HistoryFollows, InSubband
<1>6. Given(Coded', input) = With(Given(Coded, input), One(sub, p, x))
    <2>1. Coded' = Coded \cup {<<sub, p>>}
        BY <1>2, CodedSteps
    <2>2. Given(Coded \cup {<<sub, p>>}, input) =
              With(Given(Coded, input), One(sub, p, input[sub].datum[p]))
        BY GivenMore
    <2> QED
        BY <1>5, <2>1, <2>2, Zenon
<1>7. /\ g \in Gmms /\ e.xmin \in Int /\ e.xmax \in Int /\ e.xmin < e.xmax
      /\ x \in e.xmin..e.xmax
      /\ low \in Nat /\ high \in Nat /\ Room(low, high, g, e)
    <2>1. /\ g \in Gmms /\ x \in Int /\ e.xmin \in Int /\ e.xmax \in Int /\ e.xmin < e.xmax
          /\ e.xmin <= x /\ x <= e.xmax
          /\ low \in Nat /\ high \in Nat /\ high - low + 1 >= MinimumRange
          /\ TotalFreqs(g, e.xmin, e.xmax) <= MinimumRange
        BY <1>1, SymbolFacts
    <2>2. TotalFreqs(g, e.xmin, e.xmax) \in Nat /\ MinimumRange \in Nat
        <3> HIDE DEF e, g, x
        <3>1. e.xmin <= e.xmax
            BY <2>1
        <3> QED
            BY <2>1, <3>1, FrequencyFacts, StateFacts
    <2> HIDE DEF e, g, x
    <2> DEFINE t == TotalFreqs(g, e.xmin, e.xmax)
               m == MinimumRange
    <2>3. t <= high - low + 1
        <3>1. t \in Nat /\ m \in Nat /\ t <= m /\ m <= high - low + 1 /\ low \in Nat /\ high \in Nat
            BY <2>1, <2>2
        <3> HIDE DEF t, m
        <3> QED
            BY <3>1
    <2>4. x \in e.xmin..e.xmax
        BY <2>1
    <2> QED
        BY <2>1, <2>3, <2>4 DEF Room
<1>8. low < Half /\ Half <= high /\ ~(low >= Quarter /\ high < Half + Quarter)
    BY <1>1, SettledInterval
<1>9. TurnBegun = 0 /\ TurnBegun' = 0 /\ NextSub = sub /\ NextP = p
      /\ NextSub' = (IF p = Lens[sub] THEN sub + 1 ELSE sub)
      /\ NextP' = (IF p = Lens[sub] THEN 1 ELSE p + 1)
    BY <1>1 DEF TurnBegun, NextSub, NextP, InUpdate
<1>10. Keeps(low, high, Written(bout), numUnderflow, TopBit, 0, Used + StateBits,
             StepsSoFar, sub, p, Given(Coded, input), header, input)
    BY <1>1, <1>9 DEF DecoderFollows
<1> DEFINE b2 == TopBit'
           steps2 == StepsSoFar'
<1>11. steps2 \in Nat /\ StepsSoFar + 1 <= steps2
    <2>1. 0 \in Nat /\ Used' = Used + 0 /\ StepsSoFar + 0 + 1 = StepsSoFar + 1
        BY <1>3, FollowTypes
    <2>2. StepsSoFar + 0 + 1 <= StepsSoFar'
        BY <1>2, <2>1, StepsCount
    <2> QED
        BY <2>1, <2>2, StepsNext
<1>12. e = header[sub] /\ g = input[sub].gmm[p]
    BY <1>5
<1> HIDE DEF b2, steps2, e, g, x
<1>13. Keeps(LowEnd(low, high, g, e, x), HighEnd(low, high, g, e, x), Written(bout),
             numUnderflow, b2, 0, Used + StateBits, steps2,
             IF p = Lens[sub] THEN sub + 1 ELSE sub, IF p = Lens[sub] THEN 1 ELSE p + 1,
             With(Given(Coded, input), One(sub, p, x)), header, input)
    BY <1>4, <1>7, <1>8, <1>10, <1>11, <1>12, FollowTypes, KeepsDecoded
<1> QED
    BY <1>1, <1>3, <1>6, <1>9, <1>13, Zenon DEF DecoderFollows, b2, steps2

\* A subband begins, or all its coefficients are the same.
LEMMA BeginSubbandFollowed ==
    ASSUME Inv, Inv', HistoryFollows, DecoderFollows, BeginSubband
    PROVE  DecoderFollows'
<1>1. /\ pc = "subband" /\ sub <= Len(Lens)
      /\ UNCHANGED <<low, high, numUnderflow, bout>>
    BY DEF BeginSubband
<1>2. PICK d \in [1..Lens[sub] -> Coefficient], g \in [1..Lens[sub] -> Gmms] :
          /\ header' = Append(header, Bounds(d))
          /\ input' = Append(input, [datum |-> d, gmm |-> g])
          /\ IF Bounds(d).xmin >= Bounds(d).xmax
             THEN sub' = sub + 1 /\ UNCHANGED <<pc, p, datum, gmm>>
             ELSE pc' = "symbol" /\ p' = 1 /\ datum' = d /\ gmm' = g /\ UNCHANGED sub
    BY DEF BeginSubband
<1> DEFINE e == Bounds(d)
           i == [datum |-> d, gmm |-> g]
           hdr2 == header'
           inp2 == input'
<1>3. CoderStep
    BY DEF CoderStep
<1>4. sub \in 1..Len(Lens) /\ sub \in Nat /\ Lens[sub] \in Nat \ {0} /\ Len(Lens) \in Nat
    <2>1. sub \in 1..(Len(Lens) + 1) /\ Len(Lens) \in Nat
        BY DataAssumption DEF Inv, TypeOK
    <2>2. sub \in 1..Len(Lens)
        BY <1>1, <2>1
    <2> QED
        BY <2>1, <2>2, DataAssumption
<1>5. /\ e \in [xmin : Coefficient, xmax : Coefficient]
      /\ e.xmin \in Int /\ e.xmax \in Int
      /\ \A k \in 1..Lens[sub] : e.xmin <= d[k] /\ d[k] <= e.xmax /\ d[k] \in Int
    <2>1. /\ e \in [xmin : Coefficient, xmax : Coefficient]
          /\ \A k \in 1..Lens[sub] : e.xmin <= d[k] /\ d[k] <= e.xmax
        BY <1>4, BoundsFacts
    <2>2. \A x \in Coefficient : x \in Int
        BY CoefficientsAreIntegers
    <2> HIDE DEF e
    <2> QED
        BY <2>1, <2>2
<1>6. i.datum = d /\ i \in Subband
    <2>1. d \in UNION {[1..n -> Coefficient] : n \in Nat}
        BY <1>4
    <2>2. g \in UNION {[1..n -> Gmms] : n \in Nat}
        BY <1>4
    <2> QED
        BY <2>1, <2>2 DEF Subband
<1>7. /\ header \in Seq([xmin : Coefficient, xmax : Coefficient]) /\ input \in Seq(Subband)
      /\ Len(header) = sub - 1 /\ Len(input) = sub - 1
    BY <1>1 DEF Inv, SubbandFollows, InSubband, HistoryFollows
<1> HIDE DEF e, i
<1>8. /\ hdr2 = Append(header, e) /\ inp2 = Append(input, i)
    BY <1>2 DEF e, i
<1> HIDE DEF hdr2, inp2
<1>9. /\ Len(hdr2) = sub /\ hdr2[sub] = e /\ inp2[sub] = i
      /\ \A k \in 1..Len(header) : hdr2[k] = header[k] /\ inp2[k] = input[k]
    <2> DEFINE H == [xmin : Coefficient, xmax : Coefficient]
    <2>1. header \in Seq(H) /\ e \in H
        BY <1>5, <1>7
    <2> HIDE DEF H
    <2>2. /\ Len(hdr2) = Len(header) + 1 /\ hdr2[Len(header) + 1] = e
          /\ \A k \in 1..Len(header) : hdr2[k] = header[k]
        BY <1>8, <2>1, OneMore
    <2>3. /\ inp2[Len(input) + 1] = i
          /\ \A k \in 1..Len(input) : inp2[k] = input[k]
        BY <1>6, <1>7, <1>8, OneMore
    <2>4. Len(header) + 1 = sub /\ Len(input) + 1 = sub
        BY <1>4, <1>7
    <2> QED
        BY <1>7, <2>2, <2>3, <2>4
<1>10. Extends(header, input, hdr2, inp2)
    <2>1. Len(header) \in Nat /\ Len(hdr2) \in Nat /\ Len(header) <= Len(hdr2)
        BY <1>4, <1>7, <1>9
    <2> QED
        BY <1>9, <2>1, KnownMore
<1>11. \A c \in Coded : inp2[c[1]] = input[c[1]] /\ c[1] # sub
    BY <1>1, <1>9, CodedPlaces
<1>12. Written(bout)' = Written(bout) /\ Used' = Used
    BY <1>1 DEF Used
<1>13. TurnBegun = 0 /\ NextSub = sub /\ NextP = 1
    BY <1>1 DEF TurnBegun, NextSub, NextP, InUpdate
<1>14. Keeps(low, high, Written(bout), numUnderflow, TopBit, 0, Used + StateBits,
             StepsSoFar, sub, 1, Given(Coded, input), header, input)
    BY <1>1, <1>13 DEF DecoderFollows
<1> DEFINE b2 == TopBit'
           steps2 == StepsSoFar'
<1>15. /\ steps2 \in Nat
       /\ sub' = sub => StepsSoFar <= steps2
       /\ sub' = sub + 1 => StepsSoFar + 1 <= steps2
    <2>1. 0 \in Nat /\ Used' = Used + 0 /\ StepsSoFar + 0 = StepsSoFar
        BY <1>12, FollowTypes
    <2>2. /\ sub' = sub => StepsSoFar + 0 <= StepsSoFar'
          /\ sub' = sub + 1 => StepsSoFar + 0 + 1 <= StepsSoFar'
        BY <1>3, <2>1, StepsCount
    <2>3. StepsSoFar' \in Nat
        BY StepsNext
    <2> QED
        BY <2>1, <2>2, <2>3
<1> HIDE DEF b2, steps2
<1>16. CASE e.xmin >= e.xmax
    <2>1. sub' = sub + 1 /\ pc' = pc /\ p' = p
        BY <1>2, <1>16 DEF e
    <2>2. Coded' = Coded \cup ({sub} \X (1..Lens[sub]))
        BY <1>1, <1>3, <2>1, CodedSteps
    <2>3. Given(Coded \cup Row(sub), inp2) =
              With(Given(Coded, input), Alike(sub, e.xmin))
        <3>1. \A k \in 1..Lens[sub] : inp2[sub].datum[k] = e.xmin
            <4>1. \A k \in 1..Lens[sub] : d[k] = e.xmin
                BY <1>5, <1>16
            <4> QED
                BY <1>6, <1>9, <4>1
        <3>2. SameBut(Coded, input, inp2, sub, e.xmin)
            BY <1>11, <3>1 DEF SameBut
        <3> QED
            BY <3>2, GivenAlike
    <2>4. TurnBegun' = 0 /\ NextSub' = sub + 1 /\ NextP' = 1
        BY <1>1, <2>1 DEF TurnBegun, NextSub, NextP, InUpdate
    <2>5. low < Half /\ Half <= high /\ ~(low >= Quarter /\ high < Half + Quarter)
        BY <1>1, SettledInterval
    <2>6. sub \in 1..Len(hdr2) /\ hdr2[sub].xmin >= hdr2[sub].xmax /\ hdr2[sub].xmin = e.xmin
        BY <1>4, <1>9, <1>16
    <2>7. Keeps(low, high, Written(bout), numUnderflow, b2, 0, Used + StateBits, steps2,
                sub + 1, 1, With(Given(Coded, input), Alike(sub, hdr2[sub].xmin)), hdr2, inp2)
        BY <1>1, <1>4, <1>10, <1>14, <1>15, <2>1, <2>5, <2>6, FollowTypes, KeepsSkipped
    <2>8. Given(Coded', inp2) = With(Given(Coded, input), Alike(sub, hdr2[sub].xmin))
        BY <2>2, <2>3, <2>6, Zenon DEF Row
    <2> QED
        BY <1>1, <1>12, <2>4, <2>7, <2>8, Zenon DEF DecoderFollows, b2, steps2, hdr2, inp2
<1>17. CASE ~(e.xmin >= e.xmax)
    <2>1. sub' = sub /\ pc' = "symbol" /\ p' = 1
        BY <1>2, <1>17 DEF e
    <2>2. Coded' = Coded
        BY <1>3, <2>1, CodedSteps
    <2>3. Given(Coded, inp2) = Given(Coded, input)
        BY <1>11, GivenSame
    <2>4. TurnBegun' = 0 /\ NextSub' = sub /\ NextP' = 1
        BY <2>1 DEF TurnBegun, NextSub, NextP, InUpdate
    <2>5. Keeps(low, high, Written(bout), numUnderflow, b2, 0, Used + StateBits, steps2,
                sub, 1, Given(Coded, input), hdr2, inp2)
        BY <1>10, <1>14, <1>15, <2>1, FollowTypes, KeepsKept
    <2> QED
        BY <1>1, <1>12, <2>2, <2>3, <2>4, <2>5, Zenon
            DEF DecoderFollows, b2, steps2, hdr2, inp2
<1> QED
    BY <1>16, <1>17

\* No step of the encoder loses the decoder.
LEMMA DecoderKept ==
    ASSUME Inv, Inv', HistoryFollows, DecoderFollows, CoderStep
    PROVE  DecoderFollows'
<1>1. CASE Finish \/ Fill
    <2>1. pc' \in {"fill", "done"}
        BY <1>1 DEF Finish, Fill
    <2> QED
        BY <2>1 DEF DecoderFollows
<1> QED
    BY <1>1, BeginSubbandFollowed, SymbolFollowed, ShiftFollowed, WriteOpenBitFollowed,
       EndShiftTurnFollowed, EndFollowed, UnderflowFollowed DEF CoderStep

-----------------------------------------------------------------------------
(* The end of the stream.                                                  *)

\* The decoder comes to a state with these coefficients, and stays in it.
Settles(w, side, data) ==
    \E j \in 0..StepLimit :
        /\ Decoder(w, side)[j].data = data
        /\ DecoderStep(Decoder(w, side)[j], w, side) = Decoder(w, side)[j]

\* Only zeros follow the first n bits.
Quiet(w, n) == \A i \in Nat \ {0} : i > n => w[i] = 0

\* Every stream whose first n bits make v and that goes on with zeros gives back all
\* coefficients.
EndsWell(n, v, hdr, inp) ==
    \A w \in BitString : \A side :
        Known(side, hdr, inp) /\ Number(w)[n] = v /\ Quiet(w, n) =>
            Settles(w, side, Given(Places, inp))

\* ZerosFollow in these words
LEMMA QuietNumber ==
    ASSUME NEW w \in BitString, NEW n \in Nat, Quiet(w, n), NEW k \in Nat
    PROVE  Number(w)[n + k] = Number(w)[n] * TwoTo[k]
<1>1. \A i \in Nat \ {0} : i > n => w[i] = 0
    BY DEF Quiet
<1> QED
    BY <1>1, ZerosFollow

\* A decoder that stays in a state is in it after any number of steps.
LEMMA SettledStays ==
    ASSUME NEW w, NEW side, NEW j \in Nat,
           DecoderStep(Decoder(w, side)[j], w, side) = Decoder(w, side)[j],
           NEW k \in Nat
    PROVE  Decoder(w, side)[j + k] = Decoder(w, side)[j]
<1> DEFINE D == Decoder(w, side)
           T == {i \in Nat : D[j + i] = D[j]}
<1>1. \A n \in Nat : D[n + 1] = DecoderStep(D[n], w, side)
    BY DecoderFacts
<1>2. 0 \in T
    <2>1. j + 0 = j
        OBVIOUS
    <2> HIDE DEF D
    <2> QED
        BY <2>1
<1>3. DecoderStep(D[j], w, side) = D[j]
    OBVIOUS
<1> HIDE DEF D
<1>4. ASSUME NEW i \in T PROVE i + 1 \in T
    <2>1. i \in Nat /\ j + i \in Nat /\ j + (i + 1) = (j + i) + 1 /\ D[j + i] = D[j]
        OBVIOUS
    <2>2. D[(j + i) + 1] = DecoderStep(D[j + i], w, side)
        BY <1>1, <2>1
    <2> QED
        BY <1>3, <2>1, <2>2
<1>5. T = Nat
    <2>1. T \in SUBSET Nat
        OBVIOUS
    <2> HIDE DEF T
    <2> QED
        BY <1>2, <1>4, <2>1, NatInduct
<1> QED
    BY <1>5 DEF D

\* codings ends: one more bit, and the middle of the interval is written.
LEMMA EndsAtFinish ==
    ASSUME NEW l \in 0..(Full - 1), NEW h \in 0..(Full - 1), l < Half, Half <= h,
           ~(l >= Quarter /\ h < Half + Quarter),
           NEW v \in Nat, NEW u \in Nat, NEW n \in Nat, NEW b,
           NEW pos \in Nat, pos = n + u + StateBits,
           NEW steps \in Nat, StepLimit \in Nat, steps <= StepLimit,
           NEW s \in Nat, s > Len(Lens), NEW q, NEW hdr, NEW inp,
           Keeps(l, h, v, u, b, 0, pos, steps, s, q, Given(Places, inp), hdr, inp)
    PROVE  EndsWell(n + 1, 2 * v + 1, hdr, inp)
<1> DEFINE d == Given(Places, inp)
<1>1. PICK base \in Nat, k \in Nat, limit \in Nat :
          /\ k + 0 = pos /\ limit + 0 <= steps
          /\ Pending(base, v, TwoTo[u])
          /\ Tracks(l, h, base, k, s, q, d, hdr, inp, limit)
    BY DEF Keeps
<1> HIDE DEF d
<1>2. SUFFICES ASSUME NEW w \in BitString, NEW side, Known(side, hdr, inp),
                      Number(w)[n + 1] = 2 * v + 1, Quiet(w, n + 1)
               PROVE  Settles(w, side, d)
    BY DEF EndsWell, d
<1>3. Number(w)[k] = base + Half
    <2> DEFINE m == u + (StateBits - 1)
    <2>1. m \in Nat /\ n + 1 \in Nat /\ (n + 1) + m = k /\ StateBits - 1 \in Nat
        BY <1>1, RangeAssumption
    <2>2. TwoTo[m] = TwoTo[u] * Half
        BY <2>1, TwoToSum, FullFacts
    <2>3. (2 * v + 1) * (TwoTo[u] * Half) = base + Half
        <3>1. TwoTo[u] \in Nat \ {0}
            BY TwoToFacts
        <3> QED
            BY <1>1, <3>1, PendingMiddle
    <2> HIDE DEF m
    <2>4. Number(w)[(n + 1) + m] = Number(w)[n + 1] * TwoTo[m]
        BY <1>2, <2>1, QuietNumber
    <2>5. Number(w)[k] = (2 * v + 1) * (TwoTo[u] * Half)
        BY <1>2, <2>1, <2>2, <2>4, Zenon
    <2> QED
        BY <2>3, <2>5
<1> DEFINE c == Number(w)[k] - base
<1>4. base + l <= Number(w)[k] /\ Number(w)[k] <= base + h
    BY <1>3, HalfNat
<1>5. PICK j \in 0..limit : Decoder(w, side)[j] = State(l, h, c, k, s, q, d)
    BY <1>1, <1>2, <1>4 DEF Tracks
<1> HIDE DEF c
<1>6. DecoderStep(State(l, h, c, k, s, q, d), w, side) = State(l, h, c, k, s, q, d)
    <2>1. ~((l < Half) <=> (h < Half))
        BY HalfNat
    <2> QED
        BY <2>1, DecoderPlaces
<1>7. State(l, h, c, k, s, q, d).data = d
    BY DEF State
<1>8. j \in 0..StepLimit
    BY <1>1, <1>5
<1> QED
    BY <1>5, <1>6, <1>7, <1>8 DEF Settles

\* The last byte is filled with zeros.
LEMMA EndsFilled ==
    ASSUME NEW n \in Nat, NEW v \in Nat, NEW hdr, NEW inp, EndsWell(n, v, hdr, inp)
    PROVE  EndsWell(n + 1, 2 * v + 0, hdr, inp)
<1> SUFFICES ASSUME NEW w \in BitString, NEW side, Known(side, hdr, inp),
                    Number(w)[n + 1] = 2 * v + 0, Quiet(w, n + 1)
             PROVE  Settles(w, side, Given(Places, inp))
    BY DEF EndsWell
<1>1. Number(w)[n] \in Nat /\ Number(w)[n + 1] = 2 * Number(w)[n] + w[n + 1]
    BY NumberFacts
<1>2. w[n + 1] \in 0..1
    BY DEF BitString
<1>3. Number(w)[n] = v /\ w[n + 1] = 0
    BY <1>1, <1>2
<1>4. Quiet(w, n)
    BY <1>3 DEF Quiet
<1> QED
    BY <1>3, <1>4 DEF EndsWell

\* The coefficients come back.
LEMMA EndsDecoded ==
    ASSUME NEW bytes \in Seq(Byte), NEW hdr, NEW inp, NEW side, Known(side, hdr, inp),
           EndsWell(8 * Len(bytes), Octets(bytes)[Len(bytes)], hdr, inp), StepLimit \in Nat
    PROVE  Decode(bytes, side) = Given(Places, inp)
<1> DEFINE w == Bits(bytes)
           n == 8 * Len(bytes)
<1>1. w \in BitString /\ Number(w)[n] = Octets(bytes)[Len(bytes)] /\ Quiet(w, n)
    BY BitsFacts DEF Quiet
<1> HIDE DEF n
<1>2. Settles(w, side, Given(Places, inp))
    BY <1>1 DEF EndsWell, n
<1> HIDE DEF w
<1>3. PICK j \in 0..StepLimit :
          /\ Decoder(w, side)[j].data = Given(Places, inp)
          /\ DecoderStep(Decoder(w, side)[j], w, side) = Decoder(w, side)[j]
    BY <1>2 DEF Settles
<1> DEFINE k == StepLimit - j
<1>4. j \in Nat /\ k \in Nat /\ j + k = StepLimit
    BY <1>3
<1> HIDE DEF k
<1>5. Decoder(w, side)[j + k] = Decoder(w, side)[j]
    BY <1>3, <1>4, SettledStays
<1>6. Decoder(w, side)[StepLimit] = Decoder(w, side)[j]
    BY <1>4, <1>5
<1> QED
    BY <1>3, <1>6, Zenon DEF Decode, w

\* The bits written
BitCount == 8 * Len(bout.bytes) + bout.numBitsFilled

\* When codings has ended, the stream and any zeros after it give back all coefficients.
EndFollows ==
    /\ pc \in {"fill", "done"} => EndsWell(BitCount, Written(bout), header, input)
    /\ pc = "done" => bout.numBitsFilled = 0

\* There are enough steps for all coefficients.
LEMMA StepsSuffice ==
    ASSUME Inv, FitsFollows, pc = "subband", sub > Len(Lens)
    PROVE  Coded = Places /\ StepLimit \in Nat /\ StepsSoFar <= StepLimit
<1>1. sub = Len(Lens) + 1 /\ Len(Lens) \in Nat
    <2>1. sub \in 1..(Len(Lens) + 1) /\ Len(Lens) \in Nat
        BY DataAssumption DEF Inv, TypeOK
    <2> QED
        BY <2>1
<1>2. Coded = Places
    <2>1. Begun = 0
        BY DEF Begun
    <2>2. {sub} \X (1..0) = {}
        OBVIOUS
    <2> QED
        BY <1>1, <2>1, <2>2 DEF Coded, Places
<1> DEFINE c == Cardinality(Places)
           n == Len(Lens)
           e == Used
           t == StateBits * c
<1>3. c \in Nat /\ e \in Nat
    BY <1>2, FollowTypes
<1>4. e <= t
    BY <1>2 DEF FitsFollows, Allowed
<1>5. StateBits \in Nat
    BY RangeAssumption
<1>6. t \in Nat /\ (StateBits + 1) * c = t + c
    <2> HIDE DEF c
    <2> QED
        BY <1>3, <1>5
<1>7. StepLimit = t + c + n
    BY <1>6 DEF StepLimit
<1>8. StepsSoFar = e + c + ((n + 1) - 1)
    BY <1>1, <1>2 DEF StepsSoFar
<1>9. n \in Nat
    BY <1>1
<1> HIDE DEF c, n, e, t
<1>10. StepLimit \in Nat /\ StepsSoFar <= StepLimit
    BY <1>3, <1>4, <1>6, <1>7, <1>8, <1>9
<1> QED
    BY <1>2, <1>10

\* The last 1
LEMMA FinishEnds ==
    ASSUME Inv, FitsFollows, DecoderFollows, Finish
    PROVE  EndFollows'
<1>1. /\ pc = "subband" /\ sub > Len(Lens) /\ bout' = WriteBit(bout, 1) /\ pc' = "fill"
      /\ UNCHANGED <<header, input>>
    BY DEF Finish
<1>2. Coded = Places /\ StepLimit \in Nat /\ StepsSoFar <= StepLimit
    BY <1>1, StepsSuffice
<1>3. low < Half /\ Half <= high /\ ~(low >= Quarter /\ high < Half + Quarter)
    BY <1>1, SettledInterval
<1>4. TurnBegun = 0 /\ NextSub = sub
    BY <1>1 DEF TurnBegun, NextSub, InUpdate
<1>5. Keeps(low, high, Written(bout), numUnderflow, TopBit, 0, Used + StateBits, StepsSoFar,
            sub, NextP, Given(Places, input), header, input)
    BY <1>1, <1>2, <1>4 DEF DecoderFollows
<1> DEFINE n == BitCount
<1>6. bout \in Stream /\ bout.currentByte < Values(bout.numBitsFilled)
    BY DEF Inv, StreamFollows
<1>7. n \in Nat
    <2>1. Len(bout.bytes) \in Nat /\ bout.numBitsFilled \in Nat
        BY <1>6 DEF Stream
    <2> QED
        BY <2>1 DEF BitCount
<1>8. Used + StateBits = n + numUnderflow + StateBits
    BY DEF Used, BitCount
<1> HIDE DEF n
<1>9. EndsWell(n + 1, 2 * Written(bout) + 1, header, input)
    BY <1>1, <1>2, <1>3, <1>5, <1>7, <1>8, FollowTypes, EndsAtFinish
<1>10. 1 \in 0..1
    OBVIOUS
<1>11. Written(bout)' = 2 * Written(bout) + 1
    BY <1>1, <1>6, <1>10, WrittenFacts
<1>12. BitCount' = n + 1
    BY <1>1, <1>6, <1>10, WriteBitCount DEF n, BitCount
<1> QED
    BY <1>1, <1>9, <1>11, <1>12, Zenon DEF EndFollows

\* The zeros that fill the last byte
LEMMA FillEnds ==
    ASSUME Inv, EndFollows, Fill
    PROVE  EndFollows'
<1>1. /\ pc = "fill" /\ UNCHANGED <<header, input>>
      /\ IF bout.numBitsFilled # 0
         THEN bout' = WriteBit(bout, 0) /\ UNCHANGED pc
         ELSE pc' = "done" /\ UNCHANGED bout
    BY DEF Fill
<1>2. EndsWell(BitCount, Written(bout), header, input)
    BY <1>1 DEF EndFollows
<1>3. CASE bout.numBitsFilled = 0
    BY <1>1, <1>2, <1>3 DEF EndFollows, BitCount
<1>4. CASE bout.numBitsFilled # 0
    <2>1. bout' = WriteBit(bout, 0) /\ pc' = "fill"
        BY <1>1, <1>4
    <2>2. bout \in Stream /\ bout.currentByte < Values(bout.numBitsFilled) /\ 0 \in 0..1
        BY DEF Inv, StreamFollows
    <2>3. Written(bout)' = 2 * Written(bout) + 0 /\ Written(bout) \in Nat
        BY <2>1, <2>2, WrittenFacts
    <2>4. BitCount \in Nat /\ BitCount' = BitCount + 1
        <3>1. Len(bout.bytes) \in Nat /\ bout.numBitsFilled \in Nat
            BY <2>2 DEF Stream
        <3>2. BitCount \in Nat
            BY <3>1 DEF BitCount
        <3>3. BitCount' = BitCount + 1
            BY <2>1, <2>2, WriteBitCount DEF BitCount
        <3> QED
            BY <3>2, <3>3
    <2>5. EndsWell(BitCount + 1, 2 * Written(bout) + 0, header, input)
        BY <1>2, <2>3, <2>4, EndsFilled
    <2>6. pc' # "done"
        BY <2>1
    <2> QED
        BY <1>1, <2>3, <2>4, <2>5, <2>6, Zenon DEF EndFollows
<1> QED
    BY <1>3, <1>4

\* What the theorem follows from
RoundTripInv == Inv /\ FitsFollows /\ HistoryFollows /\ DecoderFollows /\ EndFollows

\* No step breaks it.
LEMMA RoundTripKept == RoundTripInv /\ [Next]_vars => RoundTripInv'
<1> SUFFICES ASSUME RoundTripInv, [Next]_vars PROVE RoundTripInv'
    OBVIOUS
<1>1. Inv /\ FitsFollows /\ HistoryFollows /\ DecoderFollows /\ EndFollows
    BY DEF RoundTripInv
<1>2. Inv'
    BY <1>1, NextInv
<1>3. CASE CoderStep
    <2>1. FitsFollows' /\ HistoryFollows' /\ DecoderFollows'
        BY <1>1, <1>2, <1>3, FitsKept, HistoryKept, DecoderKept
    <2>2. EndFollows'
        <3>1. CASE pc' \notin {"fill", "done"}
            BY <3>1 DEF EndFollows
        <3>2. CASE pc' \in {"fill", "done"}
            <4>1. Finish \/ Fill
                BY <1>3, <3>2 DEF CoderStep, BeginSubband, Symbol, Shift, WriteOpenBit,
                    EndShiftTurn, EndShift, Underflow, EndUnderflow
            <4> QED
                BY <1>1, <4>1, FinishEnds, FillEnds
        <3> QED
            BY <3>1, <3>2
    <2> QED
        BY <1>2, <2>1, <2>2 DEF RoundTripInv
<1>4. CASE UNCHANGED vars
    <2>1. UNCHANGED <<pc, sub, p, datum, gmm, header, low, high, numUnderflow, bout, input>>
        BY <1>4 DEF vars
    <2>2. Coded' = Coded
        BY <2>1 DEF Coded, Begun
    <2>3. FitsFollows'
        BY <1>1, <2>1, <2>2 DEF FitsFollows, Used, Allowed
    <2>4. HistoryFollows'
        BY <1>1, <2>1 DEF HistoryFollows, InSubband
    <2>5. DecoderFollows'
        <3>1. /\ TopBit' = TopBit /\ TurnBegun' = TurnBegun /\ Used' = Used
              /\ StepsSoFar' = StepsSoFar /\ NextSub' = NextSub /\ NextP' = NextP
              /\ Written(bout)' = Written(bout)
            BY <2>1, <2>2 DEF TopBit, TurnBegun, Used, StepsSoFar, NextSub, NextP, InUpdate
        <3> QED
            BY <1>1, <2>1, <2>2, <3>1, Zenon DEF DecoderFollows
    <2>6. EndFollows'
        <3>1. BitCount' = BitCount /\ Written(bout)' = Written(bout)
            BY <2>1 DEF BitCount
        <3> QED
            BY <1>1, <2>1, <3>1 DEF EndFollows
    <2> QED
        BY <1>2, <2>3, <2>4, <2>5, <2>6 DEF RoundTripInv
<1> QED
    BY <1>3, <1>4 DEF Next, Done

\* Init: nothing is coded.
LEMMA RoundTripStart == Init => RoundTripInv
<1> SUFFICES ASSUME Init PROVE RoundTripInv
    OBVIOUS
<1>1. pc = "subband" /\ sub = 1 /\ numUnderflow = 0 /\ bout.numBitsFilled = 0 /\ bout.bytes = <<>>
    BY DEF Init
<1>2. FitsFollows
    <2>1. Used = 0
        BY <1>1 DEF Used
    <2>2. TypeOK
        BY InitInv DEF Inv
    <2>3. Allowed \in Nat
        BY <2>2, CodedIsFinite, RangeAssumption DEF Allowed
    <2> QED
        BY <1>1, <2>1, <2>3 DEF FitsFollows
<1>3. EndFollows
    BY <1>1 DEF EndFollows
<1> QED
    BY <1>2, <1>3, InitInv, FollowsStart DEF RoundTripInv

\* When codings has ended, a decoder gets back every coefficient: what the coder wrote is
\* enough, whatever the coefficients, parameters and tables, and however many bits were
\* left open at the end.
THEOREM CoefficientsComeBack == Spec => []RoundTrip
<1>1. RoundTripInv => RoundTrip
    <2> SUFFICES ASSUME RoundTripInv, pc = "done"
                 PROVE  Decode(bout.bytes, SideInformation) = Given(Places, input)
        BY DEF RoundTrip, Given
    <2>1. /\ EndsWell(BitCount, Written(bout), header, input) /\ bout.numBitsFilled = 0
          /\ bout \in Stream /\ bout.currentByte < Values(bout.numBitsFilled)
        BY DEF RoundTripInv, EndFollows, Inv, StreamFollows
    <2> DEFINE n == Octets(bout.bytes)[Len(bout.bytes)]
    <2>2. bout.bytes \in Seq(Byte) /\ Len(bout.bytes) \in Nat /\ bout.currentByte = 0
        BY <2>1 DEF Stream, Values
    <2>3. n \in Nat
        BY <2>2, OctetsFacts
    <2>4. Written(bout) = n /\ BitCount = 8 * Len(bout.bytes)
        <3>1. Values(0) = 1
            BY DEF Values
        <3>2. Written(bout) = n * Values(0) + 0
            BY <2>1, <2>2 DEF Written
        <3> HIDE DEF n
        <3>3. Written(bout) = n
            BY <2>3, <3>1, <3>2
        <3>4. BitCount = 8 * Len(bout.bytes)
            BY <2>1, <2>2 DEF BitCount
        <3> QED
            BY <3>3, <3>4
    <2>5. Known(SideInformation, header, input)
        BY DEF Known, SideInformation
    <2>6. StepLimit \in Nat
        <3>1. Len(Lens) \in Nat /\ StateBits \in Nat
            BY DataAssumption, RangeAssumption
        <3>2. IsFiniteSet(Places)
            <4>1. Len(Lens) + 1 \in 1..(Len(Lens) + 1)
                BY <3>1
            <4> QED
                BY <4>1, PlacesFinite DEF Places
        <3> DEFINE c == Cardinality(Places)
        <3>3. c \in Nat
            BY <3>2, FS_CardinalityType
        <3> HIDE DEF c
        <3>4. (StateBits + 1) * c + Len(Lens) \in Nat
            BY <3>1, <3>3
        <3> QED
            BY <3>4 DEF StepLimit, c
    <2>7. EndsWell(8 * Len(bout.bytes), Octets(bout.bytes)[Len(bout.bytes)], header, input)
        BY <2>1, <2>4
    <2> QED
        BY <2>2, <2>5, <2>6, <2>7, EndsDecoded
<1> QED
    BY <1>1, RoundTripStart, RoundTripKept, PTL DEF Spec
=============================================================================
