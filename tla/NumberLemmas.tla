---------------------------- MODULE NumberLemmas ----------------------------
(***************************************************************************)
(* Facts about numbers: quotients, remainders, and least elements.         *)
(***************************************************************************)
EXTENDS Integers, WellFoundedInduction, TLAPS

\* Quotient and remainder
LEMMA DivMod ==
    ASSUME NEW n \in Nat, NEW d \in Nat \ {0}
    PROVE  /\ n = d * (n \div d) + (n % d)
           /\ n \div d \in Nat
           /\ n % d \in 0..(d - 1)
OBVIOUS

\* There is only one quotient and one remainder.
LEMMA DivUnique ==
    ASSUME NEW n \in Nat, NEW d \in Nat \ {0}, NEW q \in Nat, NEW r \in Nat,
           r < d, n = d * q + r
    PROVE  n \div d = q /\ n % d = r
<1> DEFINE m == n \div d
           s == n % d
<1>1. n = d * m + s /\ m \in Nat /\ s \in 0..(d - 1)
    BY DivMod
<1> HIDE DEF m, s
<1>2. m = q
    BY <1>1
<1>3. s = r
    BY <1>1, <1>2
<1> QED
    BY <1>2, <1>3 DEF m, s

\* A multiple is divided without a remainder.
LEMMA DivMultiple ==
    ASSUME NEW d \in Nat \ {0}, NEW q \in Nat
    PROVE  (d * q) \div d = q /\ (d * q) % d = 0
BY DivUnique

\* Two multiples that are less than d apart are the same.
LEMMA SameMultiple ==
    ASSUME NEW d \in Nat \ {0}, NEW p \in Nat, NEW q \in Nat,
           d * p < d * q + d, d * q < d * p + d
    PROVE  p = q
<1>1. CASE p > q
    <2>1. p >= q + 1
        BY <1>1
    <2>2. d * p >= d * (q + 1)
        BY <2>1
    <2>3. d * (q + 1) = d * q + d
        OBVIOUS
    <2>4. d * p \in Int /\ d * q \in Int
        OBVIOUS
    <2> QED
        BY <2>2, <2>3, <2>4
<1>2. CASE q > p
    <2>1. q >= p + 1
        BY <1>2
    <2>2. d * q >= d * (p + 1)
        BY <2>1
    <2>3. d * (p + 1) = d * p + d
        OBVIOUS
    <2>4. d * p \in Int /\ d * q \in Int
        OBVIOUS
    <2> QED
        BY <2>2, <2>3, <2>4
<1> QED
    BY <1>1, <1>2

\* A quotient is at least q if the number is at least q times the divisor.
LEMMA DivAtLeast ==
    ASSUME NEW n \in Nat, NEW d \in Nat \ {0}, NEW q \in Int, d * q <= n
    PROVE  q <= n \div d
<1> DEFINE m == n \div d
           s == n % d
<1>1. n = d * m + s /\ m \in Nat /\ s \in 0..(d - 1)
    BY DivMod
<1> HIDE DEF m, s
<1>2. SUFFICES ASSUME q >= m + 1 PROVE FALSE
    BY <1>1 DEF m
<1>3. d * q >= d * (m + 1)
    BY <1>1, <1>2
<1>4. d * (m + 1) = d * m + d
    BY <1>1
<1>5. d * m \in Int /\ d * q \in Int
    BY <1>1
<1> QED
    BY <1>1, <1>3, <1>4, <1>5

\* A quotient is less than q if the number is less than q times the divisor.
LEMMA DivLess ==
    ASSUME NEW n \in Nat, NEW d \in Nat \ {0}, NEW q \in Int, n < d * q
    PROVE  n \div d < q
<1> DEFINE m == n \div d
           s == n % d
<1>1. n = d * m + s /\ m \in Nat /\ s \in 0..(d - 1)
    BY DivMod
<1> HIDE DEF m, s
<1>2. SUFFICES ASSUME q <= m PROVE FALSE
    BY <1>1 DEF m
<1>3. d * q <= d * m
    BY <1>1, <1>2
<1>4. d * m \in Int /\ d * q \in Int
    BY <1>1
<1> QED
    BY <1>1, <1>3, <1>4

\* Quotients of one divisor are in the order of the numbers.
LEMMA DivMonotone ==
    ASSUME NEW a \in Nat, NEW b \in Nat, NEW d \in Nat \ {0}, a <= b
    PROVE  a \div d <= b \div d
<1> DEFINE m == a \div d
           s == a % d
<1>1. a = d * m + s /\ m \in Nat /\ s \in 0..(d - 1)
    BY DivMod
<1> HIDE DEF m, s
<1>2. d * m <= b
    <2>1. d * m \in Int
        BY <1>1
    <2> QED
        BY <1>1, <2>1
<1> QED
    BY <1>1, <1>2, DivAtLeast DEF m

\* A set of numbers has a least one.
LEMMA NatMin ==
    ASSUME NEW T \in SUBSET Nat, T # {}
    PROVE  \E x \in T : \A y \in T : x <= y
<1>1. PICK x \in T : \A y \in T : ~(y < x)
    <2> DEFINE R == OpToRel(<, Nat)
    <2>1. IsWellFoundedOn(R, Nat)
        BY NatLessThanWellFounded
    <2>2. \A x, y \in T : y < x => <<y, x>> \in R
        BY DEF OpToRel
    <2> HIDE DEF R
    <2>3. \E x \in T : \A y \in T : ~(<<y, x>> \in R)
        BY <2>1, WFMin
    <2> QED
        BY <2>2, <2>3
<1>2. \A y \in T : x \in Nat /\ y \in Nat
    OBVIOUS
<1> QED
    BY <1>1, <1>2

\* A set of numbers with 0, and with n + 1 for each of its n, has all numbers.
LEMMA NatInduct ==
    ASSUME NEW T \in SUBSET Nat, 0 \in T, \A n \in T : n + 1 \in T
    PROVE  T = Nat
<1> DEFINE U == Nat \ T
<1> SUFFICES ASSUME U # {} PROVE FALSE
    OBVIOUS
<1>1. PICK x \in U : \A y \in U : x <= y
    <2>1. U \in SUBSET Nat
        OBVIOUS
    <2> HIDE DEF U
    <2> QED
        BY <2>1, NatMin
<1>2. x \in Nat /\ x # 0 /\ x - 1 \in Nat /\ (x - 1) + 1 = x /\ ~(x <= x - 1)
    BY <1>1
<1>3. x - 1 \in T
    BY <1>1, <1>2
<1> QED
    BY <1>1, <1>2, <1>3

\* f begins with a, and every step gives its next value.
StepByStep(f, a, step) ==
    f[0] = a /\ \A n \in Nat : f[n + 1] = step[<<n, f[n]>>]

\* A function on the numbers can be defined step by step.
LEMMA NatRecursion ==
    ASSUME NEW D, NEW a \in D, NEW step \in [Nat \X D -> D]
    PROVE  \E f \in [Nat -> D] : StepByStep(f, a, step)
<1> DEFINE Partial(f, m) ==
               /\ f \in [0..m -> D]
               /\ f[0] = a
               /\ \A n \in 0..(m - 1) : f[n + 1] = step[<<n, f[n]>>]
<1>1. \A m \in Nat : \E f : Partial(f, m)
    <2> DEFINE T == {m \in Nat : \E f : Partial(f, m)}
    <2>1. 0 \in T
        <3> DEFINE f == [n \in 0..0 |-> a]
        <3>1. f \in [0..0 -> D] /\ f[0] = a /\ 0..(0 - 1) = {}
            OBVIOUS
        <3> HIDE DEF f
        <3>2. Partial(f, 0)
            BY <3>1
        <3> QED
            BY <3>2
    <2>2. ASSUME NEW m \in T PROVE m + 1 \in T
        <3>1. PICK f : Partial(f, m)
            OBVIOUS
        <3> DEFINE g == [n \in 0..(m + 1) |-> IF n = m + 1 THEN step[<<m, f[m]>>] ELSE f[n]]
        <3>2. m \in Nat /\ m \in 0..m /\ f[m] \in D
            BY <3>1
        <3>3. /\ \A n \in 0..m : g[n] = f[n]
              /\ g[m + 1] = step[<<m, f[m]>>]
              /\ g \in [0..(m + 1) -> D]
            BY <3>1, <3>2
        <3> HIDE DEF g
        <3>4. \A n \in 0..m : g[n + 1] = step[<<n, g[n]>>]
            <4> TAKE n \in 0..m
            <4>1. CASE n = m
                BY <3>2, <3>3, <4>1
            <4>2. CASE n # m
                <5>1. n \in 0..(m - 1) /\ n + 1 \in 0..m
                    BY <3>2, <4>2
                <5> QED
                    BY <3>1, <3>3, <5>1
            <4> QED
                BY <4>1, <4>2
        <3>5. 0 \in 0..m /\ (m + 1) - 1 = m /\ m + 1 \in Nat
            BY <3>2
        <3>6. Partial(g, m + 1)
            BY <3>1, <3>3, <3>4, <3>5
        <3> QED
            BY <3>5, <3>6
    <2>3. T \in SUBSET Nat
        OBVIOUS
    <2>4. T = Nat
        <3> HIDE DEF T
        <3> QED
            BY <2>1, <2>2, <2>3, NatInduct
    <2> HIDE DEF Partial
    <2> QED
        BY <2>4
<1>2. ASSUME NEW f, NEW g, NEW m \in Nat, Partial(f, m), Partial(g, m + 1)
      PROVE  f[m] = g[m]
    <2> DEFINE T == {i \in Nat : i <= m => f[i] = g[i]}
    <2>1. 0 \in T
        BY <1>2
    <2>2. ASSUME NEW i \in T PROVE i + 1 \in T
        <3>1. SUFFICES ASSUME i + 1 <= m PROVE f[i + 1] = g[i + 1]
            OBVIOUS
        <3>2. i \in 0..(m - 1) /\ i \in 0..((m + 1) - 1) /\ f[i] = g[i]
            BY <3>1
        <3> QED
            BY <1>2, <3>2
    <2>3. T \in SUBSET Nat
        OBVIOUS
    <2>4. T = Nat
        <3> HIDE DEF T
        <3> QED
            BY <2>1, <2>2, <2>3, NatInduct
    <2> QED
        BY <2>4
<1> DEFINE F == [m \in Nat |-> CHOOSE f : Partial(f, m)]
           d == [m \in Nat |-> F[m][m]]
<1>3. \A m \in Nat : Partial(F[m], m)
    <2> HIDE DEF Partial
    <2>1. \A m \in Nat : F[m] = CHOOSE f : Partial(f, m)
        OBVIOUS
    <2> QED
        BY <1>1, <2>1, Zenon
<1> HIDE DEF F
<1>4. ASSUME NEW n \in Nat PROVE d[n] \in D /\ d[n + 1] = step[<<n, d[n]>>]
    <2>1. n \in 0..n /\ n \in 0..((n + 1) - 1) /\ n + 1 \in Nat
        OBVIOUS
    <2>2. Partial(F[n], n) /\ Partial(F[n + 1], n + 1)
        BY <1>3, <2>1
    <2>3. F[n][n] = F[n + 1][n]
        <3> HIDE DEF Partial
        <3> QED
            BY <1>2, <2>2
    <2>4. d[n] = F[n][n] /\ d[n + 1] = F[n + 1][n + 1]
        BY <2>1
    <2> QED
        BY <2>1, <2>2, <2>3, <2>4
<1>5. d[0] = a
    BY <1>3
<1>6. d \in [Nat -> D]
    BY <1>4
<1> HIDE DEF d
<1> QED
    BY <1>4, <1>5, <1>6 DEF StepByStep
=============================================================================
