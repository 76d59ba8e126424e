--------------------------- MODULE AmountsProofs ---------------------------
(***************************************************************************)
(* What holds of Amounts for any fees, any configuration of the retries,   *)
(* integers of any width from 10 bits on, and any times and delays.        *)
(***************************************************************************)
EXTENDS Amounts, FiniteSetTheorems, WellFoundedInduction, TLAPS

-----------------------------------------------------------------------------
(* Induction over the numbers, for sets of them.                            *)

\* A set of numbers with an element has a least one.
LEMMA LeastExists ==
  ASSUME NEW S \in SUBSET Nat, S # {}
  PROVE  \E x \in S : \A y \in S : x <= y
<1> DEFINE Less == OpToRel(<, Nat)
<1>1. PICK x \in S : \A y \in S : ~ (<<y, x>> \in Less)
  <2> HIDE DEF Less
  <2>1. IsWellFoundedOn(Less, Nat)
    BY NatLessThanWellFounded DEF Less
  <2>2. QED
    BY <2>1, WFMin
<1>2. ASSUME NEW y \in S, y < x PROVE FALSE
  <2>1. <<y, x>> \in Nat \X Nat /\ <<y, x>>[1] < <<y, x>>[2]
    BY <1>2
  <2>2. Less = {ss \in Nat \X Nat : ss[1] < ss[2]}
    BY DEF OpToRel
  <2> HIDE DEF Less
  <2>3. QED
    BY <1>1, <2>1, <2>2
<1>3. QED
  BY <1>2

\* A set that holds 0 and with every number the next one holds all of them.
LEMMA Induction ==
  ASSUME NEW S \in SUBSET Nat, 0 \in S, \A n \in S : n + 1 \in S
  PROVE  S = Nat
<1> DEFINE Rest == Nat \ S
<1>1. SUFFICES ASSUME Rest # {} PROVE FALSE
  OBVIOUS
<1>2. PICK x \in Rest : \A y \in Rest : x <= y
  <2>1. Rest \subseteq Nat
    OBVIOUS
  <2> HIDE DEF Rest
  <2>2. QED
    BY <1>1, <2>1, LeastExists
<1>3. x # 0 /\ x - 1 \in Nat /\ ~ (x <= x - 1) /\ (x - 1) + 1 = x
  OBVIOUS
<1>4. x - 1 \in Rest
  BY <1>3
<1>5. QED
  BY <1>2, <1>3, <1>4

-----------------------------------------------------------------------------
(* Powers.                                                                  *)

\* The powers of b up to n, as a finite function.
Prefix(b, n) == {g \in [0..n -> Nat] : g[0] = 1 /\ \A i \in 1..n : g[i] = b * g[i - 1]}

\* They exist, for every n,
LEMMA PrefixExists ==
  ASSUME NEW b \in Nat, NEW n \in Nat
  PROVE  Prefix(b, n) # {}
<1> DEFINE S == {m \in Nat : Prefix(b, m) # {}}
<1>1. 0 \in S
  <2>1. [i \in 0..0 |-> 1] \in Prefix(b, 0)
    BY DEF Prefix
  <2>2. QED
    BY <2>1
<1>2. ASSUME NEW m \in S PROVE m + 1 \in S
  <2>1. PICK g : g \in Prefix(b, m)
    OBVIOUS
  <2> DEFINE h == [i \in 0..(m + 1) |-> IF i <= m THEN g[i] ELSE b * g[m]]
  <2>2. b * g[m] \in Nat
    BY <2>1 DEF Prefix
  <2>3. h \in [0..(m + 1) -> Nat]
    BY <2>1, <2>2 DEF Prefix
  <2>4. h[0] = 1
    BY <2>1 DEF Prefix
  <2>5. ASSUME NEW i \in 1..(m + 1) PROVE h[i] = b * h[i - 1]
    BY <2>1 DEF Prefix
  <2> HIDE DEF h
  <2>6. h \in Prefix(b, m + 1)
    BY <2>3, <2>4, <2>5 DEF Prefix
  <2>7. QED
    BY <2>6
<1> HIDE DEF S
<1>3. S = Nat
  BY <1>1, <1>2, Induction DEF S
<1>4. QED
  BY <1>3 DEF S

\* and agree wherever two of them are defined.
LEMMA PrefixUnique ==
  ASSUME NEW b \in Nat, NEW n \in Nat, NEW m \in Nat, NEW g \in Prefix(b, n), NEW h \in Prefix(b, m),
         NEW i \in Nat, i <= n, i <= m
  PROVE  g[i] = h[i]
<1> DEFINE S == {j \in Nat : j <= n /\ j <= m => g[j] = h[j]}
<1>1. 0 \in S
  BY DEF Prefix
<1>2. ASSUME NEW j \in S PROVE j + 1 \in S
  <2>1. SUFFICES ASSUME j + 1 <= n, j + 1 <= m PROVE g[j + 1] = h[j + 1]
    OBVIOUS
  <2>2. g[j] = h[j]
    BY <2>1
  <2>3. j + 1 \in 1..n /\ j + 1 \in 1..m /\ (j + 1) - 1 = j
    BY <2>1
  <2>4. QED
    BY <2>2, <2>3 DEF Prefix
<1> HIDE DEF S
<1>3. S = Nat
  BY <1>1, <1>2, Induction DEF S
<1>4. QED
  BY <1>3 DEF S

\* Power(b) is the function its recursion describes.
LEMMA PowerValue ==
  ASSUME NEW b \in Nat
  PROVE  Power(b) = [n \in Nat |-> IF n = 0 THEN 1 ELSE b * Power(b)[n - 1]]
<1> DEFINE At(n) == (CHOOSE g \in Prefix(b, n) : TRUE)[n]
           f == [n \in Nat |-> At(n)]
<1>1. \A n \in Nat : (CHOOSE g \in Prefix(b, n) : TRUE) \in Prefix(b, n)
  BY PrefixExists
<1>2. f = [n \in Nat |-> IF n = 0 THEN 1 ELSE b * f[n - 1]]
  <2>1. ASSUME NEW n \in Nat PROVE f[n] = IF n = 0 THEN 1 ELSE b * f[n - 1]
    <3> DEFINE g == CHOOSE k \in Prefix(b, n) : TRUE
    <3>1. g \in Prefix(b, n)
      BY <1>1
    <3>2. CASE n = 0
      BY <3>1, <3>2 DEF Prefix
    <3>3. CASE n # 0
      <4> DEFINE h == CHOOSE k \in Prefix(b, n - 1) : TRUE
      <4>1. n - 1 \in Nat /\ n \in 1..n
        BY <3>3
      <4>2. h \in Prefix(b, n - 1)
        BY <1>1, <4>1
      <4>3. f[n] = g[n] /\ f[n - 1] = h[n - 1]
        BY <4>1
      <4> HIDE DEF g, h, f
      <4>4. g[n - 1] = h[n - 1]
        BY <3>1, <4>1, <4>2, PrefixUnique
      <4>5. g[n] = b * g[n - 1]
        BY <3>1, <4>1 DEF Prefix
      <4>6. QED
        BY <3>3, <4>3, <4>4, <4>5
    <3>4. QED
      BY <3>2, <3>3
  <2>2. f = [n \in Nat |-> f[n]]
    OBVIOUS
  <2> HIDE DEF f
  <2>3. QED
    BY <2>1, <2>2
<1> HIDE DEF f
<1>3. QED
  BY <1>2, Zenon DEF Power
\* The recursion, step by step.
LEMMA PowerStep ==
  ASSUME NEW b \in Nat
  PROVE  /\ Power(b)[0] = 1
         /\ \A n \in Nat : Power(b)[n + 1] = b * Power(b)[n]
<1>1. Power(b) = [n \in Nat |-> IF n = 0 THEN 1 ELSE b * Power(b)[n - 1]]
  BY PowerValue
<1> DEFINE p == Power(b)
<1> HIDE DEF p
<1>2. p = [n \in Nat |-> IF n = 0 THEN 1 ELSE b * p[n - 1]]
  BY <1>1 DEF p
<1>3. ASSUME NEW n \in Nat PROVE p[n + 1] = b * p[n]
  <2>1. n + 1 \in Nat /\ n + 1 # 0 /\ (n + 1) - 1 = n
    OBVIOUS
  <2>2. p[n + 1] = b * p[(n + 1) - 1]
    BY <1>2, <2>1
  <2>3. QED
    BY <2>1, <2>2
<1>4. p[0] = 1
  BY <1>2
<1>5. QED
  BY <1>3, <1>4 DEF p

LEMMA PowerPositive ==
  ASSUME NEW b \in Nat \ {0}, NEW n \in Nat
  PROVE  Power(b)[n] \in Nat \ {0}
<1> DEFINE S == {m \in Nat : Power(b)[m] \in Nat \ {0}}
<1>1. 0 \in S
  BY PowerStep
<1>2. ASSUME NEW m \in S PROVE m + 1 \in S
  <2>1. Power(b)[m + 1] = b * Power(b)[m]
    BY PowerStep
  <2>2. \A x, y \in Nat \ {0} : x * y \in Nat \ {0}
    OBVIOUS
  <2>3. QED
    BY <2>1, <2>2
<1> HIDE DEF S
<1>3. S = Nat
  BY <1>1, <1>2, Induction DEF S
<1>4. QED
  BY <1>3 DEF S

\* The largest shift of a retry fits into ten bits, and so into any more.
LEMMA ShiftsFit ==
  ASSUME NEW n \in 0..8, NEW m \in Nat, m >= 9
  PROVE  Power(2)[n] <= Power(2)[m] - 1
<1> DEFINE p == Power(2)
<1>1. p[0] = 1 /\ \A i \in Nat : p[i + 1] = 2 * p[i] /\ p[i] \in Nat \ {0}
  BY PowerStep, PowerPositive
<1> HIDE DEF p
<1>2. p[n] < p[9]
  <2>1. \A i \in 0..8 : p[i + 1] = 2 * p[i]
    BY <1>1
  <2>2. /\ p[1] = 2 /\ p[2] = 4 /\ p[3] = 8 /\ p[4] = 16 /\ p[5] = 32
        /\ p[6] = 64 /\ p[7] = 128 /\ p[8] = 256 /\ p[9] = 512
    BY <1>1, <2>1
  <2>3. n \in {0, 1, 2, 3, 4, 5, 6, 7, 8}
    OBVIOUS
  <2>4. QED
    BY <1>1, <2>2, <2>3
<1> DEFINE S == {i \in Nat : p[9] <= p[9 + i]}
<1>3. 0 \in S
  BY <1>1
<1>4. ASSUME NEW i \in S PROVE i + 1 \in S
  <2>1. 9 + (i + 1) = (9 + i) + 1 /\ 9 + i \in Nat
    OBVIOUS
  <2>2. p[9 + (i + 1)] = 2 * p[9 + i]
    BY <1>1, <2>1
  <2>3. p[9 + i] \in Nat /\ p[9] \in Nat
    BY <1>1
  <2>4. QED
    BY <2>2, <2>3
<1>5. S = Nat
  <2> HIDE DEF S
  <2>1. QED
    BY <1>3, <1>4, Induction DEF S
<1>6. m - 9 \in Nat /\ 9 + (m - 9) = m
  OBVIOUS
<1>7. p[9] <= p[m]
  BY <1>5, <1>6
<1>8. p[n] \in Nat /\ p[9] \in Nat /\ p[m] \in Nat
  BY <1>1
<1>9. QED
  BY <1>2, <1>7, <1>8 DEF p

-----------------------------------------------------------------------------
(* The pauses.                                                              *)

\* One less than a power of b is a multiple of b - 1; the quotient is the series.
LEMMA SeriesStep ==
  ASSUME NEW b \in Nat \ {0, 1}, NEW n \in Nat
  PROVE  /\ (Power(b)[n] - 1) \div (b - 1) \in Nat
         /\ (Power(b)[n + 1] - 1) \div (b - 1) = (Power(b)[n] - 1) \div (b - 1) + Power(b)[n]
<1> DEFINE p == Power(b)
           S == {i \in Nat : \E q \in Nat : p[i] - 1 = (b - 1) * q}
<1>1. p[0] = 1 /\ \A i \in Nat : p[i + 1] = b * p[i] /\ p[i] \in Nat \ {0}
  BY PowerStep, PowerPositive
<1> HIDE DEF p
<1>2. \A x, q \in Nat : x - 1 = (b - 1) * q => b * x - 1 = (b - 1) * (q + x)
  <2>1. SUFFICES ASSUME NEW x \in Nat, NEW q \in Nat, x - 1 = (b - 1) * q
                 PROVE  b * x - 1 = (b - 1) * (q + x)
    OBVIOUS
  <2>2. (b - 1) * (q + x) = (b - 1) * q + (b - 1) * x
    OBVIOUS
  <2>3. (b - 1) * x = b * x - x
    OBVIOUS
  <2>4. b * x \in Nat
    OBVIOUS
  <2>5. QED
    BY <2>1, <2>2, <2>3, <2>4
<1>3. 0 \in S
  <2>1. p[0] - 1 = (b - 1) * 0
    BY <1>1
  <2>2. QED
    BY <2>1
<1>4. ASSUME NEW i \in S PROVE i + 1 \in S
  <2>1. PICK q \in Nat : p[i] - 1 = (b - 1) * q
    OBVIOUS
  <2>2. p[i] \in Nat /\ p[i + 1] = b * p[i]
    BY <1>1
  <2>3. p[i + 1] - 1 = (b - 1) * (q + p[i])
    BY <1>2, <2>1, <2>2
  <2>4. q + p[i] \in Nat /\ i + 1 \in Nat
    BY <2>2
  <2>5. QED
    BY <2>3, <2>4
<1>5. S = Nat
  <2> HIDE DEF S
  <2>1. QED
    BY <1>3, <1>4, Induction DEF S
<1>6. PICK q \in Nat : p[n] - 1 = (b - 1) * q
  BY <1>5
<1>7. p[n] \in Nat /\ p[n + 1] = b * p[n]
  BY <1>1
<1>8. p[n + 1] - 1 = (b - 1) * (q + p[n])
  BY <1>2, <1>6, <1>7
<1>9. \A d \in Nat \ {0}, x \in Nat : (d * x) \div d = x
  OBVIOUS
<1>10. b - 1 \in Nat \ {0} /\ q + p[n] \in Nat
  BY <1>7
<1>11. (p[n] - 1) \div (b - 1) = q /\ (p[n + 1] - 1) \div (b - 1) = q + p[n]
  BY <1>6, <1>8, <1>9, <1>10
<1>12. QED
  BY <1>11 DEF p

\* The pauses without jitter add up as the sum does.
LEMMA PlannedStep ==
  /\ Planned(0) = 0
  /\ \A k \in Nat : /\ Planned(k) \in Nat
                     /\ Planned(k + 1) = Planned(k) + BaseDelay * Power(Multiplier)[k]
<1>1. CASE Multiplier = 1
  <2> DEFINE S == {k \in Nat : Power(1)[k] = 1}
  <2>1. 0 \in S /\ \A k \in S : k + 1 \in S
    BY PowerStep
  <2> HIDE DEF S
  <2>2. S = Nat
    BY <2>1, Induction DEF S
  <2>3. \A k \in Nat : Power(1)[k] = 1
    BY <2>2 DEF S
  <2>4. \A k \in Nat : BaseDelay * k \in Nat /\ BaseDelay * (k + 1) = BaseDelay * k + BaseDelay * 1
    BY RetryAssumption
  <2>5. QED
    BY <1>1, <2>3, <2>4, RetryAssumption DEF Planned
<1>2. CASE Multiplier # 1
  <2> DEFINE sum(k) == (Power(Multiplier)[k] - 1) \div (Multiplier - 1)
  <2>1. \A k \in Nat : sum(k) \in Nat /\ sum(k + 1) = sum(k) + Power(Multiplier)[k]
    BY <1>2, RetryAssumption, SeriesStep
  <2>2. sum(0) = 0
    <3>1. Power(Multiplier)[0] = 1
      BY RetryAssumption, PowerStep
    <3>2. \A d \in Nat \ {0} : 0 \div d = 0
      OBVIOUS
    <3>3. Multiplier - 1 \in Nat \ {0}
      BY <1>2, RetryAssumption
    <3>4. Power(Multiplier)[0] - 1 = 0
      BY <3>1
    <3> DEFINE d == Multiplier - 1
    <3> HIDE DEF d
    <3>5. 0 \div d = 0
      BY <3>2, <3>3 DEF d
    <3>6. QED
      BY <3>4, <3>5 DEF d
  <2>3. \A k \in Nat : Planned(k) = BaseDelay * sum(k)
    BY <1>2 DEF Planned
  <2> HIDE DEF sum
  <2>4. \A k \in Nat : Power(Multiplier)[k] \in Nat
    BY RetryAssumption, PowerPositive
  <2>5. \A x, y \in Nat : BaseDelay * x \in Nat /\ BaseDelay * (x + y) = BaseDelay * x + BaseDelay * y
    BY RetryAssumption
  <2>6. BaseDelay * 0 = 0
    BY RetryAssumption
  <2>7. Planned(0) = 0
    BY <2>2, <2>3, <2>6
  <2>8. ASSUME NEW k \in Nat
        PROVE  Planned(k) \in Nat /\ Planned(k + 1) = Planned(k) + BaseDelay * Power(Multiplier)[k]
    <3>1. k + 1 \in Nat
      OBVIOUS
    <3>2. Planned(k) = BaseDelay * sum(k) /\ Planned(k + 1) = BaseDelay * sum(k + 1)
      BY <2>3, <3>1
    <3>3. sum(k) \in Nat /\ sum(k + 1) = sum(k) + Power(Multiplier)[k] /\ Power(Multiplier)[k] \in Nat
      BY <2>1, <2>4
    <3> HIDE DEF Planned
    <3>4. BaseDelay * sum(k) \in Nat
          /\ BaseDelay * (sum(k) + Power(Multiplier)[k]) = BaseDelay * sum(k) + BaseDelay * Power(Multiplier)[k]
      BY <2>5, <3>3
    <3>5. QED
      BY <3>2, <3>3, <3>4
  <2>9. QED
    BY <2>7, <2>8
<1>3. QED
  BY <1>1, <1>2

\* A pause is its base, more or less the jitter and half a millisecond.
LEMMA PauseInJitter ==
  ASSUME NEW a \in Nat \ {0}, NEW draw \in Draws
  PROVE  LET base == BaseDelay * Power(Multiplier)[a - 1]
         IN  /\ BackoffDelay(a, draw) \in Nat
             /\ 100 * BackoffDelay(a, draw) <= (100 + Jitter) * base + 50
             /\ 100 * BackoffDelay(a, draw) >= (100 - Jitter) * base - 50
<1> DEFINE base  == BaseDelay * Power(Multiplier)[a - 1]
           x     == base * Jitter
           delta == (x * draw + 5000) \div 10000
<1>1. base \in Nat
  <2>1. Power(Multiplier)[a - 1] \in Nat
    BY RetryAssumption, PowerPositive
  <2>2. \A u, v \in Nat : u * v \in Nat
    OBVIOUS
  <2>3. QED
    BY <2>1, <2>2, RetryAssumption
<1>2. BackoffDelay(a, draw) = IF base + delta < 0 THEN 0 ELSE base + delta
  BY DEF BackoffDelay
<1> HIDE DEF base
<1>3. x \in Nat /\ x <= 100 * base /\ 100 * base - x = (100 - Jitter) * base /\ 100 * base + x = (100 + Jitter) * base
  <2>1. Jitter \in 0..100
    BY RetryAssumption
  <2>2. \A u \in Nat, j \in 0..100 :
          u * j \in Nat /\ u * j <= 100 * u /\ 100 * u - u * j = (100 - j) * u /\ 100 * u + u * j = (100 + j) * u
    OBVIOUS
  <2>3. QED
    BY <1>1, <2>1, <2>2
<1> HIDE DEF x
<1>4. draw \in -100..100
  BY RetryAssumption
<1>5. x * draw \in Int /\ x * draw <= 100 * x /\ x * draw >= -100 * x
  <2>1. \A u \in Nat, d \in -100..100 : u * d \in Int /\ u * d <= 100 * u /\ u * d >= -100 * u
    OBVIOUS
  <2>2. QED
    BY <1>3, <1>4, <2>1
<1>6. delta \in Int /\ 10000 * delta <= x * draw + 5000 /\ 10000 * delta > x * draw + 5000 - 10000
  <2>1. \A n \in Int : /\ (n + 5000) \div 10000 \in Int
                       /\ 10000 * ((n + 5000) \div 10000) <= n + 5000
                       /\ 10000 * ((n + 5000) \div 10000) > n + 5000 - 10000
    OBVIOUS
  <2>2. QED
    BY <1>5, <2>1
<1> HIDE DEF delta
<1>7. 100 * delta <= x + 50 /\ 100 * delta >= -x - 50 /\ base + delta >= 0
  <2>1. x * draw <= 100 * x /\ x * draw >= -100 * x
    BY <1>5
  <2> DEFINE y == x * draw
  <2>2. y \in Int
    BY <1>5
  <2> HIDE DEF y
  <2>3. 100 * delta <= x + 50 /\ 100 * delta >= -x - 50
    BY <1>3, <1>6, <2>1, <2>2 DEF y
  <2>4. QED
    BY <1>1, <1>3, <1>6, <2>3
<1>8. QED
  BY <1>1, <1>2, <1>3, <1>6, <1>7 DEF base

-----------------------------------------------------------------------------
(* The times.                                                               *)

LEMMA IntegerRange ==
  /\ MaxInt \in Nat /\ MinInt = -MaxInt - 1 /\ Power(2)[Bits] = 2 * (MaxInt + 1)
  /\ \A n \in 0..8 : Power(2)[n] \in Nat \ {0} /\ Power(2)[n] <= MaxInt
<1> DEFINE m == Bits - 1
<1>1. m \in Nat /\ m >= 9 /\ Bits = m + 1
  BY BitsAssumption
<1>2. Power(2)[m] \in Nat \ {0} /\ Power(2)[m + 1] = 2 * Power(2)[m]
  BY <1>1, PowerStep, PowerPositive
<1>3. MaxInt = Power(2)[m] - 1 /\ MinInt = -Power(2)[m]
  BY DEF MaxInt, MinInt
<1>4. \A n \in 0..8 : Power(2)[n] \in Nat \ {0} /\ Power(2)[n] <= MaxInt
  <2> HIDE DEF m
  <2>1. QED
    BY <1>1, <1>3, ShiftsFit, PowerPositive
<1>5. QED
  BY <1>1, <1>2, <1>3, <1>4

\* A number that is an integer of the program is left as it is, one too great by less
\* than the width comes out negative.
LEMMA WrapInRange ==
  /\ \A n \in MinInt..MaxInt : Wrap(n) = n
  /\ \A n \in (MaxInt + 1)..(2 * MaxInt) : Wrap(n) < 0
  /\ \A n \in Int : Wrap(n) \in Int
<1>1. \A n \in Int : Wrap(n) = ((n - (-MaxInt - 1)) % (2 * (MaxInt + 1))) + (-MaxInt - 1)
  BY IntegerRange DEF Wrap
<1> DEFINE a == MaxInt
<1>2. a \in Nat /\ MinInt = -a - 1
  BY IntegerRange
<1> HIDE DEF a
<1>3. \A n \in Int : ((n - (-a - 1)) % (2 * (a + 1))) + (-a - 1) \in Int
  BY <1>2
<1>4. \A n \in (-a - 1)..a : ((n - (-a - 1)) % (2 * (a + 1))) + (-a - 1) = n
  BY <1>2
<1>5. ASSUME NEW n \in (a + 1)..(2 * a)
      PROVE  ((n - (-a - 1)) % (2 * (a + 1))) + (-a - 1) < 0
  <2>1. \A u \in Nat \ {0} : \A i \in 0..(u - 1) : (u + i) % u = i
    OBVIOUS
  <2> DEFINE w == 2 * (a + 1)
             k == n - a - 1
  <2>2. w \in Nat \ {0} /\ k \in 0..(w - 1) /\ n - (-a - 1) = w + k /\ k + (-a - 1) < 0
    BY <1>2, <1>5
  <2> HIDE DEF w, k
  <2>3. (n - (-a - 1)) % w = k
    BY <2>1, <2>2
  <2>4. QED
    BY <2>2, <2>3 DEF w
<1>6. \A n \in (MaxInt + 1)..(2 * MaxInt) : Wrap(n) < 0
  <2> TAKE n \in (MaxInt + 1)..(2 * MaxInt)
  <2>1. n \in Int
    BY IntegerRange
  <2>2. Wrap(n) = ((n - (-a - 1)) % (2 * (a + 1))) + (-a - 1) /\ n \in (a + 1)..(2 * a)
    BY <1>1, <2>1 DEF a
  <2>3. QED
    BY <1>5, <2>2
<1>7. /\ \A n \in MinInt..MaxInt : Wrap(n) = n
      /\ \A n \in Int : Wrap(n) \in Int
  BY <1>1, <1>2, <1>3, <1>4 DEF a
<1>8. QED
  BY <1>6, <1>7

\* No shift of a retry overflows.
LEMMA ShiftIsPower ==
  ASSUME NEW n \in 0..8
  PROVE  Shl(n) = Power(2)[n]
<1>1. n < Bits
  BY BitsAssumption
<1>2. Power(2)[n] \in MinInt..MaxInt
  BY IntegerRange
<1>3. QED
  BY <1>1, <1>2, WrapInRange DEF Shl

\* What fail_job computes.
LEMMA RetryAtExact ==
  ASSUME NEW now \in Times, NEW after \in Delays, NEW attempts \in 1..9
  PROVE  LET exact == now + after * Power(2)[attempts - 1]
         IN  /\ after >= 0 /\ exact <= MaxInt => RetryAt(now, after, attempts) = exact
             /\ now > 0 /\ exact > MaxInt => RetryAt(now, after, attempts) < now
             /\ after < 0 => RetryAt(now, after, attempts) < now
             /\ RetryAt(now, after, attempts) \in Int
<1> DEFINE p == Power(2)[attempts - 1]
           back == SatMul(after, p)
<1>1. attempts - 1 \in 0..8
  OBVIOUS
<1>2. p \in Nat \ {0} /\ Shl(attempts - 1) = p
  BY <1>1, IntegerRange, ShiftIsPower
<1>3. RetryAt(now, after, attempts) = Wrap(now + back)
  BY <1>2 DEF RetryAt
<1>4. now \in Int /\ after \in Int /\ now >= 0 /\ now <= MaxInt /\ MaxInt \in Nat /\ MinInt = -MaxInt - 1
  BY IntegersAssumption, IntegerRange
<1> HIDE DEF p
<1> DEFINE exact == after * p
<1>5. exact \in Int
  BY <1>2, <1>4
<1>6. back = IF exact > MaxInt THEN MaxInt ELSE IF exact < MinInt THEN MinInt ELSE exact
  BY DEF SatMul
<1>7. (after >= 0 => exact >= 0) /\ (after < 0 => exact < 0)
  BY <1>2, <1>4
<1> HIDE DEF exact, back
<1>8. back \in Int /\ RetryAt(now, after, attempts) \in Int
  BY <1>3, <1>4, <1>5, <1>6, WrapInRange
<1>9. ASSUME after >= 0, now + exact <= MaxInt
      PROVE  RetryAt(now, after, attempts) = now + exact
  <2>1. back = exact
    BY <1>4, <1>5, <1>6, <1>7, <1>9
  <2>2. now + exact \in MinInt..MaxInt
    BY <1>4, <1>5, <1>7, <1>9
  <2>3. QED
    BY <1>3, <2>1, <2>2, WrapInRange
<1>10. ASSUME after < 0 PROVE RetryAt(now, after, attempts) < now
  <2>1. back \in MinInt..(-1)
    BY <1>4, <1>5, <1>6, <1>7, <1>10
  <2>2. now + back \in MinInt..MaxInt /\ now + back < now
    BY <1>4, <2>1
  <2>3. QED
    BY <1>3, <2>2, WrapInRange
<1>11. ASSUME now > 0, now + exact > MaxInt PROVE RetryAt(now, after, attempts) < now
  <2>1. after >= 0
    BY <1>4, <1>5, <1>7, <1>11
  <2>2. now + back \in (MaxInt + 1)..(2 * MaxInt)
    BY <1>4, <1>5, <1>6, <1>7, <1>11, <2>1
  <2>3. Wrap(now + back) < 0 /\ Wrap(now + back) \in Int
    BY <1>3, <1>8, <2>2, WrapInRange
  <2>4. QED
    BY <1>3, <1>4, <2>3
<1>12. QED
  BY <1>8, <1>9, <1>10, <1>11 DEF exact, p

\* What buildExecuteAfter computes.
LEMMA ExecuteAfterKept ==
  ASSUME NEW now \in Nat, NEW pause \in Nat
  PROVE  LET time == ExecuteAfter(now, pause)
         IN  /\ time \in Nat
             /\ time > 0 => 1000 * time <= now + pause /\ now + pause - 1000 * time < 2000
<1>1. LET sum == now \div 1000 + pause \div 1000
      IN  sum \in Nat /\ 1000 * sum <= now + pause /\ now + pause - 1000 * sum < 2000
  OBVIOUS
<1>2. QED
  BY <1>1 DEF ExecuteAfter

-----------------------------------------------------------------------------
(* The bid.                                                                 *)

\* order numbers the set T such that the values v ascend.
Ascends(order, T, n, v) ==
  order \in Bijection(1..n, T) /\ \A i, j \in 1..n : i <= j => v[order[i]] <= v[order[j]]

\* An element that is below all others is put in front of them.
LEMMA PutInFront ==
  ASSUME NEW T, NEW v, NEW least \in T, \A t \in T : v[least] <= v[t] /\ v[t] \in Nat,
         NEW n \in Nat, NEW order, Ascends(order, T \ {least}, n, v)
  PROVE  \E longer : Ascends(longer, T, n + 1, v)
<1> DEFINE longer == [i \in 1..(n + 1) |-> IF i = 1 THEN least ELSE order[i - 1]]
<1>1. /\ order \in [1..n -> T \ {least}]
      /\ \A i, j \in 1..n : order[i] = order[j] => i = j
      /\ \A t \in T \ {least} : \E i \in 1..n : order[i] = t
      /\ \A i, j \in 1..n : i <= j => v[order[i]] <= v[order[j]]
  BY DEF Ascends, Bijection, Injection, Surjection, IsInjective
<1>2. \A i \in 1..(n + 1) : i # 1 => i - 1 \in 1..n
  OBVIOUS
<1>3. longer \in [1..(n + 1) -> T]
  BY <1>1, <1>2
<1>4. longer[1] = least /\ \A i \in 1..(n + 1) : i # 1 => longer[i] = order[i - 1]
  BY <1>2
<1> HIDE DEF longer
<1>5. ASSUME NEW i \in 1..(n + 1), NEW j \in 1..(n + 1), longer[i] = longer[j] PROVE i = j
  <2>1. CASE i = 1 /\ j = 1
    BY <2>1
  <2>2. CASE i = 1 /\ j # 1
    BY <1>1, <1>2, <1>4, <1>5, <2>2
  <2>3. CASE i # 1 /\ j = 1
    BY <1>1, <1>2, <1>4, <1>5, <2>3
  <2>4. CASE i # 1 /\ j # 1
    <3>1. i - 1 = j - 1
      BY <1>1, <1>2, <1>4, <1>5, <2>4
    <3>2. QED
      BY <3>1
  <2>5. QED
    BY <2>1, <2>2, <2>3, <2>4
<1>6. ASSUME NEW t \in T PROVE \E i \in 1..(n + 1) : longer[i] = t
  <2>1. CASE t = least
    BY <1>4, <2>1
  <2>2. CASE t # least
    <3>1. PICK i \in 1..n : order[i] = t
      BY <1>1, <2>2
    <3>2. i + 1 \in 1..(n + 1) /\ i + 1 # 1 /\ (i + 1) - 1 = i
      OBVIOUS
    <3>3. QED
      BY <1>4, <3>1, <3>2
  <2>3. QED
    BY <2>1, <2>2
<1>7. ASSUME NEW i \in 1..(n + 1), NEW j \in 1..(n + 1), i <= j
      PROVE  v[longer[i]] <= v[longer[j]]
  <2>1. CASE i = 1
    BY <1>3, <1>4, <2>1
  <2>2. CASE i # 1
    <3>1. j # 1 /\ i - 1 <= j - 1
      BY <1>7, <2>2
    <3>2. QED
      BY <1>1, <1>2, <1>4, <2>2, <3>1
  <2>3. QED
    BY <2>1, <2>2
<1>8. longer \in Bijection(1..(n + 1), T)
  BY <1>3, <1>5, <1>6 DEF Bijection, Injection, Surjection, IsInjective
<1>9. QED
  BY <1>7, <1>8 DEF Ascends

\* Every finite set can be sorted.
LEMMA SortedExists ==
  ASSUME NEW T, IsFiniteSet(T), NEW v, \A t \in T : v[t] \in Nat
  PROVE  \E order : Ascends(order, T, Cardinality(T), v)
<1> DEFINE Sortable(n) ==
             \A U \in SUBSET T : Cardinality(U) = n => \E order : Ascends(order, U, n, v)
           S == {n \in Nat : Sortable(n)}
<1>1. 0 \in S
  <2>1. ASSUME NEW U \in SUBSET T, Cardinality(U) = 0 PROVE \E order : Ascends(order, U, 0, v)
    <3>1. IsFiniteSet(U)
      BY FS_Subset
    <3>2. U = {}
      BY <2>1, <3>1, FS_EmptySet
    <3>3. 1..0 = {}
      OBVIOUS
    <3>4. [i \in {} |-> 0] \in Bijection({}, {})
      BY DEF Bijection, Injection, Surjection, IsInjective
    <3>5. Ascends([i \in {} |-> 0], U, 0, v)
      BY <3>2, <3>3, <3>4 DEF Ascends
    <3>6. QED
      BY <3>5
  <2>2. QED
    BY <2>1
<1>2. ASSUME NEW n \in S PROVE n + 1 \in S
  <2>1. ASSUME NEW U \in SUBSET T, Cardinality(U) = n + 1
        PROVE  \E order : Ascends(order, U, n + 1, v)
    <3>1. IsFiniteSet(U)
      BY FS_Subset
    <3>2. U # {}
      BY <2>1, <3>1, FS_EmptySet
    <3>3. PICK low \in {v[t] : t \in U} : \A x \in {v[t] : t \in U} : low <= x
      <4>1. {v[t] : t \in U} \in SUBSET Nat /\ {v[t] : t \in U} # {}
        BY <3>2
      <4>2. QED
        BY <4>1, LeastExists
    <3>4. PICK least \in U : v[least] = low
      BY <3>3
    <3>5. Cardinality(U \ {least}) = n
      <4>1. Cardinality(U \ {least}) = Cardinality(U) - 1
        BY <3>1, FS_RemoveElement
      <4>2. n \in Nat
        OBVIOUS
      <4>3. QED
        BY <2>1, <4>1, <4>2
    <3>6. PICK order : Ascends(order, U \ {least}, n, v)
      BY <3>5
    <3>7. \A t \in U : v[least] <= v[t] /\ v[t] \in Nat
      BY <3>3, <3>4
    <3>8. QED
      BY <3>6, <3>7, PutInFront
  <2>2. QED
    BY <2>1
<1> HIDE DEF S
<1>3. S = Nat
  BY <1>1, <1>2, Induction DEF S
<1>4. Cardinality(T) \in Nat
  BY FS_CardinalityType
<1>5. QED
  BY <1>3, <1>4 DEF S

\* An array has no more values than places.
LEMMA ValuesOfPlaces ==
  ASSUME NEW a \in Int, NEW b \in Int, NEW g
  PROVE  /\ IsFiniteSet({g[i] : i \in a..b})
         /\ Cardinality({g[i] : i \in a..b}) <= IF a > b THEN 0 ELSE b - a + 1
<1> DEFINE f == [i \in a..b |-> g[i]]
           I == {g[i] : i \in a..b}
<1>1. f \in Surjection(a..b, I)
  BY DEF Surjection
<1> HIDE DEF f, I
<1>2. IsFiniteSet(a..b) /\ Cardinality(a..b) = IF a > b THEN 0 ELSE b - a + 1
  BY FS_Interval
<1>3. IsFiniteSet(I) /\ Cardinality(I) <= Cardinality(a..b)
  BY <1>1, <1>2, FS_Surjection
<1>4. QED
  BY <1>2, <1>3 DEF I

\* A part of a set that has at most m elements has at most m.
LEMMA FewerThan ==
  ASSUME NEW U, IsFiniteSet(U), NEW m \in Nat, Cardinality(U) <= m, NEW R \in SUBSET U
  PROVE  IsFiniteSet(R) /\ Cardinality(R) <= m
<1>1. IsFiniteSet(R) /\ Cardinality(R) <= Cardinality(U)
  BY FS_Subset
<1>2. Cardinality(R) \in Nat /\ Cardinality(U) \in Nat
  BY <1>1, FS_CardinalityType
<1>3. QED
  BY <1>1, <1>2

\* At most so many of T are below a fee up to entry, and above one from entry on.
Separates(entry, T, v, below, above) ==
  \A fee \in Nat :
    /\ fee <= entry => /\ IsFiniteSet({t \in T : v[t] < fee})
                       /\ Cardinality({t \in T : v[t] < fee}) <= below
    /\ fee >= entry => /\ IsFiniteSet({t \in T : v[t] > fee})
                       /\ Cardinality({t \in T : v[t] > fee}) <= above

\* In a sorted array at most the entries before one are below it, and at most those
\* behind it above it.
LEMMA RankOfEntry ==
  ASSUME NEW T, NEW v, \A t \in T : v[t] \in Nat,
         NEW n \in Nat, NEW order, Ascends(order, T, n, v), NEW k \in 0..(n - 1)
  PROVE  v[order[k + 1]] \in Nat /\ Separates(v[order[k + 1]], T, v, k, n - 1 - k)
<1> DEFINE entry == v[order[k + 1]]
<1>1. /\ order \in [1..n -> T]
      /\ \A t \in T : \E i \in 1..n : order[i] = t
      /\ \A i, j \in 1..n : i <= j => v[order[i]] <= v[order[j]]
  BY DEF Ascends, Bijection, Surjection
<1>2. k + 1 \in 1..n
  OBVIOUS
<1>3. entry \in Nat
  BY <1>1, <1>2
<1>4. ASSUME NEW fee \in Nat, fee <= entry
      PROVE  IsFiniteSet({t \in T : v[t] < fee}) /\ Cardinality({t \in T : v[t] < fee}) <= k
  <2>1. {t \in T : v[t] < fee} \in SUBSET {order[i] : i \in 1..k}
    <3>1. SUFFICES ASSUME NEW t \in T, v[t] < fee PROVE t \in {order[i] : i \in 1..k}
      OBVIOUS
    <3>2. PICK i \in 1..n : order[i] = t
      BY <1>1
    <3>3. ~ (k + 1 <= i)
      BY <1>1, <1>2, <1>3, <1>4, <3>1, <3>2
    <3>4. i \in 1..k
      BY <3>3
    <3>5. QED
      BY <3>2, <3>4
  <2>2. IsFiniteSet({order[i] : i \in 1..k}) /\ Cardinality({order[i] : i \in 1..k}) <= k
    <3>1. (IF 1 > k THEN 0 ELSE k - 1 + 1) = k
      OBVIOUS
    <3>2. 1 \in Int /\ k \in Int
      OBVIOUS
    <3>3. QED
      BY <3>1, <3>2, ValuesOfPlaces
  <2>3. QED
    BY <2>1, <2>2, FewerThan
<1>5. ASSUME NEW fee \in Nat, fee >= entry
      PROVE  IsFiniteSet({t \in T : v[t] > fee}) /\ Cardinality({t \in T : v[t] > fee}) <= n - 1 - k
  <2>1. {t \in T : v[t] > fee} \in SUBSET {order[i] : i \in (k + 2)..n}
    <3>1. SUFFICES ASSUME NEW t \in T, v[t] > fee PROVE t \in {order[i] : i \in (k + 2)..n}
      OBVIOUS
    <3>2. PICK i \in 1..n : order[i] = t
      BY <1>1
    <3>3. ~ (i <= k + 1)
      BY <1>1, <1>2, <1>3, <1>5, <3>1, <3>2
    <3>4. i \in (k + 2)..n
      BY <3>3
    <3>5. QED
      BY <3>2, <3>4
  <2>2. /\ IsFiniteSet({order[i] : i \in (k + 2)..n})
        /\ Cardinality({order[i] : i \in (k + 2)..n}) <= n - 1 - k
    <3>1. (IF k + 2 > n THEN 0 ELSE n - (k + 2) + 1) = n - 1 - k
      OBVIOUS
    <3>2. k + 2 \in Int /\ n \in Int
      OBVIOUS
    <3>3. QED
      BY <3>1, <3>2, ValuesOfPlaces
  <2>3. n - 1 - k \in Nat
    OBVIOUS
  <2>4. QED
    BY <2>1, <2>2, <2>3, FewerThan
<1>6. QED
  BY <1>3, <1>4, <1>5 DEF Separates

\* Every position the percentile may come out at is an index, and close to the percentile.
LEMMA PositionIsPercentile ==
  ASSUME NEW n \in Nat \ {0}, NEW k \in Positions(n)
  PROVE  /\ k \in 0..(n - 1)
         /\ 100 * k <= Percentile * (n - 1)
         /\ 100 * (n - 1 - k) <= (100 - Percentile) * (n - 1) + 100
<1> DEFINE x == Percentile * (n - 1)
<1>1. \A p \in 0..100, m \in Nat :
        /\ p * m \in Nat /\ p * m <= 100 * m
        /\ (100 - p) * m = 100 * m - p * m
  OBVIOUS
<1>2. n - 1 \in Nat
  OBVIOUS
<1>3. x \in Nat /\ x <= 100 * (n - 1) /\ (100 - Percentile) * (n - 1) = 100 * (n - 1) - x
  BY <1>1, <1>2, PercentileAssumption
<1>4. k \in Nat /\ (k = x \div 100 \/ k = (x - 1) \div 100)
  BY DEF Positions
<1> HIDE DEF x
<1>5. 100 * k <= x /\ 100 * k >= x - 100
  BY <1>3, <1>4
<1>6. QED
  BY <1>2, <1>3, <1>4, <1>5 DEF x

\* The fees of a report, sorted.
LEMMA PaidIsSorted ==
  ASSUME NEW reported \in Reports
  PROVE  /\ IsFiniteSet(Paid(reported))
         /\ \A t \in Paid(reported) : reported[t] \in Nat
         /\ Ascends(Sorted(reported), Paid(reported), Cardinality(Paid(reported)), reported)
<1>1. PICK m \in 0..MaxSlots : reported \in [1..m -> Fees]
  BY DEF Reports
<1>2. m \in Nat
  BY BoundsAssumption
<1>3. Paid(reported) \in SUBSET (1..m)
  BY <1>1 DEF Paid
<1>4. IsFiniteSet(1..m)
  BY <1>2, FS_Interval
<1>5. IsFiniteSet(Paid(reported))
  BY <1>3, <1>4, FS_Subset
<1>6. \A t \in Paid(reported) : reported[t] \in Nat
  BY <1>1, <1>3, FeesAssumption
<1> DEFINE T == Paid(reported)
<1> HIDE DEF T
<1>7. \E order : Ascends(order, T, Cardinality(T), reported)
  BY <1>5, <1>6, SortedExists DEF T
<1>8. \E order \in Bijection(1..Cardinality(T), T) :
        \A i, j \in 1..Cardinality(T) : i <= j => reported[order[i]] <= reported[order[j]]
  BY <1>7 DEF Ascends
<1>9. Sorted(reported) = CHOOSE order \in Bijection(1..Cardinality(T), T) :
        \A i, j \in 1..Cardinality(T) : i <= j => reported[order[i]] <= reported[order[j]]
  BY DEF Sorted, T
<1>10. Ascends(Sorted(reported), T, Cardinality(T), reported)
  BY <1>8, <1>9 DEF Ascends
<1>11. QED
  BY <1>5, <1>6, <1>10 DEF T

\* What getDynamicPriorityFee returns.
LEMMA FeeIsPercentile ==
  ASSUME NEW reported \in Reports, NEW b \in DynamicPriorityFees(reported)
  PROVE  LET n     == Cardinality(Paid(reported))
             lower == Cardinality({i \in Paid(reported) : reported[i] < b})
             upper == Cardinality({i \in Paid(reported) : reported[i] > b})
         IN  /\ b \in MinFee..MaxFee
             /\ n = 0 => b = MinFee
             /\ n > 0 /\ b > MinFee => 100 * lower <= Percentile * (n - 1)
             /\ n > 0 /\ b < MaxFee => 100 * upper <= (100 - Percentile) * (n - 1) + 100
<1> DEFINE T     == Paid(reported)
           n     == Cardinality(T)
           lower == {i \in T : reported[i] < b}
           upper == {i \in T : reported[i] > b}
<1>1. /\ IsFiniteSet(T) /\ \A t \in T : reported[t] \in Nat
      /\ Ascends(Sorted(reported), T, n, reported)
  BY PaidIsSorted
<1>2. n \in Nat /\ (n = 0 <=> T = {})
  BY <1>1, FS_CardinalityType, FS_EmptySet
<1>3. CASE T = {}
  <2>1. b = MinFee /\ n = 0
    BY <1>2, <1>3 DEF DynamicPriorityFees
  <2>2. b \in MinFee..MaxFee
    BY <2>1, FeesAssumption
  <2> HIDE DEF n, lower, upper
  <2>3. b \in MinFee..MaxFee /\ b = MinFee /\ ~ (n > 0)
    BY <2>1, <2>2
  <2>4. QED
    BY <2>3 DEF n, lower, upper
<1>4. CASE T # {}
  <2>1. PICK k \in Positions(n) : b = Clamp(reported[Sorted(reported)[1 + k]])
    BY <1>4 DEF DynamicPriorityFees
  <2>2. n \in Nat \ {0}
    BY <1>2, <1>4
  <2> DEFINE entry == reported[Sorted(reported)[k + 1]]
             order == Sorted(reported)
  <2> HIDE DEF n, T, order
  <2>3. k \in 0..(n - 1) /\ 100 * k <= Percentile * (n - 1)
        /\ 100 * (n - 1 - k) <= (100 - Percentile) * (n - 1) + 100
    BY <2>2, PositionIsPercentile
  <2>4. 1 + k = k + 1
    BY <2>3
  <2>5. b = Clamp(reported[order[k + 1]])
    BY <2>1, <2>4 DEF order
  <2>6. reported[order[k + 1]] \in Nat /\ Separates(reported[order[k + 1]], T, reported, k, n - 1 - k)
    BY <1>1, <2>2, <2>3, RankOfEntry DEF order
  <2>7. /\ b \in Nat /\ b \in MinFee..MaxFee
        /\ b > MinFee => b <= reported[order[k + 1]]
        /\ b < MaxFee => b >= reported[order[k + 1]]
    BY <2>5, <2>6, FeesAssumption DEF Clamp
  <2>8. b > MinFee => IsFiniteSet(lower) /\ Cardinality(lower) <= k
    BY <2>6, <2>7 DEF Separates
  <2>9. b < MaxFee => IsFiniteSet(upper) /\ Cardinality(upper) <= n - 1 - k
    BY <2>6, <2>7 DEF Separates
  <2> DEFINE least == Percentile * (n - 1)
             most  == (100 - Percentile) * (n - 1)
  <2>10. least \in Int /\ most \in Int
    BY <2>2, PercentileAssumption
  <2> HIDE DEF lower, upper, least, most
  <2>11. b > MinFee => 100 * Cardinality(lower) <= least
    <3>1. SUFFICES ASSUME b > MinFee PROVE 100 * Cardinality(lower) <= least
      OBVIOUS
    <3>2. Cardinality(lower) \in Nat
      BY <2>8, <3>1, FS_CardinalityType
    <3>3. QED
      BY <2>3, <2>8, <2>10, <3>1, <3>2 DEF least
  <2>12. b < MaxFee => 100 * Cardinality(upper) <= most + 100
    <3>1. SUFFICES ASSUME b < MaxFee PROVE 100 * Cardinality(upper) <= most + 100
      OBVIOUS
    <3>2. Cardinality(upper) \in Nat
      BY <2>9, <3>1, FS_CardinalityType
    <3>3. QED
      BY <2>2, <2>3, <2>9, <2>10, <3>1, <3>2 DEF most
  <2>13. n # 0
    BY <2>2
  <2>14. QED
    BY <2>7, <2>11, <2>12, <2>13 DEF lower, upper, least, most, n, T
<1>5. QED
  BY <1>3, <1>4

-----------------------------------------------------------------------------
(* The invariant.                                                           *)

Typed ==
  /\ who \in {"sender", "program", "producer"}
  /\ attempt \in 1..MaxAttempts /\ waited \in Nat
  /\ job \in [attempts : 0..9, at : Int, after : Int]

AmountsInv == Typed /\ BidIsPercentile /\ WaitBounded /\ DueIsExact /\ DelayKept

LEMMA InitHolds == Init => AmountsInv
<1> SUFFICES ASSUME Init PROVE AmountsInv
  OBVIOUS
<1>1. Typed
  BY RetryAssumption DEF Init, Typed
<1>2. BidIsPercentile
  BY DEF Init, BidIsPercentile
<1>3. WaitBounded
  <2>1. attempt - 1 = 0 /\ waited = 0 /\ Planned(0) = 0
    BY PlannedStep DEF Init
  <2>2. 0 < MaxAttempts /\ Jitter \in 0..100
    BY RetryAssumption
  <2> HIDE DEF Planned
  <2>3. \A u \in 0..100 : /\ 100 * 0 <= (100 + u) * 0 + 50 * 0
                          /\ 100 * 0 >= (100 - u) * 0 - 50 * 0
    OBVIOUS
  <2>4. QED
    BY <2>1, <2>2, <2>3 DEF WaitBounded
<1>4. DueIsExact /\ DelayKept
  BY DEF Init, DueIsExact, DelayKept
<1>5. QED
  BY <1>1, <1>2, <1>3, <1>4 DEF AmountsInv

LEMMA BidHolds == AmountsInv /\ Bid => AmountsInv'
<1> SUFFICES ASSUME AmountsInv, Bid PROVE AmountsInv'
  OBVIOUS
<1>1. UNCHANGED <<who, attempt, waited, job, due>>
  BY DEF Bid
<1>2. Typed' /\ WaitBounded' /\ DueIsExact' /\ DelayKept'
  BY <1>1 DEF AmountsInv, Typed, WaitBounded, DueIsExact, DelayKept
<1>3. PICK reported \in Reports : slots' = reported /\ bid' \in DynamicPriorityFees(reported)
  BY DEF Bid
<1>4. BidIsPercentile'
  <2>1. LET n     == Cardinality(Paid(reported))
            lower == Cardinality({i \in Paid(reported) : reported[i] < bid'})
            upper == Cardinality({i \in Paid(reported) : reported[i] > bid'})
        IN  /\ bid' \in MinFee..MaxFee
            /\ n = 0 => bid' = MinFee
            /\ n > 0 /\ bid' > MinFee => 100 * lower <= Percentile * (n - 1)
            /\ n > 0 /\ bid' < MaxFee => 100 * upper <= (100 - Percentile) * (n - 1) + 100
    BY <1>3, FeeIsPercentile, Zenon
  <2>2. Paid(slots)' = Paid(reported) /\ slots' = reported
    BY <1>3 DEF Paid
  <2>3. QED
    BY <2>1, <2>2, Zenon DEF BidIsPercentile
<1>5. QED
  BY <1>2, <1>4 DEF AmountsInv

LEMMA PauseHolds == AmountsInv /\ Pause => AmountsInv'
<1> SUFFICES ASSUME AmountsInv, Pause PROVE AmountsInv'
  OBVIOUS
<1> DEFINE k == attempt - 1
<1>1. /\ attempt \in 1..MaxAttempts /\ waited \in Nat /\ attempt < MaxAttempts
      /\ MaxAttempts \in Nat /\ attempt' = attempt + 1
  BY RetryAssumption DEF AmountsInv, Typed, Pause
<1>2. PICK draw \in Draws : waited' = waited + BackoffDelay(attempt, draw)
  BY DEF Pause
<1> DEFINE pause == BackoffDelay(attempt, draw)
           base  == BaseDelay * Power(Multiplier)[k]
<1>3. /\ pause \in Nat
      /\ 100 * pause <= (100 + Jitter) * base + 50
      /\ 100 * pause >= (100 - Jitter) * base - 50
  BY <1>1, <1>2, PauseInJitter
<1>4. Planned(k) \in Nat /\ Planned(k + 1) = Planned(k) + base
  BY <1>1, PlannedStep
<1>5. base \in Nat
  <2>1. Power(Multiplier)[k] \in Nat
    BY <1>1, RetryAssumption, PowerPositive
  <2>2. \A u, v \in Nat : u * v \in Nat
    OBVIOUS
  <2>3. QED
    BY <2>1, <2>2, RetryAssumption
<1>6. /\ k < MaxAttempts
      /\ 100 * waited <= (100 + Jitter) * Planned(k) + 50 * k
      /\ 100 * waited >= (100 - Jitter) * Planned(k) - 50 * k
  BY DEF AmountsInv, WaitBounded
<1>7. attempt' - 1 = k + 1 /\ k + 1 < MaxAttempts /\ waited' = waited + pause /\ k \in Nat
  BY <1>1, <1>2
<1>8. Typed'
  <2>1. who' = who /\ job' = job
    BY DEF Pause
  <2> HIDE DEF pause
  <2>2. attempt' \in 1..MaxAttempts /\ waited' \in Nat
    BY <1>1, <1>3, <1>7
  <2>3. QED
    BY <2>1, <2>2 DEF AmountsInv, Typed
<1>9. WaitBounded'
  <2> DEFINE total == Planned(k)
  <2>1. total \in Nat /\ Planned(k + 1) = total + base
    BY <1>4
  <2>2. \A j \in 0..100, u, v \in Nat :
          /\ (100 + j) * u \in Int /\ (100 + j) * v \in Int
          /\ (100 - j) * u \in Int /\ (100 - j) * v \in Int
          /\ (100 + j) * (u + v) = (100 + j) * u + (100 + j) * v
          /\ (100 - j) * (u + v) = (100 - j) * u + (100 - j) * v
    OBVIOUS
  <2>3. Jitter \in 0..100
    BY RetryAssumption
  <2> HIDE DEF total, base, pause, k
  <2>4. /\ (100 + Jitter) * total \in Int /\ (100 + Jitter) * base \in Int
        /\ (100 - Jitter) * total \in Int /\ (100 - Jitter) * base \in Int
        /\ (100 + Jitter) * (total + base) = (100 + Jitter) * total + (100 + Jitter) * base
        /\ (100 - Jitter) * (total + base) = (100 - Jitter) * total + (100 - Jitter) * base
    BY <1>5, <2>1, <2>2, <2>3
  <2>5. /\ 100 * waited <= (100 + Jitter) * total + 50 * k
        /\ 100 * waited >= (100 - Jitter) * total - 50 * k
    BY <1>6 DEF total
  <2> DEFINE a == (100 + Jitter) * total
             b == (100 + Jitter) * base
             c == (100 - Jitter) * total
             d == (100 - Jitter) * base
  <2>6. a \in Int /\ b \in Int /\ c \in Int /\ d \in Int
        /\ 100 * waited <= a + 50 * k /\ 100 * waited >= c - 50 * k
        /\ 100 * pause <= b + 50 /\ 100 * pause >= d - 50
    BY <1>3, <2>4, <2>5
  <2> HIDE DEF a, b, c, d
  <2>7. /\ 100 * (waited + pause) <= (a + b) + 50 * (k + 1)
        /\ 100 * (waited + pause) >= (c + d) - 50 * (k + 1)
    BY <1>1, <1>3, <1>7, <2>6
  <2>8. /\ 100 * (waited + pause) <= (100 + Jitter) * Planned(k + 1) + 50 * (k + 1)
        /\ 100 * (waited + pause) >= (100 - Jitter) * Planned(k + 1) - 50 * (k + 1)
    BY <2>1, <2>4, <2>7 DEF a, b, c, d
  <2>9. QED
    BY <1>7, <2>8 DEF WaitBounded
<1>10. BidIsPercentile' /\ DueIsExact' /\ DelayKept'
  BY DEF Pause, BidIsPercentile, AmountsInv, DueIsExact, DelayKept
<1>11. QED
  BY <1>8, <1>9, <1>10 DEF AmountsInv

LEMMA RetryHolds == AmountsInv /\ RetryJob => AmountsInv'
<1> SUFFICES ASSUME AmountsInv, RetryJob PROVE AmountsInv'
  OBVIOUS
<1>1. UNCHANGED <<who, slots, bid, attempt, waited>> /\ who = "program"
  BY DEF RetryJob
<1>2. BidIsPercentile' /\ WaitBounded' /\ DelayKept'
  BY <1>1 DEF AmountsInv, BidIsPercentile, WaitBounded, DelayKept
<1> DEFINE n == job.attempts + 1
<1>3. PICK now \in Times, after \in Delays :
        job' = [attempts |-> n, at |-> now, after |-> after] /\ due' = RetryAt(now, after, n)
  BY DEF RetryJob
<1>4. n \in 1..9
  BY DEF AmountsInv, Typed, RetryJob
<1>5. now \in Int /\ after \in Int
  BY IntegersAssumption, IntegerRange
<1>6. Typed'
  BY <1>1, <1>3, <1>4, <1>5 DEF AmountsInv, Typed
<1> HIDE DEF n
<1>7. DueIsExact'
  <2>1. /\ after >= 0 /\ now + after * Power(2)[n - 1] <= MaxInt => due' = now + after * Power(2)[n - 1]
        /\ now > 0 /\ now + after * Power(2)[n - 1] > MaxInt => due' < now
        /\ after < 0 => due' < now
    BY <1>3, <1>4, RetryAtExact
  <2>2. /\ job'.attempts = n /\ job'.at = now /\ job'.after = after
        /\ Power(2)' = Power(2) /\ MaxInt' = MaxInt
    BY <1>3
  <2>3. QED
    BY <2>1, <2>2 DEF DueIsExact
<1>8. QED
  BY <1>2, <1>6, <1>7 DEF AmountsInv

LEMMA DelayHolds == AmountsInv /\ DelayJob => AmountsInv'
<1> SUFFICES ASSUME AmountsInv, DelayJob PROVE AmountsInv'
  OBVIOUS
<1>1. UNCHANGED <<who, slots, bid, attempt, waited>> /\ who = "producer"
  BY DEF DelayJob
<1>2. BidIsPercentile' /\ WaitBounded' /\ DueIsExact'
  BY <1>1 DEF AmountsInv, BidIsPercentile, WaitBounded, DueIsExact
<1>3. PICK now \in Instants, pause \in Pauses :
        job' = [attempts |-> 0, at |-> now, after |-> pause] /\ due' = ExecuteAfter(now, pause)
  BY DEF DelayJob
<1>4. now \in Nat /\ pause \in Nat
  BY BoundsAssumption
<1>5. Typed'
  BY <1>1, <1>3, <1>4 DEF AmountsInv, Typed
<1>6. due' > 0 => 1000 * due' <= now + pause /\ now + pause - 1000 * due' < 2000
  BY <1>3, <1>4, ExecuteAfterKept
<1>7. DelayKept'
  BY <1>3, <1>6 DEF DelayKept
<1>8. QED
  BY <1>2, <1>5, <1>7 DEF AmountsInv

\* The invariant holds of every behaviour.
LEMMA AmountsInvariant == Spec => []AmountsInv
<1>1. AmountsInv /\ [Next]_vars => AmountsInv'
  <2>1. SUFFICES ASSUME AmountsInv, [Next]_vars PROVE AmountsInv'
    OBVIOUS
  <2>2. CASE UNCHANGED vars
    BY <2>1, <2>2 DEF vars, AmountsInv, Typed, BidIsPercentile, WaitBounded, DueIsExact, DelayKept
  <2>3. QED
    BY <2>1, <2>2, BidHolds, PauseHolds, RetryHolds, DelayHolds DEF Next
<1>2. QED
  BY InitHolds, <1>1, PTL DEF Spec

-----------------------------------------------------------------------------
(* Theorems.                                                                *)

(* For any number of slots and any fees, a bid is the configured percentile  *)
(* of the fees that were paid, between floor and cap                         *)
(* (getDynamicPriorityFee, fee-strategy.ts:210-251).                         *)
THEOREM BidAlwaysPercentile == Spec => []BidIsPercentile
BY AmountsInvariant, PTL DEF AmountsInv

(* For any number of attempts, base, multiplier and jitter up to 100%, the   *)
(* pauses of a send add up to those of an exponential backoff, but for       *)
(* jitter and rounding (send with backoffDelayMs, fee-strategy.ts:444-598).  *)
THEOREM WaitAlwaysBounded == Spec => []WaitBounded
BY AmountsInvariant, PTL DEF AmountsInv

(* For integers of any width from 10 bits on, the time of a retry is exact   *)
(* wherever it is one of them, and is due at once beyond, as with a negative *)
(* delay (fail_job, lib.rs:418-429).                                         *)
THEOREM DueAlwaysExact == Spec => []DueIsExact
BY AmountsInvariant, PTL DEF AmountsInv

(* For any clock and any delay, a delayed job is not due late, and less than *)
(* two seconds early (buildExecuteAfter, decqueue-core.ts:97-107).           *)
THEOREM DelayAlwaysKept == Spec => []DelayKept
BY AmountsInvariant, PTL DEF AmountsInv
=============================================================================
