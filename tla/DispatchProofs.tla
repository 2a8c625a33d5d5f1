---------------------------- MODULE DispatchProofs ----------------------------
(***************************************************************************)
(* Proofs about Dispatch, and with it LoadBalancer and RetryStrategies,    *)
(* for any paths, URLs, weights and retry configurations.                  *)
(*                                                                         *)
(* The argument: a strategy is the one of its configuration, stepped once  *)
(* for each delay that it gave, so that the next delay follows from those  *)
(* before; a route has the URLs of a path that covers the request; and a   *)
(* counter is the number of calls so far modulo the turns of its path, as  *)
(* a count of connections is the number of times its URL was given.  What  *)
(* powers and sums of weights are is proved by induction over sets of      *)
(* numbers.                                                                *)
(***************************************************************************)
EXTENDS Dispatch, WellFoundedInduction, FiniteSetTheorems, SequenceTheorems, TLAPS

(* Induction over the natural numbers, for sets of them. *)

LEMMA LeastNatural ==
    ASSUME NEW S, S \subseteq Nat, S # {}
    PROVE  Min(S) \in S /\ \A n \in S : Min(S) <= n
<1>1. PICK n \in S : \A m \in S : <<m, n>> \notin OpToRel(<, Nat)
  BY NatLessThanWellFounded, WFMin
<1>2. \A m \in S : ~ (m < n)
  BY <1>1 DEF OpToRel
<1>3. \A m \in S : n <= m
  BY <1>2
<1> QED BY <1>3 DEF Min

LEMMA SetInduction ==
    ASSUME NEW S, 0 \in S, \A n \in Nat : n \in S => n + 1 \in S
    PROVE  Nat \subseteq S
<1> SUFFICES ASSUME Nat \ S # {} PROVE FALSE
  OBVIOUS
<1> DEFINE n == Min(Nat \ S)
<1>1. n \in Nat \ S /\ \A m \in Nat \ S : n <= m
  BY LeastNatural
<1>2. n # 0 /\ n - 1 \in Nat /\ n - 1 \in S
  BY <1>1
<1> QED BY <1>1, <1>2

\* A recursive function from numbers to numbers exists.
LEMMA Iteration ==
    ASSUME NEW base \in Nat, NEW step \in [Nat -> [Nat -> Nat]]
    PROVE  \E f \in [Nat -> Nat] : f[0] = base /\ \A n \in Nat : f[n + 1] = step[n][f[n]]
<1> DEFINE Follows(g, n) == /\ g \in [0..n -> Nat]
                            /\ g[0] = base
                            /\ \A m \in 0..n - 1 : g[m + 1] = step[m][g[m]]
<1>1. \A n \in Nat : \E g : Follows(g, n)
  <2> DEFINE S == {n \in Nat : \E g : Follows(g, n)}
  <2>1. 0 \in S
    <3>1. Follows([i \in 0..0 |-> base], 0)
      OBVIOUS
    <3> QED BY <3>1
  <2>2. ASSUME NEW n \in Nat, n \in S PROVE n + 1 \in S
    <3>1. PICK g : Follows(g, n)
      BY <2>2
    <3> DEFINE h == [i \in 0..n + 1 |-> IF i <= n THEN g[i] ELSE step[n][g[n]]]
    <3>2. h \in [0..n + 1 -> Nat]
      <4>0. n \in 0..n
        OBVIOUS
      <4>1. g[n] \in Nat /\ step[n][g[n]] \in Nat
        BY <3>1, <4>0
      <4>2. ASSUME NEW i \in 0..n + 1, i <= n PROVE g[i] \in Nat
        <5>1. i \in 0..n
          BY <4>2
        <5> QED BY <3>1, <5>1
      <4> QED BY <4>1, <4>2
    <3>3. h[0] = base
      <4>1. 0 \in 0..n + 1 /\ 0 <= n
        OBVIOUS
      <4> QED BY <3>1, <4>1
    <3>4. ASSUME NEW m \in 0..n PROVE h[m + 1] = step[m][h[m]]
      <4>1. CASE m = n
        BY <4>1
      <4>2. CASE m # n
        <5>1. m \in 0..n - 1 /\ m + 1 \in 0..n + 1 /\ m \in 0..n + 1 /\ m + 1 <= n
          BY <4>2
        <5>2. h[m + 1] = g[m + 1] /\ h[m] = g[m]
          BY <5>1
        <5> QED BY <5>1, <5>2, <3>1
      <4> QED BY <4>1, <4>2
    <3>5. 0..(n + 1) - 1 = 0..n
      OBVIOUS
    <3> HIDE DEF h
    <3>6. Follows(h, n + 1)
      BY <3>2, <3>3, <3>4, <3>5
    <3> HIDE DEF Follows
    <3> QED BY <3>6
  <2> HIDE DEF S
  <2>3. Nat \subseteq S
    BY <2>1, <2>2, SetInduction
  <2> QED BY <2>3 DEF S
<1>2. ASSUME NEW n \in Nat, NEW g, Follows(g, n), NEW h, Follows(h, n + 1)
      PROVE  g[n] = h[n]
  <2> DEFINE S == {m \in Nat : m <= n => g[m] = h[m]}
  <2>1. 0 \in S
    BY <1>2
  <2>2. ASSUME NEW m \in Nat, m \in S PROVE m + 1 \in S
    <3>1. CASE m + 1 <= n
      <4>1. m \in 0..n - 1 /\ m \in 0..(n + 1) - 1 /\ g[m] = h[m]
        BY <2>2, <3>1
      <4>2. g[m + 1] = h[m + 1]
        BY <4>1, <1>2
      <4>3. m + 1 \in Nat
        OBVIOUS
      <4> HIDE DEF Follows
      <4> QED BY <4>2, <4>3
    <3>2. CASE ~ (m + 1 <= n)
      BY <3>2
    <3> QED BY <3>1, <3>2
  <2>3. Nat \subseteq S
    <3> HIDE DEF S
    <3> QED BY <2>1, <2>2, SetInduction
  <2>4. n \in S
    BY <2>3
  <2> QED BY <2>4
<1> DEFINE best == [n \in Nat |-> CHOOSE g : Follows(g, n)]
           f    == [n \in Nat |-> best[n][n]]
<1>3. \A n \in Nat : Follows(best[n], n)
  <2> HIDE DEF Follows
  <2> QED BY <1>1
<1> HIDE DEF best
<1>4. f \in [Nat -> Nat]
  <2>1. ASSUME NEW n \in Nat PROVE best[n][n] \in Nat
    <3>1. Follows(best[n], n)
      <4> HIDE DEF Follows
      <4> QED BY <1>3
    <3>2. n \in 0..n
      OBVIOUS
    <3> QED BY <3>1, <3>2
  <2> QED BY <2>1
<1>5. f[0] = base
  BY <1>3
<1>6. ASSUME NEW n \in Nat PROVE f[n + 1] = step[n][f[n]]
  <2>1. best[n][n] = best[n + 1][n]
    <3> HIDE DEF Follows
    <3>1. Follows(best[n], n) /\ Follows(best[n + 1], n + 1)
      BY <1>3
    <3> QED BY <1>2, <3>1
  <2>2. best[n + 1][n + 1] = step[n][best[n + 1][n]]
    <3>1. Follows(best[n + 1], n + 1)
      <4> HIDE DEF Follows
      <4> QED BY <1>3
    <3>2. n \in 0..(n + 1) - 1
      OBVIOUS
    <3> QED BY <3>1, <3>2
  <2>3. f[n + 1] = best[n + 1][n + 1] /\ f[n] = best[n][n]
    OBVIOUS
  <2> HIDE DEF f
  <2> QED BY <2>1, <2>2, <2>3
<1> HIDE DEF f
<1> QED BY <1>4, <1>5, <1>6

LEMMA PowerStep ==
    ASSUME NEW a \in Nat
    PROVE  /\ Power(a, 0) = 1
           /\ \A n \in Nat : Power(a, n) \in Nat /\ Power(a, n + 1) = a * Power(a, n)
<1> DEFINE step == [n \in Nat |-> [v \in Nat |-> a * v]]
           IsPower(g) == g = [m \in Nat |-> IF m = 0 THEN 1 ELSE a * g[m - 1]]
           power == CHOOSE g : IsPower(g)
<1>1. \E g : IsPower(g)
  <2>1. step \in [Nat -> [Nat -> Nat]]
    OBVIOUS
  <2>2. PICK f \in [Nat -> Nat] : f[0] = 1 /\ \A n \in Nat : f[n + 1] = step[n][f[n]]
    <3> HIDE DEF step
    <3>1. 1 \in Nat
      OBVIOUS
    <3> QED BY <2>1, <3>1, Iteration
  <2>3. ASSUME NEW m \in Nat PROVE f[m] = IF m = 0 THEN 1 ELSE a * f[m - 1]
    <3>1. CASE m = 0
      BY <2>2, <3>1
    <3>2. CASE m # 0
      <4>1. m - 1 \in Nat /\ (m - 1) + 1 = m
        BY <3>2
      <4>2. f[(m - 1) + 1] = step[m - 1][f[m - 1]] /\ f[m - 1] \in Nat
        BY <2>2, <4>1
      <4> QED BY <4>1, <4>2, <3>2
    <3> QED BY <3>1, <3>2
  <2>4. IsPower(f)
    BY <2>2, <2>3
  <2> QED BY <2>4
<1>2. IsPower(power)
  <2> HIDE DEF IsPower
  <2> QED BY <1>1
<1>3. \A n : Power(a, n) = power[n]
  BY DEF Power
<1> HIDE DEF power
<1>4. power[0] = 1 /\ \A n \in Nat : power[n + 1] = a * power[n]
  BY <1>2
<1>5. \A n \in Nat : power[n] \in Nat
  <2> DEFINE S == {n \in Nat : power[n] \in Nat}
  <2>1. 0 \in S /\ \A n \in Nat : n \in S => n + 1 \in S
    BY <1>4
  <2>2. Nat \subseteq S
    <3> HIDE DEF S
    <3> QED BY <2>1, SetInduction
  <2> QED BY <2>2
<1> QED BY <1>3, <1>4, <1>5

LEMMA SumToStep ==
    ASSUME NEW s \in Seq(Nat)
    PROVE  /\ SumTo(s, 0) = 0
           /\ \A i \in 0..Len(s) : SumTo(s, i) \in Nat
           /\ \A i \in 1..Len(s) : SumTo(s, i) = SumTo(s, i - 1) + s[i]
<1> DEFINE step == [n \in Nat |-> [v \in Nat |-> IF n + 1 \in 1..Len(s) THEN v + s[n + 1] ELSE v]]
           IsSum(g) == g = [j \in 0..Len(s) |-> IF j = 0 THEN 0 ELSE g[j - 1] + s[j]]
           sum == CHOOSE g : IsSum(g)
<1>1. \E g : IsSum(g)
  <2>1. step \in [Nat -> [Nat -> Nat]]
    OBVIOUS
  <2>2. PICK f \in [Nat -> Nat] : f[0] = 0 /\ \A n \in Nat : f[n + 1] = step[n][f[n]]
    <3> HIDE DEF step
    <3> QED BY <2>1, Iteration
  <2> DEFINE g == [j \in 0..Len(s) |-> f[j]]
  <2>3. ASSUME NEW m \in 0..Len(s) PROVE g[m] = IF m = 0 THEN 0 ELSE g[m - 1] + s[m]
    <3>1. CASE m = 0
      BY <2>2, <3>1
    <3>2. CASE m # 0
      <4>1. m - 1 \in 0..Len(s) /\ m - 1 \in Nat /\ (m - 1) + 1 = m /\ m \in 1..Len(s)
        BY <3>2
      <4>2. f[(m - 1) + 1] = step[m - 1][f[m - 1]] /\ f[m - 1] \in Nat
        BY <2>2, <4>1
      <4>3. f[m] = f[m - 1] + s[m]
        BY <4>1, <4>2
      <4> QED BY <4>1, <4>3, <3>2
    <3> QED BY <3>1, <3>2
  <2>4. IsSum(g)
    BY <2>3
  <2> QED BY <2>4
<1>2. IsSum(sum)
  <2> HIDE DEF IsSum
  <2> QED BY <1>1
<1>3. \A i : SumTo(s, i) = sum[i]
  BY DEF SumTo
<1> HIDE DEF sum
<1>4. sum[0] = 0 /\ \A i \in 1..Len(s) : sum[i] = sum[i - 1] + s[i]
  BY <1>2
<1>5. \A i \in 0..Len(s) : sum[i] \in Nat
  <2> DEFINE S == {n \in Nat : n <= Len(s) => sum[n] \in Nat}
  <2>1. 0 \in S
    BY <1>4
  <2>2. ASSUME NEW n \in Nat, n \in S PROVE n + 1 \in S
    <3>1. CASE n + 1 <= Len(s)
      BY <1>4, <2>2, <3>1
    <3> QED BY <3>1
  <2>3. Nat \subseteq S
    <3> HIDE DEF S
    <3> QED BY <2>1, <2>2, SetInduction
  <2> QED BY <2>3
<1> QED BY <1>3, <1>4, <1>5

-----------------------------------------------------------------------------
(* The retry strategies. *)

LEMMA PowerPositive ==
    ASSUME NEW a \in Nat \ {0}, NEW n \in Nat
    PROVE  Power(a, n) >= 1
<1> DEFINE S == {m \in Nat : Power(a, m) >= 1}
<1>1. 0 \in S
  BY PowerStep
<1>2. ASSUME NEW m \in Nat, m \in S PROVE m + 1 \in S
  <2>1. Power(a, m) \in Nat /\ Power(a, m) >= 1 /\ Power(a, m + 1) = a * Power(a, m)
    BY <1>2, PowerStep
  <2>2. \A p \in Nat : p >= 1 => a * p >= 1
    OBVIOUS
  <2> QED BY <2>1, <2>2
<1>3. Nat \subseteq S
  <2> HIDE DEF S
  <2> QED BY <1>1, <1>2, SetInduction
<1> QED BY <1>3

\* The power of the greater number gains on that of the smaller one.
LEMMA PowerGains ==
    ASSUME NEW p \in Nat, NEW q \in Nat, p <= q, NEW i \in Nat, NEW k \in Nat
    PROVE  Power(p, i + k) * Power(q, i) <= Power(p, i) * Power(q, i + k)
<1> DEFINE S == {m \in Nat : Power(p, i + m) * Power(q, i) <= Power(p, i) * Power(q, i + m)}
<1>0. \A m \in Nat : /\ Power(p, m) \in Nat /\ Power(q, m) \in Nat
                     /\ Power(p, m + 1) = p * Power(p, m)
                     /\ Power(q, m + 1) = q * Power(q, m)
  BY PowerStep
<1>1. 0 \in S
  BY <1>0
<1>2. ASSUME NEW m \in Nat, m \in S PROVE m + 1 \in S
  <2> DEFINE a == Power(p, i + m)
             b == Power(q, i)
             c == Power(p, i)
             d == Power(q, i + m)
  <2>1. /\ a \in Nat /\ b \in Nat /\ c \in Nat /\ d \in Nat
        /\ a * b <= c * d
        /\ i + (m + 1) = (i + m) + 1 /\ i + m \in Nat
    BY <1>0, <1>2
  <2>2. Power(p, i + (m + 1)) = p * a /\ Power(q, i + (m + 1)) = q * d
    BY <1>0, <2>1
  <2> HIDE DEF a, b, c, d
  <2>3. \A x, y \in Nat : x <= y => p * x <= q * y
    <3> TAKE x, y \in Nat
    <3> HAVE x <= y
    <3>1. p * x <= p * y /\ p * y <= q * y
      OBVIOUS
    <3>2. p * x \in Nat /\ p * y \in Nat /\ q * y \in Nat
      OBVIOUS
    <3> QED BY <3>1, <3>2
  <2>4. p * (a * b) <= q * (c * d)
    <3>1. a * b \in Nat /\ c * d \in Nat
      BY <2>1
    <3> QED BY <2>1, <2>3, <3>1
  <2>5. (p * a) * b = p * (a * b) /\ c * (q * d) = q * (c * d)
    BY <2>1
  <2>6. (p * a) * b <= c * (q * d)
    BY <2>4, <2>5
  <2> QED BY <2>2, <2>6 DEF b, c
<1>3. Nat \subseteq S
  <2> HIDE DEF S
  <2> QED BY <1>1, <1>2, SetInduction
<1> QED BY <1>3

LEMMA DivBounds ==
    ASSUME NEW a \in Nat, NEW b \in Nat \ {0}
    PROVE  a \div b \in Nat /\ b * (a \div b) <= a /\ a < b * ((a \div b) + 1)
OBVIOUS

LEMMA DivLeast ==
    ASSUME NEW a \in Nat, NEW b \in Nat \ {0}, NEW q \in Nat, a < b * (q + 1)
    PROVE  a \div b <= q
<1> DEFINE p == a \div b
<1>1. p \in Nat /\ b * p <= a
  BY DivBounds
<1> HIDE DEF p
<1>2. b * p < b * (q + 1)
  BY <1>1
<1>3. p < q + 1
  BY <1>1, <1>2
<1>4. p <= q
  BY <1>1, <1>3
<1> QED BY <1>4 DEF p

LEMMA DivOrder ==
    ASSUME NEW a \in Nat, NEW b \in Nat \ {0}, NEW c \in Nat \ {0}, c <= b
    PROVE  a \div b <= a \div c
<1> DEFINE q == a \div c
<1>1. q \in Nat /\ a < c * (q + 1)
  BY DivBounds
<1> HIDE DEF q
<1>2. c * (q + 1) <= b * (q + 1)
  BY <1>1
<1>3. a < b * (q + 1)
  BY <1>1, <1>2
<1> QED BY <1>1, <1>3, DivLeast DEF q

\* A rounded fraction is half a unit off at most, and even where it is off by that.
LEMMA RoundedFacts ==
    ASSUME NEW a \in Nat, NEW b \in Nat \ {0}
    PROVE  LET x == Rounded(a, b)
           IN  /\ x \in Nat
               /\ 2 * (b * x) <= 2 * a + b
               /\ 2 * a <= 2 * (b * x) + b
               /\ 2 * a = 2 * (b * x) + b => x % 2 = 0
               /\ 2 * (b * x) = 2 * a + b => x % 2 = 0
               /\ x # 0 <=> b < 2 * a
               /\ b = 1 => x = a
               /\ a = 0 => x = 0
<1> DEFINE q == a \div b
           r == a % b
           x == IF 2 * r > b \/ (2 * r = b /\ q % 2 = 1) THEN q + 1 ELSE q
<1>1. q \in Nat /\ r \in Nat /\ r < b /\ a = b * q + r
  OBVIOUS
<1>2. Rounded(a, b) = x
  BY DEF Rounded
<1>3. q % 2 \in {0, 1} /\ (q % 2 = 1 => (q + 1) % 2 = 0)
  BY <1>1
<1> HIDE DEF q, r
<1>4. b * q \in Nat /\ b * (q + 1) = b * q + b
  BY <1>1
<1>5. q = 0 => b * q = 0
  OBVIOUS
<1>6. q # 0 => b <= b * q
  BY <1>1
<1>7. CASE 2 * r > b \/ (2 * r = b /\ q % 2 = 1)
  <2>1. x = q + 1 /\ b * x = b * q + b
    BY <1>4, <1>7
  <2>2. 2 * r = b => (q + 1) % 2 = 0 /\ q # 0
    BY <1>3, <1>7
  <2> HIDE DEF x
  <2>3. x \in Nat /\ 2 * (b * x) <= 2 * a + b /\ 2 * a <= 2 * (b * x) + b
    BY <1>1, <1>4, <1>7, <2>1
  <2>4. (2 * a = 2 * (b * x) + b => x % 2 = 0) /\ (2 * (b * x) = 2 * a + b => x % 2 = 0)
    BY <1>1, <1>4, <1>7, <2>1, <2>2
  <2>5. x # 0 /\ b < 2 * a /\ a # 0 /\ b # 1
    BY <1>1, <1>4, <1>6, <1>7, <2>1, <2>2
  <2> QED BY <1>2, <2>3, <2>4, <2>5
<1>8. CASE ~ (2 * r > b \/ (2 * r = b /\ q % 2 = 1))
  <2>1. x = q /\ 2 * r <= b /\ (2 * r = b => q % 2 = 0)
    BY <1>1, <1>3, <1>8
  <2> HIDE DEF x
  <2>2. x \in Nat /\ 2 * (b * x) <= 2 * a + b /\ 2 * a <= 2 * (b * x) + b
    BY <1>1, <1>4, <2>1
  <2>3. (2 * a = 2 * (b * x) + b => x % 2 = 0) /\ (2 * (b * x) = 2 * a + b => x % 2 = 0)
    BY <1>1, <1>4, <2>1
  <2>4. x # 0 <=> b < 2 * a
    BY <1>1, <1>4, <1>5, <1>6, <2>1
  <2>5. b = 1 => x = a
    BY <1>1, <2>1
  <2>6. a = 0 => x = 0
    BY <1>1, <1>4, <1>6, <2>1
  <2> QED BY <1>2, <2>2, <2>3, <2>4, <2>5, <2>6
<1> QED BY <1>7, <1>8

LEMMA RoundedOrder ==
    ASSUME NEW a \in Nat, NEW b \in Nat \ {0}, NEW c \in Nat, NEW e \in Nat \ {0},
           a * e <= c * b
    PROVE  Rounded(a, b) <= Rounded(c, e)
<1> DEFINE x == Rounded(a, b)
           y == Rounded(c, e)
<1>1. x \in Nat /\ 2 * (b * x) <= 2 * a + b /\ (2 * (b * x) = 2 * a + b => x % 2 = 0)
  BY RoundedFacts
<1>2. y \in Nat /\ 2 * c <= 2 * (e * y) + e /\ (2 * c = 2 * (e * y) + e => y % 2 = 0)
  BY RoundedFacts
<1> HIDE DEF x, y
<1> SUFFICES ASSUME x >= y + 1 PROVE FALSE
  BY <1>1, <1>2 DEF x, y
<1>3. \A m, n \in Int, k \in Nat : m <= n => m * k <= n * k
  OBVIOUS
<1> DEFINE X == (b * x) * e
           Y == (e * y) * b
           E == e * b
<1>4. X \in Nat /\ Y \in Nat /\ E \in Nat \ {0} /\ a * e \in Nat /\ c * b \in Nat
  BY <1>1, <1>2
<1>5. 2 * X <= 2 * (a * e) + E
  <2>1. (2 * (b * x)) * e <= (2 * a + b) * e
    <3>1. 2 * (b * x) \in Int /\ 2 * a + b \in Int /\ e \in Nat
      BY <1>1
    <3> QED BY <1>1, <1>3, <3>1
  <2>2. (2 * (b * x)) * e = 2 * X /\ (2 * a + b) * e = 2 * (a * e) + E
    BY <1>1
  <2> QED BY <2>1, <2>2
<1>6. 2 * (c * b) <= 2 * Y + E
  <2>1. (2 * c) * b <= (2 * (e * y) + e) * b
    <3>1. 2 * c \in Int /\ 2 * (e * y) + e \in Int /\ b \in Nat
      BY <1>2
    <3> QED BY <1>2, <1>3, <3>1
  <2>2. (2 * c) * b = 2 * (c * b) /\ (2 * (e * y) + e) * b = 2 * Y + E
    BY <1>2
  <2> QED BY <2>1, <2>2
<1>7. Y + E <= X
  <2>1. (y + 1) * E <= x * E
    <3>1. y + 1 \in Int /\ x \in Int /\ E \in Nat
      BY <1>1, <1>2, <1>4
    <3> QED BY <1>3, <3>1
  <2>2. (y + 1) * E = Y + E /\ x * E = X
    BY <1>1, <1>2
  <2> QED BY <2>1, <2>2
<1>8. x = y + 1
  <2> SUFFICES ASSUME x >= y + 2 PROVE FALSE
    BY <1>1, <1>2
  <2>1. (y + 2) * E <= x * E
    <3>1. y + 2 \in Int /\ x \in Int /\ E \in Nat
      BY <1>1, <1>2, <1>4
    <3> QED BY <1>3, <3>1
  <2>2. (y + 2) * E = Y + 2 * E /\ x * E = X
    BY <1>1, <1>2
  <2>3. Y + 2 * E <= X
    BY <2>1, <2>2
  <2> HIDE DEF X, Y, E
  <2> QED BY <1>4, <1>5, <1>6, <2>3
<1>9. 2 * X = 2 * (a * e) + E /\ 2 * (c * b) = 2 * Y + E
  <2> HIDE DEF X, Y, E
  <2> QED BY <1>4, <1>5, <1>6, <1>7
<1>10. \A m, n \in Int, k \in Nat \ {0} : m * k = n * k => m = n
  OBVIOUS
<1>11. 2 * (b * x) = 2 * a + b
  <2>1. (2 * (b * x)) * e = (2 * a + b) * e
    <3>1. (2 * (b * x)) * e = 2 * X /\ (2 * a + b) * e = 2 * (a * e) + E
      BY <1>1
    <3> QED BY <1>9, <3>1
  <2>2. 2 * (b * x) \in Int /\ 2 * a + b \in Int
    BY <1>1
  <2> QED BY <1>10, <2>1, <2>2
<1>12. 2 * c = 2 * (e * y) + e
  <2>1. (2 * c) * b = (2 * (e * y) + e) * b
    <3>1. (2 * c) * b = 2 * (c * b) /\ (2 * (e * y) + e) * b = 2 * Y + E
      BY <1>2
    <3> QED BY <1>9, <3>1
  <2>2. 2 * c \in Int /\ 2 * (e * y) + e \in Int
    BY <1>2
  <2> QED BY <1>10, <2>1, <2>2
<1>13. x % 2 = 0 /\ y % 2 = 0
  BY <1>1, <1>2, <1>11, <1>12
<1> QED BY <1>1, <1>2, <1>8, <1>13

LEMMA PowerOfOne == ASSUME NEW n \in Nat PROVE Power(1, n) = 1
<1> DEFINE S == {m \in Nat : Power(1, m) = 1}
<1>1. 0 \in S /\ \A m \in Nat : m \in S => m + 1 \in S
  <2>1. 1 \in Nat
    OBVIOUS
  <2> QED BY <2>1, PowerStep
<1>2. Nat \subseteq S
  <2> HIDE DEF S
  <2> QED BY <1>1, SetInduction
<1> QED BY <1>2

LEMMA GrownFacts ==
    ASSUME NEW first \in Nat, NEW f \in Fractions, f[1] >= 0, NEW n \in Nat
    PROVE  /\ f[1] \in Nat /\ f[2] \in Nat \ {0}
           /\ Power(f[1], n) \in Nat /\ Power(f[2], n) \in Nat \ {0}
           /\ first * Power(f[1], n) \in Nat
           /\ Grown(first, f, n) = Rounded(first * Power(f[1], n), Power(f[2], n))
           /\ Grown(first, f, n) \in Nat
           /\ first = 0 => Grown(first, f, n) = 0
           /\ n = 0 => Grown(first, f, n) = first
<1>1. f[1] \in Nat /\ f[2] \in Nat \ {0}
  BY DEF Fractions
<1>2. Power(f[1], n) \in Nat /\ Power(f[2], n) \in Nat /\ Power(f[2], n) >= 1
  BY <1>1, PowerStep, PowerPositive
<1>3. first * Power(f[1], n) \in Nat /\ (first = 0 => first * Power(f[1], n) = 0)
  BY <1>2
<1>4. Grown(first, f, n) = Rounded(first * Power(f[1], n), Power(f[2], n))
  BY DEF Grown
<1>5. n = 0 => first * Power(f[1], n) = first /\ Power(f[2], n) = 1
  <2>1. Power(f[1], 0) = 1 /\ Power(f[2], 0) = 1
    BY <1>1, PowerStep
  <2>2. first * 1 = first
    OBVIOUS
  <2> QED BY <2>1, <2>2
<1> DEFINE a == first * Power(f[1], n)
           b == Power(f[2], n)
<1>6. a \in Nat /\ b \in Nat \ {0}
  BY <1>2, <1>3
<1> HIDE DEF a, b
<1>7. /\ Rounded(a, b) \in Nat /\ (b = 1 => Rounded(a, b) = a) /\ (a = 0 => Rounded(a, b) = 0)
  BY <1>6, RoundedFacts
<1> QED BY <1>1, <1>2, <1>3, <1>4, <1>5, <1>7 DEF a, b

\* What a factor of 1 or more grows, it never shrinks, and the other way round.
LEMMA GrownOrder ==
    ASSUME NEW first \in Nat, NEW f \in Fractions, f[1] >= 0,
           NEW m \in Nat, NEW n \in Nat, m <= n
    PROVE  /\ f[1] >= f[2] => Grown(first, f, m) <= Grown(first, f, n)
           /\ f[1] <= f[2] => Grown(first, f, n) <= Grown(first, f, m)
<1> DEFINE am == Power(f[1], m)
           an == Power(f[1], n)
           bm == Power(f[2], m)
           bn == Power(f[2], n)
<1>1. /\ f[1] \in Nat /\ f[2] \in Nat
      /\ am \in Nat /\ an \in Nat /\ bm \in Nat \ {0} /\ bn \in Nat \ {0}
      /\ first * am \in Nat /\ first * an \in Nat
      /\ Grown(first, f, m) = Rounded(first * am, bm)
      /\ Grown(first, f, n) = Rounded(first * an, bn)
  <2>1. f[1] \in Nat /\ f[2] \in Nat /\ f[2] \in Nat \ {0}
    BY DEF Fractions
  <2>2. am \in Nat /\ an \in Nat /\ bm \in Nat /\ bn \in Nat /\ bm >= 1 /\ bn >= 1
    BY <2>1, PowerStep, PowerPositive
  <2>3. /\ Grown(first, f, m) = Rounded(first * am, bm)
        /\ Grown(first, f, n) = Rounded(first * an, bn)
    BY DEF Grown
  <2> HIDE DEF am, an, bm, bn
  <2> QED BY <2>1, <2>2, <2>3
<1>2. n - m \in Nat /\ m + (n - m) = n
  OBVIOUS
<1>3. f[1] <= f[2] => an * bm <= am * bn
  BY <1>1, <1>2, PowerGains
<1>4. f[1] >= f[2] => bn * am <= bm * an
  BY <1>1, <1>2, PowerGains
<1> HIDE DEF am, an, bm, bn
<1>5. \A x, y \in Nat : x <= y => first * x <= first * y
  OBVIOUS
<1>6. f[1] <= f[2] => (first * an) * bm <= (first * am) * bn
  <2>1. (first * an) * bm = first * (an * bm) /\ (first * am) * bn = first * (am * bn)
        /\ an * bm \in Nat /\ am * bn \in Nat
    BY <1>1
  <2> QED BY <1>3, <1>5, <2>1
<1>7. f[1] >= f[2] => (first * am) * bn <= (first * an) * bm
  <2>1. (first * am) * bn = first * (bn * am) /\ (first * an) * bm = first * (bm * an)
        /\ bn * am \in Nat /\ bm * an \in Nat
    BY <1>1
  <2> QED BY <1>4, <1>5, <2>1
<1>8. f[1] <= f[2] => Rounded(first * an, bn) <= Rounded(first * am, bm)
  BY <1>1, <1>6, RoundedOrder
<1>9. f[1] >= f[2] => Rounded(first * am, bm) <= Rounded(first * an, bn)
  BY <1>1, <1>7, RoundedOrder
<1> QED BY <1>1, <1>8, <1>9

\* What grows n + 1 times is the factor times what grows n times, but for rounding.
LEMMA GrownTimes ==
    ASSUME NEW first \in Nat, NEW f \in Fractions, f[1] >= 0, NEW n \in Nat
    PROVE  IsTimes(f, Grown(first, f, n), Grown(first, f, n + 1))
<1> DEFINE p == f[1]
           q == f[2]
           a == first * Power(p, n)
           b == Power(q, n)
           c == first * Power(p, n + 1)
           e == Power(q, n + 1)
           x == Grown(first, f, n)
           y == Grown(first, f, n + 1)
<1>1. /\ p \in Nat /\ q \in Nat \ {0} /\ a \in Nat /\ b \in Nat \ {0}
      /\ c \in Nat /\ e \in Nat \ {0}
      /\ x = Rounded(a, b) /\ y = Rounded(c, e)
  <2>1. p \in Nat /\ q \in Nat \ {0} /\ n + 1 \in Nat
    BY DEF Fractions
  <2>2. x = Rounded(a, b) /\ y = Rounded(c, e)
    BY DEF Grown
  <2>3. Power(p, n) \in Nat /\ Power(p, n + 1) \in Nat
        /\ b \in Nat /\ b >= 1 /\ e \in Nat /\ e >= 1
    BY <2>1, PowerStep, PowerPositive
  <2> HIDE DEF p, q, b, e, x, y
  <2> QED BY <2>1, <2>2, <2>3
<1>2. c = p * a /\ e = q * b
  <2>1. Power(p, n + 1) = p * Power(p, n) /\ Power(q, n + 1) = q * Power(q, n)
        /\ Power(p, n) \in Nat
    BY <1>1, PowerStep
  <2>2. \A u, v, w \in Nat : u * (v * w) = v * (u * w)
    OBVIOUS
  <2> QED BY <1>1, <2>1, <2>2
<1>3. q = 1 => b = 1 /\ e = 1
  BY PowerOfOne
<1> HIDE DEF p, q, a, b, c, e, x, y
<1>4. /\ x \in Nat /\ 2 * (b * x) <= 2 * a + b /\ 2 * a <= 2 * (b * x) + b
      /\ b = 1 => x = a
  BY <1>1, RoundedFacts
<1>5. /\ y \in Nat /\ 2 * (e * y) <= 2 * c + e /\ 2 * c <= 2 * (e * y) + e
      /\ e = 1 => y = c
  BY <1>1, RoundedFacts
<1> SUFFICES /\ 2 * q * y <= 2 * p * x + (IF q = 1 THEN 0 ELSE p + q)
             /\ 2 * p * x <= 2 * q * y + (IF q = 1 THEN 0 ELSE p + q)
  BY DEF IsTimes, p, q, x, y
<1>6. CASE q = 1
  <2>1. x = a /\ y = p * a
    BY <1>2, <1>3, <1>4, <1>5, <1>6
  <2>2. 2 * q * y = 2 * (p * a) /\ 2 * p * x = 2 * (p * a) /\ p * a \in Nat
    BY <1>1, <1>6, <2>1
  <2> QED BY <1>6, <2>2
<1>7. CASE q # 1
  <2> DEFINE A == p * a
             X == p * x
             Y == q * y
  <2>1. A \in Nat /\ X \in Nat /\ Y \in Nat
    BY <1>1, <1>4, <1>5
  <2>2. e * y = b * Y /\ e = b * q
    BY <1>1, <1>2, <1>5
  <2>3. 2 * (b * Y) <= 2 * A + b * q /\ 2 * A <= 2 * (b * Y) + b * q
    BY <1>2, <1>5, <2>2
  <2>4. \A u, v \in Int : u <= v => p * u <= p * v
    BY <1>1
  <2>5. 2 * (b * X) <= 2 * A + b * p
    <3>1. p * (2 * (b * x)) <= p * (2 * a + b)
      <4>1. 2 * (b * x) \in Int /\ 2 * a + b \in Int
        BY <1>1, <1>4
      <4> QED BY <1>4, <2>4, <4>1
    <3>2. p * (2 * (b * x)) = 2 * (b * X) /\ p * (2 * a + b) = 2 * A + b * p
      BY <1>1, <1>4
    <3> QED BY <3>1, <3>2
  <2>6. 2 * A <= 2 * (b * X) + b * p
    <3>1. p * (2 * a) <= p * (2 * (b * x) + b)
      <4>1. 2 * a \in Int /\ 2 * (b * x) + b \in Int
        BY <1>1, <1>4
      <4> QED BY <1>4, <2>4, <4>1
    <3>2. p * (2 * a) = 2 * A /\ p * (2 * (b * x) + b) = 2 * (b * X) + b * p
      BY <1>1, <1>4
    <3> QED BY <3>1, <3>2
  <2>7. 2 * q * y = 2 * Y /\ 2 * p * x = 2 * X
    BY <1>1, <1>4, <1>5
  <2> HIDE DEF A, X, Y
  <2>8. b * p \in Nat /\ b * q \in Nat /\ b * X \in Nat /\ b * Y \in Nat
    BY <1>1, <2>1
  <2>9. \A u, v \in Int : b * u <= b * v => u <= v
    BY <1>1
  <2>10. 2 * Y <= 2 * X + (p + q)
    <3>1. 2 * (b * Y) <= 2 * (b * X) + b * p + b * q
      BY <2>1, <2>3, <2>6, <2>8
    <3>2. b * (2 * Y) = 2 * (b * Y) /\ b * (2 * X + (p + q)) = 2 * (b * X) + b * p + b * q
      BY <1>1, <2>1
    <3> QED BY <1>1, <2>1, <2>9, <3>1, <3>2
  <2>11. 2 * X <= 2 * Y + (p + q)
    <3>1. 2 * (b * X) <= 2 * (b * Y) + b * p + b * q
      BY <2>1, <2>3, <2>5, <2>8
    <3>2. b * (2 * X) = 2 * (b * X) /\ b * (2 * Y + (p + q)) = 2 * (b * Y) + b * p + b * q
      BY <1>1, <2>1
    <3> QED BY <1>1, <2>1, <2>9, <3>1, <3>2
  <2> QED BY <1>7, <2>7, <2>10, <2>11
<1> QED BY <1>6, <1>7

\* What a strategy is made of.
LEMMA ToStrategyFields ==
    ASSUME NEW c, IsRetryConfig(c)
    PROVE  LET s == ToStrategy(c)
           IN  /\ s.kind \in Strategies
               /\ s.base = c.base /\ s.base \in Nat /\ s.step \in Nat /\ s.factor \in Fractions
               /\ s.jitter = c.jitter
               /\ s.attempt = 1 /\ s.current = 1 /\ s.next = 1
               /\ s.kind = "RandomDelay" =>
                      c.strategy = "RandomDelay" /\ s.step = Or(c.step, 2 * c.base)
               /\ s.kind \in Growing => c.strategy = s.kind
<1>1. \A S, option : \A default \in S : option \subseteq S => Or(option, default) \in S
  BY DEF Or
<1>2. DefaultStep(c) \in Nat /\ <<2, 1>> \in Fractions
  BY DEF DefaultStep, IsRetryConfig, Fractions
<1>3. Or(c.step, DefaultStep(c)) \in Nat /\ Or(c.factor, <<2, 1>>) \in Fractions
  BY <1>1, <1>2 DEF IsRetryConfig
<1>4. c.strategy = "RandomDelay" => DefaultStep(c) = 2 * c.base
  BY DEF DefaultStep
<1> QED BY <1>3, <1>4 DEF ToStrategy, IsRetryConfig, Strategies, Growing

Counting == Growing \union Advancing \union {"HarmonicBackoff"}

\* What ToStrategy(c) has become after n delays.
AfterDelays(c, s, n) ==
    /\ s = [kind |-> s.kind, base |-> s.base, step |-> s.step, factor |-> s.factor,
            jitter |-> s.jitter, attempt |-> s.attempt, current |-> s.current, next |-> s.next]
    /\ s.kind = ToStrategy(c).kind
    /\ s.base = c.base
    /\ s.step = ToStrategy(c).step
    /\ s.factor = ToStrategy(c).factor
    /\ s.jitter = c.jitter
    /\ s.attempt \in Nat /\ (s.kind \in Counting => s.attempt = n + 1)
    /\ s.current \in Nat \ {0} /\ s.next \in Nat \ {0}

LEMMA LeastIsNat == ASSUME NEW c, IsRetryConfig(c) PROVE Least(c) \in Nat
<1>1. c.base * Grains \in Nat /\ LastSlept(c) \in Nat \ {0}
  BY GrainsAssumption DEF IsRetryConfig, LastSlept
<1>2. (c.base * Grains) \div LastSlept(c) \in Nat
  BY <1>1, DivBounds
<1>3. ToStrategy(c).step * Grains \in Nat /\ ToStrategy(c).factor \in Fractions
  BY GrainsAssumption, ToStrategyFields
<1> DEFINE f == ToStrategy(c).factor
           least == IF f[1] < f[2] THEN LastSlept(c) ELSE 1
<1>4. ~ (f[1] < 0) => Grown(c.base * Grains, f, least) \in Nat
  <2>1. f[1] \in Int /\ least \in Nat
    BY <1>1, <1>3 DEF Fractions
  <2> HIDE DEF f, least
  <2> QED BY <1>1, <1>3, <2>1, GrownFacts DEF f
<1> QED BY <1>1, <1>2, <1>3, <1>4 DEF Least

\* Before its jitter, no delay that is slept is shorter than the least.
LEMMA PlainAtLeast ==
    ASSUME NEW c, IsRetryConfig(c), NEW n \in Nat, n + 1 < c.max_attempts,
           NEW s, AfterDelays(c, s, n), NEW d \in Plain(s)
    PROVE  d \in Nat /\ Least(c) <= d
<1> DEFINE first == c.base * Grains
<1>0. /\ c.base \in Nat /\ Grains \in Nat \ {0} /\ first \in Nat
      /\ s.step \in Nat /\ s.factor \in Fractions /\ s.kind \in Strategies
      /\ LastSlept(c) \in Nat \ {0} /\ n + 1 <= LastSlept(c) /\ s.base = c.base
  BY GrainsAssumption, ToStrategyFields DEF IsRetryConfig, AfterDelays, LastSlept
<1>1. CASE s.kind \in Growing
  <2> DEFINE f == s.factor
             least == IF f[1] < f[2] THEN LastSlept(c) ELSE 1
  <2>0. s.attempt = n + 1
    BY <1>1 DEF AfterDelays, Counting
  <2>1. Least(c) = IF f[1] < 0 THEN 0 ELSE Grown(first, f, least)
    <3>1. ToStrategy(c).kind \in Growing /\ ToStrategy(c).factor = f
      BY <1>1 DEF AfterDelays
    <3> HIDE DEF first
    <3> QED BY <3>1 DEF Least, Growing, Advancing, first
  <2>2. \/ c.base = 0 /\ d = 0
        \/ c.base # 0 /\ f[1] >= 0 /\ d = Grown(first, f, n + 1)
    BY <1>0, <1>1, <2>0 DEF Growing, Plain, ExponentialDelays, GeometricDelays
  <2>3. f[1] \in Int /\ f[2] \in Nat \ {0} /\ least \in Nat
    BY <1>0 DEF Fractions
  <2> HIDE DEF f, first
  <2>4. CASE c.base = 0
    <3>1. first = 0
      BY <1>0, <2>4 DEF first
    <3>2. ~ (f[1] < 0) => Grown(first, f, least) = 0
      <4> HIDE DEF least
      <4> SUFFICES ASSUME f[1] >= 0 PROVE Grown(first, f, least) = 0
        BY <2>3
      <4>1. f \in Fractions /\ first \in Nat /\ least \in Nat
        BY <1>0, <2>3 DEF f
      <4> QED BY <3>1, <4>1, GrownFacts
    <3> QED BY <2>1, <2>2, <2>4, <3>2
  <2>5. CASE c.base # 0
    <3>1. f[1] >= 0 /\ d = Grown(first, f, n + 1) /\ Least(c) = Grown(first, f, least)
      BY <2>1, <2>2, <2>3, <2>5
    <3>2. d \in Nat
      BY <1>0, <3>1, GrownFacts DEF f
    <3>3. CASE f[1] < f[2]
      <4>1. least = LastSlept(c) /\ n + 1 <= least /\ n + 1 \in Nat
        BY <1>0, <3>3
      <4>2. f[1] <= f[2]
        BY <2>3, <3>3
      <4> HIDE DEF least
      <4> QED BY <1>0, <2>3, <3>1, <3>2, <4>1, <4>2, GrownOrder DEF f
    <3>4. CASE ~ (f[1] < f[2])
      <4>1. least = 1 /\ least <= n + 1 /\ n + 1 \in Nat
        BY <1>0, <3>4
      <4>2. f[1] >= f[2]
        BY <2>3, <3>4
      <4> HIDE DEF least
      <4> QED BY <1>0, <2>3, <3>1, <3>2, <4>1, <4>2, GrownOrder DEF f
    <3> QED BY <3>3, <3>4
  <2> QED BY <2>4, <2>5
<1>2. CASE s.kind \in Advancing
  <2>1. d = (c.base + s.step * (n + 1)) * Grains /\ Least(c) = first + s.step * Grains
    BY <1>2, <1>0 DEF Advancing, Growing, Plain, LinearDelay, IncrementalDelay, Least, AfterDelays, Counting
  <2>2. \A b, t, m \in Nat, g \in Nat \ {0} :
            (b + t * (m + 1)) * g \in Nat /\ b * g + t * g <= (b + t * (m + 1)) * g
    <3> TAKE b, t, m \in Nat, g \in Nat \ {0}
    <3>1. (b + t * (m + 1)) * g = b * g + t * g + t * m * g
      OBVIOUS
    <3>2. t * m * g \in Nat /\ b * g \in Nat /\ t * g \in Nat
      OBVIOUS
    <3> QED BY <3>1, <3>2
  <2> QED BY <1>0, <2>1, <2>2
<1>3. CASE s.kind = "HarmonicBackoff"
  <2>1. d = first \div (n + 1) /\ Least(c) = first \div LastSlept(c)
    BY <1>3, <1>0 DEF Advancing, Growing, Plain, HarmonicDelay, Least, AfterDelays, Counting
  <2>2. n + 1 \in Nat \ {0} /\ n + 1 <= LastSlept(c)
    BY <1>0
  <2> HIDE DEF first
  <2> QED BY <1>0, <2>1, <2>2, DivOrder, DivBounds
<1>4. CASE s.kind = "FibonacciBackoff"
  <2>1. d = c.base * s.current * Grains /\ Least(c) = first /\ s.current \in Nat \ {0}
    BY <1>4, <1>0 DEF Advancing, Growing, Plain, FibonacciDelay, Least, AfterDelays
  <2>2. \A b, g \in Nat, f \in Nat \ {0} : b * f * g \in Nat /\ b * g <= b * f * g
    <3> TAKE b, g \in Nat, f \in Nat \ {0}
    <3>1. b * f * g = b * g + (f - 1) * (b * g) /\ b * g \in Nat /\ f - 1 \in Nat
      OBVIOUS
    <3>2. (f - 1) * (b * g) \in Nat
      BY <3>1
    <3> QED BY <3>1, <3>2
  <2> QED BY <1>0, <2>1, <2>2
<1>5. CASE s.kind = "RandomDelay"
  <2>1. d \in first .. s.step * Grains - 1 /\ Least(c) = first
    BY <1>5, <1>0 DEF Advancing, Growing, Plain, RandomDelays, Least, AfterDelays
  <2>2. s.step * Grains \in Nat
    BY <1>0
  <2> QED BY <1>0, <2>1, <2>2
<1>6. CASE s.kind = "FixedInterval"
  BY <1>6, <1>0 DEF Advancing, Growing, Plain, Least, AfterDelays
<1> QED BY <1>0, <1>1, <1>2, <1>3, <1>4, <1>5, <1>6 DEF Strategies, Growing, Advancing

LEMMA JitterRangeBounds ==
    ASSUME NEW j \in Fractions, NEW d \in Nat
    PROVE  /\ JitterRange(j, d) \in Nat
           /\ JitterRange(j, d) # 0 => /\ j[1] \in Nat
                                      /\ 2 * j[2] * JitterRange(j, d) <= 2 * d * j[1] + j[2]
           /\ JitterRange(j, d) # 0 <=> j[1] > 0 /\ j[2] < 2 * (d * j[1])
<1>1. j[1] \in Int /\ j[2] \in Nat \ {0}
  BY DEF Fractions
<1>2. CASE ~ (j[1] > 0)
  BY <1>2 DEF JitterRange
<1>3. CASE j[1] > 0
  <2> DEFINE a == d * j[1]
             x == Rounded(a, j[2])
  <2>1. j[1] \in Nat /\ a \in Nat /\ JitterRange(j, d) = x
    BY <1>1, <1>3 DEF JitterRange
  <2> HIDE DEF a
  <2>2. x \in Nat /\ 2 * (j[2] * x) <= 2 * a + j[2] /\ (x # 0 <=> j[2] < 2 * a)
    BY <1>1, <2>1, RoundedFacts
  <2> HIDE DEF x
  <2>3. 2 * j[2] * x = 2 * (j[2] * x) /\ 2 * d * j[1] = 2 * a
    BY <1>1, <2>1, <2>2 DEF a
  <2>4. 2 * j[2] * x <= 2 * d * j[1] + j[2]
    BY <2>2, <2>3
  <2> QED BY <1>3, <2>1, <2>2, <2>4 DEF a
<1> QED BY <1>2, <1>3

\* A jitter that does not vanish for a delay does not for a longer one.
LEMMA JitterRangeGrows ==
    ASSUME NEW j \in Fractions, NEW d \in Nat, NEW e \in Nat, d <= e,
           JitterRange(j, d) # 0
    PROVE  JitterRange(j, e) # 0
<1>1. j[1] \in Nat /\ j[2] \in Nat /\ j[1] > 0 /\ j[2] < 2 * (d * j[1])
  BY JitterRangeBounds DEF Fractions
<1>2. \A x, y, z \in Nat : x <= y => x * z <= y * z
  OBVIOUS
<1>3. d * j[1] <= e * j[1]
  BY <1>1, <1>2
<1>4. d * j[1] \in Nat /\ e * j[1] \in Nat
  BY <1>1
<1>5. j[2] < 2 * (e * j[1])
  BY <1>1, <1>3, <1>4
<1> QED BY <1>1, <1>5, JitterRangeBounds

LEMMA PlainExists ==
    ASSUME NEW c, IsRetryConfig(c), NEW n \in Nat, NEW s, AfterDelays(c, s, n), ~CanPanic(c)
    PROVE  Plain(s) # {}
<1>1. CASE s.kind = "RandomDelay"
  <2>1. /\ c.strategy = "RandomDelay" /\ s.step = Or(c.step, 2 * c.base)
        /\ s.step \in Nat /\ s.base = c.base /\ c.base \in Nat
    BY <1>1, ToStrategyFields DEF AfterDelays, IsRetryConfig
  <2>2. s.base < s.step
    BY <2>1 DEF CanPanic
  <2>3. \A b, t \in Nat, g \in Nat \ {0} : b < t => b * g \in b * g .. t * g - 1
    <3> TAKE b, t \in Nat, g \in Nat \ {0}
    <3> HAVE b < t
    <3>1. t * g = b * g + (t - b) * g /\ (t - b) * g >= 1 /\ b * g \in Nat
      OBVIOUS
    <3> QED BY <3>1
  <2>4. s.base * Grains \in RandomDelays(s)
    BY <2>1, <2>2, <2>3, GrainsAssumption DEF RandomDelays
  <2> QED BY <2>4, <1>1 DEF Plain
<1>2. CASE s.kind \in Growing
  <2>1. /\ c.strategy \in Growing /\ s.factor = ToStrategy(c).factor
        /\ s.factor \in Fractions /\ s.base = c.base /\ c.base \in Nat
    BY <1>2, ToStrategyFields DEF AfterDelays, IsRetryConfig
  <2>2. s.base = 0 \/ s.factor[1] >= 0
    <3>1. s.factor[1] \in Int
      BY <2>1 DEF Fractions
    <3> QED BY <2>1, <3>1 DEF CanPanic
  <2> QED BY <1>2, <2>2 DEF Plain, Growing, ExponentialDelays, GeometricDelays
<1>3. CASE s.kind # "RandomDelay" /\ s.kind \notin Growing
  <2>1. s.kind \in Strategies
    BY ToStrategyFields DEF AfterDelays
  <2> QED BY <2>1, <1>3 DEF Plain, Strategies, Growing
<1> QED BY <1>1, <1>2, <1>3

\* A configuration that CanPanic does not single out never makes delay() panic.
LEMMA NoPanic ==
    ASSUME NEW c, IsRetryConfig(c), NEW n \in Nat, n + 1 < c.max_attempts,
           NEW s, AfterDelays(c, s, n), ~CanPanic(c)
    PROVE  {} \notin DelayOutcomes(s)
<1>1. Plain(s) # {}
  BY PlainExists
<1>2. ASSUME NEW d \in Plain(s) PROVE Jittered(s, d) # {}
  <2>1. d \in Nat /\ Least(c) <= d /\ Least(c) \in Nat /\ s.jitter = c.jitter
    BY PlainAtLeast, LeastIsNat DEF AfterDelays
  <2>2. CASE c.jitter = {}
    BY <2>1, <2>2 DEF Jittered
  <2>3. CASE c.jitter # {}
    <3> DEFINE j == CHOOSE j \in s.jitter : TRUE
    <3>1. j \in c.jitter
      BY <2>1, <2>3
    <3>2. j \in Fractions
      BY <3>1 DEF IsRetryConfig
    <3>3. JitterRange(j, Least(c)) # 0
      BY <3>1 DEF CanPanic
    <3>4. Jittered(s, d) = IF JitterRange(j, d) = 0 THEN {} ELSE d .. d + JitterRange(j, d)
      BY <2>1, <2>3 DEF Jittered
    <3> HIDE DEF j
    <3>5. JitterRange(j, d) # 0 /\ JitterRange(j, d) \in Nat
      BY <2>1, <3>2, <3>3, JitterRangeGrows, JitterRangeBounds
    <3>6. d \in d .. d + JitterRange(j, d)
      BY <2>1, <3>5
    <3> QED BY <3>4, <3>5, <3>6
  <2> QED BY <2>2, <2>3
<1>3. DelayOutcomes(s) = UNION {{{e} : e \in Jittered(s, d)} : d \in Plain(s)}
  BY <1>1, <1>2 DEF DelayOutcomes
<1> QED BY <1>3

\* A delay is a plain one, or lies within its jitter.
LEMMA DelayOfPlain ==
    ASSUME NEW c, IsRetryConfig(c), NEW n \in Nat, n + 1 < c.max_attempts,
           NEW s, AfterDelays(c, s, n), NEW outcome \in DelayOutcomes(s), NEW d \in outcome
    PROVE  /\ d \in Nat
           /\ \E p \in Plain(s) :
                /\ p \in Nat /\ p <= d
                /\ c.jitter = {} => d = p
                /\ \A j \in c.jitter :
                     j[1] \in Nat /\ 2 * (d - p) * j[2] <= 2 * p * j[1] + j[2]
<1>0. s.jitter = c.jitter
  BY DEF AfterDelays
<1>1. PICK p \in Plain(s) : d \in Jittered(s, p)
  BY DEF DelayOutcomes
<1>2. p \in Nat
  BY PlainAtLeast
<1>3. CASE c.jitter = {}
  <2>1. d = p
    BY <1>0, <1>1, <1>3 DEF Jittered
  <2> QED BY <2>1, <1>2, <1>3
<1>4. CASE c.jitter # {}
  <2>1. PICK j \in c.jitter : j = CHOOSE i \in s.jitter : TRUE
    BY <1>0, <1>4
  <2>2. j \in Fractions /\ \A i \in c.jitter : i = j
    BY <2>1 DEF IsRetryConfig
  <2>3. d \in p .. p + JitterRange(j, p) /\ JitterRange(j, p) # 0
    BY <1>0, <1>1, <1>4, <2>1 DEF Jittered
  <2>4. /\ JitterRange(j, p) \in Nat /\ j[1] \in Nat /\ j[2] \in Nat
        /\ 2 * j[2] * JitterRange(j, p) <= 2 * p * j[1] + j[2]
    BY <1>2, <2>2, <2>3, JitterRangeBounds DEF Fractions
  <2>5. j[1] \in Nat /\ j[2] \in Nat /\ d \in Nat /\ p <= d /\ d - p \in Nat
        /\ d - p <= JitterRange(j, p)
    BY <1>2, <2>2, <2>3, <2>4
  <2>6. \A x, y, z \in Nat : x <= y => 2 * x * z <= 2 * z * y
    OBVIOUS
  <2>7. 2 * (d - p) * j[2] <= 2 * j[2] * JitterRange(j, p)
    BY <2>4, <2>5, <2>6
  <2>8. /\ (d - p) * j[2] \in Nat /\ j[2] * JitterRange(j, p) \in Nat /\ p * j[1] \in Nat
        /\ 2 * (d - p) * j[2] \in Nat /\ 2 * j[2] * JitterRange(j, p) \in Nat
        /\ 2 * p * j[1] + j[2] \in Nat
    BY <1>2, <2>4, <2>5
  <2>9. 2 * (d - p) * j[2] <= 2 * p * j[1] + j[2]
    BY <2>4, <2>7, <2>8
  <2> QED BY <1>1, <1>2, <1>4, <2>2, <2>5, <2>9
<1> QED BY <1>3, <1>4

LEMMA SteppedAfter ==
    ASSUME NEW c, IsRetryConfig(c), NEW n \in Nat, NEW s, AfterDelays(c, s, n)
    PROVE  AfterDelays(c, Stepped(s), n + 1)
<1> DEFINE t == Stepped(s)
<1>0. s = [kind |-> s.kind, base |-> s.base, step |-> s.step, factor |-> s.factor,
           jitter |-> s.jitter, attempt |-> s.attempt, current |-> s.current, next |-> s.next]
  BY DEF AfterDelays
<1>1. s.attempt \in Nat /\ s.current \in Nat \ {0} /\ s.next \in Nat \ {0}
  BY DEF AfterDelays
<1>2. CASE s.kind \in {"FixedInterval", "RandomDelay"}
  <2>1. t = s /\ s.kind \notin Counting
    BY <1>2 DEF Stepped, Counting, Growing, Advancing
  <2> QED BY <2>1 DEF AfterDelays
<1>3. CASE s.kind = "FibonacciBackoff"
  <2>0. s.kind \notin Counting
    BY <1>3 DEF Counting, Growing, Advancing
  <2>1. t = [s EXCEPT !.current = s.next, !.next = s.current + s.next]
    BY <1>3 DEF Stepped
  <2>2. s.current + s.next \in Nat \ {0}
    BY <1>1
  <2>3. t = [kind |-> s.kind, base |-> s.base, step |-> s.step, factor |-> s.factor,
             jitter |-> s.jitter, attempt |-> s.attempt, current |-> s.next,
             next |-> s.current + s.next]
    BY <1>0, <2>1
  <2> HIDE DEF t
  <2>4. t.kind = s.kind /\ t.base = s.base /\ t.step = s.step /\ t.factor = s.factor
        /\ t.jitter = s.jitter /\ t.attempt = s.attempt /\ t.current = s.next
        /\ t.next = s.current + s.next
    BY <2>3
  <2>5. t = [kind |-> t.kind, base |-> t.base, step |-> t.step, factor |-> t.factor,
             jitter |-> t.jitter, attempt |-> t.attempt, current |-> t.current,
             next |-> t.next]
    BY <2>3, <2>4
  <2>6. /\ t.attempt \in Nat /\ t.kind \notin Counting
        /\ t.current \in Nat \ {0} /\ t.next \in Nat \ {0}
    BY <1>1, <2>0, <2>2, <2>4
  <2>7. AfterDelays(c, t, n + 1)
    BY <2>4, <2>5, <2>6 DEF AfterDelays
  <2> QED BY <2>7 DEF t
<1>4. CASE s.kind \notin {"FixedInterval", "RandomDelay", "FibonacciBackoff"}
  <2>1. t = [s EXCEPT !.attempt = s.attempt + 1]
    BY <1>4 DEF Stepped
  <2>2. s.attempt + 1 \in Nat /\ (s.kind \in Counting => s.attempt + 1 = (n + 1) + 1)
    BY <1>1 DEF AfterDelays
  <2>3. t = [kind |-> s.kind, base |-> s.base, step |-> s.step, factor |-> s.factor,
             jitter |-> s.jitter, attempt |-> s.attempt + 1, current |-> s.current,
             next |-> s.next]
    BY <1>0, <2>1
  <2> HIDE DEF t
  <2>4. t.kind = s.kind /\ t.base = s.base /\ t.step = s.step /\ t.factor = s.factor
        /\ t.jitter = s.jitter /\ t.attempt = s.attempt + 1 /\ t.current = s.current
        /\ t.next = s.next
    BY <2>3
  <2>5. t = [kind |-> t.kind, base |-> t.base, step |-> t.step, factor |-> t.factor,
             jitter |-> t.jitter, attempt |-> t.attempt, current |-> t.current,
             next |-> t.next]
    BY <2>3, <2>4
  <2>6. AfterDelays(c, t, n + 1)
    BY <1>1, <2>2, <2>4, <2>5 DEF AfterDelays
  <2> QED BY <2>6 DEF t
<1> QED BY <1>2, <1>3, <1>4

LEMMA AppendFacts ==
    ASSUME NEW ds \in Seq(Nat), NEW d \in Nat
    PROVE  /\ Append(ds, d) \in Seq(Nat)
           /\ Len(Append(ds, d)) = Len(ds) + 1 /\ Len(ds) \in Nat
           /\ DOMAIN ds = 1..Len(ds) /\ DOMAIN Append(ds, d) = 1..Len(ds) + 1
           /\ \A i \in 1..Len(ds) : Append(ds, d)[i] = ds[i]
           /\ Append(ds, d)[Len(ds) + 1] = d
OBVIOUS

\* What the strategy s knows of the delays it has given, which decides the next.
Latest(c, s, ds) ==
    LET n     == Len(ds)
        first == c.base * Grains
    IN  /\ s.kind \in Growing /\ n > 0 /\ s.factor[1] >= 0 => ds[n] = Grown(first, s.factor, n)
        /\ s.kind \in Advancing /\ n > 0 => ds[n] = (c.base + s.step * n) * Grains
        /\ s.kind = "FibonacciBackoff" =>
             /\ n = 0 => s.current = 1 /\ s.next = 1
             /\ n = 1 => s.current = 1 /\ s.next = 2
             /\ n > 0 => ds[n] + first * s.current = first * s.next
             /\ n > 1 => ds[n - 1] + ds[n] = first * s.current

LEMMA PlainDelayLaw ==
    ASSUME NEW c, IsRetryConfig(c), NEW ds \in Seq(Nat), NEW s, AfterDelays(c, s, Len(ds)),
           PlainLaw(c, ds), Latest(c, s, ds), NEW d \in Plain(s), d \in Nat
    PROVE  PlainLaw(c, Append(ds, d)) /\ Latest(c, Stepped(s), Append(ds, d))
<1> DEFINE n     == Len(ds)
           es    == Append(ds, d)
           first == c.base * Grains
           t     == Stepped(s)
<1>1. /\ n \in Nat /\ Len(es) = n + 1 /\ DOMAIN ds = 1..n /\ DOMAIN es = 1..n + 1
      /\ es[n + 1] = d
  BY AppendFacts
<1>2. \A i \in 1..n : es[i] = ds[i] /\ ds[i] \in Nat
  BY AppendFacts
<1>3. /\ c.base \in Nat /\ Grains \in Nat \ {0} /\ first \in Nat
      /\ s.step \in Nat /\ s.factor \in Fractions /\ s.kind \in Strategies /\ s.base = c.base
      /\ ToStrategy(c).kind = s.kind /\ ToStrategy(c).step = s.step
      /\ ToStrategy(c).factor = s.factor
  <2>1. /\ ToStrategy(c).kind = s.kind /\ ToStrategy(c).step = s.step
        /\ ToStrategy(c).factor = s.factor /\ s.base = c.base
    BY DEF AfterDelays
  <2>2. c.base \in Nat /\ Grains \in Nat \ {0} /\ first \in Nat
    BY GrainsAssumption DEF IsRetryConfig
  <2> QED BY <2>1, <2>2, ToStrategyFields
<1>4. AfterDelays(c, t, n + 1)
  BY SteppedAfter, <1>1
<1>5. t.kind = s.kind /\ t.step = s.step /\ t.factor = s.factor
  BY <1>4 DEF AfterDelays
<1> HIDE DEF es, n, first, t
<1>6. CASE s.kind \in Growing
  <2> DEFINE f == s.factor
             Follows(x, y) == IF f[1] < 0 THEN y = 0 ELSE IsTimes(f, x, y)
  <2>0. f[1] \in Int /\ f \in Fractions /\ n + 1 \in Nat
    BY <1>1, <1>3 DEF Fractions
  <2>1. /\ f[1] < 0 => d = 0
        /\ f[1] >= 0 => d = Grown(first, f, n + 1)
    <3>1. s.attempt = n + 1
      BY <1>6 DEF AfterDelays, Counting, n
    <3>2. \/ c.base = 0 /\ d = 0
          \/ f[1] >= 0 /\ d = Grown(first, f, n + 1)
      BY <1>3, <1>6, <3>1 DEF Growing, Plain, ExponentialDelays, GeometricDelays, first
    <3>3. c.base = 0 => first = 0
      BY <1>3 DEF first
    <3>4. c.base = 0 /\ f[1] >= 0 => Grown(first, f, n + 1) = 0
      <4> SUFFICES ASSUME c.base = 0, f[1] >= 0 PROVE Grown(first, f, n + 1) = 0
        OBVIOUS
      <4>1. f \in Fractions /\ first \in Nat /\ n + 1 \in Nat /\ first = 0
        BY <1>3, <2>0, <3>3
      <4> HIDE DEF f
      <4> QED BY <4>1, GrownFacts
    <3> QED BY <2>0, <3>2, <3>4
  <2>2. Follows(IF n + 1 = 1 THEN first ELSE es[n], d)
    <3>1. CASE f[1] < 0
      BY <2>1, <3>1
    <3>2. CASE ~ (f[1] < 0)
      <4>1. f[1] >= 0
        BY <2>0, <3>2
      <4>2. IsTimes(f, Grown(first, f, n), d)
        BY <1>1, <1>3, <2>0, <2>1, <4>1, GrownTimes
      <4>3. CASE n = 0
        <5>1. Grown(first, f, n) = first
          BY <1>1, <1>3, <2>0, <4>1, <4>3, GrownFacts
        <5> QED BY <3>2, <4>2, <4>3, <5>1
      <4>4. CASE n # 0
        <5>1. es[n] = Grown(first, f, n) /\ n + 1 # 1
          BY <1>1, <1>2, <1>6, <4>1, <4>4 DEF Latest, n, first
        <5> QED BY <3>2, <4>2, <5>1
      <4> QED BY <4>3, <4>4
    <3> QED BY <3>1, <3>2
  <2>3. \A i \in 1..n : Follows(IF i = 1 THEN first ELSE ds[i - 1], ds[i])
    BY <1>1, <1>3, <1>6 DEF PlainLaw, first, Advancing, Growing
  <2>4. \A i \in 1..n + 1 : Follows(IF i = 1 THEN first ELSE es[i - 1], es[i])
    <3> HIDE DEF Follows
    <3> TAKE i \in 1..n + 1
    <3>1. CASE i = n + 1
      <4>1. i - 1 = n
        BY <1>1, <3>1
      <4> QED BY <1>1, <2>2, <3>1, <4>1
    <3>2. CASE i # n + 1
      <4>1. i \in 1..n /\ (i # 1 => i - 1 \in 1..n)
        BY <1>1, <3>2
      <4> QED BY <4>1, <1>2, <2>3
    <3> QED BY <3>1, <3>2
  <2>5. PlainLaw(c, es)
    BY <1>1, <1>3, <1>6, <2>4 DEF PlainLaw, first, Advancing, Growing
  <2>6. Latest(c, t, es)
    BY <1>1, <1>5, <1>6, <2>1 DEF Latest, Growing, Advancing, first
  <2> QED BY <2>5, <2>6 DEF es, t
<1>7. CASE s.kind \in Advancing
  <2>1. d = (c.base + s.step * (n + 1)) * Grains
    <3>1. s.attempt = n + 1
      BY <1>7 DEF AfterDelays, Counting, n
    <3> QED BY <1>3, <1>7, <3>1 DEF Advancing, Plain, LinearDelay, IncrementalDelay
  <2>2. \A b, x, m \in Nat, g \in Nat \ {0} :
            (b + x * (m + 1)) * g = x * g + (b + x * m) * g
    OBVIOUS
  <2>3. d = s.step * Grains + (IF n + 1 = 1 THEN first ELSE es[n])
    <3>0. d = s.step * Grains + (c.base + s.step * n) * Grains
      <4>1. c.base \in Nat /\ s.step \in Nat /\ n \in Nat /\ Grains \in Nat \ {0}
        BY <1>1, <1>3
      <4> DEFINE b == c.base
                 x == s.step
                 g == Grains
      <4>2. b \in Nat /\ x \in Nat /\ n \in Nat /\ g \in Nat \ {0}
        BY <4>1
      <4>3. d = (b + x * (n + 1)) * g
        BY <2>1, Zenon
      <4> HIDE DEF b, x, g
      <4>4. (b + x * (n + 1)) * g = x * g + (b + x * n) * g
        BY ONLY <4>2, <2>2
      <4>5. d = x * g + (b + x * n) * g
        BY ONLY <4>3, <4>4, Zenon
      <4> QED BY <4>5, Zenon DEF b, x, g
    <3>1. CASE n = 0
      <4>1. (c.base + s.step * 0) * Grains = first
        BY <1>3 DEF first
      <4> QED BY <3>0, <3>1, <4>1
    <3>2. CASE n # 0
      <4>1. es[n] = (c.base + s.step * n) * Grains
        BY <1>1, <1>2, <1>7, <3>2 DEF Latest, n
      <4> QED BY <1>1, <3>0, <3>2, <4>1
    <3> QED BY <3>1, <3>2
  <2>4. \A i \in 1..n : ds[i] = s.step * Grains + (IF i = 1 THEN first ELSE ds[i - 1])
    BY <1>1, <1>3, <1>7 DEF PlainLaw, first, Advancing, Growing
  <2>5. \A i \in 1..n + 1 : es[i] = s.step * Grains + (IF i = 1 THEN first ELSE es[i - 1])
    <3> TAKE i \in 1..n + 1
    <3>1. CASE i = n + 1
      BY <1>1, <2>3, <3>1
    <3>2. CASE i # n + 1
      <4>1. i \in 1..n /\ (i # 1 => i - 1 \in 1..n)
        BY <1>1, <3>2
      <4> QED BY <4>1, <1>2, <2>4
    <3> QED BY <3>1, <3>2
  <2>6. PlainLaw(c, es)
    BY <1>1, <1>3, <1>7, <2>5 DEF PlainLaw, first, Advancing, Growing
  <2>7. Latest(c, t, es)
    BY <1>1, <1>5, <1>7, <2>1 DEF Latest, Growing, Advancing
  <2> QED BY <2>6, <2>7 DEF es, t
<1>8. CASE s.kind = "FibonacciBackoff"
  <2>1. d = first * s.current /\ s.current \in Nat \ {0} /\ s.next \in Nat \ {0}
    <3>1. s.current \in Nat \ {0} /\ s.next \in Nat \ {0}
      BY DEF AfterDelays
    <3>2. d = c.base * s.current * Grains
      BY <1>3, <1>8 DEF Plain, FibonacciDelay
    <3>3. \A x, y, z \in Nat : x * y * z = x * z * y
      OBVIOUS
    <3> QED BY <1>3, <3>1, <3>2, <3>3 DEF first
  <2>2. t.current = s.next /\ t.next = s.current + s.next
    BY <1>8 DEF Stepped, t, AfterDelays
  <2>3. /\ n = 0 => s.current = 1 /\ s.next = 1
        /\ n = 1 => s.current = 1 /\ s.next = 2
        /\ n > 0 => ds[n] + first * s.current = first * s.next
        /\ n > 1 => ds[n - 1] + ds[n] = first * s.current
    BY <1>8 DEF Latest, n, first
  <2>4. d = IF n + 1 <= 2 THEN first ELSE es[n] + es[n - 1]
    <3>1. CASE n <= 1
      BY <1>1, <1>3, <2>1, <2>3, <3>1
    <3>2. CASE n > 1
      <4>1. n \in 1..n /\ n - 1 \in 1..n
        BY <1>1, <3>2
      <4> QED BY <1>1, <1>2, <2>1, <2>3, <3>2, <4>1
    <3> QED BY <1>1, <3>1, <3>2
  <2>5. \A i \in 1..n : ds[i] = IF i <= 2 THEN first ELSE ds[i - 1] + ds[i - 2]
    BY <1>1, <1>3, <1>8 DEF PlainLaw, first, Advancing, Growing
  <2>6. \A i \in 1..n + 1 : es[i] = IF i <= 2 THEN first ELSE es[i - 1] + es[i - 2]
    <3> TAKE i \in 1..n + 1
    <3>1. CASE i = n + 1
      <4>1. i - 1 = n /\ i - 2 = n - 1
        BY <1>1, <3>1
      <4> QED BY <1>1, <2>4, <3>1, <4>1
    <3>2. CASE i # n + 1
      <4>1. i \in 1..n /\ (~ (i <= 2) => i - 1 \in 1..n /\ i - 2 \in 1..n)
        BY <1>1, <3>2
      <4> QED BY <4>1, <1>2, <2>5
    <3> QED BY <3>1, <3>2
  <2>7. PlainLaw(c, es)
    BY <1>1, <1>3, <1>8, <2>6 DEF PlainLaw, first, Advancing, Growing
  <2>8. d + first * s.next = first * (s.current + s.next)
    BY <1>3, <2>1
  <2>9. n > 0 => es[n] + d = first * s.next
    <3>1. n > 0 => n \in 1..n
      BY <1>1
    <3> QED BY <1>1, <1>2, <2>1, <2>3, <3>1
  <2>10. /\ n + 1 = 1 => s.next = 1 /\ s.current + s.next = 2
         /\ n > 0 => (n + 1) - 1 = n
    BY <1>1, <2>3
  <2>11. Latest(c, t, es)
    BY <1>1, <1>5, <1>8, <2>2, <2>8, <2>9, <2>10 DEF Latest, Growing, Advancing, first
  <2> QED BY <2>7, <2>11 DEF es, t
<1>9. CASE s.kind = "HarmonicBackoff"
  <2>1. d = first \div (n + 1)
    <3>1. s.attempt = n + 1
      BY <1>9 DEF AfterDelays, Counting, n
    <3> QED BY <1>3, <1>9, <3>1 DEF Plain, HarmonicDelay, first
  <2>2. (n + 1) * d <= first /\ first < (n + 1) * (d + 1)
    <3>1. n + 1 \in Nat \ {0} /\ first \in Nat
      BY <1>1, <1>3
    <3> QED BY <2>1, <3>1, DivBounds
  <2>3. \A i \in 1..n : i * ds[i] <= first /\ first < i * (ds[i] + 1)
    BY <1>1, <1>3, <1>9 DEF PlainLaw, first, Advancing, Growing
  <2>4. \A i \in 1..n + 1 : i * es[i] <= first /\ first < i * (es[i] + 1)
    <3> TAKE i \in 1..n + 1
    <3>1. CASE i = n + 1
      BY <1>1, <2>2, <3>1
    <3>2. CASE i # n + 1
      <4>1. i \in 1..n
        BY <1>1, <3>2
      <4> QED BY <4>1, <1>2, <2>3
    <3> QED BY <3>1, <3>2
  <2>5. PlainLaw(c, es)
    BY <1>1, <1>3, <1>9, <2>4 DEF PlainLaw, first, Advancing, Growing
  <2>6. Latest(c, t, es)
    BY <1>5, <1>9 DEF Latest, Growing, Advancing
  <2> QED BY <2>5, <2>6 DEF es, t
<1>10. CASE s.kind = "RandomDelay"
  <2>1. first <= d /\ d < s.step * Grains
    <3>1. d \in first .. s.step * Grains - 1
      BY <1>3, <1>10 DEF Plain, RandomDelays, first
    <3>2. s.step * Grains \in Nat
      BY <1>3
    <3> QED BY <1>3, <3>1, <3>2
  <2>2. \A i \in 1..n : first <= ds[i] /\ ds[i] < s.step * Grains
    BY <1>1, <1>3, <1>10 DEF PlainLaw, first, Advancing, Growing
  <2>3. \A i \in 1..n + 1 : first <= es[i] /\ es[i] < s.step * Grains
    BY <1>1, <1>2, <2>1, <2>2
  <2>4. PlainLaw(c, es)
    BY <1>1, <1>3, <1>10, <2>3 DEF PlainLaw, first, Advancing, Growing
  <2>5. Latest(c, t, es)
    BY <1>5, <1>10 DEF Latest, Growing, Advancing
  <2> QED BY <2>4, <2>5 DEF es, t
<1>11. CASE s.kind = "FixedInterval"
  <2>1. d = first
    BY <1>3, <1>11 DEF Plain, first
  <2>2. \A i \in 1..n : ds[i] = first
    BY <1>1, <1>3, <1>11 DEF PlainLaw, first, Advancing, Growing
  <2>3. \A i \in 1..n + 1 : es[i] = first
    BY <1>1, <1>2, <2>1, <2>2
  <2>4. PlainLaw(c, es)
    BY <1>1, <1>3, <1>11, <2>3 DEF PlainLaw, first, Advancing, Growing
  <2>5. Latest(c, t, es)
    BY <1>5, <1>11 DEF Latest, Growing, Advancing
  <2> QED BY <2>4, <2>5 DEF es, t
<1> QED BY <1>3, <1>6, <1>7, <1>8, <1>9, <1>10, <1>11 DEF Strategies, Growing, Advancing

\* A strategy and the delays it has given, with what the next ones need.
Following(c, s, ds) ==
    /\ ds \in Seq(Nat)
    /\ AfterDelays(c, s, Len(ds))
    /\ FollowsLaw(c, ds)
    /\ c.jitter = {} => Latest(c, s, ds)

LEMMA FollowingStart ==
    ASSUME NEW c, IsRetryConfig(c)
    PROVE  Following(c, ToStrategy(c), <<>>)
<1> DEFINE s == ToStrategy(c)
<1>1. AfterDelays(c, s, 0)
  <2>1. s = [kind |-> s.kind, base |-> s.base, step |-> s.step, factor |-> s.factor,
             jitter |-> s.jitter, attempt |-> s.attempt, current |-> s.current,
             next |-> s.next]
    BY DEF ToStrategy
  <2> QED BY <2>1, ToStrategyFields DEF AfterDelays
<1>2. s.kind \in Strategies /\ s.current = 1 /\ s.next = 1
  BY ToStrategyFields
<1>3. DOMAIN << >> = {} /\ Len(<< >>) = 0 /\ << >> \in Seq(Nat)
  OBVIOUS
<1> HIDE DEF s
<1>4. PlainLaw(c, << >>)
  BY <1>2, <1>3 DEF PlainLaw, Strategies, s
<1>5. JitteredLaw(c, << >>)
  BY <1>3 DEF JitteredLaw
<1>6. Latest(c, s, << >>)
  BY <1>2, <1>3 DEF Latest
<1> QED BY <1>1, <1>3, <1>4, <1>5, <1>6 DEF Following, FollowsLaw, s

LEMMA FollowingStep ==
    ASSUME NEW c, IsRetryConfig(c), NEW s, NEW ds, Following(c, s, ds),
           Len(ds) + 1 < c.max_attempts,
           NEW outcome \in DelayOutcomes(s), NEW d \in outcome
    PROVE  Following(c, Stepped(s), Append(ds, d))
<1>1. ds \in Seq(Nat) /\ AfterDelays(c, s, Len(ds)) /\ Len(ds) \in Nat
  BY DEF Following
<1>2. d \in Nat
  BY <1>1, DelayOfPlain
<1>3. PICK p \in Plain(s) :
        /\ p \in Nat /\ p <= d
        /\ c.jitter = {} => d = p
        /\ \A j \in c.jitter :
             j[1] \in Nat /\ 2 * (d - p) * j[2] <= 2 * p * j[1] + j[2]
  BY <1>1, DelayOfPlain
<1>4. Append(ds, d) \in Seq(Nat) /\ AfterDelays(c, Stepped(s), Len(Append(ds, d)))
  BY <1>1, <1>2, AppendFacts, SteppedAfter
<1>5. CASE c.jitter = {}
  <2>1. PlainLaw(c, ds) /\ Latest(c, s, ds)
    BY <1>5 DEF Following, FollowsLaw
  <2>2. PlainLaw(c, Append(ds, d)) /\ Latest(c, Stepped(s), Append(ds, d))
    BY <1>1, <1>2, <1>3, <1>5, <2>1, PlainDelayLaw
  <2> QED BY <1>4, <1>5, <2>2 DEF Following, FollowsLaw
<1>6. CASE c.jitter # {}
  <2>1. Least(c) <= p /\ Least(c) \in Nat
    BY <1>1, <1>3, PlainAtLeast, LeastIsNat
  <2>2. Least(c) <= d
    BY <1>2, <1>3, <2>1
  <2>3. ToStrategy(c).kind = "FixedInterval" => p = c.base * Grains
    BY <1>1, <1>3 DEF AfterDelays, Plain
  <2>4. JitteredLaw(c, ds)
    BY <1>6 DEF Following, FollowsLaw
  <2>5. JitteredLaw(c, Append(ds, d))
    <3> DEFINE es == Append(ds, d)
               Fits(e) == /\ Least(c) <= e
                          /\ ToStrategy(c).kind = "FixedInterval" =>
                               \A j \in c.jitter : 2 * (e - c.base * Grains) * j[2]
                                                     <= 2 * c.base * Grains * j[1] + j[2]
    <3>1. Fits(d)
      <4>1. \A b, g, x \in Nat : 2 * (b * g) * x = 2 * b * g * x
        OBVIOUS
      <4>2. \A j \in c.jitter : j[1] \in Nat
        BY <1>3
      <4>3. c.base \in Nat /\ Grains \in Nat
        BY GrainsAssumption DEF IsRetryConfig
      <4>4. \A j \in c.jitter : 2 * (c.base * Grains) * j[1] = 2 * c.base * Grains * j[1]
        BY <4>1, <4>2, <4>3
      <4> QED BY <1>3, <2>2, <2>3, <4>4
    <3>2. \A i \in DOMAIN ds : Fits(ds[i])
      BY <2>4 DEF JitteredLaw
    <3> HIDE DEF Fits
    <3>3. \A i \in DOMAIN es : Fits(es[i])
      <4> TAKE i \in DOMAIN es
      <4>1. CASE i = Len(ds) + 1
        BY <1>1, <1>2, <3>1, <4>1, AppendFacts
      <4>2. CASE i # Len(ds) + 1
        <5>1. i \in 1..Len(ds)
          BY <1>1, <1>2, <4>2, AppendFacts
        <5> QED BY <1>1, <1>2, <3>2, <5>1, AppendFacts
      <4> QED BY <4>1, <4>2
    <3> QED BY <3>3 DEF JitteredLaw, Fits
  <2> QED BY <1>4, <1>6, <2>5 DEF Following, FollowsLaw
<1> QED BY <1>5, <1>6

-----------------------------------------------------------------------------
(* The retry loop. *)

\* What every proof needs of the variables' shapes.
Shape ==
    /\ config \in Configs
    /\ at \in [Slots -> {"idle", "loop", "upstream"}]
    /\ DOMAIN route = Slots
    /\ DOMAIN strategy = Slots
    /\ DOMAIN delays = Slots
    /\ DOMAIN sent = Slots
    /\ sends \in Nat

LEMMA ShapeStep == Shape /\ [Next]_vars => Shape'
<1> SUFFICES ASSUME Shape, [Next]_vars PROVE Shape'
  OBVIOUS
<1>1. CASE UNCHANGED vars
  BY <1>1 DEF Shape, vars, dispatch
<1>2. ASSUME NEW r \in Slots, NEW path, NEW header, NotFound(r, path, header) PROVE Shape'
  BY <1>2 DEF Shape, NotFound, vars, dispatch
<1>3. ASSUME NEW r \in Slots, NEW path, NEW header, NEW addr, Arrive(r, path, header, addr)
      PROVE  Shape'
  BY <1>3 DEF Shape, Arrive
<1>4. ASSUME NEW r \in Slots, SendBalanced(r) PROVE Shape'
  BY <1>4 DEF Shape, SendBalanced, SendTo, Idle
<1>5. ASSUME NEW r \in Slots, SendUnbalanced(r) PROVE Shape'
  BY <1>5 DEF Shape, SendUnbalanced, SendTo, Idle
<1>6. ASSUME NEW r \in Slots, Retry(r) PROVE Shape'
  BY <1>6 DEF Shape, Retry, Idle
<1>7. ASSUME NEW r \in Slots, Finish(r) PROVE Shape'
  BY <1>7 DEF Shape, Finish, Idle
<1>8. ASSUME NEW r \in Slots, NotModified(r) PROVE Shape'
  BY <1>8 DEF Shape, NotModified
<1> QED BY <1>1, <1>2, <1>3, <1>4, <1>5, <1>6, <1>7, <1>8 DEF Next

LEMMA ShapeInit == Init => Shape
BY DEF Init, Shape

THEOREM ShapeInvariant == Spec => []Shape
<1> QED BY ShapeInit, ShapeStep, PTL DEF Spec

\* A send goes out, or ends its task.
LEMMA SendToEnds ==
    ASSUME Shape, NEW r \in Slots, NEW url, SendTo(r, url)
    PROVE  /\ UNCHANGED <<config, mapOrder>>
           /\ \/ Idle(r)
              \/ /\ UNCHANGED <<route, strategy, delays>>
                 /\ at'[r] = "upstream" /\ sent'[r] = Rebuild(r, url)
                 /\ \A q \in Slots \ {r} : at'[q] = at[q] /\ sent'[q] = sent[q]
<1>1. UNCHANGED <<config, mapOrder>>
  BY DEF SendTo
<1>2. CASE Rebuild(r, url) \in NoUris
  BY <1>1, <1>2 DEF SendTo
<1>3. CASE Rebuild(r, url) \notin NoUris
  <2>1. /\ UNCHANGED <<route, strategy, delays>>
        /\ at' = [at EXCEPT ![r] = "upstream"]
        /\ sent' = [sent EXCEPT ![r] = Rebuild(r, url)]
    BY <1>3 DEF SendTo
  <2> QED BY <1>1, <2>1 DEF Shape
<1> QED BY <1>2, <1>3

\* A 304 without an entry in the cache only goes round.
LEMMA NotModifiedTurns ==
    ASSUME Shape, NEW r \in Slots, NotModified(r)
    PROVE  /\ UNCHANGED <<config, mapOrder, route, strategy, delays, lbConfig, lbState>>
           /\ at[r] = "upstream" /\ at'[r] = "loop" /\ sent'[r] = Unsent
           /\ \A q \in Slots \ {r} : at'[q] = at[q] /\ sent'[q] = sent[q]
BY DEF NotModified, Shape

\* Every request's strategy has given the delays it slept, and not one too many.
RetryInv ==
    \A r \in Slots :
        /\ Following(config.retry, strategy[r], delays[r])
        /\ Len(delays[r]) < config.retry.max_attempts
        /\ at[r] = "idle" => delays[r] = <<>>

LEMMA RetryConfig == Shape => IsRetryConfig(config.retry)
BY DispatchAssumption DEF Shape, IsConfig

LEMMA RetryInit == Init => RetryInv
<1> SUFFICES ASSUME Init PROVE RetryInv
  OBVIOUS
<1>1. IsRetryConfig(config.retry)
  BY ShapeInit, RetryConfig
<1>2. Following(config.retry, ToStrategy(config.retry), << >>)
  BY <1>1, FollowingStart
<1>3. Len(<< >>) < config.retry.max_attempts
  BY <1>1 DEF IsRetryConfig
<1> QED BY <1>2, <1>3 DEF Init, RetryInv

LEMMA IdleKeepsRetryInv ==
    ASSUME Shape, RetryInv, NEW r \in Slots, Idle(r), UNCHANGED config
    PROVE  RetryInv'
<1>1. IsRetryConfig(config.retry)
  BY RetryConfig
<1>2. Following(config.retry, ToStrategy(config.retry), << >>)
  BY <1>1, FollowingStart
<1>3. Len(<< >>) < config.retry.max_attempts
  BY <1>1 DEF IsRetryConfig
<1>4. /\ config' = config
      /\ \A q \in Slots \ {r} : strategy'[q] = strategy[q] /\ delays'[q] = delays[q] /\ at'[q] = at[q]
      /\ strategy'[r] = ToStrategy(config.retry) /\ delays'[r] = << >>
  BY DEF Idle, Shape
<1> QED BY <1>2, <1>3, <1>4 DEF RetryInv

LEMMA RetryStep == Shape /\ RetryInv /\ [Next]_vars => RetryInv'
<1> SUFFICES ASSUME Shape, RetryInv, [Next]_vars PROVE RetryInv'
  OBVIOUS
<1>0. IsRetryConfig(config.retry)
  BY RetryConfig
<1>1. CASE UNCHANGED vars
  BY <1>1 DEF RetryInv, vars, dispatch
<1>2. ASSUME NEW r \in Slots, NEW path, NEW header, NotFound(r, path, header) PROVE RetryInv'
  BY <1>2 DEF RetryInv, NotFound, vars, dispatch
<1>3. ASSUME NEW r \in Slots, NEW path, NEW header, NEW addr, Arrive(r, path, header, addr)
      PROVE  RetryInv'
  <2>1. /\ config' = config /\ delays' = delays /\ at[r] = "idle"
        /\ \A q \in Slots \ {r} : strategy'[q] = strategy[q] /\ at'[q] = at[q]
        /\ strategy'[r] = ToStrategy(config.retry) /\ at'[r] = "loop"
    BY <1>3 DEF Arrive, Shape
  <2>2. delays[r] = << >> /\ Following(config.retry, ToStrategy(config.retry), << >>)
    BY <1>0, <2>1, FollowingStart DEF RetryInv
  <2> QED BY <2>1, <2>2 DEF RetryInv
<1>4. ASSUME NEW r \in Slots, NEW url, SendTo(r, url) PROVE RetryInv'
  <2>1. CASE Idle(r) /\ UNCHANGED config
    BY <2>1, IdleKeepsRetryInv
  <2>2. CASE ~ (Idle(r) /\ UNCHANGED config)
    <3>1. /\ config' = config /\ delays' = delays /\ strategy' = strategy
          /\ at'[r] = "upstream" /\ \A q \in Slots \ {r} : at'[q] = at[q]
      BY <1>4, <2>2, SendToEnds
    <3>2. \A q \in Slots : at'[q] = "idle" => at[q] = "idle"
      BY <3>1
    <3> QED BY <3>1, <3>2 DEF RetryInv
  <2> QED BY <2>1, <2>2
<1>5. ASSUME NEW r \in Slots, SendBalanced(r) PROVE RetryInv'
  <2>1. \/ \E url : SendTo(r, url)
        \/ Idle(r) /\ UNCHANGED config
    BY <1>5 DEF SendBalanced
  <2> QED BY <2>1, <1>4, IdleKeepsRetryInv
<1>6. ASSUME NEW r \in Slots, SendUnbalanced(r) PROVE RetryInv'
  BY <1>6, <1>4 DEF SendUnbalanced
<1>7. ASSUME NEW r \in Slots, Retry(r) PROVE RetryInv'
  <2>1. config' = config /\ Len(delays[r]) + 1 < config.retry.max_attempts
    BY <1>7 DEF Retry
  <2>2. PICK outcome \in DelayOutcomes(strategy[r]) :
          \/ Idle(r)
          \/ \E d \in outcome :
               /\ delays' = [delays EXCEPT ![r] = Append(@, d)]
               /\ strategy' = [strategy EXCEPT ![r] = Stepped(@)]
               /\ at' = [at EXCEPT ![r] = "loop"]
    BY <1>7 DEF Retry
  <2>3. ASSUME NEW d \in outcome,
               delays' = [delays EXCEPT ![r] = Append(@, d)],
               strategy' = [strategy EXCEPT ![r] = Stepped(@)],
               at' = [at EXCEPT ![r] = "loop"]
        PROVE  RetryInv'
    <3>1. /\ \A q \in Slots \ {r} : strategy'[q] = strategy[q] /\ delays'[q] = delays[q] /\ at'[q] = at[q]
          /\ strategy'[r] = Stepped(strategy[r]) /\ delays'[r] = Append(delays[r], d)
          /\ at'[r] = "loop"
      BY <2>3 DEF Shape
    <3>2. Following(config.retry, strategy[r], delays[r])
          /\ Len(delays[r]) < config.retry.max_attempts
      BY DEF RetryInv
    <3>3. Following(config.retry, Stepped(strategy[r]), Append(delays[r], d))
      BY <1>0, <2>1, <3>2, FollowingStep
    <3>4. Len(Append(delays[r], d)) = Len(delays[r]) + 1
      BY <3>2 DEF Following
    <3> QED BY <2>1, <3>1, <3>3, <3>4 DEF RetryInv
  <2> QED BY <2>1, <2>2, <2>3, IdleKeepsRetryInv
<1>8. ASSUME NEW r \in Slots, Finish(r) PROVE RetryInv'
  BY <1>8, IdleKeepsRetryInv DEF Finish
<1>9. ASSUME NEW r \in Slots, NotModified(r) PROVE RetryInv'
  <2>1. /\ config' = config /\ delays' = delays /\ strategy' = strategy
        /\ at'[r] = "loop" /\ \A q \in Slots \ {r} : at'[q] = at[q]
    BY <1>9, NotModifiedTurns
  <2>2. \A q \in Slots : at'[q] = "idle" => at[q] = "idle"
    BY <2>1
  <2> QED BY <2>1, <2>2 DEF RetryInv
<1> QED BY <1>1, <1>2, <1>3, <1>5, <1>6, <1>7, <1>8, <1>9 DEF Next

\* The sleeps of every request follow the law that its strategy is named for,
\* for any configuration, whatever fraction its factor is, and any number of
\* attempts and other requests.
THEOREM DelaysLawful == Spec => []DelaysFollowLaw
<1>1. RetryInv => DelaysFollowLaw
  BY DEF RetryInv, DelaysFollowLaw, Following
<1> QED BY <1>1, RetryInit, RetryStep, ShapeInvariant, PTL DEF Spec

\* Only the configurations that CanPanic singles out lose a task in delay(),
\* wherever the loop asks for it: for any factor and jitter, negative, zero or
\* fractional ones among them.
THEOREM PanicsAreForeseen == Spec => []PanicsForeseen
<1>1. Shape /\ RetryInv => PanicsForeseen
  <2> SUFFICES ASSUME Shape, RetryInv, NEW r \in Slots, ~CanPanic(config.retry),
                      Len(delays[r]) + 1 < config.retry.max_attempts
               PROVE  {} \notin DelayOutcomes(strategy[r])
    BY DEF PanicsForeseen
  <2>1. /\ AfterDelays(config.retry, strategy[r], Len(delays[r]))
        /\ Len(delays[r]) \in Nat
    BY DEF RetryInv, Following
  <2> QED BY <2>1, RetryConfig, NoPanic
<1> QED BY <1>1, RetryInit, RetryStep, ShapeInvariant, PTL DEF Spec

-----------------------------------------------------------------------------
(* The load balancer. *)

LEMMA UrlFacts ==
    ASSUME NEW k \in Keys
    PROVE  /\ Urls[k] \in Seq(Range(Urls[k]))
           /\ Len(Urls[k]) \in Nat \ {0} /\ DOMAIN Urls[k] = 1..Len(Urls[k])
           /\ \A i \in DOMAIN Urls[k] : Urls[k][i] \in AllUrls /\ Urls[k][i] \in Range(Urls[k])
<1>1. Urls[k] \in Seq(Range(Urls[k])) /\ Urls[k] # <<>>
  BY LoadBalancerAssumption DEF Keys
<1>2. Len(Urls[k]) \in Nat /\ DOMAIN Urls[k] = 1..Len(Urls[k]) /\ Len(Urls[k]) # 0
  BY <1>1
<1>3. \A i \in DOMAIN Urls[k] : Urls[k][i] \in Range(Urls[k])
  BY DEF Range
<1> QED BY <1>1, <1>2, <1>3 DEF AllUrls

LEMMA Orders ==
    ASSUME NEW seq \in SetToSeqs(Keys)
    PROVE  DOMAIN seq \subseteq Nat /\ \A n \in DOMAIN seq : seq[n] \in Keys
<1>1. Cardinality(Keys) \in Nat
  BY LoadBalancerAssumption, FS_CardinalityType DEF Keys
<1> QED BY <1>1 DEF SetToSeqs

\* The balancer's state, for any algorithm.
Balancer ==
    /\ algorithm \in Algorithms \union {"none"}
    /\ DOMAIN weights \subseteq Keys
    /\ \A k \in DOMAIN weights : weights[k] \in Seq(Nat)
    /\ order \in SetToSeqs(Keys)
    /\ counters \in [Keys -> Nat]
    /\ connections \in [AllUrls -> Nat]
    /\ DOMAIN served = Keys
    /\ \A k \in Keys : served[k] \in Seq(Nat) /\ Len(served[k]) = Len(Urls[k])

LEMMA CumulativeGrows ==
    ASSUME Balancer, NEW k \in DOMAIN weights
    PROVE  /\ \A i \in 0..Len(weights[k]) : Cumulative(k, i) \in Nat
           /\ \A j \in 0..Len(weights[k]) : \A i \in 0..j : Cumulative(k, i) <= Cumulative(k, j)
           /\ WeightsSum(k) \in Nat
           /\ Len(weights[k]) \in Nat /\ DOMAIN weights[k] = 1..Len(weights[k])
           /\ Cumulative(k, 0) = 0
           /\ \A i \in DOMAIN weights[k] :
                weights[k][i] \in Nat /\ Cumulative(k, i) = Cumulative(k, i - 1) + weights[k][i]
<1> DEFINE w == weights[k]
           n == Len(w)
<1>1. w \in Seq(Nat) /\ n \in Nat /\ DOMAIN w = 1..n
  BY DEF Balancer
<1>2. /\ \A i \in 0..n : SumTo(w, i) \in Nat
      /\ \A i \in 1..n : SumTo(w, i) = SumTo(w, i - 1) + w[i]
      /\ SumTo(w, 0) = 0
  BY <1>1, SumToStep
<1>3. \A i \in 1..n : w[i] \in Nat
  BY <1>1
<1> HIDE DEF w, n
<1> DEFINE S == {j \in Nat : j <= n => \A i \in 0..j : SumTo(w, i) <= SumTo(w, j)}
<1>4. 0 \in S
  BY <1>1, <1>2
<1>5. ASSUME NEW j \in Nat, j \in S PROVE j + 1 \in S
  <2> SUFFICES ASSUME j + 1 <= n, NEW i \in 0..j + 1 PROVE SumTo(w, i) <= SumTo(w, j + 1)
    OBVIOUS
  <2>0. j <= n /\ j \in 0..n /\ j + 1 \in 1..n /\ (j + 1) - 1 = j
    BY <1>1
  <2>1. SumTo(w, j + 1) = SumTo(w, j) + w[j + 1] /\ w[j + 1] \in Nat /\ SumTo(w, j) \in Nat
    BY <1>2, <1>3, <2>0
  <2>2. CASE i = j + 1
    BY <2>1, <2>2
  <2>3. CASE i # j + 1
    <3>1. i \in 0..j /\ i \in 0..n
      BY <1>1, <2>0, <2>3
    <3>2. SumTo(w, i) <= SumTo(w, j) /\ SumTo(w, i) \in Nat
      BY <1>2, <1>5, <2>0, <3>1
    <3> QED BY <2>1, <3>2
  <2> QED BY <2>2, <2>3
<1>6. Nat \subseteq S
  <2> HIDE DEF S
  <2> QED BY <1>4, <1>5, SetInduction
<1>7. \A j \in 0..n : \A i \in 0..j : SumTo(w, i) <= SumTo(w, j)
  BY <1>1, <1>6
<1>8. n \in 0..n
  BY <1>1
<1> HIDE DEF S
<1> QED BY <1>1, <1>2, <1>3, <1>7, <1>8 DEF Cumulative, WeightsSum, w, n

\* The best of some fractions: some index has the least a[i] / b[i].
LEMMA LeastRatio ==
    ASSUME NEW n \in Nat, NEW X, X \subseteq 1..n, X # {},
           NEW a, NEW b, \A i \in X : a[i] \in Nat /\ b[i] \in Nat \ {0}
    PROVE  \E i \in X : \A j \in X : a[i] * b[j] <= a[j] * b[i]
<1> DEFINE Best(i, m) == i \in X /\ \A j \in X : j <= m => a[i] * b[j] <= a[j] * b[i]
           S == {m \in Nat : (\E j \in X : j <= m) => \E i : Best(i, m)}
<1>1. 0 \in S
  <2>1. ~ \E j \in X : j <= 0
    OBVIOUS
  <2> QED BY <2>1
<1>2. ASSUME NEW m \in Nat, m \in S PROVE m + 1 \in S
  <2>1. CASE m + 1 \notin X
    <3>1. \A j \in X : j <= m + 1 => j <= m
      BY <2>1
    <3> QED BY <1>2, <3>1
  <2>2. CASE m + 1 \in X /\ ~ \E j \in X : j <= m
    <3>1. \A j \in X : j <= m + 1 => j = m + 1
      BY <2>2
    <3>2. a[m + 1] * b[m + 1] <= a[m + 1] * b[m + 1]
      <4>1. a[m + 1] \in Nat /\ b[m + 1] \in Nat
        BY <2>2
      <4> QED BY <4>1
    <3>3. Best(m + 1, m + 1)
      BY <2>2, <3>1, <3>2
    <3> QED BY <3>3
  <2>3. CASE m + 1 \in X /\ \E j \in X : j <= m
    <3>1. PICK i : Best(i, m)
      BY <1>2, <2>3
    <3>2. i \in X /\ a[i] \in Nat /\ b[i] \in Nat \ {0}
          /\ a[m + 1] \in Nat /\ b[m + 1] \in Nat \ {0}
      BY <2>3, <3>1
    <3>3. \A j \in X : j <= m + 1 => j <= m \/ j = m + 1
      OBVIOUS
    <3>4. CASE a[i] * b[m + 1] <= a[m + 1] * b[i]
      <4>1. Best(i, m + 1)
        BY <3>1, <3>3, <3>4
      <4> QED BY <4>1
    <3>5. CASE ~ (a[i] * b[m + 1] <= a[m + 1] * b[i])
      <4>1. ASSUME NEW j \in X, j <= m PROVE a[m + 1] * b[j] <= a[j] * b[m + 1]
        <5>1. a[j] \in Nat /\ b[j] \in Nat \ {0} /\ a[i] * b[j] <= a[j] * b[i]
          BY <3>1, <4>1
        <5>2. \A x, y, u, v \in Nat, c, d \in Nat \ {0}:
                 y * c <= x * d /\ x * v <= u * c => (y * v) * c <= (u * d) * c
          <6> TAKE x, y, u, v \in Nat, c, d \in Nat \ {0}
          <6> HAVE y * c <= x * d /\ x * v <= u * c
          <6>1. \A p, q, r \in Nat : p <= q => p * r <= q * r
            OBVIOUS
          <6>2. (y * c) * v <= (x * d) * v
            BY <6>1
          <6>3. (x * v) * d <= (u * c) * d
            BY <6>1
          <6>4. (y * c) * v = (y * v) * c /\ (x * d) * v = (x * v) * d
                /\ (u * c) * d = (u * d) * c
            OBVIOUS
          <6>5. (y * v) * c \in Nat /\ (x * v) * d \in Nat /\ (u * d) * c \in Nat
            OBVIOUS
          <6> QED BY <6>2, <6>3, <6>4, <6>5
        <5>3. a[m + 1] * b[i] <= a[i] * b[m + 1]
          <6>1. a[m + 1] * b[i] \in Nat /\ a[i] * b[m + 1] \in Nat
            BY <3>2
          <6> QED BY <3>5, <6>1
        <5>4. (a[m + 1] * b[j]) * b[i] <= (a[j] * b[m + 1]) * b[i]
          BY <3>2, <5>1, <5>2, <5>3
        <5>5. \A x, y \in Nat, c \in Nat \ {0} : x * c <= y * c => x <= y
          OBVIOUS
        <5>6. a[m + 1] * b[j] \in Nat /\ a[j] * b[m + 1] \in Nat
          BY <3>2, <5>1
        <5> QED BY <3>2, <5>4, <5>5, <5>6
      <4>2. a[m + 1] * b[m + 1] <= a[m + 1] * b[m + 1]
        BY <3>2
      <4>3. Best(m + 1, m + 1)
        BY <2>3, <3>3, <4>1, <4>2
      <4> QED BY <4>3
    <3> QED BY <3>4, <3>5
  <2> QED BY <2>1, <2>2, <2>3
<1>3. Nat \subseteq S
  <2> HIDE DEF S
  <2> QED BY <1>1, <1>2, SetInduction
<1>4. PICK i : Best(i, n)
  BY <1>3
<1> QED BY <1>4

\* An arm that picks has an index of its path's URLs: the least of the set it
\* takes the least of, or a remainder.
LEMMA LeastConnectionsPicks ==
    ASSUME Balancer, NEW k \in Keys
    PROVE  \E i \in DOMAIN Urls[k] :
               /\ LeastConnections(k) = Pick(i)
               /\ \A j \in DOMAIN Urls[k] : Count(k, i) <= Count(k, j)
<1> DEFINE D == DOMAIN Urls[k]
           Least_ == {i \in D : \A j \in D : Count(k, i) <= Count(k, j)}
           Counts == {Count(k, i) : i \in D}
<1>1. D \subseteq Nat /\ D # {}
  BY UrlFacts
<1>2. \A i \in D : Count(k, i) \in Nat
  BY UrlFacts DEF Count, Balancer
<1>3. Counts \subseteq Nat /\ Counts # {}
  BY <1>1, <1>2
<1>4. Min(Counts) \in Counts /\ \A c \in Counts : Min(Counts) <= c
  <2> HIDE DEF Counts
  <2> QED BY <1>3, LeastNatural
<1>5. PICK i \in D : Count(k, i) = Min(Counts)
  BY <1>4
<1>6. i \in Least_
  BY <1>4, <1>5
<1>7. Min(Least_) \in Least_
  <2>1. Least_ \subseteq Nat /\ Least_ # {}
    BY <1>1, <1>6
  <2> HIDE DEF Least_
  <2> QED BY <2>1, LeastNatural
<1>8. LeastConnections(k) = Pick(Min(Least_))
  BY DEF LeastConnections
<1> QED BY <1>7, <1>8

LEMMA WeightedLeastConnectionsPicks ==
    ASSUME Balancer, NEW k \in Keys, WeightedLeastConnections(k).is = "pick"
    PROVE  \E i \in DOMAIN Urls[k] :
               /\ WeightedLeastConnections(k) = Pick(i)
               /\ k \in DOMAIN weights /\ weights[k][i] > 0
               /\ \A j \in DOMAIN Urls[k] : weights[k][j] > 0 =>
                      Count(k, i) * weights[k][j] <= Count(k, j) * weights[k][i]
<1> DEFINE D      == DOMAIN Urls[k]
           Scored == {i \in D : weights[k][i] > 0}
           least  == {i \in Scored : \A j \in Scored :
                        Count(k, i) * weights[k][j] <= Count(k, j) * weights[k][i]}
<1>1. /\ k \in DOMAIN weights /\ ~ (Len(weights[k]) < Len(Urls[k])) /\ Scored # {}
      /\ WeightedLeastConnections(k) = Pick(Min(least))
  BY DEF WeightedLeastConnections, ReturnNone, Panic, GoOn
<1>2. /\ D = 1..Len(Urls[k]) /\ Len(Urls[k]) \in Nat
      /\ \A i \in D : Count(k, i) \in Nat
  BY UrlFacts DEF Count, Balancer
<1>3. \A i \in D : weights[k][i] \in Nat
  <2>1. weights[k] \in Seq(Nat)
    BY <1>1 DEF Balancer
  <2>2. Len(weights[k]) \in Nat
    BY <2>1
  <2>3. \A i \in D : i \in 1..Len(weights[k])
    BY <1>1, <1>2, <2>2
  <2> QED BY <2>1, <2>3
<1>4. least # {}
  <2> DEFINE a == [i \in D |-> Count(k, i)]
  <2>1. \A i \in Scored : a[i] \in Nat /\ weights[k][i] \in Nat \ {0}
    BY <1>2, <1>3
  <2>2. Scored \subseteq 1..Len(Urls[k])
    BY <1>2
  <2>3. \A i \in Scored : a[i] = Count(k, i)
    OBVIOUS
  <2> HIDE DEF Scored, a
  <2>4. PICK i \in Scored : \A j \in Scored : a[i] * weights[k][j] <= a[j] * weights[k][i]
    BY <1>1, <1>2, <2>1, <2>2, LeastRatio
  <2>5. i \in least
    BY <2>3, <2>4
  <2> QED BY <2>5
<1>5. Min(least) \in least
  <2>1. least \subseteq Nat
    BY <1>2
  <2> HIDE DEF least
  <2> QED BY <1>4, <2>1, LeastNatural
<1> QED BY <1>1, <1>5

\* Weighted round robin: the URL in whose share the counter lies.
LEMMA WeightedRoundRobinArm ==
    ASSUME Balancer, NEW k \in DOMAIN weights, WeightedRoundRobin(k) # GoOn
    PROVE  /\ WeightsSum(k) \in Nat \ {0} /\ counters[k] < WeightsSum(k)
           /\ \E i \in DOMAIN weights[k] :
                /\ Cumulative(k, i - 1) <= counters[k] /\ counters[k] < Cumulative(k, i)
                /\ WeightedRoundRobin(k) = IF i \in DOMAIN Urls[k] THEN Pick(i) ELSE Panic
<1> DEFINE above == {i \in DOMAIN weights[k] : counters[k] < Cumulative(k, i)}
<1>1. /\ above # {}
      /\ WeightedRoundRobin(k) = IF Min(above) \in DOMAIN Urls[k] THEN Pick(Min(above)) ELSE Panic
  BY DEF WeightedRoundRobin, GoOn
<1>2. /\ \A i \in 0..Len(weights[k]) : Cumulative(k, i) \in Nat
      /\ \A j \in 0..Len(weights[k]) : \A i \in 0..j : Cumulative(k, i) <= Cumulative(k, j)
      /\ Len(weights[k]) \in Nat /\ DOMAIN weights[k] = 1..Len(weights[k])
      /\ Cumulative(k, 0) = 0
      /\ counters[k] \in Nat
  BY CumulativeGrows DEF Balancer
<1>3. Min(above) \in above /\ \A m \in above : Min(above) <= m
  <2>1. above \subseteq Nat
    BY <1>2
  <2> HIDE DEF above
  <2> QED BY <1>1, <2>1, LeastNatural
<1> DEFINE i == Min(above)
<1>4. i \in DOMAIN weights[k] /\ counters[k] < Cumulative(k, i) /\ \A m \in above : i <= m
  BY <1>3
<1> HIDE DEF i
<1>5. i \in 1..Len(weights[k]) /\ i - 1 \in 0..Len(weights[k]) /\ i \in 0..Len(weights[k])
      /\ Len(weights[k]) \in 0..Len(weights[k])
  BY <1>2, <1>4
<1>6. Cumulative(k, i - 1) <= counters[k]
  <2>1. CASE i = 1
    BY <1>2, <2>1
  <2>2. CASE i # 1
    <3>1. i - 1 \in DOMAIN weights[k] /\ ~ (i <= i - 1)
      BY <1>2, <1>5, <2>2
    <3>2. i - 1 \notin above
      BY <1>4, <3>1
    <3>3. ~ (counters[k] < Cumulative(k, i - 1))
      BY <3>1, <3>2
    <3>4. Cumulative(k, i - 1) \in Nat
      BY <1>2, <1>5
    <3> QED BY <1>2, <3>3, <3>4
  <2> QED BY <2>1, <2>2
<1>7. WeightsSum(k) \in Nat /\ counters[k] < WeightsSum(k)
  <2>1. Cumulative(k, i) <= Cumulative(k, Len(weights[k]))
    BY <1>2, <1>5
  <2>2. Cumulative(k, i) \in Nat /\ Cumulative(k, Len(weights[k])) \in Nat
    BY <1>2, <1>5
  <2> QED BY <1>2, <1>4, <2>1, <2>2 DEF WeightsSum
<1>8. WeightsSum(k) \in Nat \ {0}
  BY <1>2, <1>7
<1> QED BY <1>1, <1>4, <1>6, <1>7, <1>8 DEF i

LEMMA HashedPick ==
    ASSUME NEW k \in Keys, NEW h \in Nat
    PROVE  (h % Len(Urls[k])) + 1 \in DOMAIN Urls[k]
<1>1. Len(Urls[k]) \in Nat \ {0} /\ DOMAIN Urls[k] = 1..Len(Urls[k])
  BY UrlFacts
<1>2. \A n \in Nat \ {0} : h % n \in 0..n - 1
  OBVIOUS
<1>3. h % Len(Urls[k]) \in 0..Len(Urls[k]) - 1
  BY <1>1, <1>2
<1> QED BY <1>1, <1>3

LEMMA ArmPicks ==
    ASSUME Balancer, algorithm # "none", NEW k \in Keys, NEW addr \in Addrs,
           NEW arm \in Arms(k, addr), arm.is = "pick"
    PROVE  arm.index \in DOMAIN Urls[k] /\ arm = Pick(arm.index)
<1>1. CASE algorithm = "RoundRobin"
  <2>1. counters[k] \in Nat /\ arm = Pick((counters[k] % Len(Urls[k])) + 1)
    BY <1>1 DEF Arms, RoundRobin, Balancer
  <2> QED BY <2>1, HashedPick DEF Pick
<1>2. CASE algorithm = "Random"
  BY <1>2 DEF Arms, Pick
<1>3. CASE algorithm = "LeastConnections"
  BY <1>3, LeastConnectionsPicks DEF Arms, Pick
<1>4. CASE algorithm = "WeightedRoundRobin"
  <2>1. arm = WeightedRoundRobin(k)
    BY <1>4 DEF Arms
  <2>2. k \in DOMAIN weights /\ WeightedRoundRobin(k) # GoOn
    <3>1. ReturnNone.is # "pick" /\ GoOn.is # "pick"
      BY DEF ReturnNone, GoOn
    <3>2. k \notin DOMAIN weights => WeightedRoundRobin(k) = ReturnNone
      BY DEF WeightedRoundRobin
    <3> QED BY <2>1, <3>1, <3>2
  <2>3. PICK i \in DOMAIN weights[k] :
          WeightedRoundRobin(k) = IF i \in DOMAIN Urls[k] THEN Pick(i) ELSE Panic
    BY <2>2, WeightedRoundRobinArm
  <2> QED BY <2>1, <2>3 DEF Pick, Panic
<1>5. CASE algorithm = "IPHash"
  <2>1. IpHash[addr] \in Nat /\ arm = Pick((IpHash[addr] % Len(Urls[k])) + 1)
    BY <1>5, LoadBalancerAssumption DEF Arms, Addrs
  <2> QED BY <2>1, HashedPick DEF Pick
<1>6. CASE algorithm = "ConsistentHashing"
  <2>1. Sha256[addr] \in Nat /\ arm = Pick((Sha256[addr] % Len(Urls[k])) + 1)
    BY <1>6, LoadBalancerAssumption, DispatchAssumption DEF Arms, Addrs
  <2> QED BY <2>1, HashedPick DEF Pick
<1>7. CASE algorithm = "WeightedLeastConnections"
  BY <1>7, WeightedLeastConnectionsPicks DEF Arms, Pick
<1> QED BY <1>1, <1>2, <1>3, <1>4, <1>5, <1>6, <1>7 DEF Balancer, Algorithms

LEMMA BalancerInit == Init => Balancer
<1> SUFFICES ASSUME Init PROVE Balancer
  OBVIOUS
<1>1. config \in Configs /\ IsConfig(config)
  BY DispatchAssumption DEF Init
<1>2. New(config.algorithm, config.weights)
  BY DEF Init
<1>3. DOMAIN weights \subseteq Keys /\ \A k \in DOMAIN weights : weights[k] \in Seq(Nat)
  <2>1. CASE config.weights = {}
    <3>1. weights = [k \in Keys |-> [i \in DOMAIN Urls[k] |-> 1]]
      BY <1>2, <2>1 DEF New
    <3>2. ASSUME NEW k \in Keys PROVE weights[k] \in Seq(Nat)
      <4>1. weights[k] = [i \in 1..Len(Urls[k]) |-> 1] /\ Len(Urls[k]) \in Nat
        BY <3>1, UrlFacts
      <4> QED BY <4>1
    <3> QED BY <3>1, <3>2
  <2>2. CASE config.weights # {}
    BY <1>1, <1>2, <2>2 DEF New, IsConfig
  <2> QED BY <2>1, <2>2
<1>4. counters \in [Keys -> Nat] /\ connections \in [AllUrls -> Nat] /\ DOMAIN served = Keys
      /\ order \in SetToSeqs(Keys)
  BY <1>2 DEF New
<1>5. \A k \in Keys : served[k] \in Seq(Nat) /\ Len(served[k]) = Len(Urls[k])
  <2> TAKE k \in Keys
  <2>1. served[k] = [i \in 1..Len(Urls[k]) |-> 0] /\ Len(Urls[k]) \in Nat
    BY <1>2, UrlFacts DEF New
  <2> QED BY <2>1
<1>6. algorithm \in Algorithms \union {"none"}
  BY <1>1, <1>2 DEF New, IsConfig
<1> QED BY <1>3, <1>4, <1>5, <1>6 DEF Balancer

\* A call of the balancer for a request that has a client.
Called(k, arm) ==
    /\ algorithm # "none"
    /\ \E path : \E addr \in Addrs :
         /\ k \in Keys /\ arm \in Arms(k, addr) /\ arm # GoOn
         /\ IsPrefix(k, path)
         /\ GetTarget(path, addr, k, arm)

\* GetTarget never goes on: that is what Deciding leaves out.
LEMMA GetTargetDecides ==
    ASSUME Balancer, NEW path, NEW addr, NEW k, NEW arm, GetTarget(path, addr, k, arm)
    PROVE  arm # GoOn /\ IsPrefix(k, path) /\ arm \in Arms(k, addr) /\ k \in Keys
<1> DEFINE n == Min(Deciding(path, addr))
<1>1. /\ Deciding(path, addr) # {} /\ k = order[n] /\ arm \in Arms(k, addr)
  BY DEF GetTarget
<1>2. Deciding(path, addr) \subseteq DOMAIN order /\ DOMAIN order \subseteq Nat
  BY Orders DEF Balancer, Deciding
<1>3. n \in Deciding(path, addr)
  BY <1>1, <1>2, LeastNatural
<1>4. n \in DOMAIN order /\ IsPrefix(order[n], path) /\ GoOn \notin Arms(order[n], addr)
  BY <1>3 DEF Deciding
<1>5. order[n] \in Keys
  BY <1>4, Orders DEF Balancer
<1> QED BY <1>1, <1>4, <1>5

LEMMA BalancerCall ==
    ASSUME Balancer, NEW k, NEW arm, Called(k, arm)
    PROVE  Balancer'
<1>1. PICK path : \E addr \in Addrs :
         k \in Keys /\ arm \in Arms(k, addr) /\ arm # GoOn /\ GetTarget(path, addr, k, arm)
  BY DEF Called
<1>2. PICK addr \in Addrs :
         k \in Keys /\ arm \in Arms(k, addr) /\ arm # GoOn /\ GetTarget(path, addr, k, arm)
  BY <1>1
<1>3. algorithm' = algorithm /\ weights' = weights /\ order' = order /\ algorithm # "none"
  BY <1>2 DEF GetTarget, lbConfig, Called
<1>4. counters' \in [Keys -> Nat]
  <2>1. CASE counters' = counters
    BY <2>1 DEF Balancer
  <2>2. CASE algorithm \in {"RoundRobin", "WeightedRoundRobin"} /\ arm # ReturnNone
    <3>1. counters' = [counters EXCEPT ![k] = (@ + 1) %
                        (IF algorithm = "RoundRobin" THEN Len(Urls[k]) ELSE WeightsSum(k))]
      BY <1>2, <2>2 DEF GetTarget, Turn
    <3>2. (IF algorithm = "RoundRobin" THEN Len(Urls[k]) ELSE WeightsSum(k)) \in Nat \ {0}
      <4>1. CASE algorithm = "RoundRobin"
        BY <1>2, <4>1, UrlFacts
      <4>2. CASE algorithm = "WeightedRoundRobin"
        <5>1. arm = WeightedRoundRobin(k)
          BY <1>2, <4>2 DEF Arms
        <5>2. k \in DOMAIN weights
          BY <2>2, <5>1 DEF WeightedRoundRobin
        <5>3. WeightsSum(k) \in Nat \ {0}
          BY <1>2, <5>1, <5>2, WeightedRoundRobinArm
        <5> QED BY <4>2, <5>3
      <4> QED BY <2>2, <4>1, <4>2
    <3>3. \A a \in Nat, b \in Nat \ {0} : (a + 1) % b \in Nat
      OBVIOUS
    <3> QED BY <1>2, <3>1, <3>2, <3>3 DEF Balancer
  <2> QED BY <1>2, <2>1, <2>2 DEF GetTarget
<1>5. connections' \in [AllUrls -> Nat]
  BY <1>2 DEF GetTarget, Connect, Balancer
<1>6. DOMAIN served' = Keys
      /\ \A q \in Keys : served'[q] \in Seq(Nat) /\ Len(served'[q]) = Len(Urls[q])
  <2>1. CASE arm.is = "pick"
    <3>1. served' = [served EXCEPT ![k][arm.index] = @ + 1] /\ arm.index \in DOMAIN Urls[k]
      BY <1>2, <1>3, <2>1, ArmPicks DEF GetTarget
    <3>2. /\ served[k] \in Seq(Nat) /\ Len(served[k]) = Len(Urls[k])
          /\ arm.index \in 1..Len(served[k])
      BY <1>2, <3>1, UrlFacts DEF Balancer
    <3>3. served[k][arm.index] + 1 \in Nat
      BY <3>2
    <3>4. /\ [served[k] EXCEPT ![arm.index] = served[k][arm.index] + 1] \in Seq(Nat)
          /\ Len([served[k] EXCEPT ![arm.index] = served[k][arm.index] + 1]) = Len(served[k])
      BY <3>2, <3>3, ExceptSeq
    <3>5. served' = [served EXCEPT ![k] =
                       [served[k] EXCEPT ![arm.index] = served[k][arm.index] + 1]]
      BY <3>1
    <3> QED BY <1>2, <3>2, <3>4, <3>5 DEF Balancer
  <2>2. CASE arm.is # "pick"
    BY <1>2, <2>2 DEF GetTarget, Balancer
  <2> QED BY <2>1, <2>2
<1> QED BY <1>3, <1>4, <1>5, <1>6 DEF Balancer

-----------------------------------------------------------------------------
(* Where requests are sent. *)

\* A request in the retry loop has what find_target gave it.
Routes ==
    /\ mapOrder \in SetToSeqs(Keys)
    /\ \A r \in Slots : at[r] # "idle" =>
         /\ route[r].path \in Paths
         /\ route[r].addr \in Addrs
         /\ route[r].key \in Keys /\ IsPrefix(route[r].key, route[r].path)
         /\ ~ route[r].routed => route[r].urls = Urls[route[r].key]
         /\ Head(route[r].urls) \in Range(route[r].urls)

\* Whatever a step does to the balancer, it does by a call of get_target.
LEMMA BalancerStep ==
    Balancer /\ Shape /\ Routes /\ [Next]_vars =>
        \/ UNCHANGED <<lbConfig, lbState>>
        \/ \E k, arm : Called(k, arm)
<1> SUFFICES ASSUME Balancer, Shape, Routes, [Next]_vars, ~ UNCHANGED <<lbConfig, lbState>>
             PROVE  \E k, arm : Called(k, arm)
  OBVIOUS
<1>1. CASE UNCHANGED vars
  BY <1>1 DEF vars
<1>2. ASSUME NEW r \in Slots, NEW path, NEW header, NotFound(r, path, header) PROVE FALSE
  BY <1>2 DEF NotFound, vars
<1>3. ASSUME NEW r \in Slots, NEW path, NEW header, NEW addr, Arrive(r, path, header, addr)
      PROVE  FALSE
  BY <1>3 DEF Arrive
<1>4. ASSUME NEW r \in Slots, SendBalanced(r) PROVE \E k, arm : Called(k, arm)
  <2>1. at[r] # "idle" /\ algorithm # "none"
    BY <1>4 DEF SendBalanced
  <2>2. route[r].addr \in Addrs
    BY <2>1 DEF Routes
  <2>3a. PICK k \in Keys : \E arm \in Arms(k, route[r].addr) :
           GetTarget(route[r].path, route[r].addr, k, arm)
    BY <1>4 DEF SendBalanced
  <2>3. PICK arm \in Arms(k, route[r].addr) : GetTarget(route[r].path, route[r].addr, k, arm)
    BY <2>3a
  <2>4. arm # GoOn /\ IsPrefix(k, route[r].path)
    BY <2>3, GetTargetDecides
  <2> QED BY <2>1, <2>2, <2>3, <2>4 DEF Called
<1>5. ASSUME NEW r \in Slots, SendUnbalanced(r) PROVE FALSE
  BY <1>5 DEF SendUnbalanced, GetNoTarget
<1>6. ASSUME NEW r \in Slots, Retry(r) PROVE FALSE
  BY <1>6 DEF Retry
<1>7. ASSUME NEW r \in Slots, Finish(r) PROVE FALSE
  BY <1>7 DEF Finish
<1>8. ASSUME NEW r \in Slots, NotModified(r) PROVE FALSE
  BY <1>8 DEF NotModified
<1> QED BY <1>1, <1>2, <1>3, <1>4, <1>5, <1>6, <1>7, <1>8 DEF Next

\* The algorithm is the configuration's for good.
LEMMA AlgorithmKept ==
    Balancer /\ Shape /\ Routes /\ [Next]_vars => algorithm' = algorithm
<1>1. UNCHANGED <<lbConfig, lbState>> => algorithm' = algorithm
  BY DEF lbConfig
<1>2. ASSUME NEW k, NEW arm, Called(k, arm) PROVE algorithm' = algorithm
  BY <1>2 DEF Called, GetTarget, lbConfig
<1> QED BY <1>1, <1>2, BalancerStep

\* What find_target takes covers the request, and has a URL for it.
LEMMA TargetCovers ==
    ASSUME mapOrder \in SetToSeqs(Keys), NEW path, NEW header, NEW addr,
           Takers(path, header) # {}
    PROVE  LET t == Target(path, header, addr)
           IN  /\ t.path = path /\ t.addr = addr
               /\ t.key \in Keys /\ IsPrefix(t.key, path)
               /\ ~ t.routed => t.urls = Urls[t.key]
               /\ Head(t.urls) \in Range(t.urls)
<1> DEFINE n == Min(Takers(path, header))
<1>1. Takers(path, header) \subseteq DOMAIN mapOrder /\ DOMAIN mapOrder \subseteq Nat
  BY Orders DEF Takers
<1>2. n \in Takers(path, header)
  BY <1>1, LeastNatural
<1>3. mapOrder[n] \in Keys /\ IsPrefix(mapOrder[n], path)
  BY <1>1, <1>2, Orders DEF Takers, Takes
<1>4. Head(Urls[mapOrder[n]]) \in Range(Urls[mapOrder[n]])
  <2>1. 1 \in DOMAIN Urls[mapOrder[n]] /\ Head(Urls[mapOrder[n]]) = Urls[mapOrder[n]][1]
    BY <1>3, UrlFacts
  <2> QED BY <1>3, <2>1, UrlFacts
<1>5. \A url : Head(<<url>>) \in Range(<<url>>)
  <2> TAKE url
  <2>1. Head(<<url>>) = <<url>>[1] /\ 1 \in DOMAIN <<url>>
    OBVIOUS
  <2> QED BY <2>1 DEF Range
<1> HIDE DEF n
<1> QED BY <1>3, <1>4, <1>5 DEF Target, n

LEMMA IdleKeepsRoutes ==
    ASSUME Shape, Routes, NEW r \in Slots, Idle(r), UNCHANGED mapOrder
    PROVE  Routes'
<1>1. at'[r] = "idle" /\ \A q \in Slots \ {r} : at'[q] = at[q] /\ route'[q] = route[q]
  BY DEF Idle, Shape
<1> QED BY <1>1 DEF Routes

LEMMA RoutesStep == Shape /\ Routes /\ [Next]_vars => Routes'
<1> SUFFICES ASSUME Shape, Routes, [Next]_vars PROVE Routes'
  OBVIOUS
<1>1. CASE UNCHANGED vars
  BY <1>1 DEF Routes, vars, dispatch
<1>2. ASSUME NEW r \in Slots, NEW path, NEW header, NotFound(r, path, header) PROVE Routes'
  BY <1>2 DEF Routes, NotFound, vars, dispatch
<1>3. ASSUME NEW r \in Slots, NEW path \in Paths, NEW header, NEW addr \in Addrs,
             Arrive(r, path, header, addr)
      PROVE  Routes'
  <2>1. /\ mapOrder' = mapOrder /\ Takers(path, header) # {}
        /\ route'[r] = Target(path, header, addr)
        /\ \A q \in Slots \ {r} : at'[q] = at[q] /\ route'[q] = route[q]
    BY <1>3 DEF Arrive, Shape
  <2>2. LET t == route'[r]
        IN  /\ t.path = path /\ t.addr = addr
            /\ t.key \in Keys /\ IsPrefix(t.key, path)
            /\ ~ t.routed => t.urls = Urls[t.key]
            /\ Head(t.urls) \in Range(t.urls)
    <3>1. mapOrder \in SetToSeqs(Keys)
      BY DEF Routes
    <3> QED BY <2>1, <3>1, TargetCovers
  <2> QED BY <2>1, <2>2 DEF Routes
<1>4. ASSUME NEW r \in Slots, NEW url, at[r] = "loop", SendTo(r, url) PROVE Routes'
  <2>1. CASE Idle(r) /\ UNCHANGED mapOrder
    BY <2>1, IdleKeepsRoutes
  <2>2. CASE ~ (Idle(r) /\ UNCHANGED mapOrder)
    <3>1. mapOrder' = mapOrder /\ route' = route /\ \A q \in Slots \ {r} : at'[q] = at[q]
      BY <1>4, <2>2, SendToEnds
    <3> QED BY <1>4, <3>1 DEF Routes
  <2> QED BY <2>1, <2>2
<1>5. ASSUME NEW r \in Slots, SendBalanced(r) PROVE Routes'
  <2>1. \/ at[r] = "loop" /\ \E url : SendTo(r, url)
        \/ Idle(r) /\ UNCHANGED mapOrder
    BY <1>5 DEF SendBalanced
  <2> QED BY <2>1, <1>4, IdleKeepsRoutes
<1>6. ASSUME NEW r \in Slots, SendUnbalanced(r) PROVE Routes'
  BY <1>6, <1>4 DEF SendUnbalanced
<1>7. ASSUME NEW r \in Slots, Retry(r) PROVE Routes'
  <2>1. \/ Idle(r) /\ UNCHANGED mapOrder
        \/ /\ at[r] = "upstream" /\ at' = [at EXCEPT ![r] = "loop"]
           /\ UNCHANGED <<mapOrder, route>>
    BY <1>7 DEF Retry
  <2>2. CASE /\ at[r] = "upstream" /\ at' = [at EXCEPT ![r] = "loop"]
             /\ UNCHANGED <<mapOrder, route>>
    <3>1. \A q \in Slots \ {r} : at'[q] = at[q]
      BY <2>2 DEF Shape
    <3> QED BY <2>2, <3>1 DEF Routes
  <2> QED BY <2>1, <2>2, IdleKeepsRoutes
<1>8. ASSUME NEW r \in Slots, Finish(r) PROVE Routes'
  BY <1>8, IdleKeepsRoutes DEF Finish
<1>9. ASSUME NEW r \in Slots, NotModified(r) PROVE Routes'
  <2>1. mapOrder' = mapOrder /\ route' = route /\ at[r] # "idle"
        /\ \A q \in Slots \ {r} : at'[q] = at[q]
    BY <1>9, NotModifiedTurns
  <2> QED BY <2>1 DEF Routes
<1> QED BY <1>1, <1>2, <1>3, <1>5, <1>6, <1>7, <1>8, <1>9 DEF Next

LEMMA RoutesInit == Init => Routes
BY DEF Init, Routes

LEMMA BalancerKept == Balancer /\ Shape /\ Routes /\ [Next]_vars => Balancer'
<1> SUFFICES ASSUME Balancer, Shape, Routes, [Next]_vars PROVE Balancer'
  OBVIOUS
<1>1. CASE UNCHANGED <<lbConfig, lbState>>
  BY <1>1 DEF Balancer, lbConfig, lbState
<1> QED BY <1>1, BalancerStep, BalancerCall

\* What find_target and the balancer may rely on at any time.
THEOREM DispatchInvariant == Spec => [](Shape /\ Routes /\ Balancer)
<1>1. Init => Shape /\ Routes /\ Balancer
  BY ShapeInit, RoutesInit, BalancerInit
<1>2. Shape /\ Routes /\ Balancer /\ [Next]_vars => (Shape /\ Routes /\ Balancer)'
  BY ShapeStep, RoutesStep, BalancerKept
<1> QED BY <1>1, <1>2, PTL DEF Spec

LEMMA PrefixAndRest ==
    ASSUME NEW S, NEW k \in Seq(S), NEW path \in Seq(S), IsPrefix(k, path)
    PROVE  k \o SubSeq(path, Len(k) + 1, Len(path)) = path
<1>1. Len(k) \in Nat /\ Len(path) \in Nat /\ Len(k) <= Len(path)
      /\ SubSeq(k, 1, Len(k)) = SubSeq(path, 1, Len(k))
  BY DEF IsPrefix
<1>2. \A i \in 1..Len(k) : k[i] = path[i]
  <2> TAKE i \in 1..Len(k)
  <2>1. SubSeq(k, 1, Len(k))[i] = k[i] /\ SubSeq(path, 1, Len(k))[i] = path[i]
    BY <1>1
  <2> QED BY <1>1, <2>1
<1> DEFINE rest == SubSeq(path, Len(k) + 1, Len(path))
<1>3. rest \in Seq(S) /\ Len(rest) = Len(path) - Len(k)
      /\ \A i \in 1..Len(path) - Len(k) : rest[i] = path[Len(k) + i]
  BY <1>1
<1> HIDE DEF rest
<1>4. k \o rest \in Seq(S) /\ Len(k \o rest) = Len(path)
      /\ \A i \in 1..Len(path) : (k \o rest)[i] = IF i <= Len(k) THEN k[i] ELSE rest[i - Len(k)]
  BY <1>1, <1>3
<1>5. \A i \in 1..Len(path) : (k \o rest)[i] = path[i]
  <2> TAKE i \in 1..Len(path)
  <2>1. CASE i <= Len(k)
    BY <1>1, <1>2, <1>4, <2>1
  <2>2. CASE ~ (i <= Len(k))
    <3>1. i - Len(k) \in 1..Len(path) - Len(k) /\ Len(k) + (i - Len(k)) = i
      BY <1>1, <2>2
    <3> QED BY <1>3, <1>4, <2>2, <3>1
  <2> QED BY <2>1, <2>2
<1>6. k \o rest = path
  BY <1>4, <1>5, SeqEqual
<1> QED BY <1>6 DEF rest

LEMMA RebuiltInFull ==
    ASSUME NEW path \in Paths, NEW k \in Keys, IsPrefix(k, path)
    PROVE  k \o SubSeq(path, Len(k) + 1, Len(path)) = path
<1> DEFINE S == Range(k) \union Range(path)
<1>1. k \in Seq(Range(k)) /\ path \in Seq(Range(path))
  BY LoadBalancerAssumption, DispatchAssumption DEF Keys
<1>2. k \in Seq(S) /\ path \in Seq(S)
  <2> HIDE DEF S
  <2>1. Range(k) \subseteq S /\ Range(path) \subseteq S
    BY DEF S
  <2> QED BY <1>1, <2>1, SeqMonotonic
<1> HIDE DEF S
<1> QED BY <1>2, PrefixAndRest

LEMMA IdleCovers ==
    ASSUME Shape, SentToCoveringTarget, NEW r \in Slots, Idle(r), algorithm' = algorithm
    PROVE  SentToCoveringTarget'
<1>1. at'[r] = "idle"
      /\ \A q \in Slots \ {r} : at'[q] = at[q] /\ route'[q] = route[q] /\ sent'[q] = sent[q]
  BY DEF Idle, Shape
<1>2. ASSUME NEW q \in Slots, at'[q] = "upstream"
      PROVE  /\ route'[q].key \o sent'[q].rest = route'[q].path
             /\ \/ sent'[q].url \in Range(route'[q].urls)
                \/ /\ algorithm # "none"
                   /\ \E k \in Keys :
                        /\ IsPrefix(k, route'[q].path)
                        /\ sent'[q].url \in Range(Urls[k])
                        /\ k # route'[q].key \/ route'[q].routed
  <2>1. at[q] = "upstream" /\ route'[q] = route[q] /\ sent'[q] = sent[q]
    BY <1>1, <1>2
  <2> QED BY <2>1 DEF SentToCoveringTarget
<1> QED BY <1>2 DEF SentToCoveringTarget

LEMMA SendCovers ==
    ASSUME Shape, Routes, SentToCoveringTarget, algorithm' = algorithm,
           NEW r \in Slots, at[r] = "loop", NEW url, SendTo(r, url),
           \/ url = Head(route[r].urls)
           \/ /\ algorithm # "none"
              /\ \E k \in Keys : IsPrefix(k, route[r].path) /\ url \in Range(Urls[k])
    PROVE  SentToCoveringTarget'
<1>1. CASE Idle(r)
  BY <1>1, IdleCovers
<1>2. CASE ~ Idle(r)
  <2>1. /\ route' = route /\ sent'[r] = Rebuild(r, url)
        /\ \A q \in Slots \ {r} : at'[q] = at[q] /\ sent'[q] = sent[q]
    BY <1>2, SendToEnds
  <2>2. /\ route[r].path \in Paths /\ route[r].key \in Keys
        /\ IsPrefix(route[r].key, route[r].path)
        /\ ~ route[r].routed => route[r].urls = Urls[route[r].key]
        /\ Head(route[r].urls) \in Range(route[r].urls)
    BY DEF Routes
  <2>3. /\ sent'[r].url = url
        /\ sent'[r].rest = SubSeq(route[r].path, Len(route[r].key) + 1, Len(route[r].path))
    BY <2>1 DEF Rebuild
  <2>4. route[r].key \o sent'[r].rest = route[r].path
    BY <2>2, <2>3, RebuiltInFull
  <2>5. \/ url \in Range(route[r].urls)
        \/ /\ algorithm # "none"
           /\ \E k \in Keys :
                /\ IsPrefix(k, route[r].path)
                /\ url \in Range(Urls[k])
                /\ k # route[r].key \/ route[r].routed
    BY <2>2
  <2>6. ASSUME NEW q \in Slots, at'[q] = "upstream"
        PROVE  /\ route[q].key \o sent'[q].rest = route[q].path
               /\ \/ sent'[q].url \in Range(route[q].urls)
                  \/ /\ algorithm # "none"
                     /\ \E k \in Keys :
                          /\ IsPrefix(k, route[q].path)
                          /\ sent'[q].url \in Range(Urls[k])
                          /\ k # route[q].key \/ route[q].routed
    <3>1. CASE q = r
      BY <2>3, <2>4, <2>5, <3>1
    <3>2. CASE q # r
      <4>1. at[q] = "upstream" /\ sent'[q] = sent[q]
        BY <2>1, <2>6, <3>2
      <4> QED BY <4>1 DEF SentToCoveringTarget
    <3> QED BY <3>1, <3>2
  <2> QED BY <2>1, <2>6 DEF SentToCoveringTarget
<1> QED BY <1>1, <1>2

LEMMA CoverStep ==
    Shape /\ Routes /\ Balancer /\ SentToCoveringTarget /\ [Next]_vars => SentToCoveringTarget'
<1> SUFFICES ASSUME Shape, Routes, Balancer, SentToCoveringTarget, [Next]_vars
             PROVE  SentToCoveringTarget'
  OBVIOUS
<1>0. algorithm' = algorithm
  BY AlgorithmKept
<1>1. CASE UNCHANGED vars
  BY <1>0, <1>1 DEF SentToCoveringTarget, vars, dispatch
<1>2. ASSUME NEW r \in Slots, NEW path, NEW header, NotFound(r, path, header)
      PROVE  SentToCoveringTarget'
  BY <1>0, <1>2 DEF SentToCoveringTarget, NotFound, vars, dispatch
<1>3. ASSUME NEW r \in Slots, NEW path, NEW header, NEW addr, Arrive(r, path, header, addr)
      PROVE  SentToCoveringTarget'
  <2>1. /\ at'[r] = "loop" /\ sent' = sent
        /\ \A q \in Slots \ {r} : at'[q] = at[q] /\ route'[q] = route[q]
    BY <1>3 DEF Arrive, Shape
  <2> QED BY <1>0, <2>1 DEF SentToCoveringTarget
<1>4. ASSUME NEW r \in Slots, SendBalanced(r) PROVE SentToCoveringTarget'
  <2>1. at[r] = "loop" /\ algorithm # "none" /\ route[r].addr \in Addrs
    BY <1>4 DEF SendBalanced, Routes
  <2>2a. PICK k \in Keys : \E arm \in Arms(k, route[r].addr) :
          /\ GetTarget(route[r].path, route[r].addr, k, arm)
          /\ \/ arm.is = "pick" /\ SendTo(r, Urls[k][arm.index])
             \/ arm = ReturnNone /\ SendTo(r, Head(route[r].urls))
             \/ arm = Panic /\ Idle(r)
    BY <1>4 DEF SendBalanced
  <2>2. PICK arm \in Arms(k, route[r].addr) :
          /\ GetTarget(route[r].path, route[r].addr, k, arm)
          /\ \/ arm.is = "pick" /\ SendTo(r, Urls[k][arm.index])
             \/ arm = ReturnNone /\ SendTo(r, Head(route[r].urls))
             \/ arm = Panic /\ Idle(r)
    BY <2>2a
  <2>3. IsPrefix(k, route[r].path)
    BY <2>2, GetTargetDecides
  <2>4. CASE arm.is = "pick" /\ SendTo(r, Urls[k][arm.index])
    <3>1. arm.index \in DOMAIN Urls[k]
      BY <2>1, <2>2, <2>4, ArmPicks
    <3>2. Urls[k][arm.index] \in Range(Urls[k])
      BY <3>1, UrlFacts
    <3> QED BY <1>0, <2>1, <2>3, <2>4, <3>2, SendCovers
  <2>5. CASE SendTo(r, Head(route[r].urls))
    BY <1>0, <2>1, <2>5, SendCovers
  <2> QED BY <1>0, <2>2, <2>4, <2>5, IdleCovers
<1>5. ASSUME NEW r \in Slots, SendUnbalanced(r) PROVE SentToCoveringTarget'
  BY <1>0, <1>5, SendCovers DEF SendUnbalanced
<1>6. ASSUME NEW r \in Slots, Retry(r) PROVE SentToCoveringTarget'
  <2>1. \/ Idle(r)
        \/ /\ at' = [at EXCEPT ![r] = "loop"] /\ sent' = [sent EXCEPT ![r] = Unsent]
           /\ route' = route
    BY <1>6 DEF Retry
  <2>2. CASE /\ at' = [at EXCEPT ![r] = "loop"] /\ sent' = [sent EXCEPT ![r] = Unsent]
             /\ route' = route
    <3>1. at'[r] = "loop" /\ \A q \in Slots \ {r} : at'[q] = at[q] /\ sent'[q] = sent[q]
      BY <2>2 DEF Shape
    <3> QED BY <1>0, <2>2, <3>1 DEF SentToCoveringTarget
  <2> QED BY <1>0, <2>1, <2>2, IdleCovers
<1>7. ASSUME NEW r \in Slots, Finish(r) PROVE SentToCoveringTarget'
  BY <1>0, <1>7, IdleCovers DEF Finish
<1>8. ASSUME NEW r \in Slots, NotModified(r) PROVE SentToCoveringTarget'
  <2>1. /\ route' = route /\ at'[r] = "loop"
        /\ \A q \in Slots \ {r} : at'[q] = at[q] /\ sent'[q] = sent[q]
    BY <1>8, NotModifiedTurns
  <2> QED BY <1>0, <2>1 DEF SentToCoveringTarget
<1> QED BY <1>1, <1>2, <1>3, <1>4, <1>5, <1>6, <1>7, <1>8 DEF Next

\* Every request is sent with all that remains of its path after its target's,
\* and to a URL that this target has for it, unless a balancer decided: then it
\* may be a URL of another configured path that covers the request, or one that
\* its routing header does not ask for.
THEOREM SentWhereItBelongs == Spec => []SentToCoveringTarget
<1>1. Init => SentToCoveringTarget
  BY DEF Init, SentToCoveringTarget
<1> QED BY <1>1, CoverStep, DispatchInvariant, PTL DEF Spec

-----------------------------------------------------------------------------
(* The types, and what the algorithms promise. *)

\* What a call does to the turns.
LEMMA CallTurns ==
    ASSUME Balancer, NEW k, NEW arm, Called(k, arm)
    PROVE  /\ k \in Keys /\ algorithm' = algorithm /\ weights' = weights /\ algorithm # "none"
           /\ \A q \in Keys \ {k} : counters'[q] = counters[q]
           /\ IF algorithm \in {"RoundRobin", "WeightedRoundRobin"} /\ arm # ReturnNone
              THEN counters'[k] = (counters[k] + 1) %
                     (IF algorithm = "RoundRobin" THEN Len(Urls[k]) ELSE WeightsSum(k))
              ELSE counters'[k] = counters[k]
<1>1. PICK path : \E addr \in Addrs : k \in Keys /\ GetTarget(path, addr, k, arm)
  BY DEF Called
<1>2. PICK addr \in Addrs : k \in Keys /\ GetTarget(path, addr, k, arm)
  BY <1>1
<1>3. k \in Keys /\ algorithm' = algorithm /\ weights' = weights /\ algorithm # "none"
  BY <1>2 DEF GetTarget, lbConfig, Called
<1>4. DOMAIN counters = Keys
  BY DEF Balancer
<1>5. IF algorithm \in {"RoundRobin", "WeightedRoundRobin"} /\ arm # ReturnNone
      THEN counters' = [counters EXCEPT ![k] = (counters[k] + 1) %
             (IF algorithm = "RoundRobin" THEN Len(Urls[k]) ELSE WeightsSum(k))]
      ELSE counters' = counters
  BY <1>2 DEF GetTarget, Turn
<1> QED BY <1>3, <1>4, <1>5

\* What a call does to the counts of calls and connections.
LEMMA CallServes ==
    ASSUME Balancer, NEW k, NEW arm, Called(k, arm)
    PROVE  /\ \A q \in Keys \ {k} : served'[q] = served[q]
           /\ arm.is = "pick" =>
                /\ arm.index \in DOMAIN Urls[k]
                /\ served'[k] = [served[k] EXCEPT ![arm.index] = @ + 1]
                /\ Connect(k, arm.index)
           /\ arm.is # "pick" => served' = served /\ connections' = connections
<1>1. PICK path : \E addr \in Addrs :
        k \in Keys /\ arm \in Arms(k, addr) /\ GetTarget(path, addr, k, arm)
  BY DEF Called
<1>2. PICK addr \in Addrs : k \in Keys /\ arm \in Arms(k, addr) /\ GetTarget(path, addr, k, arm)
  BY <1>1
<1>4. DOMAIN served = Keys /\ algorithm # "none"
  BY DEF Balancer, Called
<1>6. CASE arm.is = "pick"
  <2>1. arm.index \in DOMAIN Urls[k]
    BY <1>2, <1>4, <1>6, ArmPicks
  <2>2. Connect(k, arm.index) /\ served' = [served EXCEPT ![k][arm.index] = @ + 1]
    BY <1>2, <1>6 DEF GetTarget
  <2> QED BY <1>2, <1>4, <1>6, <2>1, <2>2
<1>7. CASE arm.is # "pick"
  <2>1. connections' = connections /\ served' = served
    BY <1>2, <1>7 DEF GetTarget
  <2> QED BY <1>4, <1>7, <2>1
<1> QED BY <1>6, <1>7

\* The arms of the two round robins and of the two least connections.
LEMMA ArmTaken ==
    ASSUME Balancer, NEW k, NEW arm, Called(k, arm)
    PROVE  /\ arm # GoOn
           /\ algorithm = "RoundRobin" => arm = RoundRobin(k)
           /\ algorithm = "WeightedRoundRobin" => arm = WeightedRoundRobin(k)
           /\ algorithm = "LeastConnections" => arm = LeastConnections(k)
           /\ algorithm = "WeightedLeastConnections" => arm = WeightedLeastConnections(k)
BY DEF Called, Arms

\* A counter never passes the turns that its path has.
Turns ==
    \A k \in Keys :
        /\ algorithm = "RoundRobin" => counters[k] < Len(Urls[k])
        /\ algorithm = "WeightedRoundRobin" /\ counters[k] > 0 => counters[k] < WeightsSum(k)

LEMMA RemainderBelow == \A a \in Nat, b \in Nat \ {0} : (a % b) \in Nat /\ (a % b) < b
OBVIOUS

LEMMA TurnsStep == Balancer /\ Shape /\ Routes /\ Turns /\ [Next]_vars => Turns'
<1> SUFFICES ASSUME Balancer, Shape, Routes, Turns, [Next]_vars PROVE Turns'
  OBVIOUS
<1>1. CASE UNCHANGED <<lbConfig, lbState>>
  BY <1>1 DEF Turns, lbConfig, lbState, WeightsSum, Cumulative
<1>2. ASSUME NEW k, NEW arm, Called(k, arm) PROVE Turns'
  <2>1. /\ k \in Keys /\ algorithm' = algorithm /\ weights' = weights
        /\ \A q \in Keys \ {k} : counters'[q] = counters[q]
        /\ IF algorithm \in {"RoundRobin", "WeightedRoundRobin"} /\ arm # ReturnNone
           THEN counters'[k] = (counters[k] + 1) %
                  (IF algorithm = "RoundRobin" THEN Len(Urls[k]) ELSE WeightsSum(k))
           ELSE counters'[k] = counters[k]
    BY <1>2, CallTurns
  <2>2. \A q : WeightsSum(q)' = WeightsSum(q)
    BY <2>1 DEF WeightsSum, Cumulative
  <2>3. counters[k] + 1 \in Nat /\ Len(Urls[k]) \in Nat \ {0}
    BY <2>1, UrlFacts DEF Balancer
  <2>4. CASE algorithm = "RoundRobin"
    <3>1. arm # ReturnNone
      BY <1>2, <2>4, ArmTaken DEF RoundRobin, Pick, ReturnNone
    <3>2. counters'[k] < Len(Urls[k])
      BY <2>1, <2>3, <2>4, <3>1, RemainderBelow
    <3> QED BY <2>1, <2>4, <3>2 DEF Turns
  <2>5. CASE algorithm = "WeightedRoundRobin"
    <3>1. CASE arm = ReturnNone
      <4>1. \A q \in Keys : counters'[q] = counters[q]
        BY <2>1, <3>1
      <4> QED BY <2>1, <2>2, <2>5, <4>1 DEF Turns
    <3>2. CASE arm # ReturnNone
      <4>1. k \in DOMAIN weights /\ WeightedRoundRobin(k) # GoOn
        BY <1>2, <2>5, <3>2, ArmTaken DEF WeightedRoundRobin
      <4>2. WeightsSum(k) \in Nat \ {0}
        BY <2>1, <4>1, WeightedRoundRobinArm
      <4>3. counters'[k] < WeightsSum(k)
        BY <2>1, <2>3, <2>5, <3>2, <4>2, RemainderBelow
      <4> QED BY <2>1, <2>2, <2>5, <4>3 DEF Turns
    <3> QED BY <3>1, <3>2
  <2> QED BY <2>1, <2>4, <2>5 DEF Turns
<1> QED BY <1>1, <1>2, BalancerStep

LEMMA TurnsInit == Init => Turns
<1> SUFFICES ASSUME Init, NEW k \in Keys
             PROVE  counters[k] = 0 /\ counters[k] < Len(Urls[k])
  BY DEF Turns
<1> QED BY UrlFacts DEF Init, New

\* Only a request that is out has something sent.
Unsents == \A r \in Slots : at[r] # "upstream" => sent[r] = Unsent

LEMMA UnsentsStep == Shape /\ Unsents /\ [Next]_vars => Unsents'
<1> SUFFICES ASSUME Shape, Unsents, [Next]_vars PROVE Unsents'
  OBVIOUS
<1>1. CASE UNCHANGED vars
  BY <1>1 DEF Unsents, vars, dispatch
<1>2. ASSUME NEW r \in Slots, NEW path, NEW header, NotFound(r, path, header) PROVE Unsents'
  BY <1>2 DEF Unsents, NotFound, vars, dispatch
<1>3. ASSUME NEW r \in Slots, NEW path, NEW header, NEW addr, Arrive(r, path, header, addr)
      PROVE  Unsents'
  <2>1. at[r] = "idle" /\ sent' = sent /\ \A q \in Slots \ {r} : at'[q] = at[q]
    BY <1>3 DEF Arrive, Shape
  <2> QED BY <2>1 DEF Unsents
<1>4. ASSUME NEW r \in Slots, NEW url, SendTo(r, url) PROVE Unsents'
  <2>1. CASE Idle(r)
    <3>1. sent'[r] = Unsent /\ \A q \in Slots \ {r} : at'[q] = at[q] /\ sent'[q] = sent[q]
      BY <2>1 DEF Idle, Shape
    <3> QED BY <3>1 DEF Unsents
  <2>2. CASE ~ Idle(r)
    <3>1. at'[r] = "upstream" /\ \A q \in Slots \ {r} : at'[q] = at[q] /\ sent'[q] = sent[q]
      BY <1>4, <2>2, SendToEnds
    <3> QED BY <3>1 DEF Unsents
  <2> QED BY <2>1, <2>2
<1>5. ASSUME NEW r \in Slots, Idle(r) PROVE Unsents'
  <2>1. sent'[r] = Unsent /\ \A q \in Slots \ {r} : at'[q] = at[q] /\ sent'[q] = sent[q]
    BY <1>5 DEF Idle, Shape
  <2> QED BY <2>1 DEF Unsents
<1>6. ASSUME NEW r \in Slots, SendBalanced(r) PROVE Unsents'
  BY <1>4, <1>5, <1>6 DEF SendBalanced
<1>7. ASSUME NEW r \in Slots, SendUnbalanced(r) PROVE Unsents'
  BY <1>4, <1>7 DEF SendUnbalanced
<1>8. ASSUME NEW r \in Slots, Retry(r) PROVE Unsents'
  <2>1. \/ Idle(r)
        \/ at' = [at EXCEPT ![r] = "loop"] /\ sent' = [sent EXCEPT ![r] = Unsent]
    BY <1>8, Zenon DEF Retry
  <2>2. CASE at' = [at EXCEPT ![r] = "loop"] /\ sent' = [sent EXCEPT ![r] = Unsent]
    <3>1. sent'[r] = Unsent /\ \A q \in Slots \ {r} : at'[q] = at[q] /\ sent'[q] = sent[q]
      BY <2>2 DEF Shape
    <3> QED BY <3>1 DEF Unsents
  <2> QED BY <2>1, <2>2, <1>5
<1>9. ASSUME NEW r \in Slots, Finish(r) PROVE Unsents'
  BY <1>5, <1>9 DEF Finish
<1>10. ASSUME NEW r \in Slots, NotModified(r) PROVE Unsents'
  <2>1. sent'[r] = Unsent /\ \A q \in Slots \ {r} : at'[q] = at[q] /\ sent'[q] = sent[q]
    BY <1>10, NotModifiedTurns
  <2> QED BY <2>1 DEF Unsents
<1> QED BY <1>1, <1>2, <1>3, <1>6, <1>7, <1>8, <1>9, <1>10 DEF Next

\* Every variable keeps its type; a round robin's counter stays below the turns
\* of its path, whatever the weights.
THEOREM TypeCorrect == Spec => []TypeOK
<1>1. Init => Turns /\ Unsents
  BY TurnsInit DEF Init, Unsents
<1>2. Shape /\ Routes /\ Balancer /\ Turns /\ Unsents => TypeOK
  <2> SUFFICES ASSUME Shape, Routes, Balancer, Turns, Unsents PROVE TypeOK
    OBVIOUS
  <2>1. \A k \in Keys : counters[k] \in Nat
    BY DEF Balancer
  <2>2. \A u \in AllUrls : connections[u] \in Nat
    BY DEF Balancer
  <2>3. \A k \in Keys : served[k] \in [DOMAIN Urls[k] -> Nat]
    <3> TAKE k \in Keys
    <3>1. served[k] \in Seq(Nat) /\ Len(served[k]) = Len(Urls[k]) /\ DOMAIN Urls[k] = 1..Len(Urls[k])
      BY UrlFacts DEF Balancer
    <3> QED BY <3>1
  <2>4. LBTypeOK
    BY <2>1, <2>2, <2>3 DEF LBTypeOK, Balancer, Turns
  <2> QED BY <2>4 DEF TypeOK, Shape, Routes, Unsents
<1> QED BY <1>1, <1>2, TurnsStep, UnsentsStep, DispatchInvariant, PTL DEF Spec

\* In a round the URLs before the counter have been given one turn more than the
\* last one.
RoundRobinTurns ==
    algorithm = "RoundRobin" =>
        \A k \in Keys : \A i \in DOMAIN Urls[k] :
            served[k][i] = served[k][Len(Urls[k])] + (IF i <= counters[k] THEN 1 ELSE 0)

LEMMA RoundRobinTurnsStep ==
    Balancer /\ Shape /\ Routes /\ Turns /\ RoundRobinTurns /\ [Next]_vars => RoundRobinTurns'
<1> SUFFICES ASSUME Balancer, Shape, Routes, Turns, RoundRobinTurns, [Next]_vars
             PROVE  RoundRobinTurns'
  OBVIOUS
<1>1. CASE UNCHANGED <<lbConfig, lbState>>
  BY <1>1 DEF RoundRobinTurns, lbConfig, lbState
<1>2. ASSUME NEW k, NEW arm, Called(k, arm), algorithm = "RoundRobin" PROVE RoundRobinTurns'
  <2> DEFINE n == Len(Urls[k])
             c == counters[k]
             s == served[k]
  <2>1. /\ k \in Keys /\ algorithm' = algorithm
        /\ \A q \in Keys \ {k} : counters'[q] = counters[q]
    BY <1>2, CallTurns
  <2>2. n \in Nat \ {0} /\ DOMAIN Urls[k] = 1..n /\ c \in Nat /\ c < n
    BY <1>2, <2>1, UrlFacts DEF Balancer, Turns
  <2>3. s \in Seq(Nat) /\ Len(s) = n
    BY <2>1 DEF Balancer
  <2>4. arm = Pick(c + 1) /\ arm # ReturnNone
    <3>1. \A a \in Nat, b \in Nat \ {0} : a < b => (a % b) = a
      OBVIOUS
    <3>2. (c % n) = c
      BY <2>2, <3>1
    <3> QED BY <1>2, <3>2, ArmTaken DEF RoundRobin, Pick, ReturnNone
  <2>5. counters'[k] = (c + 1) % n
    BY <1>2, <2>4, CallTurns
  <2>6. /\ \A q \in Keys \ {k} : served'[q] = served[q]
        /\ served'[k] = [s EXCEPT ![c + 1] = @ + 1]
    BY <1>2, <2>4, CallServes DEF Pick
  <2>7. \A i \in 1..n : s[i] = s[n] + (IF i <= c THEN 1 ELSE 0)
    BY <1>2, <2>1, <2>2 DEF RoundRobinTurns
  <2>8. \A i \in 1..n : s[i] \in Nat
    BY <2>2, <2>3
  <2> HIDE DEF n, c, s
  <2>9. \A i \in 1..n : served'[k][i] = IF i = c + 1 THEN s[i] + 1 ELSE s[i]
    BY <2>2, <2>3, <2>6
  <2>10. \A i \in 1..n :
           served'[k][i] = served'[k][n] + (IF i <= counters'[k] THEN 1 ELSE 0)
    <3>1. CASE c + 1 < n
      <4>1. \A a \in Nat, b \in Nat \ {0} : a + 1 < b => ((a + 1) % b) = a + 1
        OBVIOUS
      <4>2. counters'[k] = c + 1
        BY <2>2, <2>5, <3>1, <4>1
      <4>3. served'[k][n] = s[n] /\ n \in 1..n
        BY <2>2, <2>9, <3>1
      <4> QED BY <2>2, <2>7, <2>8, <2>9, <4>2, <4>3
    <3>2. CASE c + 1 = n
      <4>1. \A b \in Nat \ {0} : (b % b) = 0
        OBVIOUS
      <4>2. counters'[k] = 0
        BY <2>2, <2>5, <3>2, <4>1
      <4>3. served'[k][n] = s[n] + 1 /\ n \in 1..n
        BY <2>2, <2>9, <3>2
      <4> QED BY <2>2, <2>7, <2>8, <2>9, <3>2, <4>2, <4>3
    <3> QED BY <2>2, <3>1, <3>2
  <2>11. \A q \in Keys \ {k} : counters'[q] = counters[q] /\ served'[q] = served[q]
    BY <2>1, <2>6
  <2> QED BY <1>2, <2>1, <2>2, <2>10, <2>11 DEF RoundRobinTurns, n
<1>3. algorithm # "RoundRobin" /\ (\E k, arm : Called(k, arm)) => RoundRobinTurns'
  BY CallTurns DEF RoundRobinTurns
<1> QED BY <1>1, <1>2, <1>3, BalancerStep

\* Round robin gives no URL of a path two turns more than another, over all
\* requests, retries and paths that share the balancer.
THEOREM RoundRobinIsEven == Spec => []RoundRobinEven
<1>1. Init => RoundRobinTurns
  <2> SUFFICES ASSUME Init, NEW k \in Keys, NEW i \in DOMAIN Urls[k]
               PROVE  served[k][i] = served[k][Len(Urls[k])] + (IF i <= counters[k] THEN 1 ELSE 0)
    BY DEF RoundRobinTurns
  <2>1. Len(Urls[k]) \in DOMAIN Urls[k] /\ i \in 1..Len(Urls[k]) /\ Len(Urls[k]) \in Nat
    BY UrlFacts
  <2>2. served[k][i] = 0 /\ served[k][Len(Urls[k])] = 0 /\ counters[k] = 0
    BY <2>1 DEF Init, New
  <2> QED BY <2>1, <2>2
<1>2. Balancer /\ RoundRobinTurns => RoundRobinEven
  <2> SUFFICES ASSUME Balancer, RoundRobinTurns, algorithm = "RoundRobin", NEW k \in Keys,
                      NEW i \in DOMAIN Urls[k], NEW j \in DOMAIN Urls[k]
               PROVE  served[k][i] <= served[k][j] + 1
    BY DEF RoundRobinEven
  <2>1. Len(Urls[k]) \in DOMAIN Urls[k] /\ served[k] \in Seq(Nat) /\ Len(served[k]) = Len(Urls[k])
        /\ DOMAIN Urls[k] = 1..Len(Urls[k])
    BY UrlFacts DEF Balancer
  <2>2. served[k][Len(Urls[k])] \in Nat
    BY <2>1
  <2>3. /\ served[k][i] = served[k][Len(Urls[k])] + (IF i <= counters[k] THEN 1 ELSE 0)
        /\ served[k][j] = served[k][Len(Urls[k])] + (IF j <= counters[k] THEN 1 ELSE 0)
    BY DEF RoundRobinTurns
  <2> QED BY <2>2, <2>3
<1>3. Init => Turns
  BY TurnsInit
<1> QED BY <1>1, <1>2, <1>3, TurnsStep, RoundRobinTurnsStep, DispatchInvariant, PTL DEF Spec

-----------------------------------------------------------------------------
(* Least connections. *)

IsLeast == algorithm \in {"LeastConnections", "WeightedLeastConnections"}

\* The connections of a URL of one path alone are the calls it was given.
Counted ==
    IsLeast => \A k \in Keys : Unshared(k) =>
                   \A i \in DOMAIN Urls[k] : Count(k, i) = served[k][i]

LEMMA CountedStep == Balancer /\ Shape /\ Routes /\ Counted /\ [Next]_vars => Counted'
<1> SUFFICES ASSUME Balancer, Shape, Routes, Counted, [Next]_vars PROVE Counted'
  OBVIOUS
<1>1. CASE UNCHANGED <<lbConfig, lbState>>
  BY <1>1 DEF Counted, IsLeast, Count, lbConfig, lbState
<1>2. ASSUME NEW k, NEW arm, Called(k, arm), IsLeast, arm.is = "pick" PROVE Counted'
  <2> DEFINE i == arm.index
             u == Urls[k][i]
  <2>1. k \in Keys /\ algorithm' = algorithm
    BY <1>2, CallTurns
  <2>2. /\ i \in DOMAIN Urls[k]
        /\ served'[k] = [served[k] EXCEPT ![i] = @ + 1]
        /\ \A q \in Keys \ {k} : served'[q] = served[q]
        /\ Connect(k, i)
    BY <1>2, CallServes
  <2> HIDE DEF i
  <2>3. u \in AllUrls /\ u \in Range(Urls[k]) /\ connections' = [connections EXCEPT ![u] = @ + 1]
    BY <1>2, <2>1, <2>2, UrlFacts DEF Connect, IsLeast
  <2>4. \A v \in AllUrls : connections'[v] = IF v = u THEN connections[v] + 1 ELSE connections[v]
    BY <2>3 DEF Balancer
  <2>5. i \in 1..Len(served[k]) /\ DOMAIN Urls[k] = 1..Len(served[k]) /\ served[k] \in Seq(Nat)
    BY <2>1, <2>2, UrlFacts DEF Balancer
  <2>6. \A j \in DOMAIN Urls[k] : served'[k][j] = IF j = i THEN served[k][j] + 1 ELSE served[k][j]
    BY <2>2, <2>5
  <2>7. ASSUME NEW q \in Keys, Unshared(q), NEW j \in DOMAIN Urls[q]
        PROVE  connections'[Urls[q][j]] = served'[q][j]
    <3>1. connections[Urls[q][j]] = served[q][j] /\ Urls[q][j] \in AllUrls
          /\ Urls[q][j] \in Range(Urls[q])
      BY <1>2, <2>7, UrlFacts DEF Counted, Count
    <3>2. CASE q = k
      <4>1. Urls[q][j] = u <=> j = i
        BY <2>2, <2>7, <3>2 DEF Unshared
      <4> QED BY <2>4, <2>6, <3>1, <3>2, <4>1
    <3>3. CASE q # k
      <4>1. Urls[q][j] # u
        BY <2>1, <2>3, <2>7, <3>1, <3>3 DEF Unshared
      <4> QED BY <2>2, <2>4, <3>1, <3>3, <4>1
    <3> QED BY <3>2, <3>3
  <2> QED BY <2>7 DEF Counted, Count
<1>3. ASSUME NEW k, NEW arm, Called(k, arm), IsLeast, arm.is # "pick" PROVE Counted'
  <2>1. served' = served /\ connections' = connections /\ algorithm' = algorithm
    BY <1>3, CallServes, CallTurns, Zenon
  <2> QED BY <1>3, <2>1 DEF Counted, Count
<1>4. ~ IsLeast /\ (\E k, arm : Called(k, arm)) => Counted'
  BY CallTurns DEF Counted, IsLeast
<1> QED BY <1>1, <1>2, <1>3, <1>4, BalancerStep

\* The fairness of one path, which a call keeps.
LEMMA LeastEvenStep ==
    Balancer /\ Shape /\ Routes /\ Counted /\ LeastConnectionsEven /\ [Next]_vars
        => LeastConnectionsEven'
<1> SUFFICES ASSUME Balancer, Shape, Routes, Counted, LeastConnectionsEven, [Next]_vars, IsLeast',
                    NEW q \in Keys, Weighted(q)', Unshared(q),
                    NEW i \in DOMAIN Urls[q], NEW j \in DOMAIN Urls[q],
                    WeightOf(q, i)' > 0, WeightOf(q, j)' > 0
             PROVE  (served'[q][i] - 1) * WeightOf(q, j)' <= served'[q][j] * WeightOf(q, i)'
  BY DEF LeastConnectionsEven, IsLeast, Unshared
<1>1. algorithm' = algorithm /\ weights' = weights
  <2>1. CASE UNCHANGED <<lbConfig, lbState>>
    BY <2>1 DEF lbConfig
  <2> QED BY <2>1, BalancerStep, CallTurns
<1>2. IsLeast /\ Weighted(q) /\ WeightOf(q, i) > 0 /\ WeightOf(q, j) > 0
      /\ WeightOf(q, i)' = WeightOf(q, i) /\ WeightOf(q, j)' = WeightOf(q, j)
  BY <1>1 DEF IsLeast, Weighted, WeightsSum, Cumulative, WeightOf
<1> DEFINE w(m) == WeightOf(q, m)
           s    == served[q]
<1>3. /\ DOMAIN Urls[q] = 1..Len(s) /\ s \in Seq(Nat)
      /\ w(i) \in Nat \ {0} /\ w(j) \in Nat \ {0}
  <2>1. DOMAIN Urls[q] = 1..Len(s) /\ s \in Seq(Nat) /\ Len(s) = Len(Urls[q])
    BY UrlFacts DEF Balancer
  <2>2. weights[q] \in Seq(Nat) /\ DOMAIN weights[q] = DOMAIN Urls[q]
    BY <1>2, <2>1 DEF Weighted, Balancer
  <2>3. weights[q][i] \in Nat /\ weights[q][j] \in Nat
    BY <2>2
  <2> QED BY <1>2, <2>1, <2>3 DEF WeightOf
<1>4. s[i] \in Nat /\ s[j] \in Nat
  BY <1>3
<1>5. (s[i] - 1) * w(j) <= s[j] * w(i)
  BY <1>2 DEF LeastConnectionsEven, IsLeast
<1>6. CASE served'[q] = s
  BY <1>2, <1>5, <1>6
<1>7. ASSUME NEW k, NEW arm, Called(k, arm), served'[q] # s
      PROVE  (served'[q][i] - 1) * w(j) <= served'[q][j] * w(i)
  <2> DEFINE m == arm.index
  <2>1. /\ q = k /\ arm.is = "pick" /\ m \in DOMAIN Urls[q]
        /\ served'[q] = [s EXCEPT ![m] = @ + 1]
    <3>1. q = k
      <4>1. \A p \in Keys \ {k} : served'[p] = served[p]
        BY <1>7, CallServes, Zenon
      <4> QED BY <1>7, <4>1
    <3>2. arm.is = "pick"
      <4>1. arm.is # "pick" => served' = served
        BY <1>7, CallServes, Zenon
      <4> QED BY <1>7, <4>1
    <3> QED BY <1>7, <3>1, <3>2, CallServes
  <2>2. m \in DOMAIN Urls[q] /\ \A p \in DOMAIN Urls[q] :
            w(m) > 0 /\ (w(p) > 0 => Count(q, m) * w(p) <= Count(q, p) * w(m))
    <3>1. CASE algorithm = "LeastConnections"
      <4>1. PICK x \in DOMAIN Urls[q] :
              arm = Pick(x) /\ \A p \in DOMAIN Urls[q] : Count(q, x) <= Count(q, p)
        BY <1>7, <2>1, <3>1, ArmTaken, LeastConnectionsPicks
      <4>2. m = x
        BY <4>1 DEF Pick
      <4>3. \A p \in DOMAIN Urls[q] : Count(q, p) \in Nat /\ w(p) = 1
        BY <3>1, UrlFacts DEF Count, Balancer, WeightOf
      <4> HIDE DEF m, w
      <4> QED BY <4>1, <4>2, <4>3
    <3>2. CASE algorithm = "WeightedLeastConnections"
      <4>1. PICK x \in DOMAIN Urls[q] :
              /\ arm = Pick(x) /\ weights[q][x] > 0
              /\ \A p \in DOMAIN Urls[q] : weights[q][p] > 0 =>
                    Count(q, x) * weights[q][p] <= Count(q, p) * weights[q][x]
        BY <1>7, <2>1, <3>2, ArmTaken, WeightedLeastConnectionsPicks
      <4>2. m = x
        BY <4>1 DEF Pick
      <4>3. \A p : w(p) = weights[q][p]
        BY <3>2 DEF WeightOf
      <4> HIDE DEF m, w
      <4> QED BY <4>1, <4>2, <4>3
    <3> QED BY <1>2, <3>1, <3>2 DEF IsLeast
  <2>3. \A p \in DOMAIN Urls[q] : Count(q, p) = s[p]
    BY <1>2 DEF Counted
  <2>4. s[m] * w(j) <= s[j] * w(m)
    <3> HIDE DEF m, w, s
    <3> QED BY <1>2, <2>2, <2>3 DEF w
  <2>5. \A p \in DOMAIN Urls[q] : served'[q][p] = IF p = m THEN s[p] + 1 ELSE s[p]
    <3> HIDE DEF m
    <3> QED BY <1>3, <2>1
  <2>6. s[m] \in Nat /\ DOMAIN Urls[q] = 1..Len(s)
    BY <1>3, <2>1
  <2> HIDE DEF m, w, s
  <2>7. CASE i = m /\ j = m
    <3>1. \A x \in Nat, y \in Nat : ((x + 1) - 1) * y <= (x + 1) * y
      OBVIOUS
    <3> QED BY <1>3, <2>5, <2>6, <2>7, <3>1
  <2>8. CASE i = m /\ j # m
    <3>1. served'[q][i] - 1 = s[m] /\ served'[q][j] = s[j]
      BY <2>5, <2>6, <2>8
    <3> QED BY <2>4, <2>8, <3>1
  <2>9. CASE i # m /\ j = m
    <3>1. served'[q][i] = s[i] /\ served'[q][j] = s[j] + 1
      BY <2>5, <2>9
    <3>2. \A x, y, a, b \in Nat : (x - 1) * b <= y * a => (x - 1) * b <= (y + 1) * a
      <4> TAKE x, y, a, b \in Nat
      <4>1. (y + 1) * a = y * a + a
        OBVIOUS
      <4>2. y * a \in Nat /\ (x - 1) * b \in Int
        OBVIOUS
      <4> QED BY <4>1, <4>2
    <3> QED BY <1>3, <1>4, <1>5, <3>1, <3>2
  <2>10. CASE i # m /\ j # m
    BY <1>5, <2>5, <2>10
  <2> QED BY <2>7, <2>8, <2>9, <2>10
<1>8. CASE UNCHANGED <<lbConfig, lbState>>
  BY <1>6, <1>8 DEF lbState
<1> QED BY <1>2, <1>6, <1>7, <1>8, BalancerStep

\* Least connections picks no URL ahead of another one that has, for its weight,
\* been picked less often.
THEOREM LeastConnectionsAreEven == Spec => []LeastConnectionsEven
<1>1. Init => Counted
  BY UrlFacts DEF Init, New, Counted, Count
<1>2. Init => LeastConnectionsEven
  <2> SUFFICES ASSUME Init, algorithm \in {"LeastConnections", "WeightedLeastConnections"},
                      NEW k \in Keys, Weighted(k),
                      NEW i \in DOMAIN Urls[k], NEW j \in DOMAIN Urls[k]
               PROVE  WeightOf(k, i) > 0 /\ WeightOf(k, j) > 0 =>
                        (served[k][i] - 1) * WeightOf(k, j) <= served[k][j] * WeightOf(k, i)
    BY DEF LeastConnectionsEven
  <2>1. served[k][i] = 0 /\ served[k][j] = 0
    BY DEF Init, New
  <2>2. WeightOf(k, i) \in Nat /\ WeightOf(k, j) \in Nat
    <3>1. Balancer
      BY BalancerInit
    <3>2. weights[k] \in Seq(Nat) /\ Len(weights[k]) = Len(Urls[k])
      BY <3>1 DEF Weighted, Balancer
    <3>3. i \in 1..Len(weights[k]) /\ j \in 1..Len(weights[k])
      BY <3>2, UrlFacts
    <3> QED BY <3>2, <3>3 DEF WeightOf
  <2>3. \A x, y \in Nat : (0 - 1) * y <= 0 * x
    OBVIOUS
  <2> QED BY <2>1, <2>2, <2>3
<1> QED BY <1>1, <1>2, CountedStep, LeastEvenStep, DispatchInvariant, PTL DEF Spec

-----------------------------------------------------------------------------
(* Weighted round robin. *)

\* One more of one number is one more of the sum.
LEMMA SumOneMore ==
    ASSUME NEW s \in Seq(Nat), NEW m \in 1..Len(s), NEW t \in Seq(Nat), Len(t) = Len(s),
           \A i \in 1..Len(s) : t[i] = IF i = m THEN s[i] + 1 ELSE s[i]
    PROVE  SumTo(t, Len(t)) = SumTo(s, Len(s)) + 1
<1> DEFINE n == Len(s)
           S == {i \in Nat : i <= n => SumTo(t, i) = SumTo(s, i) + (IF m <= i THEN 1 ELSE 0)}
<1>1. n \in Nat /\ m \in 1..n /\ \A i \in 1..n : s[i] \in Nat
  <2>1. \A i \in DOMAIN s : s[i] \in Nat
    BY ElementOfSeq, SMT
  <2>2. DOMAIN s = 1..n /\ n \in Nat
    OBVIOUS
  <2> QED BY <2>1, <2>2
<1>2. /\ SumTo(s, 0) = 0 /\ SumTo(t, 0) = 0
      /\ \A i \in 0..n : SumTo(s, i) \in Nat
      /\ \A i \in 1..n : SumTo(s, i) = SumTo(s, i - 1) + s[i]
      /\ \A i \in 1..n : SumTo(t, i) = SumTo(t, i - 1) + t[i]
  BY SumToStep
<1>3. 0 \in S
  BY <1>1, <1>2
<1>4. ASSUME NEW i \in Nat, i \in S PROVE i + 1 \in S
  <2> SUFFICES ASSUME i + 1 <= n
               PROVE  SumTo(t, i + 1) = SumTo(s, i + 1) + (IF m <= i + 1 THEN 1 ELSE 0)
    OBVIOUS
  <2>1. i + 1 \in 1..n /\ (i + 1) - 1 = i /\ i \in 0..n /\ i <= n
    BY <1>1
  <2>2. SumTo(t, i) = SumTo(s, i) + (IF m <= i THEN 1 ELSE 0)
    BY <1>4, <2>1
  <2>3. SumTo(s, i + 1) = SumTo(s, i) + s[i + 1] /\ SumTo(t, i + 1) = SumTo(t, i) + t[i + 1]
    BY <1>2, <2>1
  <2>4. t[i + 1] = IF i + 1 = m THEN s[i + 1] + 1 ELSE s[i + 1]
    BY <2>1
  <2>5. SumTo(s, i) \in Nat /\ s[i + 1] \in Nat
    BY <1>1, <1>2, <2>1
  <2> QED BY <1>1, <2>2, <2>3, <2>4, <2>5
<1>5. n \in S
  <2> HIDE DEF S
  <2> QED BY <1>1, <1>3, <1>4, SetInduction
<1> QED BY <1>1, <1>5

LEMMA SumOfNothing ==
    ASSUME NEW s \in Seq(Nat), \A i \in 1..Len(s) : s[i] = 0
    PROVE  SumTo(s, Len(s)) = 0
<1> DEFINE S == {i \in Nat : i <= Len(s) => SumTo(s, i) = 0}
<1>1. SumTo(s, 0) = 0 /\ \A i \in 1..Len(s) : SumTo(s, i) = SumTo(s, i - 1) + s[i]
  BY SumToStep
<1>2. 0 \in S
  BY <1>1
<1>3. ASSUME NEW i \in Nat, i \in S PROVE i + 1 \in S
  <2> SUFFICES ASSUME i + 1 <= Len(s) PROVE SumTo(s, i + 1) = 0
    OBVIOUS
  <2>1. i + 1 \in 1..Len(s) /\ (i + 1) - 1 = i /\ i <= Len(s)
    OBVIOUS
  <2> QED BY <1>1, <1>3, <2>1
<1>4. Len(s) \in Nat /\ Nat \subseteq S
  <2> HIDE DEF S
  <2> QED BY <1>2, <1>3, SetInduction
<1> QED BY <1>4

\* The next number's quotient and remainder.
LEMMA NextRemainder ==
    ASSUME NEW a \in Nat, NEW b \in Nat \ {0}
    PROVE  /\ (a \div b) \in Nat /\ (a % b) \in Nat /\ (a % b) < b
           /\ (a % b) + 1 < b =>
                ((a + 1) \div b) = (a \div b) /\ ((a + 1) % b) = (a % b) + 1
           /\ ~ ((a % b) + 1 < b) =>
                ((a + 1) \div b) = (a \div b) + 1 /\ ((a + 1) % b) = 0
                /\ (((a % b) + 1) % b) = 0
           /\ (((a % b) + 1) % b) = ((a + 1) % b)
<1>1. (a \div b) \in Nat /\ (a % b) \in Nat /\ (a % b) < b
  BY DivBounds, RemainderBelow
<1>2. a = b * (a \div b) + (a % b)
  OBVIOUS
<1>3. a + 1 = b * ((a + 1) \div b) + ((a + 1) % b) /\ ((a + 1) \div b) \in Nat
      /\ ((a + 1) % b) \in Nat /\ ((a + 1) % b) < b
  <2>1. a + 1 \in Nat
    OBVIOUS
  <2>2. \A c \in Nat : c = b * (c \div b) + (c % b)
    OBVIOUS
  <2> QED BY <2>1, <2>2, DivBounds, RemainderBelow
<1> DEFINE q == a \div b
           r == a % b
           p == (a + 1) \div b
           t == (a + 1) % b
<1>4. \A x, y, u, v \in Nat : x < b /\ y < b /\ b * u + x = b * v + y => u = v /\ x = y
  <2> TAKE x, y, u, v \in Nat
  <2> HAVE x < b /\ y < b /\ b * u + x = b * v + y
  <2>1. b * (u - v) = y - x
    OBVIOUS
  <2>2. ~ (u - v >= 1)
    <3> SUFFICES ASSUME u - v >= 1 PROVE FALSE
      OBVIOUS
    <3>1. b * (u - v) >= b
      <4>1. \A z \in Nat : z >= 1 => b * z >= b
        OBVIOUS
      <4> QED BY <4>1
    <3> QED BY <2>1, <3>1
  <2>3. ~ (v - u >= 1)
    <3> SUFFICES ASSUME v - u >= 1 PROVE FALSE
      OBVIOUS
    <3>1. b * (v - u) >= b
      <4>1. \A z \in Nat : z >= 1 => b * z >= b
        OBVIOUS
      <4> QED BY <4>1
    <3>2. b * (v - u) = x - y
      OBVIOUS
    <3> QED BY <3>1, <3>2
  <2>4. u = v
    BY <2>2, <2>3
  <2> QED BY <2>4
<1>5. q \in Nat /\ r \in Nat /\ r < b /\ p \in Nat /\ t \in Nat /\ t < b
      /\ a = b * q + r /\ a + 1 = b * p + t
  BY <1>1, <1>2, <1>3
<1>6. \A x \in Nat : x < b => (x % b) = x
  OBVIOUS
<1>7. (b % b) = 0
  OBVIOUS
<1> HIDE DEF q, r, p, t
<1>8. CASE r + 1 < b
  <2>1. b * q + (r + 1) = b * p + t /\ r + 1 \in Nat
    BY <1>5
  <2>2. p = q /\ t = r + 1
    BY <1>4, <1>5, <1>8, <2>1
  <2>3. ((r + 1) % b) = r + 1
    BY <1>6, <1>8, <2>1
  <2> QED BY <1>1, <1>8, <2>2, <2>3 DEF q, r, p, t
<1>9. CASE ~ (r + 1 < b)
  <2>1. r + 1 = b
    BY <1>5, <1>9
  <2>2. b * (q + 1) + 0 = b * p + t /\ q + 1 \in Nat
    BY <1>5, <2>1
  <2>3. p = q + 1 /\ t = 0
    BY <1>4, <1>5, <2>2
  <2>4. ((r + 1) % b) = 0
    BY <1>7, <2>1
  <2> QED BY <1>1, <1>9, <2>3, <2>4 DEF q, r, p, t
<1> QED BY <1>8, <1>9

\* The counter of a path that its weights can serve counts its calls.
SharesCounted ==
    algorithm = "WeightedRoundRobin" =>
        \A k \in Keys : Weighted(k) => counters[k] = (Calls(k) % WeightsSum(k))

\* The shares of one path after a call.
LEMMA SharesStep ==
    Balancer /\ Shape /\ Routes /\ SharesCounted /\ WeightedShares /\ [Next]_vars
        => SharesCounted' /\ WeightedShares'
<1> SUFFICES ASSUME Balancer, Shape, Routes, SharesCounted, WeightedShares, [Next]_vars,
                    algorithm' = "WeightedRoundRobin",
                    NEW q \in Keys, Weighted(q)'
             PROVE  /\ counters'[q] = (Calls(q)' % WeightsSum(q)')
                    /\ \A i \in DOMAIN Urls[q] :
                         served'[q][i] =
                           (Calls(q)' \div WeightsSum(q)') * weights'[q][i]
                           + Clamp((Calls(q)' % WeightsSum(q)') - Cumulative(q, i - 1)', 0, weights'[q][i])
  <2> USE DEF SharesCounted, WeightedShares
  <2> QED OBVIOUS
<1>1. algorithm' = algorithm /\ weights' = weights
  <2>1. CASE UNCHANGED <<lbConfig, lbState>>
    BY <2>1 DEF lbConfig
  <2> QED BY <2>1, BalancerStep, CallTurns
<1> DEFINE w == weights[q]
           s == served[q]
           W == WeightsSum(q)
           n == Len(Urls[q])
           a == Calls(q)
           lo(i) == Cumulative(q, i - 1)
<1>2. /\ algorithm = "WeightedRoundRobin" /\ Weighted(q)
      /\ WeightsSum(q)' = W /\ \A i : lo(i)' = lo(i)
  BY <1>1 DEF Weighted, WeightsSum, Cumulative
<1>3. /\ counters[q] = (a % W)
      /\ \A i \in DOMAIN Urls[q] : s[i] = (a \div W) * w[i] + Clamp((a % W) - lo(i), 0, w[i])
  BY <1>2 DEF SharesCounted, WeightedShares
<1>4. /\ q \in DOMAIN weights /\ Len(w) = n /\ W \in Nat \ {0}
      /\ DOMAIN Urls[q] = 1..n /\ n \in Nat \ {0} /\ DOMAIN w = 1..n
      /\ s \in Seq(Nat) /\ Len(s) = n
  BY <1>2, UrlFacts, CumulativeGrows DEF Weighted, Balancer
<1>5. /\ \A i \in 0..n : Cumulative(q, i) \in Nat
      /\ \A j \in 0..n : \A i \in 0..j : Cumulative(q, i) <= Cumulative(q, j)
      /\ \A i \in 1..n : w[i] \in Nat /\ Cumulative(q, i) = lo(i) + w[i]
      /\ Cumulative(q, n) = W
  BY <1>4, CumulativeGrows DEF WeightsSum
<1>6. a \in Nat
  <2>1. n \in 0..n
    BY <1>4
  <2> QED BY <1>4, <2>1, SumToStep DEF Calls
<1>7. CASE served'[q] = s /\ counters'[q] = counters[q]
  <2>1. Calls(q)' = a
    BY <1>7 DEF Calls
  <2> QED BY <1>1, <1>2, <1>3, <1>7, <2>1
<1>8. ASSUME NEW k, NEW arm, Called(k, arm), q = k
      PROVE  /\ counters'[q] = (Calls(q)' % W)
             /\ \A i \in 1..n :
                  served'[q][i] = (Calls(q)' \div W) * w[i] + Clamp((Calls(q)' % W) - lo(i), 0, w[i])
  <2>1. arm = WeightedRoundRobin(q) /\ arm # GoOn
    BY <1>2, <1>8, ArmTaken
  <2>2. PICK m \in 1..n :
          /\ lo(m) <= counters[q] /\ counters[q] < Cumulative(q, m)
          /\ arm = Pick(m)
    BY <1>4, <2>1, WeightedRoundRobinArm
  <2>3. arm.is = "pick" /\ arm.index = m /\ arm # ReturnNone
    BY <2>2 DEF Pick, ReturnNone
  <2>4. counters'[q] = (counters[q] + 1) % W
    BY <1>2, <1>8, <2>3, CallTurns
  <2>5. served'[q] = [s EXCEPT ![m] = @ + 1]
    BY <1>8, <2>3, CallServes
  <2>6. \A i \in 1..n : served'[q][i] = IF i = m THEN s[i] + 1 ELSE s[i]
    BY <1>4, <2>5
  <2>7. served'[q] \in Seq(Nat) /\ Len(served'[q]) = n
    <3>1. Balancer'
      BY <1>8, BalancerCall
    <3> QED BY <3>1 DEF Balancer
  <2>8. Calls(q)' = a + 1
    <3>1. SumTo(served'[q], Len(served'[q])) = SumTo(s, Len(s)) + 1
      <4>1. /\ s \in Seq(Nat) /\ m \in 1..Len(s) /\ Len(served'[q]) = Len(s)
            /\ \A i \in 1..Len(s) : served'[q][i] = IF i = m THEN s[i] + 1 ELSE s[i]
        BY <1>4, <2>6, <2>7
      <4> QED BY <2>7, <4>1, SumOneMore
    <3> QED BY <3>1 DEF Calls
  <2> DEFINE r == a % W
             d == a \div W
  <2>9. /\ r \in Nat /\ r < W /\ d \in Nat
        /\ r + 1 < W => ((a + 1) \div W) = d /\ ((a + 1) % W) = r + 1
        /\ ~ (r + 1 < W) => ((a + 1) \div W) = d + 1 /\ ((a + 1) % W) = 0
        /\ ((r + 1) % W) = ((a + 1) % W)
    BY <1>4, <1>6, NextRemainder
  <2>10. lo(m) <= r /\ r < lo(m) + w[m]
    BY <1>3, <1>5, <2>2
  <2>11. \A i \in 1..n : i \in 0..n /\ i - 1 \in 0..n
    BY <1>4
  <2>12. \A i \in 1..n : lo(i) \in Nat /\ w[i] \in Nat /\ lo(i) + w[i] <= W
    <3> TAKE i \in 1..n
    <3>1. n \in 0..n /\ i \in 0..n
      BY <1>4
    <3> QED BY <1>5, <2>11, <3>1
  <2>13. \A i \in 1..n : i < m => lo(i) + w[i] <= lo(m)
    <3> TAKE i \in 1..n
    <3> HAVE i < m
    <3>1. i \in 0..m - 1 /\ m - 1 \in 0..n
      BY <1>4
    <3> QED BY <1>5, <3>1
  <2>14. \A i \in 1..n : i > m => lo(m) + w[m] <= lo(i)
    <3> TAKE i \in 1..n
    <3> HAVE i > m
    <3>1. m \in 0..i - 1 /\ i - 1 \in 0..n
      BY <1>4
    <3> QED BY <1>5, <3>1
  <2>15. \A i \in 1..n : s[i] = d * w[i] + Clamp(r - lo(i), 0, w[i])
    BY <1>3, <1>4
  <2> HIDE DEF r, d, w, lo, a, W, n, s
  <2>16. ASSUME NEW i \in 1..n
         PROVE  served'[q][i] = ((a + 1) \div W) * w[i] + Clamp(((a + 1) % W) - lo(i), 0, w[i])
    <3>0. /\ lo(i) \in Nat /\ w[i] \in Nat /\ lo(m) \in Nat /\ w[m] \in Nat
          /\ lo(i) + w[i] <= W /\ lo(m) + w[m] <= W
      BY <2>12
    <3>1. (d + 1) * w[i] = d * w[i] + w[i] /\ d * w[i] \in Nat
      BY <2>9, <3>0
    <3>2. served'[q][i] = (IF i = m THEN 1 ELSE 0) + (d * w[i] + Clamp(r - lo(i), 0, w[i]))
      <4>1. s[i] \in Nat
        BY <1>4
      <4> QED BY <2>6, <2>15, <4>1
    <3>3. CASE i < m
      <4>1. lo(i) + w[i] <= r
        BY <2>9, <2>10, <2>13, <3>0, <3>3
      <4>2. Clamp(r - lo(i), 0, w[i]) = w[i] /\ Clamp((r + 1) - lo(i), 0, w[i]) = w[i]
            /\ Clamp(0 - lo(i), 0, w[i]) = 0
        BY <2>9, <3>0, <4>1 DEF Clamp
      <4>3. served'[q][i] = d * w[i] + w[i]
        BY <3>0, <3>1, <3>2, <3>3, <4>2
      <4> QED BY <2>9, <3>0, <3>1, <4>2, <4>3
    <3>4. CASE i > m
      <4>1. r + 1 <= lo(i)
        BY <2>9, <2>10, <2>14, <3>0, <3>4
      <4>2. Clamp(r - lo(i), 0, w[i]) = 0 /\ Clamp((r + 1) - lo(i), 0, w[i]) = 0
            /\ Clamp(0 - lo(i), 0, w[i]) = 0
        BY <2>9, <3>0, <4>1 DEF Clamp
      <4>3. ~ (r + 1 < W) => w[i] = 0
        <5>1. W \in Nat
          BY <1>4
        <5> QED BY <2>9, <3>0, <4>1, <5>1
      <4> QED BY <2>9, <3>1, <3>2, <3>4, <4>2, <4>3
    <3>5. CASE i = m
      <4>1. lo(i) <= r /\ r < lo(i) + w[i]
        BY <2>10, <3>5
      <4>2. Clamp(r - lo(i), 0, w[i]) = r - lo(i) /\ Clamp((r + 1) - lo(i), 0, w[i]) = (r + 1) - lo(i)
            /\ Clamp(0 - lo(i), 0, w[i]) = 0
        BY <2>9, <3>0, <4>1 DEF Clamp
      <4>3. ~ (r + 1 < W) => (r + 1) - lo(i) = w[i]
        <5>1. W \in Nat
          BY <1>4
        <5> QED BY <2>9, <3>0, <4>1, <5>1
      <4> QED BY <2>9, <3>0, <3>1, <3>2, <3>5, <4>2, <4>3
    <3>6. i \in Int /\ m \in Int
      BY <1>4
    <3> QED BY <3>3, <3>4, <3>5, <3>6
  <2>17. counters'[q] = ((a + 1) % W)
    BY <1>3, <2>4, <2>9 DEF r
  <2> QED BY <2>8, <2>16, <2>17
<1>9. CASE UNCHANGED <<lbConfig, lbState>>
  BY <1>7, <1>9 DEF lbState
<1>10. ASSUME NEW k, NEW arm, Called(k, arm), q # k
       PROVE  served'[q] = s /\ counters'[q] = counters[q]
  <2>1. \A p \in Keys \ {k} : counters'[p] = counters[p]
    BY <1>10, CallTurns, Zenon
  <2>2. \A p \in Keys \ {k} : served'[p] = served[p]
    BY <1>10, CallServes, Zenon
  <2> QED BY <1>10, <2>1, <2>2
<1>11. ASSUME NEW k, NEW arm, Called(k, arm)
       PROVE  /\ counters'[q] = (Calls(q)' % WeightsSum(q)')
              /\ \A i \in DOMAIN Urls[q] :
                   served'[q][i] =
                     (Calls(q)' \div WeightsSum(q)') * weights'[q][i]
                     + Clamp((Calls(q)' % WeightsSum(q)') - Cumulative(q, i - 1)', 0, weights'[q][i])
  <2>1. CASE q = k
    <3>1. counters'[q] = (Calls(q)' % W)
      BY <1>8, <1>11, <2>1
    <3>2. \A i \in 1..n :
            served'[q][i] = (Calls(q)' \div W) * w[i] + Clamp((Calls(q)' % W) - lo(i), 0, w[i])
      BY <1>8, <1>11, <2>1
    <3>3. DOMAIN Urls[q] = 1..n
      BY <1>4
    <3> QED BY <1>1, <1>2, <3>1, <3>2, <3>3
  <2>2. CASE q # k
    BY <1>7, <1>10, <1>11, <2>2
  <2> QED BY <2>1, <2>2
<1> QED BY <1>9, <1>11, BalancerStep

\* Weighted round robin serves each URL exactly its weight in every round, and
\* the unfinished round in the order of the URLs.
THEOREM WeightedSharesAreExact == Spec => []WeightedShares
<1>1. Init => SharesCounted /\ WeightedShares
  <2> SUFFICES ASSUME Init, NEW k \in Keys, Weighted(k)
               PROVE  /\ counters[k] = (Calls(k) % WeightsSum(k))
                      /\ \A i \in DOMAIN Urls[k] :
                           served[k][i] =
                             (Calls(k) \div WeightsSum(k)) * weights[k][i]
                             + Clamp((Calls(k) % WeightsSum(k)) - Cumulative(k, i - 1), 0, weights[k][i])
    BY DEF SharesCounted, WeightedShares
  <2>0. Balancer
    BY BalancerInit
  <2>1. /\ counters[k] = 0 /\ \A i \in DOMAIN Urls[k] : served[k][i] = 0
        /\ served[k] \in Seq(Nat) /\ Len(served[k]) = Len(Urls[k])
        /\ DOMAIN Urls[k] = 1..Len(Urls[k])
    BY <2>0, UrlFacts DEF Init, New, Balancer
  <2>2. Calls(k) = 0
    BY <2>1, SumOfNothing DEF Calls
  <2>3. WeightsSum(k) \in Nat \ {0}
    BY <2>0, CumulativeGrows DEF Weighted
  <2>4. \A b \in Nat \ {0} : (0 % b) = 0 /\ (0 \div b) = 0
    OBVIOUS
  <2>5. \A i \in DOMAIN Urls[k] : weights[k][i] \in Nat /\ Cumulative(k, i - 1) \in Nat
    <3> TAKE i \in DOMAIN Urls[k]
    <3>1. k \in DOMAIN weights /\ i \in DOMAIN weights[k] /\ i - 1 \in 0..Len(weights[k])
      BY <2>0, <2>1, CumulativeGrows DEF Weighted
    <3> QED BY <2>0, <3>1, CumulativeGrows
  <2>6. \A x, y \in Nat : 0 * x + Clamp(0 - y, 0, x) = 0
    BY DEF Clamp
  <2>7. (Calls(k) % WeightsSum(k)) = 0 /\ (Calls(k) \div WeightsSum(k)) = 0
    BY <2>2, <2>3, <2>4
  <2>8. counters[k] = (Calls(k) % WeightsSum(k))
    BY <2>1, <2>7
  <2>9. ASSUME NEW i \in DOMAIN Urls[k]
        PROVE  served[k][i] =
                 (Calls(k) \div WeightsSum(k)) * weights[k][i]
                 + Clamp((Calls(k) % WeightsSum(k)) - Cumulative(k, i - 1), 0, weights[k][i])
    <3>1. 0 * weights[k][i] + Clamp(0 - Cumulative(k, i - 1), 0, weights[k][i]) = 0
      BY <2>5, <2>6
    <3> QED BY <2>1, <2>7, <3>1
  <2> QED BY <2>8, <2>9
<1> QED BY <1>1, SharesStep, DispatchInvariant, PTL DEF Spec
=============================================================================
