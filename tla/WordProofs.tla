----------------------------- MODULE WordProofs -----------------------------
(***************************************************************************)
(* The arithmetic of module Evm256 is exact, for any number of limbs of    *)
(* any size: every operation on limbs has the value that is meant on       *)
(* numbers, modulo 2 to the bits of a word.                                *)
(*                                                                         *)
(* A word is a number written in digits, its limbs; bits and bytes are     *)
(* digits, too.  The lemmas on digits (Number...) say what a chain of      *)
(* carries, a sum of rows, a shift or a change of one digit does to the    *)
(* number; those on the operations apply them to the loops of              *)
(* pkg/evm256.  A loop is a recursive function of its round; what it       *)
(* comes to is shown by induction over a set of rounds (Climb).            *)
(*                                                                         *)
(* Division is Knuth's: reciprocal2by1 is the reciprocal, udivrem2by1      *)
(* divides two limbs by one, an estimate of a quotient limb is too large   *)
(* by one at most once it is corrected, and adding back makes it exact.    *)
(***************************************************************************)
EXTENDS Evm256, SumTheorems

-----------------------------------------------------------------------------
\* Powers of two.  2^n is the number of subsets of n elements, which is all the
\* provers are told of powers.
LEMMA PowerCounts ==
  ASSUME NEW n \in Nat
  PROVE  /\ IsFiniteSet(SUBSET (1..n))
         /\ Cardinality(SUBSET (1..n)) = 2^n
<1>1. IsFiniteSet(1..n) /\ Cardinality(1..n) = n
  BY FS_Interval
<1> QED
  BY <1>1, FS_SUBSET

\* A power of two is a positive number.
LEMMA PowerNat ==
  ASSUME NEW n \in Nat
  PROVE  2^n \in Nat \ {0}
<1>1. 2^n \in Nat
  BY PowerCounts, FS_CardinalityType
<1>2. SUBSET (1..n) # {}
  OBVIOUS
<1>3. 2^n # 0
  BY <1>2, PowerCounts, FS_EmptySet
<1> QED
  BY <1>1, <1>3

\* The next power of two is twice as large.
LEMMA PowerNext ==
  ASSUME NEW n \in Nat
  PROVE  2^(n + 1) = 2 * 2^n
<1> DEFINE S == SUBSET (1..n)
           add == [A \in S |-> A \cup {n + 1}]
           T == {A \cup {n + 1} : A \in S}
<1>1. \A A \in S : n + 1 \notin A
  OBVIOUS
<1>2. add \in Bijection(S, T)
  <2>1. add \in [S -> T] /\ \A t \in T : \E A \in S : add[A] = t
    OBVIOUS
  <2>2. ASSUME NEW A \in S, NEW B \in S, add[A] = add[B] PROVE A = B
    BY <1>1, <2>2
  <2> QED
    BY <2>1, <2>2 DEF Bijection, Injection, Surjection, IsInjective
<1>3. IsFiniteSet(T) /\ Cardinality(T) = 2^n
  BY <1>2, PowerCounts, FS_Bijection DEF ExistsBijection
<1>4. S \cup T = SUBSET (1..(n + 1))
  <2>1. ASSUME NEW C \in SUBSET (1..(n + 1)) PROVE C \in S \cup T
    <3>1. CASE n + 1 \in C
      <4>1. C \ {n + 1} \in S
        BY <3>1
      <4>2. C = (C \ {n + 1}) \cup {n + 1}
        BY <3>1
      <4> QED
        BY <4>1, <4>2
    <3>2. CASE n + 1 \notin C
      BY <3>2
    <3> QED
      BY <3>1, <3>2
  <2>2. ASSUME NEW C \in S \cup T PROVE C \in SUBSET (1..(n + 1))
    OBVIOUS
  <2> QED
    BY <2>1, <2>2
<1>5. S \cap T = {}
  BY <1>1
<1>6. Cardinality(S \cup T) = Cardinality(S) + Cardinality(T) - 0
  <2>1. IsFiniteSet(S)
    BY PowerCounts
  <2>2. Cardinality(S \cup T) = Cardinality(S) + Cardinality(T) - Cardinality(S \cap T)
    BY <1>3, <2>1, FS_Union
  <2> QED
    BY <1>5, <2>2, FS_EmptySet, Zenon
<1> HIDE DEF S, T
<1>7. Cardinality(S \cup T) = 2^(n + 1) /\ Cardinality(S) = 2^n
  BY <1>4, PowerCounts DEF S
<1> QED
  BY <1>3, <1>6, <1>7, PowerNat

\* Every number up to N, when 0 and with every number below N the next one.
LEMMA Climb ==
  ASSUME NEW N \in Nat, NEW I, 0 \in I, \A k \in 0..(N - 1) : k \in I => k + 1 \in I
  PROVE  \A k \in 0..N : k \in I
<1> DEFINE S == {k \in Nat : k > N \/ k \in I}
<1>1. 0 \in S /\ \A k \in Nat : k \in S => k + 1 \in S
  OBVIOUS
<1>2. Nat \subseteq S
  BY <1>1, Induction
<1> QED
  BY <1>2

\* Exponents add up.
LEMMA PowerAdd ==
  ASSUME NEW m \in Nat, NEW n \in Nat
  PROVE  2^(m + n) = 2^m * 2^n
<1> DEFINE I == {k \in Nat : 2^(m + k) = 2^m * 2^k}
<1>1. 0 \in I
  BY PowerNat
<1>2. ASSUME NEW k \in Nat, k \in I PROVE k + 1 \in I
  <2>1. 2^(m + (k + 1)) = 2 * 2^(m + k) /\ 2^(k + 1) = 2 * 2^k
    <3>1. m + k \in Nat /\ m + (k + 1) = (m + k) + 1
      OBVIOUS
    <3> QED
      BY <3>1, PowerNext
  <2>2. 2^m \in Nat /\ 2^k \in Nat
    BY PowerNat
  <2>3. \A x, y \in Nat : 2 * (x * y) = x * (2 * y)
    OBVIOUS
  <2> QED
    BY <1>2, <2>1, <2>2, <2>3
<1> HIDE DEF I
<1>3. n \in I
  BY <1>1, <1>2, Induction
<1> QED
  BY <1>3 DEF I

\* Powers of two grow with their exponent.
LEMMA PowerGrows ==
  ASSUME NEW m \in Nat, NEW n \in Nat, m <= n
  PROVE  2^m <= 2^n /\ (m < n => 2 * 2^m <= 2^n)
<1>1. n - m \in Nat /\ n = m + (n - m)
  OBVIOUS
<1>2. 2^n = 2^m * 2^(n - m)
  BY <1>1, PowerAdd
<1>3. 2^m \in Nat \ {0} /\ 2^(n - m) \in Nat \ {0}
  BY <1>1, PowerNat
<1>4. \A x, y \in Nat \ {0} : x <= x * y /\ (y >= 2 => 2 * x <= x * y)
  OBVIOUS
<1>5. ASSUME m < n PROVE 2^(n - m) >= 2
  <2>1. n - m - 1 \in Nat /\ n - m = (n - m - 1) + 1
    BY <1>5
  <2>2. 2^(n - m) = 2 * 2^(n - m - 1)
    BY <2>1, PowerNext
  <2> QED
    BY <2>1, <2>2, PowerNat
<1> QED
  BY <1>2, <1>3, <1>4, <1>5

-----------------------------------------------------------------------------
\* Quotients and remainders.
LEMMA DivMod ==
  ASSUME NEW a \in Int, NEW b \in Nat \ {0}
  PROVE  /\ a \div b \in Int /\ a % b \in 0..(b - 1)
         /\ a = b * (a \div b) + (a % b)
OBVIOUS

\* Quotient and remainder are the only ones: what b * q + r has when r is below b.
LEMMA DivModUnique ==
  ASSUME NEW b \in Nat \ {0}, NEW q \in Int, NEW r \in 0..(b - 1)
  PROVE  (b * q + r) \div b = q /\ (b * q + r) % b = r
<1> DEFINE a == b * q + r
<1>1. a \in Int
  OBVIOUS
<1> HIDE DEF a
<1>2. a \div b \in Int /\ a % b \in 0..(b - 1) /\ a = b * (a \div b) + (a % b)
  BY <1>1, DivMod
<1>3. b * (q - a \div b) = (a % b) - r
  BY <1>2 DEF a
<1>4. \A x \in Int : x >= 1 => b * x >= b
  OBVIOUS
<1>5. \A x \in Int : x <= -1 => b * x <= -b
  OBVIOUS
<1>6. q - a \div b = 0
  <2>1. PICK x \in Int : x = q - a \div b
    BY <1>2
  <2>2. b * x < b /\ b * x > -b
    BY <1>2, <1>3, <2>1
  <2> QED
    BY <1>4, <1>5, <2>1, <2>2
<1> QED
  BY <1>2, <1>3, <1>6 DEF a

\* x divided by b is q, and r is left.
Division(x, b, q, r) ==
  b \in Nat \ {0} /\ x \in Int /\ q \in Int /\ r \in Int /\ 0 <= r /\ r < b /\ x = b * q + r

\* The numbers of a division are what the operators give.
LEMMA Divides ==
  ASSUME NEW x, NEW b, NEW q, NEW r, Division(x, b, q, r)
  PROVE  x \div b = q /\ x % b = r
<1>1. b \in Nat \ {0} /\ q \in Int /\ r \in 0..(b - 1) /\ x = b * q + r
  BY DEF Division
<1> QED
  BY <1>1, DivModUnique

\* Quotient and remainder as numbers of their own.
LEMMA DivPick ==
  ASSUME NEW x \in Int, NEW b \in Nat \ {0}
  PROVE  \E q \in Int, r \in Int : q = x \div b /\ r = x % b /\ x = b * q + r /\ 0 <= r /\ r < b
<1>1. x \div b \in Int /\ x % b \in Int /\ x = b * (x \div b) + (x % b) /\ 0 <= x % b /\ x % b < b
  BY DivMod
<1> QED
  BY <1>1, Zenon

\* A number below the divisor is its own remainder.
LEMMA DivSmall ==
  ASSUME NEW b \in Nat \ {0}, NEW x \in Int, 0 <= x, x < b
  PROVE  x \div b = 0 /\ x % b = x
<1>1. PICK q \in Int : q = 0
  OBVIOUS
<1>2. Division(x, b, q, x)
  BY <1>1 DEF Division
<1> QED
  BY <1>1, <1>2, Divides

\* A division whose results are known.
LEMMA DivIs ==
  ASSUME NEW b \in Nat \ {0}, NEW q \in Int, NEW r \in Int, 0 <= r, r < b, NEW x \in Int, x = b * q + r
  PROVE  x \div b = q /\ x % b = r
BY DivModUnique

-----------------------------------------------------------------------------
\* Loops.  g has the states of a loop of N rounds from b on.
IsLoop(g, S, N, b, step) ==
  g \in [0..N -> S] /\ g[0] = b /\ \A k \in 1..N : g[k] = step[k][g[k - 1]]

\* A loop whose rounds keep its state in S has a function of its states.
LEMMA Rounds ==
  ASSUME NEW S, NEW N \in Nat, NEW b \in S, NEW step \in [1..N -> [S -> S]]
  PROVE  \E g : IsLoop(g, S, N, b, step)
<1> DEFINE Has(m) == \E g : IsLoop(g, S, m, b, step)
           I == {m \in 0..N : Has(m)}
<1>1. 0 \in I
  <2> DEFINE h == [k \in 0..0 |-> b]
  <2>1. IsLoop(h, S, 0, b, step)
    BY DEF IsLoop
  <2> HIDE DEF h
  <2> QED
    BY <2>1
<1>2. ASSUME NEW m \in 0..(N - 1), m \in I PROVE m + 1 \in I
  <2>1. PICK g : IsLoop(g, S, m, b, step)
    BY <1>2
  <2> DEFINE h == [k \in 0..(m + 1) |-> IF k = m + 1 THEN step[m + 1][g[m]] ELSE g[k]]
  <2>2. h \in [0..(m + 1) -> S]
    BY <2>1 DEF IsLoop
  <2>3. h[0] = b
    BY <2>1 DEF IsLoop
  <2>4. ASSUME NEW k \in 1..(m + 1) PROVE h[k] = step[k][h[k - 1]]
    <3>1. h[k - 1] = g[k - 1]
      OBVIOUS
    <3>2. CASE k = m + 1
      BY <3>1, <3>2
    <3>3. CASE k # m + 1
      <4>1. k \in 1..m /\ h[k] = g[k]
        BY <3>3
      <4> QED
        BY <2>1, <3>1, <4>1 DEF IsLoop
    <3> QED
      BY <3>2, <3>3
  <2> HIDE DEF h
  <2>5. IsLoop(h, S, m + 1, b, step)
    BY <2>2, <2>3, <2>4 DEF IsLoop
  <2> QED
    BY <2>5
<1> HIDE DEF Has, I
<1>3. \A m \in 0..N : m \in I
  BY <1>1, <1>2, Climb, Zenon
<1> QED
  BY <1>3 DEF Has, I

\* The states of a loop are in S.
LEMMA RoundsIn ==
  ASSUME NEW S, NEW N \in Nat, NEW g, g[0] \in S, \A k \in 1..N : g[k - 1] \in S => g[k] \in S
  PROVE  \A k \in 0..N : g[k] \in S
<1> DEFINE I == {k \in 0..N : g[k] \in S}
<1>1. 0 \in I
  OBVIOUS
<1>2. ASSUME NEW k \in 0..(N - 1), k \in I PROVE k + 1 \in I
  <2>1. k + 1 \in 1..N /\ (k + 1) - 1 = k
    OBVIOUS
  <2> QED
    BY <1>2, <2>1
<1> QED
  BY <1>1, <1>2, Climb

-----------------------------------------------------------------------------
\* Numbers of n digits of w bits.
DigitSums(x, n, w) ==
  LET sum[k \in 0..n] == IF k = 0 THEN 0 ELSE sum[k - 1] + x[k - 1] * 2^(w * (k - 1)) IN sum

\* The partial sums of digits: each adds the next digit at its place.
LEMMA DigitSumsAre ==
  ASSUME NEW n \in Nat, NEW w \in Nat, NEW x, \A k \in 0..(n - 1) : x[k] \in Int
  PROVE  /\ DigitSums(x, n, w)[0] = 0
         /\ \A k \in 1..n : /\ DigitSums(x, n, w)[k - 1] \in Int
                            /\ DigitSums(x, n, w)[k] = DigitSums(x, n, w)[k - 1] + x[k - 1] * 2^(w * (k - 1))
         /\ \A k \in 0..n : DigitSums(x, n, w)[k] \in Int
<1> DEFINE s == DigitSums(x, n, w)
           Sum(g) == [k \in 0..n |-> IF k = 0 THEN 0 ELSE g[k - 1] + x[k - 1] * 2^(w * (k - 1))]
           step == [k \in 1..n |-> [y \in Int |-> y + x[k - 1] * 2^(w * (k - 1))]]
<1>1. \A k \in 1..n : 2^(w * (k - 1)) \in Int /\ x[k - 1] \in Int
  <2>1. ASSUME NEW k \in 1..n PROVE w * (k - 1) \in Nat
    OBVIOUS
  <2> QED
    BY <2>1, PowerNat
<1>2. step \in [1..n -> [Int -> Int]] /\ \A k \in 1..n, y \in Int : step[k][y] = y + x[k - 1] * 2^(w * (k - 1))
  BY <1>1
<1> HIDE DEF step
<1>3. PICK g : IsLoop(g, Int, n, 0, step)
  <2>1. 0 \in Int /\ step \in [1..n -> [Int -> Int]]
    BY <1>2
  <2> QED
    BY <2>1, Rounds, Zenon
<1>4. g = Sum(g)
  <2>1. ASSUME NEW k \in 0..n PROVE g[k] = Sum(g)[k]
    <3>1. CASE k = 0
      BY <1>3, <3>1 DEF IsLoop
    <3>2. CASE k # 0
      <4>1. k \in 1..n /\ g[k - 1] \in Int
        BY <1>3, <3>2 DEF IsLoop
      <4>2. g[k] = g[k - 1] + x[k - 1] * 2^(w * (k - 1))
        BY <1>2, <1>3, <4>1 DEF IsLoop
      <4> QED
        BY <3>2, <4>2
    <3> QED
      BY <3>1, <3>2
  <2> QED
    BY <1>3, <2>1 DEF IsLoop
<1>5. s = CHOOSE f : f = Sum(f)
  BY DEF DigitSums
<1> HIDE DEF s, Sum
<1>6. s = Sum(s)
  BY <1>4, <1>5
<1>7. s[0] = 0 /\ \A k \in 1..n : s[k] = s[k - 1] + x[k - 1] * 2^(w * (k - 1))
  <2>1. \A k \in 0..n : Sum(s)[k] = IF k = 0 THEN 0 ELSE s[k - 1] + x[k - 1] * 2^(w * (k - 1))
    BY DEF Sum
  <2> QED
    BY <1>6, <2>1
<1>8. \A k \in 0..n : s[k] \in Int
  <2>1. ASSUME NEW k \in 1..n, s[k - 1] \in Int PROVE s[k] \in Int
    <3>1. PICK p \in Int : p = 2^(w * (k - 1))
      BY <1>1
    <3>2. s[k] = s[k - 1] + x[k - 1] * p
      BY <1>7, <3>1
    <3>3. x[k - 1] \in Int
      BY <1>1
    <3> QED
      BY <2>1, <3>2, <3>3
  <2>2. s[0] \in Int
    BY <1>7
  <2> QED
    BY <2>1, <2>2, RoundsIn, Zenon
<1> QED
  BY <1>7, <1>8 DEF s

\* The digits of w bits; x has n integers, n digits; its n digits from m on.
Digits(w) == 0..(2^w - 1)
HasInts(x, n) == \A k \in 0..(n - 1) : x[k] \in Int
HasDigits(x, n, w) == \A k \in 0..(n - 1) : x[k] \in Digits(w)
Above(x, m, n) == [i \in 0..(n - 1) |-> x[m + i]]

\* No digits are the number zero.
LEMMA NumberZero ==
  ASSUME NEW x, NEW w \in Nat
  PROVE  Number(x, 0, w) = 0
<1>1. \A k \in 0..(0 - 1) : x[k] \in Int
  OBVIOUS
<1>2. DigitSums(x, 0, w)[0] = 0
  BY <1>1, DigitSumsAre
<1> QED
  BY <1>2 DEF Number, DigitSums

\* Integers at their places make an integer.
LEMMA NumberTyped ==
  ASSUME NEW n \in Nat, NEW w \in Nat, NEW x, HasInts(x, n)
  PROVE  Number(x, n, w) \in Int
<1>1. DigitSums(x, n, w)[n] \in Int
  BY DigitSumsAre DEF HasInts
<1> QED
  BY <1>1 DEF Number, DigitSums

\* One more digit counts with the next power of the base.
LEMMA NumberIs ==
  ASSUME NEW n \in Nat, NEW w \in Nat, NEW x, HasInts(x, n + 1)
  PROVE  /\ Number(x, n, w) \in Int
         /\ Number(x, n + 1, w) = Number(x, n, w) + x[n] * 2^(w * n)
<1>1. \A k \in 0..n : x[k] \in Int
  BY DEF HasInts
<1>2. \A m \in Nat : Number(x, m, w) = DigitSums(x, m, w)[m]
  BY DEF Number, DigitSums
<1> DEFINE s == DigitSums(x, n, w)
           t == DigitSums(x, n + 1, w)
           I == {k \in 0..n : s[k] = t[k]}
<1>3. s[0] = 0 /\ \A k \in 1..n : s[k] = s[k - 1] + x[k - 1] * 2^(w * (k - 1))
  BY <1>1, DigitSumsAre
<1>4. t[0] = 0 /\ \A k \in 1..(n + 1) : t[k] = t[k - 1] + x[k - 1] * 2^(w * (k - 1))
  BY <1>1, DigitSumsAre
<1>5. s[n] \in Int
  BY <1>1, DigitSumsAre
<1> HIDE DEF s, t
<1>6. 0 \in I
  BY <1>3, <1>4
<1>7. ASSUME NEW k \in 0..(n - 1), k \in I PROVE k + 1 \in I
  <2>1. k + 1 \in 1..n /\ k + 1 \in 1..(n + 1) /\ (k + 1) - 1 = k
    OBVIOUS
  <2> QED
    BY <1>3, <1>4, <1>7, <2>1
<1>8. s[n] = t[n]
  <2> HIDE DEF I
  <2>1. n \in I
    BY <1>6, <1>7, Climb
  <2> QED
    BY <2>1 DEF I
<1>9. t[n + 1] = t[n] + x[n] * 2^(w * n)
  BY <1>4
<1> QED
  BY <1>2, <1>5, <1>8, <1>9 DEF s, t

\* Quotients by a product.
LEMMA DivDiv ==
  ASSUME NEW v \in Int, NEW p \in Nat \ {0}, NEW q \in Nat \ {0}
  PROVE  /\ p * q \in Nat \ {0}
         /\ v \div (p * q) = (v \div p) \div q
         /\ v % (p * q) = (v % p) + p * ((v \div p) % q)
<1>1. PICK a \in Int, b \in 0..(p - 1) : a = v \div p /\ b = v % p /\ v = p * a + b
  BY DivMod
<1>2. PICK c \in Int, d \in 0..(q - 1) : c = a \div q /\ d = a % q /\ a = q * c + d
  BY DivMod
<1>3. p * q \in Nat \ {0}
  OBVIOUS
<1>4. p * d + b \in 0..(p * q - 1)
  <2>1. d + 1 <= q /\ d \in Nat /\ b \in Nat /\ b < p
    OBVIOUS
  <2>2. p * (d + 1) <= p * q
    BY <2>1
  <2>3. p * (d + 1) = p * d + p
    OBVIOUS
  <2> QED
    BY <2>1, <2>2, <2>3
<1>5. v = (p * q) * c + (p * d + b)
  <2>1. p * (q * c + d) = (p * q) * c + p * d
    OBVIOUS
  <2>2. p * a = p * (q * c + d)
    BY <1>2
  <2>3. v = p * a + b
    BY <1>1
  <2> HIDE <1>1, <1>2
  <2> QED
    BY <2>1, <2>2, <2>3
<1>6. v \div (p * q) = c /\ v % (p * q) = p * d + b
  BY <1>3, <1>4, <1>5, DivModUnique
<1> QED
  BY <1>1, <1>2, <1>3, <1>6

\* The weight of a digit.
LEMMA Weight ==
  ASSUME NEW w \in Nat, NEW k \in Nat
  PROVE  /\ w * k \in Nat /\ 2^(w * k) \in Nat \ {0} /\ 2^w \in Nat \ {0}
         /\ 2^(w * (k + 1)) = 2^(w * k) * 2^w
         /\ 2^(w * 0) = 1
<1>1. w * k \in Nat /\ w * (k + 1) = w * k + w /\ w * 0 = 0
  OBVIOUS
<1>2. 2^(w * 0) = 1
  <2>1. 2^(w * 0) = 2^0
    BY <1>1, Zenon
  <2> QED
    BY <2>1
<1> QED
  BY <1>1, <1>2, PowerAdd, PowerNat

\* Digits are integers.
LEMMA DigitsInts ==
  ASSUME NEW n \in Nat, NEW w \in Nat, NEW x, HasDigits(x, n, w)
  PROVE  HasInts(x, n)
<1>1. 2^w \in Nat
  BY PowerNat
<1> QED
  BY <1>1 DEF HasDigits, HasInts, Digits

\* What x has, it has of every part.
LEMMA Fewer ==
  ASSUME NEW n \in Nat, NEW m \in Nat, m <= n, NEW w \in Nat, NEW x
  PROVE  /\ HasInts(x, n) => HasInts(x, m) /\ HasInts(Above(x, m, n - m), n - m)
         /\ HasDigits(x, n, w) => HasDigits(x, m, w) /\ HasDigits(Above(x, m, n - m), n - m, w)
BY DEF HasInts, HasDigits, Above

\* n digits of w bits make a number of w * n bits.
LEMMA NumberBounds ==
  ASSUME NEW n \in Nat, NEW w \in Nat, NEW x, HasDigits(x, n, w)
  PROVE  Number(x, n, w) \in 0..(2^(w * n) - 1)
<1> DEFINE I == {k \in 0..n : Number(x, k, w) \in 0..(2^(w * k) - 1)}
<1>1. HasInts(x, n)
  BY DigitsInts
<1>2. 0 \in I
  BY NumberZero, Weight
<1>3. ASSUME NEW k \in 0..(n - 1), k \in I PROVE k + 1 \in I
  <2> DEFINE p == 2^(w * k)
             b == 2^w
  <2>1. k \in Nat
    OBVIOUS
  <2>2. p \in Nat \ {0} /\ b \in Nat \ {0} /\ 2^(w * (k + 1)) = p * b
    BY <2>1, Weight
  <2>3. Number(x, k + 1, w) = Number(x, k, w) + x[k] * p
    BY <1>1, NumberIs, Fewer
  <2>4. x[k] \in 0..(b - 1) /\ Number(x, k, w) \in 0..(p - 1)
    BY <1>3 DEF HasDigits, Digits
  <2> HIDE DEF p, b
  <2>5. x[k] * p \in Nat /\ x[k] * p <= (b - 1) * p
    BY <2>2, <2>4
  <2>6. (b - 1) * p = p * b - p
    BY <2>2
  <2> QED
    BY <2>2, <2>3, <2>4, <2>5, <2>6
<1> HIDE DEF I
<1>4. n \in I
  BY <1>2, <1>3, Climb
<1> QED
  BY <1>4 DEF I

\* Digits that agree make the same number.
LEMMA NumberSame ==
  ASSUME NEW n \in Nat, NEW w \in Nat, NEW x, NEW y, HasInts(x, n), \A k \in 0..(n - 1) : y[k] = x[k]
  PROVE  HasInts(y, n) /\ Number(y, n, w) = Number(x, n, w)
<1> DEFINE I == {k \in 0..n : Number(y, k, w) = Number(x, k, w)}
<1>1. HasInts(y, n)
  BY DEF HasInts
<1>2. 0 \in I
  BY NumberZero
<1>3. ASSUME NEW k \in 0..(n - 1), k \in I PROVE k + 1 \in I
  <2>1. HasInts(x, k + 1) /\ HasInts(y, k + 1) /\ y[k] = x[k]
    BY <1>1, Fewer
  <2>2. Number(x, k + 1, w) = Number(x, k, w) + x[k] * 2^(w * k)
    BY <2>1, NumberIs
  <2>3. Number(y, k + 1, w) = Number(y, k, w) + y[k] * 2^(w * k)
    BY <2>1, NumberIs
  <2> QED
    BY <1>3, <2>1, <2>2, <2>3
<1> HIDE DEF I
<1>4. n \in I
  BY <1>2, <1>3, Climb
<1> QED
  BY <1>1, <1>4 DEF I

\* Zeros make zero.
LEMMA NumberZeros ==
  ASSUME NEW n \in Nat, NEW w \in Nat, NEW x, \A k \in 0..(n - 1) : x[k] = 0
  PROVE  Number(x, n, w) = 0
<1> DEFINE I == {k \in 0..n : Number(x, k, w) = 0}
<1>1. HasInts(x, n)
  BY DEF HasInts
<1>2. 0 \in I
  BY NumberZero
<1>3. ASSUME NEW k \in 0..(n - 1), k \in I PROVE k + 1 \in I
  <2>1. HasInts(x, k + 1)
    BY <1>1, Fewer
  <2>2. Number(x, k + 1, w) = Number(x, k, w) + x[k] * 2^(w * k)
    BY <2>1, NumberIs
  <2>3. k \in Nat /\ x[k] = 0
    OBVIOUS
  <2>4. 2^(w * k) \in Nat
    BY <2>3, Weight
  <2> QED
    BY <1>3, <2>2, <2>3, <2>4
<1> HIDE DEF I
<1>4. n \in I
  BY <1>2, <1>3, Climb
<1> QED
  BY <1>4 DEF I

\* A number is its low digits and, with their weight, the others.
LEMMA NumberSplit ==
  ASSUME NEW m \in Nat, NEW n \in Nat, NEW w \in Nat, NEW x, HasInts(x, m + n)
  PROVE  /\ Number(x, m + n, w) = Number(x, m, w) + 2^(w * m) * Number(Above(x, m, n), n, w)
         /\ Number(x, m, w) \in Int /\ Number(Above(x, m, n), n, w) \in Int
<1> DEFINE y == Above(x, m, n)
           I == {k \in 0..n : Number(x, m + k, w) = Number(x, m, w) + 2^(w * m) * Number(y, k, w)}
<1>1. HasInts(x, m) /\ HasInts(y, n) /\ \A k \in 0..(n - 1) : y[k] = x[m + k]
  BY DEF HasInts, Above
<1> HIDE DEF y
<1>2. 2^(w * m) \in Nat /\ Number(x, m, w) \in Int /\ Number(y, n, w) \in Int
  BY <1>1, Weight, NumberTyped
<1>3. 0 \in I
  <2>1. Number(y, 0, w) = 0 /\ m + 0 = m
    BY NumberZero
  <2> QED
    BY <1>2, <2>1
<1>4. ASSUME NEW k \in 0..(n - 1), k \in I PROVE k + 1 \in I
  <2>1. HasInts(x, (m + k) + 1) /\ HasInts(y, k + 1) /\ y[k] = x[m + k]
    BY <1>1 DEF HasInts
  <2>2. Number(x, (m + k) + 1, w) = Number(x, m + k, w) + x[m + k] * 2^(w * (m + k))
    BY <2>1, NumberIs
  <2>3. Number(y, k + 1, w) = Number(y, k, w) + y[k] * 2^(w * k) /\ Number(y, k, w) \in Int
    BY <2>1, NumberIs
  <2>4. 2^(w * (m + k)) = 2^(w * m) * 2^(w * k)
    <3>1. w * (m + k) = w * m + w * k /\ w * m \in Nat /\ w * k \in Nat
      OBVIOUS
    <3> QED
      BY <3>1, PowerAdd
  <2> DEFINE p == 2^(w * m)
             q == 2^(w * k)
             a == Number(y, k, w)
             d == y[k]
  <2>5. k \in Nat
    OBVIOUS
  <2>6. p \in Nat /\ q \in Nat
    BY <2>5, Weight
  <2>7. a \in Int /\ d \in Int
    BY <2>1, <2>3 DEF HasInts
  <2>8. Number(x, m + k, w) = Number(x, m, w) + p * a
    BY <1>4
  <2>9. Number(x, m + (k + 1), w) = Number(x, m, w) + p * a + d * (p * q)
    <3>1. m + (k + 1) = (m + k) + 1
      OBVIOUS
    <3> QED
      BY <2>1, <2>2, <2>4, <2>8, <3>1
  <2>10. Number(y, k + 1, w) = a + d * q
    BY <2>3
  <2> HIDE DEF p, q, a, d
  <2>11. p * (a + d * q) = p * a + d * (p * q)
    BY <2>6, <2>7
  <2>12. Number(x, m + (k + 1), w) = Number(x, m, w) + p * Number(y, k + 1, w)
    BY <1>2, <2>6, <2>7, <2>9, <2>10, <2>11
  <2> QED
    BY <2>12 DEF p
<1> HIDE DEF I
<1>5. n \in I
  BY <1>3, <1>4, Climb
<1> QED
  BY <1>2, <1>5 DEF I, y

\* The digits of a number are the ones it was made from.
LEMMA NumberDigit ==
  ASSUME NEW n \in Nat, NEW w \in Nat, NEW x, HasDigits(x, n, w), NEW k \in 0..(n - 1)
  PROVE  Digit(Number(x, n, w), k, w) = x[k]
<1>1. PICK e \in Nat, o \in Nat : o = 1 /\ n = k + (o + e) /\ n - k = o + e
  <2>1. n - k - 1 \in Nat /\ n = k + (1 + (n - k - 1)) /\ n - k = 1 + (n - k - 1)
    OBVIOUS
  <2> QED
    BY <2>1
<1> DEFINE y == Above(x, k, o + e)
           p == 2^(w * k)
           b == 2^w
           h == Number(Above(y, o, e), e, w)
           l == Number(x, k, w)
           d == x[k]
<1>2. k \in Nat
  OBVIOUS
<1>3. p \in Nat \ {0} /\ b \in Nat \ {0}
  BY <1>2, Weight
<1>4. HasInts(x, k + (o + e)) /\ HasInts(y, o + e) /\ y[0] = x[k]
  <2>1. HasInts(x, n)
    BY DigitsInts
  <2> QED
    BY <1>1, <2>1 DEF HasInts, Above
<1>5. l \in 0..(p - 1) /\ d \in 0..(b - 1)
  <2>1. HasDigits(x, k, w) /\ d \in Digits(w)
    BY DEF HasDigits
  <2> QED
    BY <2>1, NumberBounds DEF Digits
<1> HIDE DEF y
<1>6. Number(x, n, w) = l + p * Number(y, o + e, w)
  BY <1>1, <1>4, NumberSplit DEF y
<1>7. Number(y, o + e, w) = Number(y, o, w) + 2^(w * o) * h /\ h \in Int
  BY <1>4, NumberSplit
<1>8. Number(y, o, w) = d /\ 2^(w * o) = b
  <2>1. HasInts(y, 0 + 1) /\ o = 0 + 1
    BY <1>1, <1>4 DEF HasInts
  <2>2. Number(y, 0 + 1, w) = Number(y, 0, w) + y[0] * 2^(w * 0)
    BY <2>1, NumberIs
  <2>3. 2^(w * 0) = 1 /\ Number(y, 0, w) = 0
    BY Weight, NumberZero
  <2>4. w * o = w
    BY <1>1
  <2>5. d \in Int
    BY <1>3, <1>5
  <2> QED
    BY <1>4, <2>1, <2>2, <2>3, <2>4, <2>5
<1> HIDE DEF p, b, h, l, d
<1>9. PICK g \in Int : g = b * h + d /\ Number(x, n, w) = p * g + l
  <2>1. b * h + d \in Int
    BY <1>3, <1>5, <1>7
  <2> QED
    BY <1>3, <1>5, <1>6, <1>7, <1>8, <2>1
<1>10. Number(x, n, w) \div p = g
  <2>1. (p * g + l) \div p = g
    BY <1>3, <1>5, DivModUnique, Zenon
  <2> QED
    BY <1>9, <2>1, Zenon
<1>11. g % b = d
  <2>1. (b * h + d) % b = d
    BY <1>3, <1>5, <1>7, DivModUnique, Zenon
  <2> QED
    BY <1>9, <2>1, Zenon
<1> QED
  BY <1>10, <1>11 DEF Digit, p, b, d

\* The digit of a number is one.
LEMMA DigitTyped ==
  ASSUME NEW v \in Int, NEW k \in Nat, NEW w \in Nat
  PROVE  Digit(v, k, w) \in Digits(w)
<1>1. 2^(w * k) \in Nat \ {0} /\ 2^w \in Nat \ {0}
  BY Weight
<1>2. v \div 2^(w * k) \in Int
  BY <1>1, DivMod
<1> QED
  BY <1>1, <1>2, DivMod DEF Digit, Digits

\* The n lowest digits of a number make it again, but for what is above them.
LEMMA DigitsNumber ==
  ASSUME NEW n \in Nat, NEW w \in Nat, NEW v \in Int,
         NEW x, \A k \in 0..(n - 1) : x[k] = Digit(v, k, w)
  PROVE  /\ HasDigits(x, n, w)
         /\ Number(x, n, w) = v % 2^(w * n)
<1> DEFINE I == {k \in 0..n : Number(x, k, w) = v % 2^(w * k)}
<1>1. HasDigits(x, n, w) /\ HasInts(x, n)
  <2>1. HasDigits(x, n, w)
    BY DigitTyped DEF HasDigits
  <2> QED
    BY <2>1, DigitsInts
<1>2. 0 \in I
  <2>1. 2^(w * 0) = 1 /\ Number(x, 0, w) = 0 /\ v % 1 = 0
    BY Weight, NumberZero
  <2> QED
    BY <2>1
<1>3. ASSUME NEW k \in 0..(n - 1), k \in I PROVE k + 1 \in I
  <2> DEFINE p == 2^(w * k)
             b == 2^w
  <2>1. k \in Nat
    OBVIOUS
  <2>2. p \in Nat \ {0} /\ b \in Nat \ {0} /\ 2^(w * (k + 1)) = p * b
    BY <2>1, Weight
  <2>3. HasInts(x, k + 1)
    BY <1>1, Fewer
  <2>4. Number(x, k + 1, w) = Number(x, k, w) + x[k] * p
    BY <2>3, NumberIs
  <2>5. x[k] = (v \div p) % b /\ Number(x, k, w) = v % p
    BY <1>3 DEF Digit
  <2> HIDE DEF p, b
  <2>6. v % (p * b) = (v % p) + p * ((v \div p) % b)
    BY <2>2, DivDiv, ZenonT(30)
  <2>7. (v \div p) % b \in Int
    BY <2>3, <2>5 DEF HasInts
  <2> QED
    BY <2>2, <2>4, <2>5, <2>6, <2>7, SMTT(30)
<1> HIDE DEF I
<1>4. n \in I
  BY <1>2, <1>3, Climb
<1> QED
  BY <1>1, <1>4 DEF I

-----------------------------------------------------------------------------
\* Words.
LEMMA LimbFacts ==
  /\ Limbs \in Nat /\ Limbs >= 2 /\ LimbBits \in Nat /\ LimbBits >= 1
  /\ Limb \in Nat /\ Limb >= 2 /\ Limb = 2^LimbBits
  /\ Modulus = 2^(LimbBits * Limbs) /\ Modulus \in Nat \ {0}
  /\ Digits(LimbBits) = 0..(Limb - 1)
  /\ WordBits \in Nat /\ WordBits < Limb /\ WordBits = LimbBits * Limbs
<1>1. Limbs \in Nat /\ Limbs >= 2 /\ LimbBits \in Nat /\ LimbBits >= 1
  BY LimbAssumption
<1>2. 2^LimbBits \in Nat /\ 2 * 2^0 <= 2^LimbBits
  BY <1>1, PowerNat, PowerGrows
<1>3. WordBits = LimbBits * Limbs /\ WordBits \in Nat
  BY <1>1 DEF WordBits
<1>4. Modulus \in Nat \ {0} /\ Modulus = 2^(LimbBits * Limbs)
  BY <1>3, PowerNat DEF Modulus
<1>5. WordBits < Limb
  BY LimbAssumption DEF WordBits, Limb
<1> QED
  BY <1>1, <1>2, <1>3, <1>4, <1>5 DEF Limb, Digits

\* Division by Limb.
LEMMA LimbDivMod ==
  ASSUME NEW t \in Int
  PROVE  t = Limb * (t \div Limb) + (t % Limb) /\ t \div Limb \in Int /\ t % Limb \in 0..(Limb - 1)
<1>1. PICK L \in Nat \ {0} : L = Limb
  BY LimbFacts
<1> QED
  BY <1>1, DivMod

\* A word has limbs for its digits, and a value below the modulus.
LEMMA WordDigits ==
  ASSUME NEW a \in Word
  PROVE  /\ HasDigits(a, Limbs, LimbBits) /\ HasInts(a, Limbs)
         /\ \A i \in Index : a[i] \in 0..(Limb - 1)
         /\ Value(a) \in 0..(Modulus - 1)
<1>1. \A i \in Index : a[i] \in 0..(Limb - 1)
  BY DEF Word
<1>2. HasDigits(a, Limbs, LimbBits)
  BY <1>1, LimbFacts DEF HasDigits, Index
<1>3. Value(a) \in 0..(Modulus - 1)
  BY <1>2, LimbFacts, NumberBounds DEF Value
<1> QED
  BY <1>1, <1>2, <1>3, LimbFacts, DigitsInts

\* A function on the limbs' indices that has digits is a word.
LEMMA IsWord ==
  ASSUME NEW a, a = [i \in Index |-> a[i]], \A i \in Index : a[i] \in 0..(Limb - 1)
  PROVE  a \in Word
BY DEF Word

\* A number as a word: its value is the number, modulo 2 to the bits of a word.
LEMMA FromU64Value ==
  ASSUME NEW v \in Int
  PROVE  FromU64(v) \in Word /\ Value(FromU64(v)) = v % Modulus
<1>1. \A i \in Index : i \in Nat
  BY LimbFacts DEF Index
<1>2. \A i \in Index : Digit(v, i, LimbBits) \in 0..(Limb - 1)
  BY <1>1, LimbFacts, DigitTyped
<1>3. FromU64(v) \in Word
  BY <1>2 DEF FromU64, Word
<1>4. \A i \in 0..(Limbs - 1) : FromU64(v)[i] = Digit(v, i, LimbBits)
  BY DEF FromU64, Index
<1>5. Number(FromU64(v), Limbs, LimbBits) = v % 2^(LimbBits * Limbs)
  BY <1>4, LimbFacts, DigitsNumber
<1> QED
  BY <1>3, <1>5, LimbFacts DEF Value

\* A word is known by its value.
LEMMA ValueDigits ==
  ASSUME NEW a \in Word
  PROVE  FromU64(Value(a)) = a
<1>1. ASSUME NEW i \in Index PROVE Digit(Value(a), i, LimbBits) = a[i]
  BY WordDigits, LimbFacts, NumberDigit DEF Value, Index
<1> QED
  BY <1>1 DEF FromU64, Word

\* A quotient by b of less than m times b.
LEMMA DivBound ==
  ASSUME NEW b \in Nat \ {0}, NEW m \in Nat \ {0}, NEW x \in 0..(b * m - 1)
  PROVE  x \div b \in 0..(m - 1)
<1>1. PICK q \in Int, r \in 0..(b - 1) : q = x \div b /\ x = b * q + r
  BY DivMod
<1>2. ~(q >= m)
  <2>1. ASSUME q >= m PROVE b * q >= b * m
    BY <2>1
  <2> QED
    BY <1>1, <2>1
<1>3. ~(q <= -1)
  <2>1. ASSUME q <= -1 PROVE b * q <= -b
    BY <2>1
  <2> QED
    BY <1>1, <2>1
<1> QED
  BY <1>1, <1>2, <1>3

\* The carry of a sum of two digits is a bit.
LEMMA CarryBound ==
  ASSUME NEW b \in Nat \ {0}, NEW x \in 0..(2 * b - 1)
  PROVE  x \div b \in 0..1
<1>1. PICK m \in Nat \ {0} : m = 2
  OBVIOUS
<1>2. x \in 0..(b * m - 1)
  BY <1>1
<1> QED
  BY <1>1, <1>2, DivBound

-----------------------------------------------------------------------------
\* Sums of limbs with carries.  s has what is kept of z, limb by limb, c what is
\* carried: any of these may be negative.
Carries(s, z, c, n) ==
  /\ HasInts(s, n) /\ HasInts(z, n) /\ HasInts(c, n + 1)
  /\ \A k \in 0..(n - 1) : s[k] + Limb * c[k + 1] = z[k] + c[k]

\* A chain of carries keeps the number: what is lost at a limb is added to the next,
\* and the last carry is what exceeds the limbs.
LEMMA Carried ==
  ASSUME NEW n \in Nat, NEW s, NEW z, NEW c, Carries(s, z, c, n)
  PROVE  Number(s, n, LimbBits) + c[n] * 2^(LimbBits * n) = Number(z, n, LimbBits) + c[0]
<1> DEFINE w == LimbBits
           I == {k \in 0..n : Number(s, k, w) + c[k] * 2^(w * k) = Number(z, k, w) + c[0]}
<1>1. w \in Nat /\ HasInts(s, n) /\ HasInts(z, n)
  BY LimbFacts DEF Carries
<1>2. 0 \in I
  <2>1. Number(s, 0, w) = 0 /\ Number(z, 0, w) = 0 /\ c[0] \in Int /\ 2^(w * 0) = 1
    BY <1>1, NumberZero, Weight DEF Carries, HasInts
  <2> QED
    BY <2>1
<1>3. ASSUME NEW k \in 0..(n - 1), k \in I PROVE k + 1 \in I
  <2> DEFINE p == 2^(w * k)
             ns == Number(s, k, w)
             nz == Number(z, k, w)
  <2>1. k \in Nat /\ k + 1 \in Nat
    OBVIOUS
  <2>2. p \in Nat /\ 2^(w * (k + 1)) = p * Limb /\ Limb \in Nat
    BY <1>1, <2>1, Weight, LimbFacts
  <2>3. HasInts(s, k + 1) /\ HasInts(z, k + 1)
    BY <1>1, <2>1, Fewer
  <2>4. ns \in Int /\ Number(s, k + 1, w) = ns + s[k] * p
    BY <1>1, <2>1, <2>3, NumberIs
  <2>5. nz \in Int /\ Number(z, k + 1, w) = nz + z[k] * p
    BY <1>1, <2>1, <2>3, NumberIs
  <2>6. s[k] \in Int /\ z[k] \in Int /\ c[k] \in Int /\ c[k + 1] \in Int /\ s[k] + Limb * c[k + 1] = z[k] + c[k]
    BY DEF Carries, HasInts
  <2>7. ns + c[k] * p = nz + c[0] /\ c[0] \in Int
    BY <1>3 DEF Carries, HasInts
  <2> HIDE DEF p, ns, nz, w
  <2>8. (s[k] + Limb * c[k + 1]) * p = s[k] * p + c[k + 1] * (p * Limb)
    BY <2>2, <2>6
  <2>9. (z[k] + c[k]) * p = z[k] * p + c[k] * p
    BY <2>2, <2>6
  <2>10. ns + s[k] * p + c[k + 1] * (p * Limb) = nz + z[k] * p + c[0]
    <3>1. PICK A \in Int, B \in Int, C \in Int, D \in Int :
            A = s[k] * p /\ B = c[k + 1] * (p * Limb) /\ C = z[k] * p /\ D = c[k] * p
      BY <2>2, <2>6, SMTT(30)
    <3>2. PICK e \in Int : e = c[0]
      BY <2>7
    <3>3. A + B = C + D /\ ns + D = nz + e
      BY <2>6, <2>7, <2>8, <2>9, <3>1, <3>2
    <3>4. ns + A + B = nz + C + e
      BY <2>4, <2>5, <3>3
    <3> QED
      BY <3>1, <3>2, <3>4
  <2>11. Number(s, k + 1, w) + c[k + 1] * 2^(w * (k + 1)) = Number(z, k + 1, w) + c[0]
    BY <2>2, <2>4, <2>5, <2>10
  <2> QED
    BY <2>11 DEF w
<1> HIDE DEF I
<1>4. n \in I
  BY <1>2, <1>3, Climb
<1> QED
  BY <1>4 DEF I

\* Numbers of digits that are sums.
Combined(z, x, m, y, n) ==
  /\ HasInts(x, n) /\ HasInts(y, n)
  /\ \A k \in 0..(n - 1) : z[k] = x[k] + m * y[k]

\* A sum of digits, one of them m times, is that sum of the numbers.
LEMMA NumberLinear ==
  ASSUME NEW n \in Nat, NEW w \in Nat, NEW m \in Int, NEW x, NEW y, NEW z, Combined(z, x, m, y, n)
  PROVE  HasInts(z, n) /\ Number(z, n, w) = Number(x, n, w) + m * Number(y, n, w)
<1> DEFINE I == {k \in 0..n : Number(z, k, w) = Number(x, k, w) + m * Number(y, k, w)}
<1>1. HasInts(x, n) /\ HasInts(y, n) /\ HasInts(z, n)
  BY DEF Combined, HasInts
<1>2. 0 \in I
  <2>1. Number(x, 0, w) = 0 /\ Number(y, 0, w) = 0 /\ Number(z, 0, w) = 0
    BY NumberZero
  <2> QED
    BY <2>1
<1>3. ASSUME NEW k \in 0..(n - 1), k \in I PROVE k + 1 \in I
  <2> DEFINE p == 2^(w * k)
             nx == Number(x, k, w)
             ny == Number(y, k, w)
  <2>1. k \in Nat /\ k + 1 \in Nat
    OBVIOUS
  <2>2. p \in Nat
    BY <2>1, Weight
  <2>3. HasInts(x, k + 1) /\ HasInts(y, k + 1) /\ HasInts(z, k + 1)
    BY <1>1, <2>1, Fewer
  <2>4. nx \in Int /\ Number(x, k + 1, w) = nx + x[k] * p
    BY <2>1, <2>3, NumberIs
  <2>5. ny \in Int /\ Number(y, k + 1, w) = ny + y[k] * p
    BY <2>1, <2>3, NumberIs
  <2>6. Number(z, k + 1, w) = Number(z, k, w) + z[k] * p
    BY <2>1, <2>3, NumberIs
  <2>7. x[k] \in Int /\ y[k] \in Int /\ z[k] = x[k] + m * y[k]
    BY DEF Combined, HasInts
  <2>8. Number(z, k, w) = nx + m * ny
    BY <1>3
  <2> HIDE DEF p, nx, ny
  <2>9. (x[k] + m * y[k]) * p + m * ny = x[k] * p + m * (ny + y[k] * p)
    BY <2>2, <2>5, <2>7
  <2>10. Number(z, k + 1, w) = nx + x[k] * p + m * (ny + y[k] * p)
    BY <2>2, <2>4, <2>5, <2>6, <2>7, <2>8, <2>9
  <2> QED
    BY <2>4, <2>5, <2>10
<1> HIDE DEF I
<1>4. n \in I
  BY <1>2, <1>3, Climb
<1> QED
  BY <1>1, <1>4 DEF I

-----------------------------------------------------------------------------
\* Addition and subtraction.
\* The carries of an addition.
LEMMA CarriesAre ==
  ASSUME NEW a \in Word, NEW b \in Word
  PROVE  /\ carries(a, b)[0] = 0
         /\ \A i \in 1..Limbs : carries(a, b)[i] = (a[i - 1] + b[i - 1] + carries(a, b)[i - 1]) \div Limb
         /\ \A i \in 0..Limbs : carries(a, b)[i] \in 0..1
<1> DEFINE f == carries(a, b)
           T == 0..1
           E(i, c) == (a[i - 1] + b[i - 1] + c) \div Limb
           Loop(g) == [i \in 0..Limbs |-> IF i = 0 THEN 0 ELSE E(i, g[i - 1])]
           step == [i \in 1..Limbs |-> [c \in T |-> E(i, c)]]
<1>1. ASSUME NEW i \in 1..Limbs, NEW c \in T PROVE E(i, c) \in T
  <2>1. a[i - 1] \in 0..(Limb - 1) /\ b[i - 1] \in 0..(Limb - 1)
    <3>1. i - 1 \in Index
      BY LimbFacts DEF Index
    <3> QED
      BY <3>1, WordDigits
  <2>2. a[i - 1] + b[i - 1] + c \in 0..(2 * Limb - 1)
    BY <2>1, LimbFacts
  <2> QED
    BY <2>2, LimbFacts, CarryBound, SMTT(30)
<1>2. 0 \in T /\ Limbs \in Nat
  BY LimbFacts
<1>3. f = CHOOSE g : g = Loop(g)
  BY DEF carries
<1> HIDE DEF E, T
<1>4. step \in [1..Limbs -> [T -> T]] /\ \A i \in 1..Limbs, c \in T : step[i][c] = E(i, c)
  BY <1>1
<1> HIDE DEF step, f
<1>5. PICK g : IsLoop(g, T, Limbs, 0, step)
  BY <1>2, <1>4, Rounds, Zenon
<1>6. g = Loop(g)
  <2>1. ASSUME NEW i \in 0..Limbs PROVE g[i] = Loop(g)[i]
    <3>1. CASE i = 0
      BY <1>5, <3>1 DEF IsLoop
    <3>2. CASE i # 0
      <4>1. i \in 1..Limbs /\ i - 1 \in 0..Limbs
        BY <1>2, <3>2
      <4>2. g[i] = E(i, g[i - 1])
        BY <1>4, <1>5, <4>1 DEF IsLoop
      <4> QED
        BY <3>2, <4>2
    <3> QED
      BY <3>1, <3>2
  <2> QED
    BY <1>5, <2>1 DEF IsLoop
<1>7. f = Loop(f)
  <2> HIDE DEF Loop
  <2> QED
    BY <1>3, <1>6
<1>8. f[0] = 0 /\ \A i \in 1..Limbs : f[i] = E(i, f[i - 1])
  <2>1. ASSUME NEW i \in 0..Limbs PROVE f[i] = IF i = 0 THEN 0 ELSE E(i, f[i - 1])
    BY <1>7
  <2>2. 0 \in 0..Limbs /\ \A i \in 1..Limbs : i \in 0..Limbs /\ i # 0
    BY <1>2
  <2> QED
    BY <2>1, <2>2, Zenon
<1>9. \A i \in 0..Limbs : f[i] \in T
  <2>1. f[0] \in T
    BY <1>2, <1>8
  <2>2. ASSUME NEW i \in 1..Limbs, f[i - 1] \in T PROVE f[i] \in T
    BY <1>1, <1>8, <2>2
  <2> QED
    BY <1>2, <2>1, <2>2, RoundsIn
<1> QED
  BY <1>8, <1>9 DEF f, T, E

\* An addition is exact, with its carry.
LEMMA AddCarryExact ==
  ASSUME NEW a \in Word, NEW b \in Word
  PROVE  /\ addCarry(a, b).sum \in Word /\ addCarry(a, b).carry \in 0..1
         /\ Value(addCarry(a, b).sum) + addCarry(a, b).carry * Modulus = Value(a) + Value(b)
<1> DEFINE c == carries(a, b)
           s == addCarry(a, b).sum
           z == [i \in Index |-> a[i] + b[i]]
<1>1. c[0] = 0 /\ (\A i \in 1..Limbs : c[i] = (a[i - 1] + b[i - 1] + c[i - 1]) \div Limb)
      /\ \A i \in 0..Limbs : c[i] \in 0..1
  BY CarriesAre
<1>2. s = [i \in Index |-> (a[i] + b[i] + c[i]) % Limb] /\ addCarry(a, b).carry = c[Limbs]
  BY DEF addCarry
<1> HIDE DEF c, s
<1>3. ASSUME NEW i \in Index
      PROVE  /\ a[i] \in Int /\ b[i] \in Int /\ c[i] \in Int /\ c[i + 1] \in Int /\ s[i] \in 0..(Limb - 1)
             /\ s[i] + Limb * c[i + 1] = a[i] + b[i] + c[i]
  <2>1. a[i] \in Int /\ b[i] \in Int
    BY WordDigits, LimbFacts DEF HasInts, Index
  <2>2. i + 1 \in 1..Limbs /\ i \in 0..Limbs /\ (i + 1) - 1 = i
    BY LimbFacts DEF Index
  <2>3. c[i] \in Int /\ c[i + 1] = (a[i] + b[i] + c[i]) \div Limb /\ s[i] = (a[i] + b[i] + c[i]) % Limb
    BY <1>1, <1>2, <2>2
  <2>4. PICK t \in Int : t = a[i] + b[i] + c[i]
    BY <2>1, <2>3
  <2>5. t = Limb * (t \div Limb) + (t % Limb) /\ t \div Limb \in Int /\ t % Limb \in 0..(Limb - 1)
    BY LimbDivMod
  <2> QED
    BY <2>1, <2>3, <2>4, <2>5, LimbFacts
<1>4. s \in Word
  BY <1>2, <1>3, IsWord
<1>5. PICK one \in Int : one = 1
  OBVIOUS
<1>6. HasInts(z, Limbs) /\ Value(z) = Value(a) + Value(b)
  <2>1. Combined(z, a, one, b, Limbs)
    <3>1. \A i \in Index : z[i] = a[i] + one * b[i]
      BY <1>3, <1>5
    <3> QED
      BY <3>1, WordDigits DEF Combined, Index
  <2> HIDE DEF z
  <2>2. HasInts(z, Limbs) /\ Number(z, Limbs, LimbBits) = Number(a, Limbs, LimbBits) + one * Number(b, Limbs, LimbBits)
    BY <2>1, LimbFacts, NumberLinear
  <2>3. Value(a) \in Int /\ Value(b) \in Int
    BY WordDigits, LimbFacts
  <2> QED
    BY <1>5, <2>2, <2>3 DEF Value
<1>7. Carries(s, z, c, Limbs)
  <2>1. HasInts(s, Limbs) /\ HasInts(c, Limbs + 1)
    BY <1>1, <1>3, LimbFacts DEF HasInts, Index
  <2>2. \A i \in 0..(Limbs - 1) : s[i] + Limb * c[i + 1] = z[i] + c[i]
    BY <1>3 DEF Index
  <2> QED
    BY <1>1, <1>6, <2>1, <2>2 DEF Carries
<1>8. PICK y \in Int : y = c[Limbs] /\ y \in 0..1
  BY <1>1, LimbFacts
<1>9. Value(s) + y * Modulus = Value(z) + c[0] /\ c[0] = 0
  BY <1>1, <1>7, <1>8, LimbFacts, Carried DEF Value
<1>10. Value(z) \in Int
  BY <1>6, LimbFacts, NumberTyped DEF Value
<1>11. Value(s) + y * Modulus = Value(a) + Value(b)
  BY <1>6, <1>9, <1>10
<1> QED
  BY <1>2, <1>4, <1>8, <1>11 DEF s

\* ADD.
LEMMA AddExact ==
  ASSUME NEW a \in Word, NEW b \in Word
  PROVE  Add256(a, b) \in Word /\ Value(Add256(a, b)) = (Value(a) + Value(b)) % Modulus
<1> DEFINE s == addCarry(a, b).sum
           c == addCarry(a, b).carry
<1>1. s \in Word /\ c \in 0..1 /\ Value(s) + c * Modulus = Value(a) + Value(b)
  BY AddCarryExact
<1>2. Value(s) \in 0..(Modulus - 1) /\ Modulus \in Nat \ {0}
  BY <1>1, WordDigits, LimbFacts
<1> HIDE DEF s, c
<1>3. PICK m \in Nat \ {0}, r \in Int, q \in Int : m = Modulus /\ r = Value(s) /\ q = c /\ r \in 0..(m - 1)
  BY <1>1, <1>2
<1>4. (m * q + r) % m = r
  BY <1>3, DivModUnique
<1>5. Value(a) + Value(b) = m * q + r
  BY <1>1, <1>2, <1>3
<1> QED
  BY <1>1, <1>3, <1>4, <1>5 DEF Add256, s

\* The borrows of a subtraction.
LEMMA BorrowsAre ==
  ASSUME NEW a \in Word, NEW b \in Word
  PROVE  /\ borrows(a, b)[0] = 0
         /\ \A i \in 1..Limbs : borrows(a, b)[i] = IF a[i - 1] < b[i - 1] + borrows(a, b)[i - 1] THEN 1 ELSE 0
         /\ \A i \in 0..Limbs : borrows(a, b)[i] \in 0..1
<1> DEFINE f == borrows(a, b)
           T == 0..1
           E(i, bor) == IF a[i - 1] < b[i - 1] + bor THEN 1 ELSE 0
           Loop(g) == [i \in 0..Limbs |-> IF i = 0 THEN 0 ELSE E(i, g[i - 1])]
           step == [i \in 1..Limbs |-> [bor \in T |-> E(i, bor)]]
<1>1. ASSUME NEW i \in 1..Limbs, NEW bor \in T PROVE E(i, bor) \in T
  OBVIOUS
<1>2. 0 \in T /\ Limbs \in Nat
  BY LimbFacts
<1>3. f = CHOOSE g : g = Loop(g)
  BY DEF borrows
<1> HIDE DEF E, T
<1>4. step \in [1..Limbs -> [T -> T]] /\ \A i \in 1..Limbs, bor \in T : step[i][bor] = E(i, bor)
  BY <1>1
<1> HIDE DEF step, f
<1>5. PICK g : IsLoop(g, T, Limbs, 0, step)
  BY <1>2, <1>4, Rounds, Zenon
<1>6. g = Loop(g)
  <2>1. ASSUME NEW i \in 0..Limbs PROVE g[i] = Loop(g)[i]
    <3>1. CASE i = 0
      BY <1>5, <3>1 DEF IsLoop
    <3>2. CASE i # 0
      <4>1. i \in 1..Limbs /\ i - 1 \in 0..Limbs
        BY <1>2, <3>2
      <4>2. g[i] = E(i, g[i - 1])
        BY <1>4, <1>5, <4>1 DEF IsLoop
      <4> QED
        BY <3>2, <4>2
    <3> QED
      BY <3>1, <3>2
  <2> QED
    BY <1>5, <2>1 DEF IsLoop
<1>7. f = Loop(f)
  <2> HIDE DEF Loop
  <2> QED
    BY <1>3, <1>6
<1>8. f[0] = 0 /\ \A i \in 1..Limbs : f[i] = E(i, f[i - 1])
  <2>1. ASSUME NEW i \in 0..Limbs PROVE f[i] = IF i = 0 THEN 0 ELSE E(i, f[i - 1])
    BY <1>7
  <2>2. 0 \in 0..Limbs /\ \A i \in 1..Limbs : i \in 0..Limbs /\ i # 0
    BY <1>2
  <2> QED
    BY <2>1, <2>2, Zenon
<1>9. \A i \in 0..Limbs : f[i] \in T
  <2>1. f[0] \in T
    BY <1>2, <1>8
  <2>2. ASSUME NEW i \in 1..Limbs, f[i - 1] \in T PROVE f[i] \in T
    BY <1>1, <1>8, <2>2
  <2> QED
    BY <1>2, <2>1, <2>2, RoundsIn
<1> QED
  BY <1>8, <1>9 DEF f, T, E


\* SUB.
LEMMA SubExact ==
  ASSUME NEW a \in Word, NEW b \in Word
  PROVE  Sub256(a, b) \in Word /\ Value(Sub256(a, b)) = (Value(a) - Value(b)) % Modulus
<1> DEFINE o == borrows(a, b)
           c == [i \in 0..Limbs |-> -o[i]]
           s == Sub256(a, b)
           z == [i \in Index |-> a[i] - b[i]]
<1>1. o[0] = 0 /\ (\A i \in 1..Limbs : o[i] = IF a[i - 1] < b[i - 1] + o[i - 1] THEN 1 ELSE 0)
      /\ \A i \in 0..Limbs : o[i] \in 0..1
  BY BorrowsAre
<1>2. s = [i \in Index |-> (a[i] - b[i] - o[i]) % Limb]
  BY DEF Sub256
<1>3. \A i \in 0..Limbs : c[i] = -o[i] /\ c[i] \in Int
  BY <1>1
<1> HIDE DEF o, c, s
<1>4. ASSUME NEW i \in Index
      PROVE  /\ a[i] \in Int /\ b[i] \in Int /\ s[i] \in 0..(Limb - 1)
             /\ s[i] + Limb * c[i + 1] = a[i] - b[i] + c[i]
  <2>1. a[i] \in 0..(Limb - 1) /\ b[i] \in 0..(Limb - 1) /\ Limb \in Nat \ {0}
    BY WordDigits, LimbFacts
  <2>2. i + 1 \in 1..Limbs /\ i + 1 \in 0..Limbs /\ i \in 0..Limbs /\ (i + 1) - 1 = i
    BY LimbFacts DEF Index
  <2>3. o[i] \in 0..1 /\ (o[i + 1] = IF a[i] < b[i] + o[i] THEN 1 ELSE 0) /\ s[i] = (a[i] - b[i] - o[i]) % Limb
    BY <1>1, <1>2, <2>2
  <2>4. PICK L \in Nat \ {0}, x \in Int, y \in Int, e \in 0..1, p \in 0..1 :
          /\ L = Limb /\ x = a[i] /\ y = b[i] /\ e = o[i] /\ p = o[i + 1]
          /\ x \in 0..(L - 1) /\ y \in 0..(L - 1) /\ (p = 1 <=> x < y + e)
    BY <2>1, <2>3
  <2>5. (x - y - e) % L \in 0..(L - 1) /\ ((x - y - e) % L) + L * (-p) = x - y - e
    <3>1. PICK v \in Int : v = x - y - e
      BY <2>4
    <3>2. CASE x < y + e
      <4>1. PICK q \in Int, r \in Int : q = -1 /\ r = v + L
        BY <2>4, <3>1
      <4>2. v = L * q + r /\ 0 <= r /\ r < L
        BY <2>4, <3>1, <3>2, <4>1
      <4>3. v % L = r
        <5>1. Division(v, L, q, r)
          BY <4>2 DEF Division
        <5> QED
          BY <5>1, Divides
      <4> QED
        BY <2>4, <3>1, <3>2, <4>1, <4>2, <4>3
    <3>3. CASE ~(x < y + e)
      <4>1. PICK q \in Int : q = 0
        OBVIOUS
      <4>2. v = L * q + v /\ 0 <= v /\ v < L
        BY <2>4, <3>1, <3>3, <4>1
      <4>3. v % L = v
        BY <4>2, DivSmall
      <4> QED
        BY <2>4, <3>1, <3>3, <4>1, <4>2, <4>3
    <3> QED
      BY <2>4, <3>2, <3>3
  <2>6. c[i] = -e /\ c[i + 1] = -p /\ s[i] = (x - y - e) % L
    BY <1>3, <2>2, <2>3, <2>4
  <2>7. s[i] \in 0..(L - 1) /\ s[i] + L * (-p) = x - y + (-e)
    BY <2>4, <2>5, <2>6
  <2> QED
    BY <2>4, <2>6, <2>7
<1>5. s \in Word
  BY <1>2, <1>4, IsWord
<1>6. PICK m \in Int : m = -1
  OBVIOUS
<1>7. HasInts(z, Limbs) /\ Value(z) = Value(a) - Value(b)
  <2>1. Combined(z, a, m, b, Limbs)
    <3>1. \A i \in Index : z[i] = a[i] + m * b[i]
      BY <1>4, <1>6
    <3> QED
      BY <3>1, WordDigits DEF Combined, Index
  <2> HIDE DEF z
  <2>2. HasInts(z, Limbs) /\ Number(z, Limbs, LimbBits) = Number(a, Limbs, LimbBits) + m * Number(b, Limbs, LimbBits)
    BY <2>1, LimbFacts, NumberLinear
  <2>3. Value(a) \in Int /\ Value(b) \in Int
    BY WordDigits, LimbFacts
  <2> QED
    BY <1>6, <2>2, <2>3 DEF Value
<1>8. Carries(s, z, c, Limbs)
  <2>1. HasInts(s, Limbs) /\ HasInts(c, Limbs + 1)
    BY <1>3, <1>4, LimbFacts DEF HasInts, Index
  <2>2. \A i \in 0..(Limbs - 1) : s[i] + Limb * c[i + 1] = z[i] + c[i]
    BY <1>4 DEF Index
  <2> QED
    BY <1>7, <2>1, <2>2 DEF Carries
<1>9. PICK q \in Int : q = c[Limbs]
  BY <1>3, LimbFacts
<1>10. Value(s) + q * Modulus = Value(z) + c[0] /\ c[0] = 0
  BY <1>1, <1>3, <1>8, <1>9, LimbFacts, Carried DEF Value
<1>11. Value(s) \in 0..(Modulus - 1) /\ Modulus \in Nat \ {0} /\ Value(z) \in Int
  <2>1. Value(a) \in Int /\ Value(b) \in Int
    BY WordDigits, LimbFacts
  <2> QED
    BY <1>5, <1>7, <2>1, WordDigits, LimbFacts
<1>12. PICK r \in Int, M \in Nat \ {0}, x \in Int : r = Value(s) /\ M = Modulus /\ x = Value(z)
  BY <1>11
<1>13. x = M * q + r /\ 0 <= r /\ r < M
  BY <1>10, <1>11, <1>12
<1>14. x % M = r
  BY <1>13, DivIs
<1> QED
  BY <1>5, <1>7, <1>12, <1>14 DEF s

-----------------------------------------------------------------------------
\* Multiplication.
\* A limb y of the factor meets the limb u of the product and the carry c: d is kept
\* and k carried.
MulAt(x, y, u, c, d, k) ==
  /\ x \in 0..(Limb - 1) /\ y \in 0..(Limb - 1) /\ u \in 0..(Limb - 1) /\ c \in 0..(Limb - 1)
  /\ d = (u + ((x * y) % Limb) + c) % Limb
  /\ k = ((x * y) \div Limb + (u + ((x * y) % Limb) + c) \div Limb) % Limb

\* One step of a row of Mul256: a limb, an earlier digit and a carry never exceed two
\* limbs.
LEMMA MulLimb ==
  ASSUME NEW x, NEW y, NEW u, NEW c, NEW d, NEW k, MulAt(x, y, u, c, d, k)
  PROVE  /\ d \in 0..(Limb - 1) /\ k \in 0..(Limb - 1)
         /\ d + Limb * k = u + x * y + c
<1>1. PICK L \in Nat \ {0} : L = Limb
  BY LimbFacts
<1>2. x \in 0..(L - 1) /\ y \in 0..(L - 1) /\ u \in 0..(L - 1) /\ c \in 0..(L - 1)
  BY <1>1 DEF MulAt
<1>3. x * y \in 0..((L - 1) * (L - 1))
  <2>1. x * y >= 0 /\ x * y <= x * (L - 1)
    BY <1>2
  <2>2. x * (L - 1) <= (L - 1) * (L - 1)
    BY <1>2
  <2>3. x * y \in Int /\ x * (L - 1) \in Int
    BY <1>2
  <2> QED
    BY <2>1, <2>2, <2>3
<1>4. PICK v \in Int : v = x * y
  BY <1>3
<1>5. PICK h \in Int, l \in Int : h = v \div L /\ l = v % L /\ v = L * h + l /\ 0 <= l /\ l < L
  BY DivPick, Zenon
<1>6. PICK t \in Int : t = u + l + c
  BY <1>2
<1>7. PICK g \in Int, e \in Int : g = t \div L /\ e = t % L /\ t = L * g + e /\ 0 <= e /\ e < L
  BY DivPick, Zenon
<1>8. e + L * (h + g) = u + v + c
  <2>1. L * (h + g) = L * h + L * g
    OBVIOUS
  <2>2. PICK A \in Int, B \in Int : A = L * h /\ B = L * g
    OBVIOUS
  <2> QED
    BY <1>2, <1>5, <1>6, <1>7, <2>1, <2>2
<1>9. 0 <= h + g /\ h + g < L
  <2>1. PICK q \in Int : q = h + g
    OBVIOUS
  <2>2. u + v + c >= 0 /\ u + v + c <= (L - 1) * (L - 1) + (L - 1) + (L - 1)
    BY <1>2, <1>3, <1>4
  <2>3. (L - 1) * (L - 1) + (L - 1) + (L - 1) = L * L - 1
    OBVIOUS
  <2>4. PICK S \in Int : S = L * L
    OBVIOUS
  <2>5. L * q >= 0 - e /\ L * q <= S - 1
    BY <1>2, <1>7, <1>8, <2>1, <2>2, <2>3, <2>4
  <2>6. ~(q <= -1)
    <3>1. ASSUME q <= -1 PROVE L * q <= -L
      BY <3>1
    <3> QED
      BY <1>7, <2>5, <3>1
  <2>7. ~(q >= L)
    <3>1. ASSUME q >= L PROVE L * q >= L * L
      BY <3>1
    <3> QED
      BY <2>4, <2>5, <3>1
  <2> QED
    BY <2>1, <2>6, <2>7
<1>10. PICK q \in Int : q = h + g
  OBVIOUS
<1>11. q % L = q
  BY <1>9, <1>10, DivSmall
<1>12. d = e /\ k = q % L
  BY <1>1, <1>4, <1>5, <1>6, <1>7, <1>10 DEF MulAt
<1> QED
  BY <1>1, <1>4, <1>7, <1>8, <1>9, <1>10, <1>11, <1>12

\* Numbers of twice as many limbs, and of a limb more.
Doubles == [0..(2 * Limbs - 1) -> 0..(Limb - 1)]


\* The carries of a row.
LEMMA RowCarriesAre ==
  ASSUME NEW p \in Doubles, NEW i \in Index, NEW x \in 0..(Limb - 1), NEW b \in Word
  PROVE  /\ rowCarries(p, i, x, b)[0] = 0
         /\ \A j \in 1..Limbs : rowCarries(p, i, x, b)[j] = ((x * b[j - 1]) \div Limb + rowSum(p, i, x, b, j - 1, rowCarries(p, i, x, b)[j - 1]) \div Limb) % Limb
         /\ \A j \in 0..Limbs : rowCarries(p, i, x, b)[j] \in 0..(Limb - 1)
<1> DEFINE f == rowCarries(p, i, x, b)
           T == 0..(Limb - 1)
           E(j, cy) == ((x * b[j - 1]) \div Limb + rowSum(p, i, x, b, j - 1, cy) \div Limb) % Limb
           Loop(g) == [j \in 0..Limbs |-> IF j = 0 THEN 0 ELSE E(j, g[j - 1])]
           step == [j \in 1..Limbs |-> [cy \in T |-> E(j, cy)]]
<1>1. ASSUME NEW j \in 1..Limbs, NEW cy \in T PROVE E(j, cy) \in T
  <2>1. j - 1 \in Index /\ i + (j - 1) \in 0..(2 * Limbs - 1)
    BY LimbFacts DEF Index
  <2>2. b[j - 1] \in 0..(Limb - 1) /\ p[i + (j - 1)] \in 0..(Limb - 1)
    BY <2>1 DEF Word, Doubles
  <2>3. MulAt(x, b[j - 1], p[i + (j - 1)], cy, rowSum(p, i, x, b, j - 1, cy) % Limb, E(j, cy))
    BY <2>2 DEF MulAt, rowSum
  <2> HIDE DEF E
  <2> QED
    BY <2>3, MulLimb
<1>2. 0 \in T /\ Limbs \in Nat
  BY LimbFacts
<1>3. f = CHOOSE g : g = Loop(g)
  BY DEF rowCarries
<1> HIDE DEF E, T
<1>4. step \in [1..Limbs -> [T -> T]] /\ \A j \in 1..Limbs, cy \in T : step[j][cy] = E(j, cy)
  BY <1>1
<1> HIDE DEF step, f
<1>5. PICK g : IsLoop(g, T, Limbs, 0, step)
  BY <1>2, <1>4, Rounds, Zenon
<1>6. g = Loop(g)
  <2>1. ASSUME NEW j \in 0..Limbs PROVE g[j] = Loop(g)[j]
    <3>1. CASE j = 0
      BY <1>5, <3>1 DEF IsLoop
    <3>2. CASE j # 0
      <4>1. j \in 1..Limbs /\ j - 1 \in 0..Limbs
        BY <1>2, <3>2
      <4>2. g[j] = E(j, g[j - 1])
        BY <1>4, <1>5, <4>1 DEF IsLoop
      <4> QED
        BY <3>2, <4>2
    <3> QED
      BY <3>1, <3>2
  <2> QED
    BY <1>5, <2>1 DEF IsLoop
<1>7. f = Loop(f)
  <2> HIDE DEF Loop
  <2> QED
    BY <1>3, <1>6
<1>8. f[0] = 0 /\ \A j \in 1..Limbs : f[j] = E(j, f[j - 1])
  <2>1. ASSUME NEW j \in 0..Limbs PROVE f[j] = IF j = 0 THEN 0 ELSE E(j, f[j - 1])
    BY <1>7
  <2>2. 0 \in 0..Limbs /\ \A j \in 1..Limbs : j \in 0..Limbs /\ j # 0
    BY <1>2
  <2> QED
    BY <2>1, <2>2, Zenon
<1>9. \A j \in 0..Limbs : f[j] \in T
  <2>1. f[0] \in T
    BY <1>2, <1>8
  <2>2. ASSUME NEW j \in 1..Limbs, f[j - 1] \in T PROVE f[j] \in T
    BY <1>1, <1>8, <2>2
  <2> QED
    BY <1>2, <2>1, <2>2, RoundsIn
<1> QED
  BY <1>8, <1>9 DEF f, T, E


\* A row adds x times b, from limb i on, to a number of i + Limbs limbs.
LEMMA RowExact ==
  ASSUME NEW p \in Doubles, NEW i \in Index, NEW x \in 0..(Limb - 1), NEW b \in Word
  PROVE  /\ mulRow(p, i, x, b) \in Doubles
         /\ \A k \in (i + 1 + Limbs)..(2 * Limbs - 1) : mulRow(p, i, x, b)[k] = p[k]
         /\ Number(mulRow(p, i, x, b), i + Limbs + 1, LimbBits)
              = Number(p, i + Limbs, LimbBits) + (x * Value(b)) * 2^(LimbBits * i)
<1> DEFINE c == rowCarries(p, i, x, b)
           q == mulRow(p, i, x, b)
           u == Above(p, i, Limbs)
           s == Above(q, i, Limbs)
           z == [j \in Index |-> u[j] + x * b[j]]
           w == LimbBits
           W == 2^(w * i)
           M == 2^(w * Limbs)
<1>1. /\ i \in Nat /\ i < Limbs /\ w \in Nat /\ W \in Nat /\ M \in Nat /\ Limbs \in Nat /\ Limb \in Nat \ {0}
      /\ 2^(w * (i + Limbs)) = W * M
  <2>1. i \in Nat /\ i < Limbs /\ w \in Nat /\ Limbs \in Nat /\ Limb \in Nat \ {0}
    BY LimbFacts DEF Index
  <2>2. w * i \in Nat /\ w * Limbs \in Nat /\ w * (i + Limbs) = w * i + w * Limbs
    BY <2>1
  <2> QED
    BY <2>1, <2>2, PowerAdd, PowerNat
<1>2. c[0] = 0 /\ (\A j \in 1..Limbs :
                     c[j] = ((x * b[j - 1]) \div Limb + rowSum(p, i, x, b, j - 1, c[j - 1]) \div Limb) % Limb)
      /\ \A j \in 0..Limbs : c[j] \in 0..(Limb - 1)
  BY RowCarriesAre
<1>3. q = [k \in 0..(2 * Limbs - 1) |->
             IF k - i \in Index THEN rowSum(p, i, x, b, k - i, c[k - i]) % Limb
             ELSE IF k = i + Limbs THEN c[Limbs] ELSE p[k]]
  BY DEF mulRow
<1> HIDE DEF c, q
<1>4. ASSUME NEW j \in Index
      PROVE  /\ u[j] = p[i + j] /\ u[j] \in 0..(Limb - 1) /\ b[j] \in 0..(Limb - 1)
             /\ c[j] \in 0..(Limb - 1) /\ c[j + 1] \in 0..(Limb - 1)
             /\ s[j] = q[i + j] /\ s[j] \in 0..(Limb - 1)
             /\ s[j] + Limb * c[j + 1] = u[j] + x * b[j] + c[j]
  <2>1. i + j \in 0..(2 * Limbs - 1) /\ (i + j) - i = j /\ j + 1 \in 1..Limbs /\ (j + 1) - 1 = j /\ j \in 0..Limbs
        /\ j \in 0..(Limbs - 1)
    BY <1>1 DEF Index
  <2>2. u[j] = p[i + j] /\ s[j] = q[i + j]
    BY <2>1 DEF Above
  <2>3. s[j] = rowSum(p, i, x, b, j, c[j]) % Limb
    BY <1>3, <2>1, <2>2
  <2>4. c[j + 1] = ((x * b[j]) \div Limb + rowSum(p, i, x, b, j, c[j]) \div Limb) % Limb /\ c[j] \in 0..(Limb - 1)
    BY <1>2, <2>1
  <2>5. b[j] \in 0..(Limb - 1) /\ u[j] \in 0..(Limb - 1)
    BY <2>1, <2>2 DEF Word, Doubles
  <2>6. MulAt(x, b[j], u[j], c[j], s[j], c[j + 1])
    BY <2>2, <2>3, <2>4, <2>5 DEF MulAt, rowSum
  <2> QED
    BY <2>2, <2>4, <2>5, <2>6, MulLimb
<1>5. q \in Doubles
  <2>1. ASSUME NEW k \in 0..(2 * Limbs - 1) PROVE q[k] \in 0..(Limb - 1)
    <3>1. CASE k - i \in Index
      <4>1. s[k - i] \in 0..(Limb - 1) /\ s[k - i] = q[i + (k - i)] /\ i + (k - i) = k
        BY <1>1, <1>4, <3>1
      <4> QED
        BY <4>1
    <3>2. CASE k = i + Limbs
      <4>1. q[k] = c[Limbs] /\ Limbs \in 0..Limbs
        BY <1>1, <1>3, <3>2 DEF Index
      <4> QED
        BY <1>2, <4>1
    <3>3. CASE k - i \notin Index /\ k # i + Limbs
      BY <1>3, <3>3 DEF Doubles
    <3> QED
      BY <3>1, <3>2, <3>3
  <2> QED
    BY <1>3, <2>1 DEF Doubles
<1>6. \A k \in 0..(i - 1) : q[k] = p[k]
  BY <1>1, <1>3 DEF Index
<1>7. \A k \in (i + 1 + Limbs)..(2 * Limbs - 1) : q[k] = p[k]
  BY <1>1, <1>3 DEF Index
<1>8. q[i + Limbs] = c[Limbs] /\ c[Limbs] \in Int
  BY <1>1, <1>2, <1>3 DEF Index
<1> HIDE DEF u, s, W, M, w
<1>9. HasInts(p, i + Limbs) /\ HasInts(q, i + Limbs + 1) /\ HasInts(q, i + Limbs)
  BY <1>1, <1>5 DEF HasInts, Doubles
<1>10. Number(p, i + Limbs, w) = Number(p, i, w) + W * Number(u, Limbs, w) /\ Number(p, i, w) \in Int
      /\ Number(u, Limbs, w) \in Int /\ HasInts(u, Limbs)
  <2>1. HasInts(p, i)
    BY <1>1, <1>9, Fewer
  <2>2. HasInts(u, Limbs)
    BY <1>4 DEF HasInts, Index
  <2> QED
    BY <1>1, <1>9, <2>1, <2>2, NumberSplit, NumberTyped DEF u, W
<1>11. Number(q, i + Limbs, w) = Number(p, i, w) + W * Number(s, Limbs, w) /\ Number(s, Limbs, w) \in Int
       /\ HasInts(s, Limbs)
  <2>1. HasInts(p, i)
    BY <1>1, <1>9, Fewer
  <2>2. Number(q, i, w) = Number(p, i, w)
    BY <1>1, <1>6, <2>1, NumberSame
  <2>3. HasInts(s, Limbs)
    BY <1>4 DEF HasInts, Index
  <2> QED
    BY <1>1, <1>9, <2>2, <2>3, NumberSplit, NumberTyped DEF s, W
<1>12. Number(q, i + Limbs + 1, w) = Number(q, i + Limbs, w) + c[Limbs] * (W * M)
  <2>1. i + Limbs \in Nat
    BY <1>1
  <2> QED
    BY <1>1, <1>8, <1>9, <2>1, NumberIs
<1>13. HasInts(z, Limbs) /\ Number(z, Limbs, w) = Number(u, Limbs, w) + x * Value(b)
  <2>1. Combined(z, u, x, b, Limbs)
    BY <1>10, WordDigits DEF Combined, Index
  <2> HIDE DEF z
  <2> QED
    BY <1>1, <2>1, NumberLinear DEF Value, w
<1>14. Carries(s, z, c, Limbs)
  <2>1. HasInts(c, Limbs + 1)
    BY <1>1, <1>2 DEF HasInts
  <2>2. \A j \in 0..(Limbs - 1) : s[j] + Limb * c[j + 1] = z[j] + c[j]
    BY <1>4 DEF Index
  <2> QED
    BY <1>11, <1>13, <2>1, <2>2 DEF Carries
<1>15. Number(s, Limbs, w) + c[Limbs] * M = Number(z, Limbs, w) + c[0]
  BY <1>1, <1>14, Carried DEF w, M
<1>16. PICK S \in Int, C \in Int, U \in Int, X \in Int, P \in Int :
         S = Number(s, Limbs, w) /\ C = c[Limbs] /\ U = Number(u, Limbs, w) /\ X = x * Value(b) /\ P = Number(p, i, w)
  <2>1. x * Value(b) \in Int
    <3>1. Value(b) \in Int /\ x \in Int
      BY WordDigits, LimbFacts
    <3> QED
      BY <3>1
  <2> QED
    BY <1>8, <1>10, <1>11, <2>1
<1>17. S + C * M = U + X
  BY <1>1, <1>2, <1>13, <1>15, <1>16
<1>18. W * S + C * (W * M) = W * U + X * W
  <2>1. W * (S + C * M) = W * (U + X)
    BY <1>17
  <2>2. W * (S + C * M) = W * S + C * (W * M) /\ W * (U + X) = W * U + X * W
    BY <1>1
  <2> QED
    BY <2>1, <2>2
<1>19. Number(q, i + Limbs + 1, w) = Number(p, i + Limbs, w) + X * W
  <2>1. PICK A \in Int, B \in Int, D \in Int, E \in Int : A = W * S /\ B = C * (W * M) /\ D = W * U /\ E = X * W
    BY <1>1
  <2>2. A + B = D + E
    BY <1>18, <2>1
  <2>3. Number(q, i + Limbs + 1, w) = (P + A) + B
    BY <1>11, <1>12, <1>16, <2>1
  <2>4. Number(p, i + Limbs, w) = P + D
    BY <1>10, <1>16, <2>1
  <2>5. (P + A) + B = (P + D) + E
    BY <2>2
  <2> QED
    BY <2>1, <2>3, <2>4, <2>5
<1> QED
  BY <1>5, <1>7, <1>16, <1>19 DEF q, w, W

\* The rows of a product.
LEMMA RowsAre ==
  ASSUME NEW a \in Word, NEW b \in Word
  PROVE  /\ mulRows(a, b)[0] = Zeros
         /\ \A i \in 1..Limbs : mulRows(a, b)[i] = mulRow(mulRows(a, b)[i - 1], i - 1, a[i - 1], b)
         /\ \A i \in 0..Limbs : mulRows(a, b)[i] \in Doubles
<1> DEFINE f == mulRows(a, b)
           T == Doubles
           E(i, pp) == mulRow(pp, i - 1, a[i - 1], b)
           Loop(g) == [i \in 0..Limbs |-> IF i = 0 THEN Zeros ELSE E(i, g[i - 1])]
           step == [i \in 1..Limbs |-> [pp \in T |-> E(i, pp)]]
<1>1. ASSUME NEW i \in 1..Limbs, NEW pp \in T PROVE E(i, pp) \in T
  <2>1. i - 1 \in Index
    BY LimbFacts DEF Index
  <2>2. a[i - 1] \in 0..(Limb - 1)
    BY <2>1 DEF Word
  <2> QED
    BY <2>1, <2>2, RowExact
<1>2. Zeros \in T /\ Limbs \in Nat
  BY LimbFacts DEF Zeros, Doubles
<1>3. f = CHOOSE g : g = Loop(g)
  BY DEF mulRows
<1> HIDE DEF E, T
<1>4. step \in [1..Limbs -> [T -> T]] /\ \A i \in 1..Limbs, pp \in T : step[i][pp] = E(i, pp)
  BY <1>1
<1> HIDE DEF step, f
<1>5. PICK g : IsLoop(g, T, Limbs, Zeros, step)
  BY <1>2, <1>4, Rounds, Zenon
<1>6. g = Loop(g)
  <2>1. ASSUME NEW i \in 0..Limbs PROVE g[i] = Loop(g)[i]
    <3>1. CASE i = 0
      BY <1>5, <3>1 DEF IsLoop
    <3>2. CASE i # 0
      <4>1. i \in 1..Limbs /\ i - 1 \in 0..Limbs
        BY <1>2, <3>2
      <4>2. g[i] = E(i, g[i - 1])
        BY <1>4, <1>5, <4>1 DEF IsLoop
      <4> QED
        BY <3>2, <4>2
    <3> QED
      BY <3>1, <3>2
  <2> QED
    BY <1>5, <2>1 DEF IsLoop
<1>7. f = Loop(f)
  <2> HIDE DEF Loop
  <2> QED
    BY <1>3, <1>6
<1>8. f[0] = Zeros /\ \A i \in 1..Limbs : f[i] = E(i, f[i - 1])
  <2>1. ASSUME NEW i \in 0..Limbs PROVE f[i] = IF i = 0 THEN Zeros ELSE E(i, f[i - 1])
    BY <1>7
  <2>2. 0 \in 0..Limbs /\ \A i \in 1..Limbs : i \in 0..Limbs /\ i # 0
    BY <1>2
  <2> QED
    BY <2>1, <2>2, Zenon
<1>9. \A i \in 0..Limbs : f[i] \in T
  <2>1. f[0] \in T
    BY <1>2, <1>8
  <2>2. ASSUME NEW i \in 1..Limbs, f[i - 1] \in T PROVE f[i] \in T
    BY <1>1, <1>8, <2>2
  <2> QED
    BY <1>2, <2>1, <2>2, RoundsIn
<1> QED
  BY <1>8, <1>9 DEF f, T, E


\* A product of twice as many limbs is exact.
LEMMA Mul512Exact ==
  ASSUME NEW a \in Word, NEW b \in Word
  PROVE  /\ mul512(a, b) \in Doubles
         /\ Number(mul512(a, b), 2 * Limbs, LimbBits) = Value(a) * Value(b)
<1> DEFINE r == mulRows(a, b)
           w == LimbBits
           V == Value(b)
           I == {i \in 0..Limbs : /\ Number(r[i], i + Limbs, w) = Number(a, i, w) * V
                                  /\ \A k \in (i + Limbs)..(2 * Limbs - 1) : r[i][k] = 0}
<1>1. Limbs \in Nat /\ w \in Nat /\ V \in Int /\ HasInts(a, Limbs)
  BY LimbFacts, WordDigits
<1>2. r[0] = Zeros /\ (\A i \in 1..Limbs : r[i] = mulRow(r[i - 1], i - 1, a[i - 1], b))
      /\ \A i \in 0..Limbs : r[i] \in Doubles
  BY RowsAre
<1> HIDE DEF r, V
<1>3. 0 \in I
  <2>1. \A k \in 0..(2 * Limbs - 1) : Zeros[k] = 0
    BY DEF Zeros
  <2>2. \A k \in (0 + Limbs)..(2 * Limbs - 1) : r[0][k] = 0
    BY <1>1, <1>2, <2>1
  <2>3. Number(a, 0, w) = 0
    BY <1>1, NumberZero
  <2>4. Number(Zeros, Limbs, w) = 0
    <3>1. \A k \in 0..(Limbs - 1) : Zeros[k] = 0
      BY <1>1, <2>1
    <3> QED
      BY <1>1, <3>1, NumberZeros
  <2>5. 0 * V = 0 /\ 0 + Limbs = Limbs
    BY <1>1
  <2> QED
    BY <1>1, <1>2, <2>2, <2>3, <2>4, <2>5
<1>4. ASSUME NEW i \in 0..(Limbs - 1), i \in I PROVE i + 1 \in I
  <2> DEFINE q == r[i + 1]
             p == r[i]
             W == 2^(w * i)
  <2>1. i \in Index /\ i + 1 \in 1..Limbs /\ (i + 1) - 1 = i /\ i \in 0..Limbs /\ i \in Nat
    BY <1>1 DEF Index
  <2>2. q = mulRow(p, i, a[i], b) /\ p \in Doubles /\ q \in Doubles
    BY <1>2, <2>1
  <2>3. a[i] \in 0..(Limb - 1)
    BY <2>1 DEF Word
  <2>4. /\ \A k \in (i + 1 + Limbs)..(2 * Limbs - 1) : q[k] = p[k]
        /\ Number(q, i + Limbs + 1, w) = Number(p, i + Limbs, w) + (a[i] * V) * W
    BY <2>1, <2>2, <2>3, RowExact DEF V
  <2>5. Number(a, i + 1, w) = Number(a, i, w) + a[i] * W /\ Number(a, i, w) \in Int
    <3>1. HasInts(a, i + 1)
      BY <1>1, <2>1, Fewer
    <3> QED
      BY <1>1, <2>1, <3>1, NumberIs
  <2>6. W \in Nat
    BY <1>1, <2>1, Weight
  <2>7. Number(p, i + Limbs, w) = Number(a, i, w) * V /\ \A k \in (i + Limbs)..(2 * Limbs - 1) : p[k] = 0
    BY <1>4
  <2> HIDE DEF W, q, p, w
  <2>8. PICK x \in Int, A \in Int : x = a[i] /\ A = Number(a, i, w)
    BY <2>3, <2>5, LimbFacts
  <2>9. A * V + (x * V) * W = (A + x * W) * V
    BY <1>1, <2>6
  <2>10. Number(q, i + Limbs + 1, w) = Number(a, i + 1, w) * V
    BY <2>4, <2>5, <2>7, <2>8, <2>9
  <2>11. \A k \in (i + 1 + Limbs)..(2 * Limbs - 1) : q[k] = 0
    BY <1>1, <2>1, <2>4, <2>7
  <2>12. i + Limbs + 1 = (i + 1) + Limbs /\ i + 1 \in 0..Limbs
    BY <1>1
  <2> QED
    BY <2>10, <2>11, <2>12 DEF q, w
<1> HIDE DEF I
<1>5. Limbs \in I
  BY <1>1, <1>3, <1>4, Climb
<1>6. Number(r[Limbs], Limbs + Limbs, w) = Number(a, Limbs, w) * V /\ r[Limbs] \in Doubles
  BY <1>1, <1>2, <1>5 DEF I
<1>7. Limbs + Limbs = 2 * Limbs
  BY <1>1
<1> QED
  BY <1>6, <1>7 DEF r, V, w, mul512, Value

\* The low limbs of a number.
LEMMA LowValue ==
  ASSUME NEW p \in Doubles
  PROVE  /\ Low(p) \in Word
         /\ Number(p, 2 * Limbs, LimbBits) \in Nat
         /\ Value(Low(p)) = Number(p, 2 * Limbs, LimbBits) % Modulus
<1> DEFINE w == LimbBits
           h == Number(Above(p, Limbs, Limbs), Limbs, w)
           l == Number(p, Limbs, w)
           N == Number(p, 2 * Limbs, w)
<1>1. Limbs \in Nat /\ w \in Nat /\ Modulus = 2^(w * Limbs) /\ Modulus \in Nat \ {0} /\ Limbs + Limbs = 2 * Limbs
  BY LimbFacts
<1>2. \A k \in 0..(2 * Limbs - 1) : p[k] \in 0..(Limb - 1)
  BY DEF Doubles
<1>3. HasDigits(p, 2 * Limbs, w) /\ HasDigits(p, Limbs, w)
  BY <1>1, <1>2, LimbFacts DEF HasDigits
<1>4. Low(p) \in Word
  BY <1>1, <1>2 DEF Low, Word, Index
<1>5. Value(Low(p)) = l
  <2>1. HasInts(p, Limbs)
    BY <1>1, <1>3, DigitsInts
  <2>2. \A k \in 0..(Limbs - 1) : Low(p)[k] = p[k]
    BY DEF Low, Index
  <2> QED
    BY <1>1, <2>1, <2>2, NumberSame DEF Value
<1>6. HasInts(p, 2 * Limbs) /\ N \in Nat /\ l \in 0..(Modulus - 1)
  <2>1. HasInts(p, 2 * Limbs) /\ N \in 0..(2^(w * (2 * Limbs)) - 1)
    <3>1. 2 * Limbs \in Nat
      BY <1>1
    <3> QED
      BY <1>1, <1>3, <3>1, DigitsInts, NumberBounds
  <2> QED
    BY <1>1, <1>3, <2>1, NumberBounds
<1>7. N = l + Modulus * h /\ h \in Int
  <2>1. HasInts(p, Limbs + Limbs)
    BY <1>1, <1>6
  <2> QED
    BY <1>1, <2>1, NumberSplit
<1> HIDE DEF N, l, h
<1>8. Division(N, Modulus, h, l)
  BY <1>1, <1>6, <1>7 DEF Division
<1>9. N % Modulus = l
  BY <1>8, Divides
<1> QED
  BY <1>4, <1>5, <1>6, <1>9 DEF N

\* MUL.
LEMMA MulExact ==
  ASSUME NEW a \in Word, NEW b \in Word
  PROVE  Mul256(a, b) \in Word /\ Value(Mul256(a, b)) = (Value(a) * Value(b)) % Modulus
BY Mul512Exact, LowValue DEF Mul256

-----------------------------------------------------------------------------
\* Digits in groups.  y has the n digits of w * m bits that the digits x of w bits
\* make, m at a time.
Grouped(x, y, n, m, w) ==
  HasInts(x, n * m) /\ \A i \in 0..(n - 1) : y[i] = Number(Above(x, i * m, m), m, w)

\* Position k is j in group i.
LEMMA GroupOf ==
  ASSUME NEW n \in Nat, NEW m \in Nat \ {0}
  PROVE  /\ n * m \in Nat
         /\ \A i \in 0..(n - 1), j \in 0..(m - 1) :
              /\ i * m + j \in 0..(n * m - 1) /\ i * m \in Nat
              /\ (i * m + j) \div m = i /\ (i * m + j) % m = j
         /\ \A k \in 0..(n * m - 1) :
              /\ k \div m \in 0..(n - 1) /\ k % m \in 0..(m - 1)
              /\ k = (k \div m) * m + (k % m)
<1>1. n * m \in Nat
  OBVIOUS
<1>2. ASSUME NEW i \in 0..(n - 1), NEW j \in 0..(m - 1)
      PROVE  i * m + j \in 0..(n * m - 1) /\ i * m \in Nat /\ (i * m + j) \div m = i /\ (i * m + j) % m = j
  <2>1. PICK k \in Int : k = i * m + j
    OBVIOUS
  <2>2. Division(k, m, i, j)
    BY <2>1 DEF Division
  <2>3. (i + 1) * m <= n * m
    <3>1. PICK h \in Nat : n = i + 1 + h
      <4>1. n - i - 1 \in Nat /\ n = i + 1 + (n - i - 1)
        OBVIOUS
      <4> QED
        BY <4>1
    <3>2. n * m = (i + 1) * m + h * m /\ h * m \in Nat
      BY <3>1
    <3> QED
      BY <3>2
  <2>4. (i + 1) * m = i * m + m /\ i * m \in Nat
    OBVIOUS
  <2>5. k \div m = i /\ k % m = j
    BY <2>2, Divides
  <2> QED
    BY <2>1, <2>3, <2>4, <2>5
<1>3. ASSUME NEW k \in 0..(n * m - 1)
      PROVE  k \div m \in 0..(n - 1) /\ k % m \in 0..(m - 1) /\ k = (k \div m) * m + (k % m)
  <2>1. n \in Nat \ {0}
    OBVIOUS
  <2>2. k \in 0..(m * n - 1)
    OBVIOUS
  <2>3. k \div m \in 0..(n - 1)
    BY <2>1, <2>2, DivBound
  <2>4. k % m \in 0..(m - 1) /\ k = m * (k \div m) + (k % m)
    BY DivMod
  <2> QED
    BY <2>3, <2>4
<1> QED
  BY <1>1, <1>2, <1>3

\* Digits taken m at a time are digits of m times the width, and the same number.
LEMMA Regroup ==
  ASSUME NEW n \in Nat, NEW m \in Nat \ {0}, NEW w \in Nat, NEW x, NEW y, Grouped(x, y, n, m, w)
  PROVE  HasInts(y, n) /\ Number(y, n, w * m) = Number(x, n * m, w)
<1> DEFINE I == {k \in 0..n : Number(y, k, w * m) = Number(x, k * m, w)}
<1>1. n * m \in Nat /\ w * m \in Nat /\ HasInts(x, n * m)
  BY GroupOf DEF Grouped
<1>2. ASSUME NEW k \in 0..(n - 1)
      PROVE  /\ k * m \in Nat /\ (k + 1) * m = k * m + m
             /\ y[k] = Number(Above(x, k * m, m), m, w) /\ y[k] \in Int
             /\ Number(x, k * m + m, w) = Number(x, k * m, w) + 2^(w * (k * m)) * y[k]
  <2>1. k * m \in Nat /\ (k + 1) * m = k * m + m
    OBVIOUS
  <2>2. k * m + m <= n * m /\ k * m + m \in Nat
    <3>1. PICK j \in 0..(m - 1) : j = m - 1
      OBVIOUS
    <3>2. k * m + j \in 0..(n * m - 1)
      BY GroupOf
    <3> QED
      BY <1>1, <2>1, <3>1, <3>2
  <2>3. HasInts(x, k * m + m)
    BY <1>1, <2>2, Fewer
  <2>4. y[k] = Number(Above(x, k * m, m), m, w)
    BY DEF Grouped
  <2> QED
    BY <2>1, <2>3, <2>4, NumberSplit
<1>3. HasInts(y, n)
  BY <1>2 DEF HasInts
<1>4. 0 \in I
  <2>1. 0 * m = 0
    OBVIOUS
  <2>2. Number(y, 0, w * m) = 0 /\ Number(x, 0, w) = 0
    BY <1>1, NumberZero
  <2> QED
    BY <2>1, <2>2
<1>5. ASSUME NEW k \in 0..(n - 1), k \in I PROVE k + 1 \in I
  <2>1. k \in Nat
    OBVIOUS
  <2>2. HasInts(y, k + 1)
    BY <1>3, <2>1, Fewer
  <2>3. Number(y, k + 1, w * m) = Number(y, k, w * m) + y[k] * 2^((w * m) * k)
    BY <1>1, <2>1, <2>2, NumberIs
  <2>4. (w * m) * k = w * (k * m)
    OBVIOUS
  <2>5. PICK p \in Nat : p = 2^(w * (k * m))
    BY <1>2, PowerNat
  <2>6. y[k] * p = p * y[k]
    BY <1>2
  <2>7. Number(y, k + 1, w * m) = Number(x, k * m, w) + p * y[k]
    BY <1>5, <2>3, <2>4, <2>5, <2>6
  <2>8. Number(x, (k + 1) * m, w) = Number(x, k * m, w) + p * y[k]
    BY <1>2, <2>5
  <2> QED
    BY <2>7, <2>8
<1> HIDE DEF I
<1>6. n \in I
  BY <1>4, <1>5, Climb
<1> QED
  BY <1>3, <1>6 DEF I

\* n digits of v bits are N of w bits, m each.
Parted(n, m, w, v, N) == n \in Nat /\ m \in Nat \ {0} /\ w \in Nat /\ v = w * m /\ N = n * m

\* The digits of a digit are digits of the number.
LEMMA DigitOfDigit ==
  ASSUME NEW n, NEW m, NEW w, NEW v, NEW N, Parted(n, m, w, v, N), NEW a, HasDigits(a, n, v), NEW k \in 0..(N - 1)
  PROVE  Digit(Number(a, n, v), k, w) = Digit(a[k \div m], k % m, w)
<1> DEFINE x == [h \in 0..(n * m - 1) |-> Digit(a[h \div m], h % m, w)]
<1>a. n \in Nat /\ m \in Nat \ {0} /\ w \in Nat /\ v = w * m /\ N = n * m
  BY DEF Parted
<1> USE <1>a
<1>1. n * m \in Nat /\ v \in Nat
  BY GroupOf
<1>2. \A i \in 0..(n - 1) : a[i] \in 0..(2^v - 1)
  BY DEF HasDigits, Digits
<1>3. 2^v \in Nat \ {0}
  BY <1>1, PowerNat
<1>4. ASSUME NEW h \in 0..(n * m - 1) PROVE x[h] \in Digits(w)
  <2>1. h \div m \in 0..(n - 1) /\ h % m \in 0..(m - 1)
    BY GroupOf, Zenon
  <2>2. h \div m \in 0..(n - 1) /\ h % m \in Nat
    BY <2>1
  <2>3. a[h \div m] \in Int
    BY <1>2, <1>3, <2>2
  <2> QED
    BY <2>2, <2>3, DigitTyped
<1>5. HasDigits(x, n * m, w) /\ HasInts(x, n * m)
  <2> HIDE DEF x
  <2>1. HasDigits(x, n * m, w)
    BY <1>4 DEF HasDigits
  <2> QED
    BY <1>1, <2>1, DigitsInts
<1>6. ASSUME NEW i \in 0..(n - 1) PROVE a[i] = Number(Above(x, i * m, m), m, w)
  <2> DEFINE y == Above(x, i * m, m)
  <2>1. ASSUME NEW j \in 0..(m - 1) PROVE y[j] = Digit(a[i], j, w)
    <3>1. i * m + j \in 0..(n * m - 1) /\ (i * m + j) \div m = i /\ (i * m + j) % m = j
      BY GroupOf
    <3>2. y[j] = x[i * m + j]
      BY DEF Above
    <3> QED
      BY <3>1, <3>2
  <2>2. a[i] \in Int /\ a[i] >= 0 /\ a[i] < 2^v
    BY <1>2, <1>3
  <2> HIDE DEF y
  <2>3. Number(y, m, w) = a[i] % 2^(w * m)
    BY <2>1, <2>2, DigitsNumber
  <2>4. a[i] % 2^v = a[i]
    BY <1>3, <2>2, DivSmall
  <2> QED
    BY <2>3, <2>4 DEF y
<1>7. Grouped(x, a, n, m, w)
  BY <1>5, <1>6 DEF Grouped
<1> HIDE DEF x
<1>8. Number(a, n, w * m) = Number(x, n * m, w)
  BY <1>7, Regroup
<1>9. Digit(Number(x, n * m, w), k, w) = x[k]
  BY <1>1, <1>5, NumberDigit
<1> QED
  BY <1>8, <1>9 DEF x

-----------------------------------------------------------------------------
\* Bits.
\* The bits of a word are those of its limbs.
LEMMA BitOfWord ==
  ASSUME NEW a \in Word, NEW k \in 0..(WordBits - 1)
  PROVE  /\ k \div LimbBits \in Index /\ k % LimbBits \in 0..(LimbBits - 1)
         /\ Digit(Value(a), k, 1) = Bit(a, k)
<1>1. PICK one \in Nat : one = 1
  OBVIOUS
<1>2. LimbBits \in Nat \ {0} /\ Limbs \in Nat /\ one * LimbBits = LimbBits /\ WordBits = Limbs * LimbBits
  BY <1>1, LimbFacts DEF WordBits
<1>3. HasDigits(a, Limbs, LimbBits) /\ k \in 0..(WordBits - 1) /\ k \in 0..(Limbs * LimbBits - 1)
  BY <1>2, WordDigits
<1>a. Parted(Limbs, LimbBits, one, LimbBits, WordBits)
  BY <1>2 DEF Parted
<1>4. Digit(Number(a, Limbs, LimbBits), k, one) = Digit(a[k \div LimbBits], k % LimbBits, one)
  BY <1>a, <1>3, DigitOfDigit
<1>5. k \div LimbBits \in 0..(Limbs - 1) /\ k % LimbBits \in 0..(LimbBits - 1)
  BY <1>2, <1>3, GroupOf, Zenon
<1> QED
  BY <1>1, <1>2, <1>4, <1>5 DEF Bit, Value, Index

\* A set of bits is a number of so many bits.
LEMMA FromBitsBounds ==
  ASSUME NEW n \in Nat, NEW S
  PROVE  FromBits(S, n) \in 0..(2^n - 1)
<1> DEFINE x == [k \in 0..(n - 1) |-> IF k \in S THEN 1 ELSE 0]
<1>1. PICK one \in Nat : one = 1
  OBVIOUS
<1>2. 2^one = 2 /\ one * n = n
  <2>1. 2^1 = 2
    OBVIOUS
  <2> QED
    BY <1>1, <2>1
<1>3. HasDigits(x, n, one)
  BY <1>2 DEF HasDigits, Digits
<1> HIDE DEF x
<1>4. Number(x, n, one) \in 0..(2^(one * n) - 1)
  BY <1>3, NumberBounds
<1> QED
  BY <1>1, <1>2, <1>4 DEF FromBits, x

\* A word whose limbs have the bits of S.
LEMMA FromBitsWord ==
  ASSUME NEW S, NEW z, z = [i \in Index |-> z[i]], NEW T,
         \A i \in Index : z[i] = FromBits(T[i], LimbBits),
         \A i \in Index, j \in 0..(LimbBits - 1) : j \in T[i] <=> i * LimbBits + j \in S
  PROVE  z \in Word /\ Value(z) = FromBits(S, WordBits)
<1> DEFINE x == [k \in 0..(WordBits - 1) |-> IF k \in S THEN 1 ELSE 0]
<1>1. PICK one \in Nat : one = 1
  OBVIOUS
<1>2. LimbBits \in Nat \ {0} /\ Limbs \in Nat /\ one * LimbBits = LimbBits /\ WordBits = Limbs * LimbBits
      /\ Limb = 2^LimbBits
  BY <1>1, LimbFacts DEF WordBits
<1>3. z \in Word
  <2>1. \A i \in Index : z[i] \in 0..(Limb - 1)
    BY <1>2, FromBitsBounds
  <2> QED
    BY <2>1, IsWord
<1>4. ASSUME NEW i \in 0..(Limbs - 1) PROVE z[i] = Number(Above(x, i * LimbBits, LimbBits), LimbBits, one)
  <2> DEFINE u == [j \in 0..(LimbBits - 1) |-> IF j \in T[i] THEN 1 ELSE 0]
             y == Above(x, i * LimbBits, LimbBits)
  <2>1. i \in Index
    BY DEF Index
  <2>2. ASSUME NEW j \in 0..(LimbBits - 1) PROVE u[j] = y[j] /\ y[j] \in Int
    <3>1. i * LimbBits + j \in 0..(WordBits - 1)
      BY <1>2, GroupOf
    <3>2. y[j] = x[i * LimbBits + j]
      BY DEF Above
    <3>3. x[i * LimbBits + j] = IF i * LimbBits + j \in S THEN 1 ELSE 0
      BY <3>1
    <3>4. j \in T[i] <=> i * LimbBits + j \in S
      BY <2>1
    <3> QED
      BY <3>2, <3>3, <3>4
  <2>3. z[i] = Number(u, LimbBits, one)
    BY <1>1, <2>1 DEF FromBits
  <2> HIDE DEF u, y
  <2>4. HasInts(y, LimbBits)
    BY <2>2 DEF HasInts
  <2>5. Number(u, LimbBits, one) = Number(y, LimbBits, one)
    BY <1>2, <2>2, <2>4, NumberSame
  <2> QED
    BY <2>3, <2>5 DEF y
<1>5. HasInts(x, WordBits)
  BY DEF HasInts
<1> HIDE DEF x
<1>6. Grouped(x, z, Limbs, LimbBits, one)
  BY <1>2, <1>4, <1>5 DEF Grouped
<1>7. Number(z, Limbs, one * LimbBits) = Number(x, Limbs * LimbBits, one)
  BY <1>2, <1>6, Regroup
<1> QED
  BY <1>1, <1>2, <1>3, <1>7 DEF Value, FromBits, x

\* The bits of a word, limb by limb.
LEMMA BitsOfLimb ==
  ASSUME NEW a \in Word, NEW i \in Index, NEW j \in 0..(LimbBits - 1)
  PROVE  j \in Bits(a[i], LimbBits) <=> i * LimbBits + j \in Bits(Value(a), WordBits)
<1>1. LimbBits \in Nat \ {0} /\ Limbs \in Nat /\ WordBits = Limbs * LimbBits /\ i \in 0..(Limbs - 1)
  BY LimbFacts DEF WordBits, Index
<1>2. i * LimbBits + j \in 0..(WordBits - 1) /\ (i * LimbBits + j) \div LimbBits = i
      /\ (i * LimbBits + j) % LimbBits = j
  BY <1>1, GroupOf
<1>3. Digit(Value(a), i * LimbBits + j, 1) = Digit(a[i], j, 1)
  BY <1>2, BitOfWord DEF Bit
<1> QED
  BY <1>2, <1>3 DEF Bits

\* AND, OR, XOR.
LEMMA BitwiseExact ==
  ASSUME NEW a \in Word, NEW b \in Word
  PROVE  /\ And256(a, b) \in Word
         /\ Value(And256(a, b)) = FromBits(Bits(Value(a), WordBits) \cap Bits(Value(b), WordBits), WordBits)
         /\ Or256(a, b) \in Word
         /\ Value(Or256(a, b)) = FromBits(Bits(Value(a), WordBits) \cup Bits(Value(b), WordBits), WordBits)
         /\ Xor256(a, b) \in Word
         /\ Value(Xor256(a, b)) = FromBits(Xor(Bits(Value(a), WordBits), Bits(Value(b), WordBits)), WordBits)
<1> DEFINE A(i) == Bits(a[i], LimbBits)
           B(i) == Bits(b[i], LimbBits)
           SA == Bits(Value(a), WordBits)
           SB == Bits(Value(b), WordBits)
<1>1. \A i \in Index, j \in 0..(LimbBits - 1) :
        (j \in A(i) <=> i * LimbBits + j \in SA) /\ (j \in B(i) <=> i * LimbBits + j \in SB)
  BY BitsOfLimb
<1> HIDE DEF A, B, SA, SB
<1>2. And256(a, b) \in Word /\ Value(And256(a, b)) = FromBits(SA \cap SB, WordBits)
  <2> DEFINE z == And256(a, b)
             S == SA \cap SB
             T == [i \in Index |-> A(i) \cap B(i)]
  <2>1. z = [i \in Index |-> FromBits(A(i) \cap B(i), LimbBits)]
    BY DEF And256, A, B
  <2>2. \A i \in Index, j \in 0..(LimbBits - 1) : j \in T[i] <=> i * LimbBits + j \in S
    BY <1>1
  <2>3. z = [i \in Index |-> z[i]] /\ \A i \in Index : z[i] = FromBits(T[i], LimbBits)
    BY <2>1
  <2> HIDE DEF z, S, T
  <2>4. z \in Word /\ Value(z) = FromBits(S, WordBits)
    BY <2>2, <2>3, FromBitsWord
  <2> QED
    BY <2>4 DEF z, S
<1>3. Or256(a, b) \in Word /\ Value(Or256(a, b)) = FromBits(SA \cup SB, WordBits)
  <2> DEFINE z == Or256(a, b)
             S == SA \cup SB
             T == [i \in Index |-> A(i) \cup B(i)]
  <2>1. z = [i \in Index |-> FromBits(A(i) \cup B(i), LimbBits)]
    BY DEF Or256, A, B
  <2>2. \A i \in Index, j \in 0..(LimbBits - 1) : j \in T[i] <=> i * LimbBits + j \in S
    BY <1>1
  <2>3. z = [i \in Index |-> z[i]] /\ \A i \in Index : z[i] = FromBits(T[i], LimbBits)
    BY <2>1
  <2> HIDE DEF z, S, T
  <2>4. z \in Word /\ Value(z) = FromBits(S, WordBits)
    BY <2>2, <2>3, FromBitsWord
  <2> QED
    BY <2>4 DEF z, S
<1>4. Xor256(a, b) \in Word /\ Value(Xor256(a, b)) = FromBits(Xor(SA, SB), WordBits)
  <2> DEFINE z == Xor256(a, b)
             S == Xor(SA, SB)
             T == [i \in Index |-> Xor(A(i), B(i))]
  <2>1. z = [i \in Index |-> FromBits(Xor(A(i), B(i)), LimbBits)]
    BY DEF Xor256, A, B
  <2>2. \A i \in Index, j \in 0..(LimbBits - 1) : j \in T[i] <=> i * LimbBits + j \in S
    BY <1>1 DEF Xor
  <2>3. z = [i \in Index |-> z[i]] /\ \A i \in Index : z[i] = FromBits(T[i], LimbBits)
    BY <2>1
  <2> HIDE DEF z, S, T
  <2>4. z \in Word /\ Value(z) = FromBits(S, WordBits)
    BY <2>2, <2>3, FromBitsWord
  <2> QED
    BY <2>4 DEF z, S
<1> QED
  BY <1>2, <1>3, <1>4 DEF SA, SB

-----------------------------------------------------------------------------
\* Comparisons.
\* The highest digit in which two numbers differ decides.
LEMMA NumberLess ==
  ASSUME NEW n \in Nat, NEW w \in Nat, NEW x, NEW y, HasDigits(x, n, w), HasDigits(y, n, w),
         NEW i \in 0..(n - 1), x[i] < y[i], \A k \in (i + 1)..(n - 1) : x[k] = y[k]
  PROVE  Number(x, n, w) < Number(y, n, w)
<1>1. PICK h \in Nat : n = (i + 1) + h
  <2>1. n - i - 1 \in Nat /\ n = (i + 1) + (n - i - 1)
    OBVIOUS
  <2> QED
    BY <2>1
<1> DEFINE u == Above(x, i + 1, h)
           v == Above(y, i + 1, h)
           p == 2^(w * i)
           q == 2^(w * (i + 1))
<1>2. HasInts(x, n) /\ HasInts(y, n) /\ HasInts(x, i + 1) /\ HasInts(y, i + 1) /\ i \in Nat /\ i + 1 \in Nat
  <2>1. HasInts(x, n) /\ HasInts(y, n)
    BY DigitsInts
  <2> QED
    BY <2>1, Fewer
<1>3. HasDigits(x, i, w) /\ HasDigits(y, i, w)
  BY DEF HasDigits
<1>4. Number(x, i, w) \in 0..(p - 1) /\ Number(y, i, w) \in 0..(p - 1) /\ p \in Nat /\ q \in Nat
  BY <1>2, <1>3, NumberBounds, Weight
<1>5. Number(x, i + 1, w) = Number(x, i, w) + x[i] * p /\ Number(y, i + 1, w) = Number(y, i, w) + y[i] * p
  BY <1>2, NumberIs
<1>6. Number(x, n, w) = Number(x, i + 1, w) + q * Number(u, h, w) /\ Number(u, h, w) \in Int
  BY <1>1, <1>2, NumberSplit
<1>7. Number(y, n, w) = Number(y, i + 1, w) + q * Number(v, h, w)
  BY <1>1, <1>2, NumberSplit
<1>8. Number(v, h, w) = Number(u, h, w)
  <2>1. \A k \in 0..(h - 1) : v[k] = u[k]
    BY <1>1, <1>2 DEF Above
  <2>2. HasInts(u, h)
    BY <1>1, <1>2 DEF Above, HasInts
  <2> HIDE DEF u, v
  <2> QED
    BY <2>1, <2>2, NumberSame
<1> HIDE DEF u, v, p, q
<1>9. PICK X \in Int, Y \in Int, d \in Int, e \in Int :
        X = Number(x, i, w) /\ Y = Number(y, i, w) /\ d = x[i] /\ e = y[i]
  BY <1>2, <1>4 DEF HasInts
<1>10. X + d * p < Y + e * p
  <2>1. (d + 1) * p <= e * p
    <3>1. PICK f \in Nat : e = d + 1 + f
      <4>1. e - d - 1 \in Nat /\ e = d + 1 + (e - d - 1)
        BY <1>9
      <4> QED
        BY <4>1
    <3>2. e * p = (d + 1) * p + f * p /\ f * p \in Nat
      BY <1>4, <3>1
    <3> QED
      BY <1>4, <3>2
  <2>2. (d + 1) * p = d * p + p
    BY <1>4
  <2> QED
    BY <1>4, <1>9, <2>1, <2>2
<1>11. PICK A \in Int, B \in Int, C \in Int : A = X + d * p /\ B = Y + e * p /\ C = q * Number(u, h, w)
  BY <1>4, <1>6
<1>12. Number(x, n, w) = A + C /\ Number(y, n, w) = B + C /\ A < B
  BY <1>5, <1>6, <1>7, <1>8, <1>9, <1>10, <1>11
<1> QED
  BY <1>12

\* Two sequences of digits are the same, or there is a highest digit in which they differ.
Decided(x, y, n) ==
  \/ \A k \in 0..(n - 1) : x[k] = y[k]
  \/ \E i \in 0..(n - 1) : x[i] # y[i] /\ \A k \in (i + 1)..(n - 1) : x[k] = y[k]

\* Two numbers compare as their digits do at the highest place where they differ.
LEMMA HighestDifference ==
  ASSUME NEW n \in Nat, NEW x, NEW y
  PROVE  Decided(x, y, n)
<1> DEFINE I == {m \in 0..n : Decided(x, y, m)}
<1> USE DEF Decided
<1>1. 0 \in I
  OBVIOUS
<1>2. ASSUME NEW m \in 0..(n - 1), m \in I PROVE m + 1 \in I
  <2>1. CASE x[m] = y[m]
    <3>1. CASE \A k \in 0..(m - 1) : x[k] = y[k]
      <4>1. \A k \in 0..((m + 1) - 1) : x[k] = y[k]
        BY <2>1, <3>1
      <4> QED
        BY <4>1
    <3>2. CASE \E i \in 0..(m - 1) : x[i] # y[i] /\ \A k \in (i + 1)..(m - 1) : x[k] = y[k]
      <4>1. PICK i \in 0..(m - 1) : x[i] # y[i] /\ \A k \in (i + 1)..(m - 1) : x[k] = y[k]
        BY <3>2
      <4>2. \A k \in (i + 1)..((m + 1) - 1) : x[k] = y[k]
        BY <2>1, <4>1
      <4>3. i \in 0..((m + 1) - 1)
        OBVIOUS
      <4> QED
        BY <4>1, <4>2, <4>3
    <3> QED
      BY <1>2, <3>1, <3>2
  <2>2. CASE x[m] # y[m]
    <3>1. m \in 0..((m + 1) - 1) /\ \A k \in (m + 1)..((m + 1) - 1) : x[k] = y[k]
      OBVIOUS
    <3> QED
      BY <2>2, <3>1
  <2> QED
    BY <2>1, <2>2
<1> HIDE DEF I
<1>3. n \in I
  BY <1>1, <1>2, Climb
<1> QED
  BY <1>3 DEF I

\* LT, EQ and ISZERO.
LEMMA CompareExact ==
  ASSUME NEW a \in Word, NEW b \in Word
  PROVE  /\ Lt256(a, b) <=> Value(a) < Value(b)
         /\ Eq(a, b) <=> Value(a) = Value(b)
<1>1. Limbs \in Nat /\ LimbBits \in Nat /\ HasDigits(a, Limbs, LimbBits) /\ HasDigits(b, Limbs, LimbBits)
      /\ Value(a) \in Int /\ Value(b) \in Int /\ HasInts(a, Limbs) /\ HasInts(b, Limbs)
  BY LimbFacts, WordDigits
<1>2. Lt256(a, b) => Value(a) < Value(b)
  BY <1>1, NumberLess DEF Lt256, Index, Value
<1>3. Lt256(b, a) => Value(b) < Value(a)
  BY <1>1, NumberLess DEF Lt256, Index, Value
<1>4. Eq(a, b) => Value(a) = Value(b)
  BY <1>1, NumberSame DEF Eq, Index, Value
<1>5. Eq(a, b) \/ Lt256(a, b) \/ Lt256(b, a)
  <2>1. CASE \A k \in 0..(Limbs - 1) : a[k] = b[k]
    BY <2>1 DEF Eq, Index
  <2>2. CASE \E i \in 0..(Limbs - 1) : a[i] # b[i] /\ \A k \in (i + 1)..(Limbs - 1) : a[k] = b[k]
    <3>1. PICK i \in 0..(Limbs - 1) : a[i] # b[i] /\ \A k \in (i + 1)..(Limbs - 1) : a[k] = b[k]
      BY <2>2
    <3>2. a[i] \in Int /\ b[i] \in Int
      BY <1>1 DEF HasInts
    <3>3. a[i] < b[i] \/ b[i] < a[i]
      BY <3>1, <3>2
    <3> QED
      BY <3>1, <3>3 DEF Lt256, Index
  <2>3. \/ \A k \in 0..(Limbs - 1) : a[k] = b[k]
        \/ \E i \in 0..(Limbs - 1) : a[i] # b[i] /\ \A k \in (i + 1)..(Limbs - 1) : a[k] = b[k]
    <3>1. Limbs \in Nat
      BY <1>1
    <3> QED
      <4>1. Decided(a, b, Limbs)
        BY <3>1, HighestDifference
      <4> QED
        BY <4>1 DEF Decided
  <2> QED
    BY <2>1, <2>2, <2>3
<1> QED
  BY <1>1, <1>2, <1>3, <1>4, <1>5

\* IsZero is a value of zero.
LEMMA ZeroValue ==
  /\ Zero \in Word /\ Value(Zero) = 0
  /\ \A a \in Word : IsZero(a) <=> Value(a) = 0
<1>1. Zero \in Word
  BY LimbFacts DEF Zero, Word
<1>2. \A k \in 0..(Limbs - 1) : Zero[k] = 0
  BY DEF Zero, Index
<1>3. Value(Zero) = 0
  BY <1>2, LimbFacts, NumberZeros DEF Value
<1>4. ASSUME NEW a \in Word PROVE IsZero(a) <=> Value(a) = 0
  <2>1. IsZero(a) <=> Eq(a, Zero)
    BY <1>2 DEF IsZero, Eq, Index
  <2> QED
    BY <1>1, <1>3, <2>1, CompareExact
<1> QED
  BY <1>1, <1>3, <1>4

\* The highest bit is set in the upper half of the numbers.
LEMMA NegativeExact ==
  ASSUME NEW a \in Word
  PROVE  /\ isNeg(a) <=> Value(a) >= Modulus \div 2
         /\ Modulus = 2 * (Modulus \div 2) /\ Modulus \div 2 \in Nat \ {0}
<1> DEFINE n == Limbs - 1
           p == 2^(LimbBits * n)
           H == 2^(LimbBits - 1)
<1>1. n \in Nat /\ n + 1 = Limbs /\ LimbBits \in Nat /\ LimbBits - 1 \in Nat /\ (LimbBits - 1) + 1 = LimbBits
      /\ HasInts(a, n + 1) /\ Limb = 2^LimbBits
  BY LimbFacts, WordDigits
<1>2. Limb = 2 * H /\ H \in Nat \ {0} /\ p \in Nat \ {0} /\ Modulus = p * Limb
  <2>1. 2^(LimbBits * (n + 1)) = p * 2^LimbBits /\ p \in Nat \ {0}
    BY <1>1, Weight
  <2>2. Modulus = 2^(LimbBits * (n + 1))
    BY <1>1, LimbFacts
  <2> QED
    BY <1>1, <2>1, <2>2, PowerNext, PowerNat
<1>3. Value(a) = Number(a, n, LimbBits) + a[n] * p
  BY <1>1, NumberIs DEF Value
<1>4. Number(a, n, LimbBits) \in 0..(p - 1) /\ a[n] \in Int
  <2>1. HasDigits(a, n, LimbBits) /\ a[n] \in Int
    BY <1>1, WordDigits, Fewer DEF HasInts
  <2> QED
    BY <1>1, <2>1, NumberBounds
<1> HIDE DEF n, p, H
<1>5. PICK d \in Int, l \in Int : d = a[n] /\ l = Number(a, n, LimbBits)
  BY <1>4
<1>6. PICK K \in Nat \ {0} : K = p * H
  BY <1>2
<1>7. Modulus = 2 * K /\ Modulus \div 2 = K /\ Limb \div 2 = H
  <2>1. p * (2 * H) = 2 * K
    BY <1>2, <1>6
  <2>2. PICK two \in Nat \ {0}, z \in Int : two = 2 /\ z = 0
    OBVIOUS
  <2>3. Division(two * K, two, K, z) /\ Division(two * H, two, H, z)
    BY <1>2, <2>2 DEF Division
  <2>4. (two * K) \div two = K /\ (two * H) \div two = H
    BY <2>3, Divides
  <2> QED
    BY <1>2, <2>1, <2>2, <2>4
<1>8. d >= H <=> l + d * p >= K
  <2>1. CASE d >= H
    <3>1. d * p >= H * p
      BY <1>2, <2>1
    <3> QED
      BY <1>2, <1>4, <1>5, <1>6, <2>1, <3>1
  <2>2. CASE d < H
    <3>1. PICK e \in Nat : H = d + 1 + e
      <4>1. H - d - 1 \in Nat /\ H = d + 1 + (H - d - 1)
        BY <1>2, <2>2
      <4> QED
        BY <4>1
    <3>2. H * p = d * p + p + e * p /\ e * p \in Nat
      BY <1>2, <3>1
    <3>3. PICK D \in Int, E \in Nat : D = d * p /\ E = e * p
      BY <1>2, <3>2
    <3> QED
      BY <1>2, <1>4, <1>5, <1>6, <2>2, <3>2, <3>3
  <2> QED
    BY <1>2, <2>1, <2>2
<1>9. isNeg(a) <=> d >= H
  BY <1>5, <1>7 DEF isNeg, n
<1>10. Value(a) = l + d * p
  BY <1>3, <1>5
<1> QED
  BY <1>6, <1>7, <1>8, <1>9, <1>10

\* SLT and SGT: within a half of the numbers the order is the same.
LEMMA SignedLess ==
  ASSUME NEW a \in Word, NEW b \in Word
  PROVE  Slt256(a, b) <=> Signed(Value(a)) < Signed(Value(b))
<1>1. PICK A \in Int, B \in Int, M \in Int, H \in Int :
        /\ A = Value(a) /\ B = Value(b) /\ M = Modulus /\ H = Modulus \div 2
        /\ 0 <= A /\ A < M /\ 0 <= B /\ B < M
  BY WordDigits, LimbFacts, NegativeExact
<1>2. (isNeg(a) <=> A >= H) /\ (isNeg(b) <=> B >= H)
  BY <1>1, NegativeExact
<1>3. Lt256(a, b) <=> A < B
  BY <1>1, CompareExact
<1>4. Slt256(a, b) <=> (IF (A >= H) # (B >= H) THEN A >= H ELSE A < B)
  <2>1. isNeg(a) \in BOOLEAN /\ isNeg(b) \in BOOLEAN
    BY DEF isNeg
  <2>2. Lt256(a, b) \in BOOLEAN
    BY DEF Lt256
  <2>3. (isNeg(a) = (A >= H)) /\ (isNeg(b) = (B >= H)) /\ (Lt256(a, b) = (A < B))
    BY <1>2, <1>3, <2>1, <2>2
  <2> QED
    BY <2>3 DEF Slt256
<1>5. Signed(A) = (IF A >= H THEN A - M ELSE A) /\ Signed(B) = (IF B >= H THEN B - M ELSE B)
  BY <1>1 DEF Signed
<1>6. CASE A >= H
  BY <1>1, <1>4, <1>5, <1>6
<1>7. CASE A < H
  BY <1>1, <1>4, <1>5, <1>7
<1> QED
  BY <1>1, <1>6, <1>7

-----------------------------------------------------------------------------
\* Complements.
LEMMA NotExact ==
  ASSUME NEW a \in Word
  PROVE  Not256(a) \in Word /\ Value(Not256(a)) = Modulus - 1 - Value(a)
<1> DEFINE z == Not256(a)
           s == [i \in Index |-> Limb * (-1)]
           c == [i \in 0..Limbs |-> -1]
           y == [i \in Index |-> 0]
<1>1. \A i \in Index : a[i] \in 0..(Limb - 1) /\ z[i] = Limb - 1 - a[i]
  BY WordDigits DEF Not256
<1>2. z \in Word
  BY <1>1, LimbFacts DEF Not256, Word
<1>3. \A k \in 0..(Limbs - 1) : Limb \in Nat /\ a[k] \in Int /\ z[k] \in Int /\ z[k] = Limb - 1 - a[k]
  BY <1>1, LimbFacts DEF Index
<1> HIDE DEF z
<1>4. PICK m \in Int : m = -1
  OBVIOUS
<1>5. PICK x \in [0..(Limbs - 1) -> Int] : \A k \in 0..(Limbs - 1) : x[k] = m * a[k]
  <2>1. [k \in 0..(Limbs - 1) |-> m * a[k]] \in [0..(Limbs - 1) -> Int]
    BY <1>3
  <2> QED
    BY <2>1
<1>6. PICK d \in [0..Limbs -> Int] : \A k \in 0..Limbs : d[k] = m
  <2>1. [k \in 0..Limbs |-> m] \in [0..Limbs -> Int]
    OBVIOUS
  <2> QED
    BY <2>1
<1>7. Carries(z, x, d, Limbs)
  <2>1. HasInts(z, Limbs) /\ HasInts(x, Limbs) /\ HasInts(d, Limbs + 1)
    BY <1>3, <1>5, <1>6, LimbFacts DEF HasInts
  <2>2. ASSUME NEW k \in 0..(Limbs - 1) PROVE z[k] + Limb * d[k + 1] = x[k] + d[k]
    <3>1. d[k + 1] = -1 /\ d[k] = -1 /\ x[k] = -a[k]
      BY <1>3, <1>4, <1>5, <1>6, LimbFacts
    <3> QED
      BY <1>3, <3>1
  <2> QED
    BY <2>1, <2>2 DEF Carries
<1>8. Number(z, Limbs, LimbBits) + d[Limbs] * Modulus = Number(x, Limbs, LimbBits) + d[0]
  BY <1>7, LimbFacts, Carried
<1>9. Number(x, Limbs, LimbBits) = m * Value(a)
  <2> DEFINE o == [k \in 0..(Limbs - 1) |-> 0]
  <2>1. \A k \in 0..(Limbs - 1) : o[k] = 0 /\ x[k] = o[k] + m * a[k]
    BY <1>3, <1>5
  <2> HIDE DEF o
  <2>2. Combined(x, o, m, a, Limbs)
    BY <1>3, <2>1 DEF Combined, HasInts
  <2>3. Number(x, Limbs, LimbBits) = Number(o, Limbs, LimbBits) + m * Number(a, Limbs, LimbBits)
    BY <2>2, LimbFacts, NumberLinear
  <2>4. Number(o, Limbs, LimbBits) = 0
    BY <2>1, LimbFacts, NumberZeros
  <2>5. Value(a) \in Int
    BY WordDigits, LimbFacts
  <2> QED
    BY <2>3, <2>4, <2>5 DEF Value
<1>10. d[Limbs] = -1 /\ d[0] = -1
  BY <1>4, <1>6, LimbFacts
<1>11. Value(a) \in Int /\ Value(z) \in Int /\ Modulus \in Nat
  BY <1>2, WordDigits, LimbFacts
<1> QED
  BY <1>2, <1>4, <1>8, <1>9, <1>10, <1>11 DEF Value, z

\* One plus a number's complement.
LEMMA NegExact ==
  ASSUME NEW x \in Word
  PROVE  neg256(x) \in Word /\ Value(neg256(x)) = (-Value(x)) % Modulus
<1>1. PICK M \in Nat \ {0}, v \in Int : M = Modulus /\ v = Value(x) /\ 0 <= v /\ v < M
  BY WordDigits, LimbFacts
<1>2. Not256(x) \in Word /\ Value(Not256(x)) = M - 1 - v
  BY <1>1, NotExact
<1>3. PICK one \in Int : one = 1
  OBVIOUS
<1>4. FromU64(one) \in Word /\ Value(FromU64(one)) = one
  <2>1. M >= 2
    BY <1>1, NegativeExact
  <2>2. one % M = one
    BY <1>3, <2>1, DivSmall
  <2> QED
    BY <1>1, <2>2, FromU64Value
<1>5. neg256(x) = Add256(Not256(x), FromU64(one))
  BY <1>3 DEF neg256, Not256
<1>6. neg256(x) \in Word /\ Value(neg256(x)) = (M - 1 - v + one) % M
  BY <1>1, <1>2, <1>4, <1>5, AddExact
<1>7. M - 1 - v + one = M - v
  BY <1>3
<1>8. PICK u \in Int, n \in Int : u = M - v /\ n = -v
  OBVIOUS
<1>9. u % M = n % M
  <2>1. PICK q \in Int, r \in Int : q = n \div M /\ r = n % M /\ n = M * q + r /\ 0 <= r /\ r < M
    BY DivPick, Zenon
  <2>2. PICK p \in Int : p = q + 1
    OBVIOUS
  <2>3. Division(u, M, p, r)
    <3>1. M * p = M * q + M
      BY <2>2
    <3> QED
      BY <1>8, <2>1, <3>1 DEF Division
  <2> QED
    BY <2>1, <2>3, Divides
<1> QED
  BY <1>1, <1>6, <1>7, <1>8, <1>9

-----------------------------------------------------------------------------
\* Shifts.
\* Only zeros make zero.
LEMMA OnlyZeros ==
  ASSUME NEW n \in Nat, NEW w \in Nat, NEW x, HasDigits(x, n, w), Number(x, n, w) = 0
  PROVE  \A k \in 0..(n - 1) : x[k] = 0
<1> SUFFICES ASSUME NEW k \in 0..(n - 1) PROVE x[k] = 0
  OBVIOUS
<1>1. Digit(Number(x, n, w), k, w) = x[k]
  BY NumberDigit
<1>2. PICK z \in Int : z = 0
  OBVIOUS
<1>3. k \in Nat
  OBVIOUS
<1>4. 2^(w * k) \in Nat \ {0} /\ 2^w \in Nat \ {0}
  BY <1>3, Weight
<1>5. z \div 2^(w * k) = 0 /\ z % 2^w = z
  BY <1>2, <1>4, DivSmall
<1> QED
  BY <1>1, <1>2, <1>5 DEF Digit

\* A word whose limbs above the lowest are zeros is its lowest limb; any other one is
\* Limb at least.
LEMMA NarrowValue ==
  ASSUME NEW a \in Word
  PROVE  /\ a[0] \in 0..(Limb - 1)
         /\ (\A i \in Index \ {0} : a[i] = 0) => Value(a) = a[0]
         /\ ~(\A i \in Index \ {0} : a[i] = 0) => Value(a) >= Limb
<1>1. PICK o \in Nat, h \in Nat : o = 1 /\ Limbs = o + h /\ h = Limbs - 1
  <2>1. 1 \in Nat /\ Limbs - 1 \in Nat /\ Limbs = 1 + (Limbs - 1)
    BY LimbFacts
  <2> QED
    BY <2>1, Zenon
<1> DEFINE u == Above(a, o, h)
           N == Number(u, h, LimbBits)
<1>2. HasInts(a, o + h) /\ HasDigits(a, Limbs, LimbBits) /\ LimbBits \in Nat /\ Limbs \in Nat
  BY <1>1, WordDigits, LimbFacts
<1>3. Value(a) = Number(a, o, LimbBits) + 2^(LimbBits * o) * N
  BY <1>1, <1>2, NumberSplit DEF Value
<1>4. a[0] \in 0..(Limb - 1)
  BY LimbFacts, WordDigits DEF Index
<1>5. Number(a, o, LimbBits) = a[0] /\ 2^(LimbBits * o) = Limb
  <2>1. HasInts(a, 0 + 1)
    BY <1>1, <1>2 DEF HasInts
  <2>2. Number(a, 0 + 1, LimbBits) = Number(a, 0, LimbBits) + a[0] * 2^(LimbBits * 0)
    BY <1>2, <2>1, NumberIs
  <2>3. Number(a, 0, LimbBits) = 0 /\ 2^(LimbBits * 0) = 1
    BY <1>2, NumberZero, Weight
  <2>4. LimbBits * o = LimbBits
    BY <1>1, <1>2
  <2>5. Limb \in Int
    BY LimbFacts
  <2> QED
    BY <1>1, <1>4, <2>2, <2>3, <2>4, <2>5 DEF Limb
<1>6. HasDigits(u, h, LimbBits)
  <2>1. o \in Nat /\ o <= Limbs /\ Limbs - o = h
    BY <1>1, <1>2
  <2> QED
    BY <1>2, <2>1, Fewer
<1>7. \A k \in 0..(h - 1) : u[k] = a[k + 1] /\ k + 1 \in Index \ {0}
  BY <1>1 DEF Above, Index
<1>8. \A i \in Index \ {0} : i - 1 \in 0..(h - 1) /\ u[i - 1] = a[i]
  BY <1>1 DEF Above, Index
<1> HIDE DEF u
<1>9. N \in Nat
  <2>1. N \in 0..(2^(LimbBits * h) - 1)
    BY <1>1, <1>2, <1>6, NumberBounds
  <2> QED
    BY <2>1
<1>10. ASSUME \A i \in Index \ {0} : a[i] = 0 PROVE Value(a) = a[0]
  <2>1. \A k \in 0..(h - 1) : u[k] = 0
    BY <1>7, <1>10
  <2>2. N = 0
    BY <1>2, <2>1, NumberZeros
  <2>3. Limb \in Nat
    BY LimbFacts
  <2> QED
    BY <1>3, <1>4, <1>5, <2>2, <2>3
<1>11. ASSUME ~(\A i \in Index \ {0} : a[i] = 0) PROVE Value(a) >= Limb
  <2>1. N # 0
    BY <1>2, <1>6, <1>8, <1>11, OnlyZeros
  <2>2. PICK L \in Nat, d \in Nat, m \in Nat : L = Limb /\ d = a[0] /\ m = N /\ m >= 1
    BY <1>4, <1>9, <2>1, LimbFacts
  <2>3. L * m >= L
    BY <2>2
  <2> QED
    BY <1>3, <1>5, <2>2, <2>3
<1> QED
  BY <1>4, <1>10, <1>11

\* A limb shifted to the left by a power t of two: what stays, and what leaves.
LEMMA UpLimb ==
  ASSUME NEW t \in Nat \ {0}, NEW e \in Nat \ {0}, t * e = Limb, NEW x \in 0..(Limb - 1)
  PROVE  /\ (x * t) \div Limb = x \div e /\ x \div e \in 0..(t - 1)
         /\ (x * t) % Limb = t * (x % e) /\ t * (x % e) \in 0..(Limb - t)
<1>1. PICK L \in Nat \ {0} : L = Limb /\ L = t * e
  BY LimbFacts
<1>2. PICK q \in Int, r \in Int : q = x \div e /\ r = x % e /\ x = e * q + r /\ 0 <= r /\ r < e
  <2>1. x \in Int
    BY <1>1
  <2> QED
    BY <2>1, DivPick, Zenon
<1>3. PICK v \in Int, l \in Int : v = x * t /\ l = t * r
  <2>1. x \in Int /\ t \in Int /\ r \in Int
    BY <1>1, <1>2
  <2>2. x * t \in Int /\ t * r \in Int
    BY <2>1
  <2> QED
    BY <2>2, Zenon
<1>4. v = L * q + l
  <2>1. (e * q + r) * t = (t * e) * q + t * r
    OBVIOUS
  <2> QED
    BY <1>1, <1>2, <1>3, <2>1
<1>5. 0 <= l /\ l <= L - t
  <2>1. PICK f \in Nat : e = r + 1 + f
    <3>1. e - r - 1 \in Nat /\ e = r + 1 + (e - r - 1)
      BY <1>2
    <3> QED
      BY <3>1
  <2>2. t * e = t * r + t + t * f /\ t * f \in Nat
    BY <2>1
  <2>3. t * r >= 0
    BY <1>2
  <2> QED
    BY <1>1, <1>3, <2>2, <2>3
<1>6. Division(v, L, q, l)
  BY <1>4, <1>5 DEF Division
<1>7. v \div L = q /\ v % L = l
  BY <1>6, Divides
<1>8. q \in 0..(t - 1)
  <2>1. x \in 0..(e * t - 1)
    BY <1>1
  <2> QED
    BY <1>2, <2>1, DivBound
<1> QED
  BY <1>1, <1>2, <1>3, <1>5, <1>7, <1>8

\* Limb by limb: the limbs y are the limbs x, shifted to the left by t.
Ups(x, y, n, t) ==
  /\ HasDigits(x, n, LimbBits)
  /\ \A k \in 0..(n - 1) : y[k] = ((x[k] * t) % Limb) + (IF k = 0 THEN 0 ELSE (x[k - 1] * t) \div Limb)

\* And c leaves at the end.
Upped(x, y, n, t) ==
  \E c \in 0..(t - 1) :
    /\ c = IF n = 0 THEN 0 ELSE (x[n - 1] * t) \div Limb
    /\ Number(y, n, LimbBits) + c * 2^(LimbBits * n) = Number(x, n, LimbBits) * t

\* All limbs shifted to the left by less than a limb: the number is t times as large,
\* less what leaves the highest limb.
LEMMA ShiftUp ==
  ASSUME NEW n \in Nat, NEW t \in Nat \ {0}, NEW e \in Nat \ {0}, t * e = Limb, NEW x, NEW y, Ups(x, y, n, t)
  PROVE  HasDigits(y, n, LimbBits) /\ Upped(x, y, n, t)
<1> DEFINE w == LimbBits
           c == [k \in 0..n |-> IF k = 0 THEN 0 ELSE (x[k - 1] * t) \div Limb]
           z == [k \in 0..(n - 1) |-> x[k] * t]
<1>1. w \in Nat /\ Limb \in Nat \ {0} /\ Digits(w) = 0..(Limb - 1)
  BY LimbFacts
<1>2. HasDigits(x, n, w) /\ HasInts(x, n)
  BY <1>1, DigitsInts DEF Ups
<1>3. \A k \in 0..(n - 1) : x[k] \in 0..(Limb - 1)
  BY <1>1, <1>2 DEF HasDigits
<1>a. PICK hi, lo : \A v \in 0..(Limb - 1) :
        /\ hi[v] = (v * t) \div Limb /\ lo[v] = (v * t) % Limb
        /\ hi[v] \in 0..(t - 1) /\ lo[v] \in 0..(Limb - t) /\ v * t = Limb * hi[v] + lo[v]
  <2> DEFINE h == [v \in 0..(Limb - 1) |-> (v * t) \div Limb]
             l == [v \in 0..(Limb - 1) |-> (v * t) % Limb]
  <2>1. ASSUME NEW v \in 0..(Limb - 1)
        PROVE  /\ (v * t) \div Limb \in 0..(t - 1) /\ (v * t) % Limb \in 0..(Limb - t)
               /\ v * t = Limb * ((v * t) \div Limb) + ((v * t) % Limb)
    <3>1. (v * t) \div Limb = v \div e /\ v \div e \in 0..(t - 1)
          /\ (v * t) % Limb = t * (v % e) /\ t * (v % e) \in 0..(Limb - t)
      BY UpLimb, Zenon
    <3>2. PICK u \in Int : u = v * t
      BY <1>1
    <3>3. u = Limb * (u \div Limb) + (u % Limb)
      BY LimbDivMod, Zenon
    <3> QED
      BY <3>1, <3>2, <3>3, Zenon
  <2>2. \A v \in 0..(Limb - 1) :
        /\ h[v] = (v * t) \div Limb /\ l[v] = (v * t) % Limb
        /\ h[v] \in 0..(t - 1) /\ l[v] \in 0..(Limb - t) /\ v * t = Limb * h[v] + l[v]
    BY <2>1, Zenon
  <2> HIDE DEF h, l
  <2> QED
    BY <2>2
<1>4. ASSUME NEW k \in 0..n
      PROVE  c[k] \in 0..(t - 1) /\ (k # 0 => c[k] = hi[x[k - 1]]) /\ (k = 0 => c[k] = 0)
  <2>1. CASE k = 0
    BY <2>1
  <2>2. CASE k # 0
    <3>1. k - 1 \in 0..(n - 1) /\ c[k] = (x[k - 1] * t) \div Limb
      BY <2>2
    <3>2. x[k - 1] \in 0..(Limb - 1)
      BY <1>3, <3>1
    <3> HIDE DEF c
    <3> QED
      BY <1>a, <2>2, <3>1, <3>2, Zenon
  <2> QED
    BY <2>1, <2>2
<1>5. ASSUME NEW k \in 0..(n - 1)
      PROVE  /\ y[k] \in 0..(Limb - 1) /\ z[k] \in Int
             /\ y[k] + Limb * c[k + 1] = z[k] + c[k]
  <2>1. y[k] = ((x[k] * t) % Limb) + c[k]
    BY DEF Ups
  <2>2. k + 1 \in 0..n /\ k \in 0..n /\ k + 1 # 0 /\ (k + 1) - 1 = k
    OBVIOUS
  <2>3. z[k] = x[k] * t
    OBVIOUS
  <2> HIDE DEF c, z
  <2>4. c[k] \in 0..(t - 1) /\ c[k + 1] = hi[x[k]]
    BY <1>4, <2>2
  <2>5. (x[k] * t) % Limb = lo[x[k]] /\ hi[x[k]] \in 0..(t - 1) /\ lo[x[k]] \in 0..(Limb - t)
        /\ x[k] * t = Limb * hi[x[k]] + lo[x[k]]
    BY <1>3, <1>a, Zenon
  <2>6. PICK p \in Int, q \in Int, v \in Int : p = lo[x[k]] /\ q = hi[x[k]] /\ v = Limb * q + p
    BY <1>1, <2>5
  <2>7. y[k] = p + c[k] /\ z[k] = v /\ c[k + 1] = q /\ p \in 0..(Limb - t)
    BY <2>1, <2>3, <2>4, <2>5, <2>6
  <2>8. PICK d \in Int, L \in Int : d = c[k] /\ L = Limb /\ 0 <= d /\ d <= t - 1
    BY <1>1, <2>4
  <2>9. p + d \in 0..(L - 1) /\ (p + d) + L * q = v + d
    BY <2>6, <2>7, <2>8
  <2> QED
    BY <2>7, <2>8, <2>9
<1>6. HasDigits(y, n, w)
  BY <1>1, <1>5 DEF HasDigits
<1>7. c[n] = (IF n = 0 THEN 0 ELSE (x[n - 1] * t) \div Limb) /\ c[0] = 0
  OBVIOUS
<1>8. Carries(y, z, c, n)
  <2> HIDE DEF c, z
  <2> QED
    BY <1>1, <1>4, <1>5 DEF Carries, HasInts
<1>9. Number(z, n, w) = Number(x, n, w) * t
  <2> DEFINE o == [k \in 0..(n - 1) |-> 0]
  <2>1. \A k \in 0..(n - 1) : o[k] = 0 /\ z[k] = o[k] + t * x[k]
    BY <1>1, <1>3
  <2> HIDE DEF o, z
  <2>2. Combined(z, o, t, x, n)
    BY <1>2, <2>1 DEF Combined, HasInts
  <2>3. Number(z, n, w) = Number(o, n, w) + t * Number(x, n, w)
    BY <1>1, <2>2, NumberLinear
  <2>4. Number(o, n, w) = 0
    BY <1>1, <2>1, NumberZeros
  <2>5. Number(x, n, w) \in Int
    BY <1>1, <1>2, NumberTyped
  <2> QED
    BY <2>3, <2>4, <2>5
<1> HIDE DEF c, z
<1>10. Number(y, n, w) + c[n] * 2^(w * n) = Number(z, n, w) + c[0]
  BY <1>8, Carried
<1>11. PICK X \in Int : X = Number(z, n, w)
  BY <1>1, <1>8, NumberTyped DEF Carries
<1>12. Number(y, n, w) + c[n] * 2^(w * n) = Number(x, n, w) * t
  BY <1>7, <1>9, <1>10, <1>11
<1> QED
  BY <1>4, <1>6, <1>7, <1>12 DEF Upped

\* y has m digits of zero below the n digits of x.
Lifted(x, y, m, n) ==
  HasInts(x, n) /\ (\A k \in 0..(m - 1) : y[k] = 0) /\ \A k \in 0..(n - 1) : y[m + k] = x[k]

\* Digits moved up by m places: the number is multiplied by the base m times.
LEMMA DigitsUp ==
  ASSUME NEW m \in Nat, NEW n \in Nat, NEW w \in Nat, NEW x, NEW y, Lifted(x, y, m, n)
  PROVE  HasInts(y, m + n) /\ Number(y, m + n, w) = 2^(w * m) * Number(x, n, w)
<1> USE DEF Lifted
<1> DEFINE u == Above(y, m, n)
<1>1. ASSUME NEW k \in 0..(m + n - 1) PROVE y[k] \in Int
  <2>1. CASE k < m
    BY <2>1
  <2>2. CASE k >= m
    <3>1. k - m \in 0..(n - 1) /\ m + (k - m) = k
      BY <2>2
    <3>2. y[m + (k - m)] = x[k - m] /\ x[k - m] \in Int
      BY <3>1 DEF HasInts
    <3> QED
      BY <3>1, <3>2
  <2> QED
    BY <2>1, <2>2
<1>2. HasInts(y, m + n)
  BY <1>1 DEF HasInts
<1>3. Number(y, m + n, w) = Number(y, m, w) + 2^(w * m) * Number(u, n, w)
  BY <1>2, NumberSplit
<1>4. Number(y, m, w) = 0
  BY NumberZeros
<1>5. Number(u, n, w) = Number(x, n, w)
  <2>1. \A k \in 0..(n - 1) : u[k] = x[k]
    BY DEF Above
  <2> HIDE DEF u
  <2> QED
    BY <2>1, NumberSame
<1>6. 2^(w * m) \in Nat /\ Number(x, n, w) \in Int
  BY Weight, NumberTyped
<1> QED
  BY <1>2, <1>3, <1>4, <1>5, <1>6

\* A shift below WordBits, in limbs and bits.
LEMMA ShiftParts ==
  ASSUME NEW a \in 0..(WordBits - 1)
  PROVE  \E m \in Index, s \in 0..(LimbBits - 1) :
           /\ m = a \div LimbBits /\ s = a % LimbBits
           /\ 2^s \in Nat \ {0} /\ 2^(LimbBits - s) \in Nat \ {0} /\ 2^s * 2^(LimbBits - s) = Limb
           /\ 2^a = 2^(LimbBits * m) * 2^s
<1>1. LimbBits \in Nat \ {0} /\ Limbs \in Nat /\ WordBits = Limbs * LimbBits /\ a \in 0..(Limbs * LimbBits - 1)
  BY LimbFacts DEF WordBits
<1>2. a \div LimbBits \in 0..(Limbs - 1) /\ a % LimbBits \in 0..(LimbBits - 1)
      /\ a = (a \div LimbBits) * LimbBits + (a % LimbBits)
  BY <1>1, GroupOf, Zenon
<1>3. PICK m \in 0..(Limbs - 1), s \in 0..(LimbBits - 1) : m = a \div LimbBits /\ s = a % LimbBits /\ a = m * LimbBits + s
  BY <1>2, Zenon
<1>4. s \in Nat /\ LimbBits - s \in Nat /\ s + (LimbBits - s) = LimbBits /\ LimbBits * m \in Nat
      /\ a = LimbBits * m + s /\ m \in Index
  BY <1>1, <1>3 DEF Index
<1>5. 2^s \in Nat \ {0} /\ 2^(LimbBits - s) \in Nat \ {0} /\ 2^s * 2^(LimbBits - s) = Limb
  <2>1. 2^s \in Nat \ {0} /\ 2^(LimbBits - s) \in Nat \ {0}
    BY <1>4, PowerNat, Zenon
  <2>2. 2^(s + (LimbBits - s)) = 2^s * 2^(LimbBits - s)
    BY <1>4, PowerAdd, Zenon
  <2>3. 2^(s + (LimbBits - s)) = Limb
    BY <1>4, Zenon DEF Limb
  <2> QED
    BY <2>1, <2>2, <2>3, Zenon
<1>6. 2^a = 2^(LimbBits * m) * 2^s
  BY <1>4, PowerAdd
<1> QED
  BY <1>3, <1>4, <1>5, <1>6, Zenon

\* A shift by WordBits or more, or by as many bits as the lowest limb says.
LEMMA ShiftAmount ==
  ASSUME NEW shift \in Word
  PROVE  /\ shiftGE256(shift) <=> Value(shift) >= WordBits
         /\ ~shiftGE256(shift) => Value(shift) = shift[0] /\ shift[0] \in 0..(WordBits - 1)
<1>1. PICK W \in Nat, L \in Nat, v \in Int, d \in Int :
        /\ W = WordBits /\ L = Limb /\ v = Value(shift) /\ d = shift[0]
        /\ W < L /\ 0 <= d
  <2>1. WordBits \in Nat /\ Limb \in Nat /\ Value(shift) \in Int /\ shift[0] \in Int /\ WordBits < Limb /\ 0 <= shift[0]
    BY LimbFacts, WordDigits, NarrowValue
  <2> QED
    BY <2>1, Zenon
<1>2. CASE \A i \in Index \ {0} : shift[i] = 0
  <2>1. v = d
    BY <1>1, <1>2, NarrowValue
  <2>2. shiftGE256(shift) <=> d >= W
    BY <1>1, <1>2 DEF shiftGE256
  <2> QED
    BY <1>1, <2>1, <2>2
<1>3. CASE ~(\A i \in Index \ {0} : shift[i] = 0)
  <2>1. v >= L
    BY <1>1, <1>3, NarrowValue
  <2>2. shiftGE256(shift)
    BY <1>3 DEF shiftGE256
  <2> QED
    BY <1>1, <2>1, <2>2
<1> QED
  BY <1>2, <1>3

\* SHL.
LEMMA ShlExact ==
  ASSUME NEW shift \in Word, NEW val \in Word
  PROVE  /\ Shl256(shift, val) \in Word
         /\ Value(Shl256(shift, val))
              = IF Value(shift) >= WordBits THEN 0 ELSE (Value(val) * 2^Value(shift)) % Modulus
<1>1. CASE shiftGE256(shift)
  <2>1. Value(shift) >= WordBits /\ Shl256(shift, val) = Zero
    BY <1>1, ShiftAmount DEF Shl256
  <2> QED
    BY <2>1, ZeroValue
<1>2. CASE ~shiftGE256(shift)
  <2> DEFINE z == Shl256(shift, val)
             a == shift[0]
             w == LimbBits
  <2>1. Value(shift) = a /\ a \in 0..(WordBits - 1)
    BY <1>2, ShiftAmount
  <2>2. PICK m \in Index, s \in 0..(w - 1) :
           /\ m = a \div LimbBits /\ s = a % LimbBits
           /\ 2^s \in Nat \ {0} /\ 2^(LimbBits - s) \in Nat \ {0} /\ 2^s * 2^(LimbBits - s) = Limb
           /\ 2^a = 2^(LimbBits * m) * 2^s
    BY <2>1, ShiftParts, Zenon
  <2>3. PICK t \in Nat \ {0}, e \in Nat \ {0}, B \in Nat : t = 2^s /\ e = 2^(w - s) /\ t * e = Limb /\ 2^a = B * t
                                                           /\ B = 2^(w * m)
    <3>1. m \in Nat /\ w \in Nat
      BY LimbFacts DEF Index
    <3>2. 2^(w * m) \in Nat
      BY <3>1, Weight
    <3> QED
      BY <2>2, <3>2
  <2>4. PICK n \in Nat :
          /\ n = Limbs - m
          /\ Limbs = m + n /\ m \in Nat /\ w \in Nat /\ Limbs \in Nat
    <3>1. (Limbs - m) \in Nat /\ Limbs = m + (Limbs - m) /\ m \in Nat /\ w \in Nat /\ Limbs \in Nat
      BY LimbFacts DEF Index
    <3> QED
      BY <3>1, Zenon
  <2> DEFINE x == [k \in Index |-> LimbAt(val, k - m, 0)]
  <2>5. z = [i \in Index |-> ((LimbAt(val, i - m, 0) * t) % Limb) + LimbAt(val, i - m - 1, 0) \div e]
    BY <1>2, <2>2, <2>3 DEF Shl256
  <2> HIDE DEF z
  <2>6. /\ \A k \in 0..(m - 1) : x[k] = 0
        /\ \A k \in 0..(n - 1) : x[m + k] = val[k]
    <3>1. ASSUME NEW k \in 0..(m - 1) PROVE x[k] = 0
      <4>1. k \in Index /\ k - m \notin Index
        BY <2>4 DEF Index
      <4> QED
        BY <4>1 DEF LimbAt
    <3>2. ASSUME NEW k \in 0..(n - 1) PROVE x[m + k] = val[k]
      <4>1. k \in Index /\ m + k \in Index /\ (m + k) - m = k
        BY <2>4 DEF Index
      <4> QED
        BY <4>1 DEF LimbAt
    <3> QED
      BY <3>1, <3>2
  <2>7. ASSUME NEW k \in Index PROVE x[k] \in 0..(Limb - 1) /\ (k # 0 => x[k - 1] = LimbAt(val, k - m - 1, 0))
                                      /\ (k = 0 => LimbAt(val, k - m - 1, 0) = 0)
    <3>1. x[k] \in 0..(Limb - 1)
      BY WordDigits, LimbFacts DEF LimbAt
    <3>2. k # 0 => k - 1 \in Index /\ (k - 1) - m = k - m - 1
      BY <2>4 DEF Index
    <3>3. k = 0 => k - m - 1 \notin Index
      BY <2>4 DEF Index
    <3> QED
      BY <3>1, <3>2, <3>3 DEF LimbAt
  <2>8. Ups(x, z, Limbs, t)
    <3>1. HasDigits(x, Limbs, w)
      <4> HIDE DEF x
      <4> QED
        BY <2>7, LimbFacts DEF HasDigits, Index
    <3>2. ASSUME NEW k \in 0..(Limbs - 1)
          PROVE  z[k] = ((x[k] * t) % Limb) + (IF k = 0 THEN 0 ELSE (x[k - 1] * t) \div Limb)
      <4>1. k \in Index
        BY DEF Index
      <4>2. z[k] = ((x[k] * t) % Limb) + LimbAt(val, k - m - 1, 0) \div e
        BY <2>5, <4>1
      <4>3. CASE k = 0
        <5>1. PICK o \in Int : o = 0
          OBVIOUS
        <5>2. o \div e = o
          BY <2>3, <5>1, DivSmall
        <5> QED
          BY <2>7, <4>1, <4>2, <4>3, <5>1, <5>2
      <4>4. CASE k # 0
        <5>1. k - 1 \in Index
          BY <2>4, <4>4 DEF Index
        <5> HIDE DEF x
        <5>2. x[k - 1] \in 0..(Limb - 1)
          BY <2>7, <5>1
        <5>3. (x[k - 1] * t) \div Limb = x[k - 1] \div e
          <6>1. t * e = Limb
            BY <2>3
          <6> QED
            BY <5>2, <6>1, UpLimb, Zenon
        <5> QED
          BY <2>7, <4>1, <4>2, <4>4, <5>3
      <4> QED
        BY <4>3, <4>4
    <3> HIDE DEF x
    <3> QED
      BY <3>1, <3>2 DEF Ups
  <2> HIDE DEF x
  <2>9. HasDigits(z, Limbs, w) /\ Upped(x, z, Limbs, t)
    BY <2>3, <2>4, <2>8, ShiftUp
  <2>10. PICK c \in Int : Value(z) + c * Modulus = Number(x, Limbs, w) * t
    <3>1. PICK c \in 0..(t - 1) : Number(z, Limbs, w) + c * 2^(w * Limbs) = Number(x, Limbs, w) * t
      BY <2>9, Zenon DEF Upped
    <3>2. c \in Int /\ 2^(w * Limbs) = Modulus
      BY <2>3, LimbFacts
    <3> QED
      BY <3>1, <3>2, Zenon DEF Value
  <2>11. Number(x, Limbs, w) = B * Number(val, n, w)
    <3>1. HasInts(val, n)
      BY <2>4, WordDigits, Fewer
    <3>2. Number(x, m + n, w) = 2^(w * m) * Number(val, n, w)
      <4>1. Lifted(val, x, m, n)
        BY <2>6, <3>1 DEF Lifted
      <4> QED
        BY <2>4, <4>1, DigitsUp
    <3> QED
      BY <2>3, <2>4, <3>2
  <2>12. PICK h \in Int, l \in Int, E \in Nat : /\ Value(val) = l + E * h /\ l = Number(val, n, w)
                                               /\ E * B = Modulus
    <3>1. HasInts(val, n + m) /\ n + m = Limbs
      BY <2>4, WordDigits
    <3>2. /\ Number(val, n + m, w) = Number(val, n, w) + 2^(w * n) * Number(Above(val, n, m), m, w)
          /\ Number(val, n, w) \in Int /\ Number(Above(val, n, m), m, w) \in Int
      BY <2>4, <3>1, NumberSplit
    <3>3. 2^(w * n) \in Nat /\ 2^(w * n) * B = Modulus
      <4>1. w * n \in Nat /\ w * m \in Nat /\ w * n + w * m = w * Limbs
        BY <2>4
      <4>2. 2^(w * n) * 2^(w * m) = 2^(w * Limbs)
        BY <4>1, PowerAdd
      <4> QED
        BY <2>3, <4>1, <4>2, PowerNat, LimbFacts
    <3> QED
      BY <3>1, <3>2, <3>3 DEF Value
  <2>13. z \in Word
    <3>1. \A i \in Index : z[i] \in 0..(Limb - 1)
      BY <2>9, LimbFacts DEF HasDigits, Index
    <3>2. z = [i \in Index |-> z[i]]
      BY <2>5
    <3> QED
      BY <3>1, <3>2, IsWord
  <2>14. PICK M \in Nat \ {0}, v \in Int, y \in Int :
          /\ M = Modulus /\ v = Value(z) /\ y = (l + E * h) * (B * t)
          /\ 0 <= v /\ v < M
    <3>1. Modulus \in Nat \ {0} /\ Value(z) \in Int /\ ((l + E * h) * (B * t)) \in Int /\ 0 <= Value(z) /\ Value(z) < Modulus
      <4>1. Modulus \in Nat \ {0} /\ Value(z) \in Int /\ 0 <= Value(z) /\ Value(z) < Modulus
        BY <2>13, LimbFacts, WordDigits
      <4>2. (l + E * h) * (B * t) \in Int
        BY <2>3, <2>12
      <4> QED
        BY <4>1, <4>2
    <3> QED
      BY <3>1, Zenon
  <2>15. y = M * (c + h * t) + v
    <3>1. v + c * M = (B * l) * t
      BY <2>10, <2>11, <2>12, <2>14
    <3>2. (l + E * h) * (B * t) = (B * l) * t + (E * B) * (h * t)
      BY <2>3, <2>12
    <3>3. E * B = M
      BY <2>12, <2>14
    <3>4. M * (c + h * t) = c * M + M * (h * t)
      BY <2>3
    <3>5. PICK p \in Int : p = M * (h * t)
      BY <2>3
    <3> QED
      BY <2>10, <2>14, <3>1, <3>2, <3>3, <3>4, <3>5
  <2>16. PICK q \in Int : q = c + h * t
    BY <2>3
  <2>17. Division(y, M, q, v)
    BY <2>14, <2>15, <2>16 DEF Division
  <2>18. y % M = v
    BY <2>17, Divides
  <2>19. Value(val) * 2^a = y
    BY <2>3, <2>12, <2>14
  <2>20. a < WordBits /\ WordBits \in Int
    BY <2>1, LimbFacts
  <2> QED
    BY <2>1, <2>13, <2>14, <2>18, <2>19, <2>20 DEF z
<1> QED
  BY <1>1, <1>2

\* Limb by limb: the limbs y are the limbs x, of which there is one more, shifted to
\* the right by t, when t times e is Limb; d leaves at the end.
Downs(x, y, n, t, e) ==
  /\ HasDigits(x, n + 1, LimbBits)
  /\ \A k \in 0..(n - 1) : y[k] = x[k] \div t + ((x[k + 1] * e) % Limb)
Downed(x, y, n, t) ==
  \E d \in 0..(t - 1) :
    Number(x, n, LimbBits) + (x[n] % t) * 2^(LimbBits * n) = t * Number(y, n, LimbBits) + d

\* All limbs shifted to the right by less than a limb: the number is divided by t.
LEMMA ShiftDown ==
  ASSUME NEW n \in Nat, NEW t \in Nat \ {0}, NEW e \in Nat \ {0}, t * e = Limb, NEW x, NEW y, Downs(x, y, n, t, e)
  PROVE  HasDigits(y, n, LimbBits) /\ Downed(x, y, n, t)
<1> DEFINE w == LimbBits
<1>1. w \in Nat /\ Limb \in Nat \ {0} /\ Digits(w) = 0..(Limb - 1) /\ e * t = Limb
  BY LimbFacts
<1>2. HasDigits(x, n + 1, w) /\ HasInts(x, n + 1) /\ HasInts(x, n)
  <2>1. HasDigits(x, n + 1, w)
    BY DEF Downs
  <2>2. HasInts(x, n + 1)
    BY <1>1, <2>1, DigitsInts
  <2> QED
    BY <2>1, <2>2, Fewer
<1>3. \A k \in 0..n : x[k] \in 0..(Limb - 1)
  BY <1>1, <1>2 DEF HasDigits
<1> DEFINE hi == [v \in 0..(Limb - 1) |-> v \div t]
           lo == [v \in 0..(Limb - 1) |-> v % t]
           up == [v \in 0..(Limb - 1) |-> (v * e) % Limb]
<1>4. \A v \in 0..(Limb - 1) :
        /\ hi[v] = v \div t /\ lo[v] = v % t /\ up[v] = (v * e) % Limb
        /\ hi[v] \in 0..(e - 1) /\ lo[v] \in 0..(t - 1) /\ v = t * hi[v] + lo[v]
        /\ up[v] = e * lo[v] /\ up[v] \in 0..(Limb - e)
  <2>1. ASSUME NEW v \in 0..(Limb - 1)
        PROVE  /\ v \div t \in 0..(e - 1) /\ v % t \in 0..(t - 1) /\ v = t * (v \div t) + (v % t)
               /\ (v * e) % Limb = e * (v % t) /\ (v * e) % Limb \in 0..(Limb - e)
    <3>1. (v * e) \div Limb = v \div t /\ v \div t \in 0..(e - 1)
          /\ (v * e) % Limb = e * (v % t) /\ e * (v % t) \in 0..(Limb - e)
      BY <1>1, UpLimb, Zenon
    <3>2. v \in Int
      BY <1>1
    <3>3. v % t \in 0..(t - 1) /\ v = t * (v \div t) + (v % t)
      BY <3>2, DivMod
    <3> QED
      BY <3>1, <3>3, Zenon
  <2> QED
    BY <2>1, Zenon
<1> HIDE DEF hi, lo, up
<1> DEFINE c == [k \in 0..n |-> -lo[x[k]]]
           s == [k \in 0..(n - 1) |-> t * y[k]]
<1>5. ASSUME NEW k \in 0..n PROVE c[k] = -lo[x[k]] /\ lo[x[k]] \in 0..(t - 1) /\ c[k] \in Int
  <2>1. lo[x[k]] \in 0..(t - 1)
    BY <1>3, <1>4
  <2> QED
    BY <2>1
<1>6. ASSUME NEW k \in 0..(n - 1)
      PROVE  /\ y[k] \in 0..(Limb - 1) /\ s[k] \in Int /\ s[k] = t * y[k]
             /\ s[k] + Limb * c[k + 1] = x[k] + c[k]
  <2>1. k + 1 \in 0..n /\ k \in 0..n
    OBVIOUS
  <2>a. x[k] \in 0..(Limb - 1) /\ x[k + 1] \in 0..(Limb - 1)
    BY <1>3, <2>1
  <2>b. /\ hi[x[k]] = x[k] \div t /\ hi[x[k]] \in 0..(e - 1) /\ lo[x[k]] \in 0..(t - 1)
        /\ x[k] = t * hi[x[k]] + lo[x[k]]
    BY <1>4, <2>a, Zenon
  <2>c. /\ up[x[k + 1]] = (x[k + 1] * e) % Limb /\ lo[x[k + 1]] \in 0..(t - 1)
        /\ up[x[k + 1]] = e * lo[x[k + 1]] /\ up[x[k + 1]] \in 0..(Limb - e)
    BY <1>4, <2>a, Zenon
  <2>2. y[k] = hi[x[k]] + up[x[k + 1]]
    <3>1. y[k] = x[k] \div t + ((x[k + 1] * e) % Limb)
      BY DEF Downs
    <3> QED
      BY <2>b, <2>c, <3>1, Zenon
  <2>3. c[k] = -lo[x[k]] /\ c[k + 1] = -lo[x[k + 1]]
    BY <1>5, <2>1
  <2>4. s[k] = t * y[k]
    OBVIOUS
  <2> HIDE DEF c, s
  <2>5. PICK h \in Int, l \in Int, m \in Int, u \in Int, v \in Int, L \in Int :
          /\ h = hi[x[k]] /\ l = lo[x[k]] /\ m = lo[x[k + 1]] /\ u = up[x[k + 1]] /\ v = x[k] /\ L = Limb
          /\ 0 <= h /\ h <= e - 1 /\ v = t * h + l /\ u = e * m /\ 0 <= u /\ u <= L - e
    <3>1. hi[x[k]] \in Int /\ lo[x[k]] \in Int /\ (lo[x[k + 1]]) \in Int /\ (up[x[k + 1]]) \in Int /\ x[k] \in Int /\ Limb \in Int /\ 0 <= hi[x[k]] /\ hi[x[k]] <= e - 1 /\ x[k] = t * hi[x[k]] + lo[x[k]] /\ (up[x[k + 1]]) = e * (lo[x[k + 1]]) /\ 0 <= (up[x[k + 1]]) /\ (up[x[k + 1]]) <= Limb - e
      <4>a. hi[x[k]] \in 0..(e - 1) /\ lo[x[k]] \in 0..(t - 1) /\ lo[x[k + 1]] \in 0..(t - 1)
            /\ up[x[k + 1]] \in 0..(Limb - e)
        BY <2>b, <2>c, Zenon
      <4>1. hi[x[k]] \in Int /\ lo[x[k]] \in Int /\ lo[x[k + 1]] \in Int /\ x[k] \in Int /\ Limb \in Int
        BY <1>1, <2>a, <4>a, SMTT(30)
      <4>2. up[x[k + 1]] \in Int /\ 0 <= up[x[k + 1]] /\ up[x[k + 1]] <= Limb - e
        BY <1>1, <4>a
      <4>3. 0 <= hi[x[k]] /\ hi[x[k]] <= e - 1
        BY <4>a
      <4> QED
        BY <2>b, <2>c, <4>1, <4>2, <4>3, Zenon
    <3> QED
      BY <3>1, Zenon
  <2>6. h + u \in 0..(L - 1)
    BY <2>5
  <2>7. t * (h + u) + L * (-m) = v - l
    <3>1. t * (h + u) = t * h + t * u
      OBVIOUS
    <3>2. t * u = (t * e) * m
      BY <2>5
    <3>3. PICK p \in Int : p = L * m
      OBVIOUS
    <3>4. t * u = p /\ L * (-m) = -p
      <4>1. t * e = L
        BY <2>5
      <4> QED
        BY <3>2, <3>3, <4>1
    <3> QED
      BY <2>5, <3>1, <3>4
  <2>8. y[k] = h + u /\ c[k] = -l /\ c[k + 1] = -m
    BY <2>2, <2>3, <2>5
  <2>9. PICK A \in Int, B \in Int : A = t * (h + u) /\ B = L * (-m)
    OBVIOUS
  <2>10. A + B = v + (-l)
    BY <2>7, <2>9
  <2> QED
    BY <2>4, <2>5, <2>6, <2>8, <2>9, <2>10
<1>7. HasDigits(y, n, w) /\ HasInts(y, n)
  <2> HIDE DEF s, c
  <2>1. HasDigits(y, n, w)
    BY <1>1, <1>6 DEF HasDigits
  <2> QED
    BY <1>1, <2>1, DigitsInts
<1>8. Carries(s, x, c, n)
  <2> HIDE DEF s, c
  <2> QED
    BY <1>2, <1>5, <1>6 DEF Carries, HasInts
<1>9. Number(s, n, w) = t * Number(y, n, w) /\ Number(y, n, w) \in Int
  <2> DEFINE o == [k \in 0..(n - 1) |-> 0]
  <2>1. ASSUME NEW k \in 0..(n - 1) PROVE o[k] = 0 /\ s[k] = o[k] + t * y[k]
    <3>1. o[k] = 0 /\ s[k] = t * y[k]
      OBVIOUS
    <3>2. t * y[k] \in Int
      <4> HIDE DEF s, c, o
      <4> QED
        BY <1>6
    <3> HIDE DEF s, o
    <3> QED
      BY <3>1, <3>2
  <2> HIDE DEF o, s, c
  <2>2. Combined(s, o, t, y, n)
    BY <1>7, <2>1 DEF Combined, HasInts
  <2>3. Number(s, n, w) = Number(o, n, w) + t * Number(y, n, w)
    BY <1>1, <2>2, NumberLinear
  <2>4. Number(o, n, w) = 0
    BY <1>1, <2>1, NumberZeros
  <2>5. Number(y, n, w) \in Int
    BY <1>1, <1>7, NumberTyped
  <2> QED
    BY <2>3, <2>4, <2>5
<1> HIDE DEF s, c
<1>10. Number(s, n, w) + c[n] * 2^(w * n) = Number(x, n, w) + c[0]
  BY <1>8, Carried
<1>11. lo[x[n]] = x[n] % t
  BY <1>3, <1>4
<1>12. PICK d \in Int, f \in Int, p \in Int, X \in Int, Y \in Int :
        /\ d = lo[x[0]] /\ f = lo[x[n]] /\ p = 2^(w * n) /\ X = Number(x, n, w) /\ Y = Number(y, n, w)
        /\ d \in 0..(t - 1)
  <2>1. lo[x[0]] \in Int /\ lo[x[n]] \in Int /\ (2^(w * n)) \in Int /\ Number(x, n, w) \in Int /\ Number(y, n, w) \in Int /\ lo[x[0]] \in 0..(t - 1)
    <3>1. 0 \in 0..n /\ n \in 0..n
      OBVIOUS
    <3>2. lo[x[0]] \in 0..(t - 1) /\ lo[x[n]] \in 0..(t - 1)
      BY <1>5, <3>1
    <3>3. 2^(w * n) \in Nat /\ Number(x, n, w) \in Int
      BY <1>1, <1>2, Weight, NumberTyped
    <3> QED
      BY <1>9, <3>2, <3>3
  <2> QED
    BY <2>1, Zenon
<1>13. c[0] = -d /\ c[n] = -f
  BY <1>5, <1>12
<1>14. t * Y + (-f) * p = X + (-d)
  BY <1>9, <1>10, <1>12, <1>13
<1>15. X + f * p = t * Y + d
  <2>1. PICK A \in Int, B \in Int : A = t * Y /\ B = f * p /\ (-f) * p = -B
    OBVIOUS
  <2> QED
    BY <1>12, <1>14, <2>1
<1>16. Number(x, n, w) + (x[n] % t) * 2^(w * n) = t * Number(y, n, w) + d
  BY <1>11, <1>12, <1>15
<1> QED
  BY <1>7, <1>12, <1>16 DEF Downed

\* Digits that are all as large as they can be.
LEMMA NumberFull ==
  ASSUME NEW n \in Nat, NEW w \in Nat, NEW x, \A k \in 0..(n - 1) : x[k] = 2^w - 1
  PROVE  Number(x, n, w) = 2^(w * n) - 1
<1> DEFINE I == {k \in 0..n : Number(x, k, w) = 2^(w * k) - 1}
<1>1. HasInts(x, n)
  BY PowerNat DEF HasInts
<1>2. 0 \in I
  <2>1. Number(x, 0, w) = 0 /\ 2^(w * 0) = 1
    BY NumberZero, Weight
  <2> QED
    BY <2>1
<1>3. ASSUME NEW k \in 0..(n - 1), k \in I PROVE k + 1 \in I
  <2>1. k \in Nat
    OBVIOUS
  <2>2. HasInts(x, k + 1)
    BY <1>1, Fewer
  <2>3. Number(x, k + 1, w) = Number(x, k, w) + x[k] * 2^(w * k)
    BY <2>2, NumberIs
  <2>4. PICK p \in Nat, b \in Nat :
          /\ p = 2^(w * k) /\ b = 2^w
          /\ 2^(w * (k + 1)) = p * b
    <3>1. (2^(w * k)) \in Nat /\ (2^w) \in Nat /\ 2^(w * (k + 1)) = (2^(w * k)) * (2^w)
      BY <2>1, Weight
    <3> QED
      BY <3>1, Zenon
  <2>5. x[k] = b - 1 /\ Number(x, k, w) = p - 1
    BY <1>3, <2>4
  <2>6. (p - 1) + (b - 1) * p = p * b - 1
    OBVIOUS
  <2> QED
    BY <2>3, <2>4, <2>5, <2>6
<1> HIDE DEF I
<1>4. n \in I
  BY <1>2, <1>3, Climb
<1> QED
  BY <1>4 DEF I

\* Z is V shifted to the right by the power p, with zeros, or ones when f is 1, above.
RightParts(V, Z, p, f, h, l, d, B, E, t) ==
  /\ h \in Int /\ l \in Int /\ d \in Int /\ B \in Nat \ {0} /\ E \in Nat \ {0} /\ t \in Nat \ {0}
  /\ V = l + B * h /\ 0 <= l /\ l < B
  /\ E * B = Modulus /\ p = B * t /\ 0 <= d /\ d < t
  /\ h + f * (t * Modulus - E) = t * Z + d
RightShifted(V, Z, p, f) == \E h, l, d, B, E, t : RightParts(V, Z, p, f, h, l, d, B, E, t)

\* A shift to the right that fills with ones divides a negative number.
LEMMA RightMeans ==
  ASSUME NEW V \in Int, NEW Z \in Int, NEW p, NEW f \in {0, 1}, RightShifted(V, Z, p, f)
  PROVE  p \in Nat \ {0} /\ (V - f * Modulus) \div p = Z - f * Modulus
<1>1. PICK h, l, d, B, E, t : RightParts(V, Z, p, f, h, l, d, B, E, t)
  BY DEF RightShifted
<1>2. /\ h \in Int /\ l \in Int /\ d \in Int /\ B \in Nat \ {0} /\ E \in Nat \ {0} /\ t \in Nat \ {0}
      /\ V = l + B * h /\ 0 <= l /\ l < B
      /\ E * B = Modulus /\ p = B * t /\ 0 <= d /\ d < t
      /\ h + f * (t * Modulus - E) = t * Z + d
  BY <1>1 DEF RightParts
<1>a. h \in Int /\ l \in Int /\ d \in Int /\ B \in Nat \ {0} /\ E \in Nat \ {0} /\ t \in Nat \ {0}
  BY <1>2
<1>3. PICK M \in Nat \ {0} :
        /\ M = Modulus
  <2>1. Modulus \in Nat \ {0}
    BY LimbFacts
  <2> QED
    BY <1>a, <2>1, Zenon
<1>4. PICK q \in Int, r \in Int, x \in Int :
        /\ q = Z - f * M /\ r = l + B * d /\ x = V - f * M
  <2>1. (Z - f * M) \in Int /\ (l + B * d) \in Int /\ (V - f * M) \in Int
    BY <1>a
  <2> QED
    BY <1>a, <2>1, Zenon
<1>5. p \in Nat \ {0} /\ 0 <= r /\ r < p
  <2>1. PICK g \in Nat : t = d + 1 + g
    <3>1. t - d - 1 \in Nat /\ t = d + 1 + (t - d - 1)
      BY <1>2
    <3> QED
      BY <3>1
  <2>2. B * t = B * d + B + B * g /\ B * g \in Nat
    BY <1>a, <2>1
  <2>3. B * d >= 0 /\ B * t \in Nat \ {0}
    BY <1>2
  <2> QED
    BY <1>a, <1>2, <1>4, <2>2, <2>3
<1>6. x = p * q + r
  <2>1. CASE f = 0
    <3>1. h = t * Z + d
      BY <1>a, <1>2, <1>3, <2>1
    <3>2. l + B * (t * Z + d) = (B * t) * Z + (l + B * d)
      BY <1>a
    <3> QED
      BY <1>a, <1>2, <1>4, <2>1, <3>1, <3>2
  <2>2. CASE f = 1
    <3>1. h = t * (Z - M) + d + E
      <4>1. h + (t * M - E) = t * Z + d
        BY <1>a, <1>2, <1>3, <2>2
      <4>2. t * (Z - M) = t * Z - t * M
        BY <1>a
      <4>3. PICK u \in Int, v \in Int : u = t * Z /\ v = t * M
        BY <1>a
      <4> QED
        BY <1>a, <4>1, <4>2, <4>3
    <3>2. l + B * (t * (Z - M) + d + E) = (B * t) * (Z - M) + (l + B * d) + E * B
      BY <1>a
    <3> QED
      BY <1>a, <1>2, <1>3, <1>4, <2>2, <3>1, <3>2
  <2> QED
    BY <1>a, <2>1, <2>2
<1>7. Division(x, p, q, r)
  BY <1>5, <1>6 DEF Division
<1>8. x \div p = q
  BY <1>7, Divides
<1> QED
  BY <1>3, <1>4, <1>5, <1>8

\* ShiftRight, with zeros and with ones from the left.
LEMMA RightExact ==
  ASSUME NEW shift \in Word, NEW val \in Word, ~shiftGE256(shift), NEW f \in {0, 1}
  PROVE  /\ ShiftRight(shift, val, f * (Limb - 1)) \in Word
         /\ RightShifted(Value(val), Value(ShiftRight(shift, val, f * (Limb - 1))), 2^Value(shift), f)
<1> DEFINE fill == f * (Limb - 1)
           z == ShiftRight(shift, val, fill)
           a == shift[0]
           w == LimbBits
<1>1. Value(shift) = a /\ a \in 0..(WordBits - 1)
  BY ShiftAmount
<1>2. PICK m \in Index, s \in 0..(w - 1) :
         /\ m = a \div LimbBits /\ s = a % LimbBits
         /\ 2^s \in Nat \ {0} /\ 2^(LimbBits - s) \in Nat \ {0} /\ 2^s * 2^(LimbBits - s) = Limb
         /\ 2^a = 2^(LimbBits * m) * 2^s
  BY <1>1, ShiftParts, Zenon
<1>3. PICK n \in Nat :
        /\ n = Limbs - m
        /\ Limbs = m + n /\ m \in Nat /\ w \in Nat /\ Limbs \in Nat /\ Limb \in Nat /\ Limb >= 2
  <2>1. (Limbs - m) \in Nat /\ Limbs = m + (Limbs - m) /\ m \in Nat /\ w \in Nat /\ Limbs \in Nat /\ Limb \in Nat /\ Limb >= 2
    BY LimbFacts DEF Index
  <2> QED
    BY <2>1, Zenon
<1>4. PICK t \in Nat \ {0}, e \in Nat \ {0}, B \in Nat \ {0}, E \in Nat \ {0} :
        /\ t = 2^s /\ e = 2^(w - s) /\ B = 2^(w * m) /\ E = 2^(w * n)
        /\ t * e = Limb /\ 2^a = B * t /\ E * B = Modulus
  <2>1. (2^s) \in Nat \ {0} /\ (2^(w - s)) \in Nat \ {0} /\ (2^(w * m)) \in Nat \ {0} /\ (2^(w * n)) \in Nat \ {0} /\ (2^s) * (2^(w - s)) = Limb /\ 2^a = (2^(w * m)) * (2^s) /\ (2^(w * n)) * (2^(w * m)) = Modulus
    <3>1. 2^(w * m) \in Nat \ {0} /\ 2^(w * n) \in Nat \ {0}
      BY <1>3, Weight
    <3>2. w * n \in Nat /\ w * m \in Nat /\ w * n + w * m = w * Limbs
      BY <1>3
    <3>3. 2^(w * n) * 2^(w * m) = 2^(w * Limbs)
      BY <3>2, PowerAdd
    <3> QED
      BY <1>2, <3>1, <3>3, LimbFacts
  <2> QED
    BY <2>1, Zenon
<1> DEFINE x == [k \in 0..Limbs |-> LimbAt(val, k + m, fill)]
<1>5. z = [i \in Index |-> LimbAt(val, i + m, fill) \div t + ((LimbAt(val, i + m + 1, fill) * e) % Limb)]
  BY <1>2, <1>4 DEF ShiftRight
<1>6. fill \in 0..(Limb - 1)
  BY <1>3
<1>7. ASSUME NEW k \in 0..Limbs PROVE x[k] \in 0..(Limb - 1)
  <2> HIDE DEF fill
  <2> QED
    BY <1>6, WordDigits DEF LimbAt
<1> HIDE DEF z, fill
<1>8. Downs(x, z, Limbs, t, e)
  <2>1. HasDigits(x, Limbs + 1, w)
    <3> HIDE DEF x
    <3> QED
      BY <1>3, <1>7, LimbFacts DEF HasDigits
  <2>2. ASSUME NEW k \in 0..(Limbs - 1) PROVE z[k] = x[k] \div t + ((x[k + 1] * e) % Limb)
    <3>1. k \in Index /\ k \in 0..Limbs /\ k + 1 \in 0..Limbs /\ (k + 1) + m = k + m + 1
      BY <1>3 DEF Index
    <3>2. x[k] = LimbAt(val, k + m, fill) /\ x[k + 1] = LimbAt(val, k + m + 1, fill)
      BY <3>1
    <3> QED
      BY <1>5, <3>1, <3>2
  <2> HIDE DEF x
  <2> QED
    BY <2>1, <2>2 DEF Downs
<1>9. HasDigits(z, Limbs, w) /\ Downed(x, z, Limbs, t)
  <2> HIDE DEF x
  <2> QED
    BY <1>3, <1>4, <1>8, ShiftDown
<1>10. z \in Word
  <2>1. \A i \in Index : z[i] \in 0..(Limb - 1)
    BY <1>9, LimbFacts DEF HasDigits, Index
  <2>2. z = [i \in Index |-> z[i]]
    BY <1>5
  <2> QED
    BY <2>1, <2>2, IsWord
<1> DEFINE y == Above(val, m, n)
           u == Above(x, n, m)
<1>11. /\ \A k \in 0..(n - 1) : x[k] = y[k]
       /\ \A k \in 0..(m - 1) : u[k] = fill
       /\ x[Limbs] = fill
  <2>1. ASSUME NEW k \in 0..(n - 1) PROVE x[k] = y[k]
    <3>1. k \in 0..Limbs /\ k + m \in Index /\ k + m = m + k
      BY <1>3 DEF Index
    <3> QED
      BY <3>1 DEF LimbAt, Above
  <2>2. ASSUME NEW k \in 0..(m - 1) PROVE u[k] = fill
    <3>1. n + k \in 0..Limbs /\ (n + k) + m \notin Index
      BY <1>3 DEF Index
    <3> QED
      BY <3>1 DEF LimbAt, Above
  <2>3. x[Limbs] = fill
    <3>1. Limbs \in 0..Limbs /\ Limbs + m \notin Index
      BY <1>3 DEF Index
    <3> QED
      BY <3>1 DEF LimbAt
  <2> QED
    BY <2>1, <2>2, <2>3
<1>12. HasInts(x, n + m) /\ HasInts(x, n) /\ HasInts(val, m + n) /\ HasInts(y, n) /\ HasDigits(val, m, w)
  <2>1. HasInts(x, n + m) /\ HasInts(x, n)
    <3> HIDE DEF x
    <3> QED
      BY <1>3, <1>7 DEF HasInts
  <2>2. HasInts(val, m + n) /\ HasDigits(val, m, w)
    BY <1>3, WordDigits, Fewer
  <2>3. HasInts(y, n)
    BY <1>3, <2>2 DEF HasInts, Above
  <2> QED
    BY <2>1, <2>2, <2>3
<1> HIDE DEF x, y, u
<1>13. PICK h \in Int, l \in Int, F \in Int :
        /\ h = Number(y, n, w) /\ l = Number(val, m, w) /\ F = Number(u, m, w)
        /\ Value(val) = l + B * h /\ 0 <= l /\ l < B /\ Number(x, Limbs, w) = h + E * F
  <2>1. Number(y, n, w) \in Int /\ Number(val, m, w) \in Int /\ Number(u, m, w) \in Int /\ Value(val) = Number(val, m, w) + B * Number(y, n, w) /\ 0 <= Number(val, m, w) /\ Number(val, m, w) < B /\ Number(x, Limbs, w) = Number(y, n, w) + E * Number(u, m, w)
    <3>1. Number(val, m + n, w) = Number(val, m, w) + 2^(w * m) * Number(y, n, w) /\ Number(y, n, w) \in Int
      BY <1>3, <1>12, NumberSplit DEF y
    <3>2. Number(x, n + m, w) = Number(x, n, w) + 2^(w * n) * Number(u, m, w) /\ Number(u, m, w) \in Int
      BY <1>3, <1>12, NumberSplit DEF u
    <3>3. Number(x, n, w) = Number(y, n, w)
      <4>1. \A k \in 0..(n - 1) : x[k] = y[k]
        BY <1>11
      <4>2. n \in Nat /\ w \in Nat /\ HasInts(y, n)
        BY <1>3, <1>12
      <4> QED
        BY <4>1, <4>2, NumberSame, Zenon
    <3>4. Number(val, m, w) \in 0..(B - 1)
      BY <1>3, <1>4, <1>12, NumberBounds
    <3>5. n + m = Limbs /\ m + n = Limbs
      BY <1>3
    <3> QED
      BY <1>4, <3>1, <3>2, <3>3, <3>4, <3>5 DEF Value
  <2> QED
    BY <2>1, Zenon
<1>14. F = f * (B - 1) /\ (x[Limbs] % t = f * (t - 1))
  <2>1. CASE f = 0
    <3>1. fill = 0
      BY <1>3, <2>1 DEF fill
    <3>2. F = 0
      BY <1>3, <1>11, <1>13, <3>1, NumberZeros
    <3>3. PICK o \in Int : o = 0
      OBVIOUS
    <3>4. o % t = o
      BY <3>3, DivSmall
    <3> QED
      BY <1>11, <2>1, <3>1, <3>2, <3>3, <3>4
  <2>2. CASE f = 1
    <3>1. fill = 2^w - 1 /\ fill = Limb - 1
      BY <1>3, <2>2, LimbFacts DEF fill
    <3>2. F = B - 1
      BY <1>3, <1>4, <1>11, <1>13, <3>1, NumberFull
    <3>3. PICK q \in Int, r \in Int, v \in Int :
            /\ q = e - 1 /\ r = t - 1 /\ v = Limb - 1
            /\ v = t * q + r /\ 0 <= r /\ r < t
      <4>1. (e - 1) \in Int /\ (t - 1) \in Int /\ (Limb - 1) \in Int /\ (Limb - 1) = t * (e - 1) + (t - 1) /\ 0 <= (t - 1) /\ (t - 1) < t
        BY <1>3, <1>4
      <4> QED
        BY <4>1, Zenon
    <3>4. Division(v, t, q, r)
      BY <3>3 DEF Division
    <3>5. v % t = r
      BY <3>4, Divides
    <3> QED
      BY <1>11, <2>2, <3>1, <3>2, <3>3, <3>5
  <2> QED
    BY <2>1, <2>2
<1>15. PICK d \in Int : /\ 0 <= d /\ d < t
                        /\ Number(x, Limbs, w) + (x[Limbs] % t) * Modulus = t * Value(z) + d
  <2>1. PICK d \in 0..(t - 1) : Number(x, Limbs, w) + (x[Limbs] % t) * 2^(w * Limbs) = t * Number(z, Limbs, w) + d
    BY <1>9, Zenon DEF Downed
  <2>2. d \in Int /\ 0 <= d /\ d < t /\ 2^(w * Limbs) = Modulus
    BY LimbFacts
  <2> QED
    BY <2>1, <2>2, Zenon DEF Value
<1>16. PICK M \in Int, Z \in Int :
        /\ M = Modulus /\ Z = Value(z)
        /\ E * B = M
  <2>1. Modulus \in Int /\ Value(z) \in Int /\ E * B = Modulus
    BY <1>4, <1>10, WordDigits, LimbFacts
  <2> QED
    BY <2>1, Zenon
<1>17. h + f * (t * M - E) = t * Z + d
  <2>1. (h + E * (f * (B - 1))) + (f * (t - 1)) * M = t * Z + d
    BY <1>13, <1>14, <1>15, <1>16
  <2>2. CASE f = 0
    BY <2>1, <2>2
  <2>3. CASE f = 1
    <3>1. E * (B - 1) = E * B - E /\ (t - 1) * M = t * M - M
      OBVIOUS
    <3>2. PICK p \in Int, q \in Int, r \in Int : p = t * M /\ q = t * Z /\ r = E * B
      OBVIOUS
    <3> QED
      BY <1>16, <2>1, <2>3, <3>1, <3>2
  <2> QED
    BY <2>2, <2>3
<1>18. /\ Value(val) = l + B * h /\ 0 <= l /\ l < B
       /\ E * B = Modulus /\ 2^Value(shift) = B * t /\ 0 <= d /\ d < t
       /\ h + f * (t * Modulus - E) = t * Value(z) + d
  BY <1>1, <1>4, <1>13, <1>15, <1>16, <1>17
<1>19. RightShifted(Value(val), Value(z), 2^Value(shift), f)
  <2>1. RightParts(Value(val), Value(z), 2^Value(shift), f, h, l, d, B, E, t)
    BY <1>18, Zenon DEF RightParts
  <2> QED
    BY <2>1, Zenon DEF RightShifted
<1> QED
  BY <1>10, <1>19 DEF z, fill

-----------------------------------------------------------------------------
\* What a fill of zeros or of ones is.
LEMMA FillValue ==
  ASSUME NEW f \in {0, 1}
  PROVE  [i \in Index |-> f * (Limb - 1)] \in Word /\ Value([i \in Index |-> f * (Limb - 1)]) = f * (Modulus - 1)
<1> DEFINE z == [i \in Index |-> f * (Limb - 1)]
<1>1. z \in Word
  BY LimbFacts DEF Word
<1>2. CASE f = 0
  <2>1. z = Zero
    BY <1>2, LimbFacts DEF Zero
  <2>2. Value(z) = 0
    BY <2>1, ZeroValue
  <2> HIDE DEF z
  <2>3. f * (Modulus - 1) = 0
    BY <1>2, LimbFacts
  <2> QED
    BY <1>1, <2>2, <2>3 DEF z
<1>3. CASE f = 1
  <2>1. \A k \in 0..(Limbs - 1) : z[k] = 2^LimbBits - 1
    BY <1>3, LimbFacts DEF Index
  <2> HIDE DEF z
  <2>2. Value(z) = Modulus - 1
    BY <2>1, LimbFacts, NumberFull DEF Value
  <2>3. f * (Modulus - 1) = Modulus - 1
    BY <1>3, LimbFacts
  <2> QED
    BY <1>1, <2>2, <2>3 DEF z
<1> QED
  BY <1>2, <1>3

\* Shr256 divides by the power of two.
LEMMA ShrExact ==
  ASSUME NEW shift \in Word, NEW val \in Word
  PROVE  /\ Shr256(shift, val) \in Word
         /\ Value(Shr256(shift, val)) = IF Value(shift) >= WordBits THEN 0 ELSE Value(val) \div 2^Value(shift)
<1>1. PICK f \in {0, 1} : f = 0
  OBVIOUS
<1>2. f * (Limb - 1) = 0 /\ f * (Modulus - 1) = 0 /\ f * Modulus = 0
  BY <1>1, LimbFacts
<1>3. Shr256(shift, val) = ShiftRight(shift, val, f * (Limb - 1))
  BY <1>2 DEF Shr256
<1>4. CASE shiftGE256(shift)
  <2>1. Shr256(shift, val) = [i \in Index |-> f * (Limb - 1)]
    BY <1>3, <1>4 DEF ShiftRight
  <2>2. Shr256(shift, val) \in Word /\ Value(Shr256(shift, val)) = 0
    BY <1>2, <2>1, FillValue
  <2> QED
    BY <1>4, <2>2, ShiftAmount
<1>5. CASE ~shiftGE256(shift)
  <2>1. Shr256(shift, val) \in Word /\ RightShifted(Value(val), Value(Shr256(shift, val)), 2^Value(shift), f)
    BY <1>3, <1>5, RightExact
  <2>2. Value(val) \in Int /\ Value(Shr256(shift, val)) \in Int
    BY <2>1, WordDigits
  <2>3. (Value(val) - f * Modulus) \div 2^Value(shift) = Value(Shr256(shift, val)) - f * Modulus
    BY <2>1, <2>2, RightMeans
  <2>4. Value(val) - f * Modulus = Value(val) /\ Value(Shr256(shift, val)) - f * Modulus = Value(Shr256(shift, val))
    BY <1>2, <2>2
  <2>5. Value(val) \div 2^Value(shift) = Value(Shr256(shift, val))
    BY <2>3, <2>4
  <2> QED
    BY <1>5, <2>1, <2>5, ShiftAmount
<1> QED
  BY <1>4, <1>5

\* Sar256 divides the signed number, and rounds down.
LEMMA SarExact ==
  ASSUME NEW shift \in Word, NEW val \in Word
  PROVE  /\ Sar256(shift, val) \in Word
         /\ Value(Sar256(shift, val))
              = (Signed(Value(val)) \div 2^(IF Value(shift) >= WordBits THEN WordBits ELSE Value(shift))) % Modulus
<1> DEFINE z == Sar256(shift, val)
<1>1. PICK f \in {0, 1} : f = IF isNeg(val) THEN 1 ELSE 0
  OBVIOUS
<1>2. z = ShiftRight(shift, val, f * (Limb - 1))
  <2>1. f * (Limb - 1) = IF isNeg(val) THEN Limb - 1 ELSE 0
    BY <1>1, LimbFacts
  <2> QED
    BY <2>1 DEF Sar256
<1>3. PICK M \in Nat \ {0}, V \in Int :
        /\ M = Modulus /\ V = Value(val) /\ 0 <= V /\ V < M
        /\ Signed(V) = V - f * M
  <2>1. Modulus \in Nat \ {0} /\ Value(val) \in Int /\ 0 <= Value(val) /\ Value(val) < Modulus
    BY LimbFacts, WordDigits
  <2>2. Signed(Value(val)) = Value(val) - f * Modulus
    BY <1>1, <2>1, NegativeExact DEF Signed
  <2> QED
    BY <2>1, <2>2, Zenon
<1> HIDE DEF z
<1>4. CASE shiftGE256(shift)
  <2>1. z = [i \in Index |-> f * (Limb - 1)]
    BY <1>2, <1>4 DEF ShiftRight
  <2>2. z \in Word /\ Value(z) = f * (M - 1)
    BY <1>3, <2>1, FillValue
  <2>3. Value(shift) >= WordBits /\ 2^WordBits = M
    BY <1>3, <1>4, ShiftAmount DEF Modulus
  <2>4. PICK x \in Int, q \in Int, r \in Int, s \in Int : x = V - f * M /\ q = -f /\ r = V /\ s = f * (M - 1)
    OBVIOUS
  <2>5. Division(x, M, q, r) /\ Division(q, M, q, s)
    BY <1>3, <2>4 DEF Division
  <2>6. x \div M = q /\ q % M = s
    BY <2>5, Divides
  <2> QED
    BY <1>3, <2>2, <2>3, <2>4, <2>6 DEF z
<1>5. CASE ~shiftGE256(shift)
  <2>1. z \in Word /\ RightShifted(Value(val), Value(z), 2^Value(shift), f)
    BY <1>2, <1>5, RightExact
  <2>2. Value(z) \in Int /\ 0 <= Value(z) /\ Value(z) < M
    BY <1>3, <2>1, WordDigits, LimbFacts
  <2>3. (V - f * M) \div 2^Value(shift) = Value(z) - f * M
    BY <1>3, <2>1, <2>2, RightMeans
  <2>4. PICK Z \in Int, x \in Int, q \in Int : Z = Value(z) /\ x = Value(z) - f * M /\ q = -f
    BY <2>2
  <2>5. Division(x, M, q, Z)
    BY <2>2, <2>4 DEF Division
  <2>6. x % M = Z
    BY <2>5, Divides
  <2>7. ~(Value(shift) >= WordBits)
    BY <1>5, ShiftAmount
  <2> QED
    BY <1>3, <2>1, <2>3, <2>4, <2>6, <2>7 DEF z
<1> QED
  BY <1>4, <1>5

\* How many bytes there are in a limb and in a word.
LEMMA ByteFacts ==
  /\ ByteBits \in Nat /\ ByteBits >= 1
  /\ LimbBytes \in Nat \ {0} /\ LimbBits = ByteBits * LimbBytes
  /\ WordBytes \in Nat /\ WordBytes >= 2 /\ WordBytes = Limbs * LimbBytes /\ WordBytes < Limb
  /\ Byte \in Nat /\ Byte >= 2 /\ Byte <= Limb /\ Digits(ByteBits) = 0..(Byte - 1)
  /\ WordBits = ByteBits * WordBytes
<1>1. ByteBits \in Nat /\ ByteBits >= 1 /\ LimbBits % ByteBits = 0
  BY LimbAssumption
<1>2. PICK m \in Int : m = LimbBytes /\ LimbBits = ByteBits * m
  <2>1. LimbBits \in Int /\ ByteBits \in Nat \ {0}
    BY <1>1, LimbFacts
  <2>2. PICK q \in Int, r \in Int :
          q = LimbBits \div ByteBits /\ r = LimbBits % ByteBits /\ LimbBits = ByteBits * q + r /\ 0 <= r /\ r < ByteBits
    BY <2>1, DivPick, Zenon
  <2> QED
    BY <1>1, <2>2 DEF LimbBytes
<1>3. m \in Nat \ {0} /\ m <= LimbBits /\ ByteBits <= LimbBits
  <2>1. PICK b \in Nat \ {0}, w \in Nat \ {0} : b = ByteBits /\ w = LimbBits
    BY <1>1, LimbFacts
  <2>2. w = b * m
    BY <1>2, <2>1
  <2>3. m >= 1
    BY <2>1, <2>2
  <2>4. PICK c \in Nat, k \in Nat : b = c + 1 /\ m = k + 1
    <3>1. b - 1 \in Nat /\ m - 1 \in Nat
      BY <2>3
    <3> QED
      BY <3>1
  <2>5. w = m + c * m /\ w = b + b * k /\ c * m >= 0 /\ b * k >= 0
    BY <2>2, <2>3, <2>4
  <2> QED
    BY <2>1, <2>3, <2>5
<1>4. WordBytes \in Nat /\ WordBytes >= 2 /\ WordBytes = Limbs * m /\ WordBytes < Limb
  <2>1. PICK n \in Nat, w \in Nat : n = Limbs /\ n >= 2 /\ w = LimbBits /\ WordBits = w * n /\ w * n < Limb
    BY LimbFacts
  <2>2. n * m \in Nat /\ n * m >= 2
    BY <1>3, <2>1
  <2>3. n * m <= w * n
    <3>1. PICK g \in Nat : w = m + g
      <4>1. w - m \in Nat
        BY <1>3, <2>1
      <4> QED
        BY <4>1
    <3>2. w * n = n * m + g * n /\ g * n >= 0
      BY <3>1
    <3> QED
      BY <3>2
  <2> QED
    BY <1>2, <2>1, <2>2, <2>3, LimbFacts DEF WordBytes
<1>5. Byte \in Nat /\ Byte >= 2 /\ Byte <= Limb
  <2>1. 2^ByteBits \in Nat /\ 2^ByteBits <= 2^LimbBits
    BY <1>1, <1>3, LimbFacts, PowerNat, PowerGrows
  <2>2. PICK one \in Nat : one = 1
    OBVIOUS
  <2>3. 2^one = 2 /\ 2^one <= 2^ByteBits
    <3>1. 2^one <= 2^ByteBits
      BY <1>1, <2>2, PowerGrows
    <3>2. PICK o \in Nat : o = 0
      OBVIOUS
    <3>3. 2^(o + 1) = 2 * 2^o /\ 2^o = 1
      <4>1. 2^(o + 1) = 2 * 2^o
        BY PowerNext
      <4>2. 2^(1 * 0) = 1
        BY Weight
      <4> QED
        BY <3>2, <4>1, <4>2
    <3> QED
      BY <2>2, <3>1, <3>2, <3>3
  <2> QED
    BY <2>1, <2>3, LimbFacts DEF Byte
<1>6. WordBits = ByteBits * WordBytes
  <2>1. Limbs * (ByteBits * m) = ByteBits * (Limbs * m)
    BY <1>1, LimbFacts
  <2> QED
    BY <1>2, <1>4, <2>1 DEF WordBits
<1> QED
  BY <1>1, <1>2, <1>3, <1>4, <1>5, <1>6 DEF Digits, Byte

\* Sgt256 compares signed numbers.
LEMMA SignedGreater ==
  ASSUME NEW a \in Word, NEW b \in Word
  PROVE  Sgt256(a, b) <=> Signed(Value(a)) > Signed(Value(b))
<1>1. Sgt256(a, b) <=> Slt256(b, a)
  BY Zenon DEF Sgt256, Slt256, Gt256, isNeg
<1>2. Signed(Value(a)) \in Int /\ Signed(Value(b)) \in Int
  <2>1. Modulus \in Int /\ Value(a) \in Int /\ Value(b) \in Int
    BY WordDigits, LimbFacts
  <2> QED
    BY <2>1 DEF Signed
<1>3. Slt256(b, a) <=> Signed(Value(b)) < Signed(Value(a))
  BY SignedLess
<1> QED
  BY <1>1, <1>2, <1>3

\* The bytes of a word are those of its limbs.
LEMMA ByteOfWord ==
  ASSUME NEW a \in Word, NEW k \in 0..(WordBytes - 1)
  PROVE  /\ k \div LimbBytes \in Index /\ k % LimbBytes \in 0..(LimbBytes - 1)
         /\ Digit(Value(a), k, ByteBits) = Digit(a[k \div LimbBytes], k % LimbBytes, ByteBits)
<1>1. LimbBytes \in Nat \ {0} /\ Limbs \in Nat /\ ByteBits \in Nat
  BY ByteFacts, LimbFacts
<1>2. /\ HasDigits(a, Limbs, LimbBits) /\ k \in 0..(Limbs * LimbBytes - 1)
      /\ ByteBits * LimbBytes = LimbBits /\ WordBytes = Limbs * LimbBytes
  BY WordDigits, ByteFacts
<1>a. Parted(Limbs, LimbBytes, ByteBits, LimbBits, WordBytes)
  BY <1>1, <1>2 DEF Parted
<1>3. Digit(Number(a, Limbs, LimbBits), k, ByteBits) = Digit(a[k \div LimbBytes], k % LimbBytes, ByteBits)
  BY <1>a, <1>2, DigitOfDigit
<1>4. k \div LimbBytes \in 0..(Limbs - 1) /\ k % LimbBytes \in 0..(LimbBytes - 1)
  BY <1>1, <1>2, GroupOf, Zenon
<1> QED
  BY <1>2, <1>3, <1>4 DEF Value, Index

\* Byte256 takes the digit of ByteBits bits, whatever limb it is in.
LEMMA ByteExact ==
  ASSUME NEW i \in Nat, NEW x \in Word
  PROVE  /\ Byte256(i, x) \in Word
         /\ Value(Byte256(i, x)) = IF i >= WordBytes THEN 0 ELSE Digit(Value(x), WordBytes - 1 - i, ByteBits)
<1>1. CASE i >= WordBytes
  <2>1. Byte256(i, x) = Zero
    BY <1>1, ByteFacts DEF Byte256
  <2> QED
    BY <1>1, <2>1, ZeroValue
<1>2. CASE ~(i >= WordBytes)
  <2>1. PICK k \in 0..(WordBytes - 1) : k = WordBytes - 1 - i
    BY <1>2, ByteFacts
  <2>2. Byte256(i, x) = FromU64(Digit(x[k \div LimbBytes], k % LimbBytes, ByteBits))
    BY <1>2, <2>1, ByteFacts DEF Byte256
  <2>3. Digit(Value(x), k, ByteBits) = Digit(x[k \div LimbBytes], k % LimbBytes, ByteBits)
    BY <2>1, ByteOfWord
  <2>4. PICK d \in Int : d = Digit(Value(x), k, ByteBits) /\ 0 <= d /\ d < Byte
    <3>1. Value(x) \in Int /\ k \in Nat
      BY WordDigits, ByteFacts
    <3>2. Digit(Value(x), k, ByteBits) \in Digits(ByteBits)
      BY <3>1, ByteFacts, DigitTyped
    <3> QED
      BY <3>2, ByteFacts
  <2>5. d < Modulus
    <3>1. 1 \in Nat /\ Limb = 2^LimbBits /\ Modulus = 2^WordBits /\ WordBits \in Nat /\ LimbBits <= WordBits
      <4>1. PICK n \in Nat, w \in Nat : n = Limbs /\ n >= 2 /\ w = LimbBits /\ WordBits = w * n
        BY LimbFacts
      <4>2. PICK m \in Nat : n = m + 1
        <5>1. n - 1 \in Nat
          BY <4>1
        <5> QED
          BY <5>1
      <4>3. w * n = w + w * m /\ w * m >= 0
        BY <4>1, <4>2
      <4> QED
        BY <4>1, <4>3, LimbFacts DEF Modulus
    <3>2. Limb <= Modulus
      BY <3>1, LimbFacts, PowerGrows
    <3> QED
      BY <2>4, <3>2, ByteFacts, LimbFacts
  <2>6. d % Modulus = d
    BY <2>4, <2>5, LimbFacts, DivSmall
  <2>7. FromU64(d) \in Word /\ Value(FromU64(d)) = d
    BY <2>6, FromU64Value
  <2> QED
    BY <1>2, <2>1, <2>2, <2>3, <2>4, <2>7
<1> QED
  BY <1>1, <1>2

\* A word's bytes.
Bytes == [1..WordBytes -> 0..(Byte - 1)]

\* The bytes of limb i, the least significant first.
LimbBytesOf(bytes, i) == [k \in 0..(LimbBytes - 1) |-> bytes[WordBytes - (i * LimbBytes + k)]]

\* The position of byte k of limb i.
LEMMA ByteAt ==
  ASSUME NEW i \in Index, NEW k \in 0..(LimbBytes - 1)
  PROVE  /\ WordBytes - (i * LimbBytes + k) \in 1..WordBytes
         /\ WordBytes - (WordBytes - (i * LimbBytes + k)) = i * LimbBytes + k
         /\ (i * LimbBytes + k) \div LimbBytes = i /\ (i * LimbBytes + k) % LimbBytes = k
<1>1. Limbs \in Nat /\ LimbBytes \in Nat \ {0} /\ i \in 0..(Limbs - 1) /\ WordBytes \in Nat /\ WordBytes = Limbs * LimbBytes
  BY LimbFacts, ByteFacts DEF Index
<1>a. \A g \in 0..(Limbs - 1), j \in 0..(LimbBytes - 1) :
        /\ g * LimbBytes + j \in 0..(Limbs * LimbBytes - 1) /\ g * LimbBytes \in Nat
        /\ (g * LimbBytes + j) \div LimbBytes = g /\ (g * LimbBytes + j) % LimbBytes = j
  <2>1. Limbs \in Nat /\ LimbBytes \in Nat \ {0}
    BY <1>1
  <2> QED
    BY <2>1, GroupOf, Zenon
<1>2. /\ i * LimbBytes + k \in 0..(Limbs * LimbBytes - 1)
      /\ (i * LimbBytes + k) \div LimbBytes = i /\ (i * LimbBytes + k) % LimbBytes = k
  BY <1>1, <1>a, Zenon
<1>3. PICK j \in 0..(WordBytes - 1) : j = i * LimbBytes + k
  BY <1>1, <1>2
<1>4. WordBytes - j \in 1..WordBytes /\ WordBytes - (WordBytes - j) = j
  BY <1>1, <1>3
<1> QED
  BY <1>2, <1>3, <1>4

\* FromBytesBE makes a word of bytes.
LEMMA FromBytes ==
  ASSUME NEW bytes \in Bytes
  PROVE  /\ \A i \in Index : HasDigits(LimbBytesOf(bytes, i), LimbBytes, ByteBits)
         /\ FromBytesBE(bytes) \in Word
<1>1. ASSUME NEW i \in Index PROVE HasDigits(LimbBytesOf(bytes, i), LimbBytes, ByteBits)
  <2>1. ASSUME NEW k \in 0..(LimbBytes - 1) PROVE LimbBytesOf(bytes, i)[k] \in 0..(Byte - 1)
    <3>1. WordBytes - (i * LimbBytes + k) \in 1..WordBytes
      BY ByteAt
    <3>2. LimbBytesOf(bytes, i)[k] = bytes[WordBytes - (i * LimbBytes + k)]
      BY DEF LimbBytesOf
    <3> QED
      BY <3>1, <3>2 DEF Bytes
  <2>2. Digits(ByteBits) = 0..(Byte - 1)
    BY ByteFacts
  <2> QED
    BY <2>1, <2>2 DEF HasDigits
<1>2. ASSUME NEW i \in Index PROVE Number(LimbBytesOf(bytes, i), LimbBytes, ByteBits) \in 0..(Limb - 1)
  <2>1. Number(LimbBytesOf(bytes, i), LimbBytes, ByteBits) \in 0..(2^(ByteBits * LimbBytes) - 1)
    BY <1>1, ByteFacts, NumberBounds
  <2> QED
    BY <2>1, ByteFacts, LimbFacts
<1>3. FromBytesBE(bytes) = [i \in Index |-> Number(LimbBytesOf(bytes, i), LimbBytes, ByteBits)]
  BY DEF FromBytesBE, LimbBytesOf
<1> QED
  BY <1>1, <1>2, <1>3 DEF Word

\* BytesBE gives bytes.
LEMMA ByteRead ==
  ASSUME NEW z \in Word
  PROVE  BytesBE(z) \in Bytes
<1>1. ASSUME NEW p \in 1..WordBytes
      PROVE Digit(z[(WordBytes - p) \div LimbBytes], (WordBytes - p) % LimbBytes, ByteBits) \in 0..(Byte - 1)
  <2>1. PICK k \in 0..(WordBytes - 1) : k = WordBytes - p
    BY ByteFacts
  <2>a. k \div LimbBytes \in Index /\ k % LimbBytes \in 0..(LimbBytes - 1)
    BY ByteOfWord
  <2>2. k \div LimbBytes \in Index /\ k % LimbBytes \in Nat
    BY <2>a, ByteFacts
  <2>3. z[k \div LimbBytes] \in Int
    BY <2>2, WordDigits
  <2>4. Digit(z[k \div LimbBytes], k % LimbBytes, ByteBits) \in Digits(ByteBits)
    BY <2>2, <2>3, ByteFacts, DigitTyped
  <2> QED
    BY <2>1, <2>4, ByteFacts
<1> QED
  BY <1>1 DEF BytesBE, Bytes

\* Writing a word and reading it back gives the word.
LEMMA WordRoundTrip ==
  ASSUME NEW z \in Word
  PROVE  FromBytesBE(BytesBE(z)) = z
<1>1. ASSUME NEW i \in Index PROVE Number(LimbBytesOf(BytesBE(z), i), LimbBytes, ByteBits) = z[i]
  <2>1. ASSUME NEW k \in 0..(LimbBytes - 1) PROVE LimbBytesOf(BytesBE(z), i)[k] = Digit(z[i], k, ByteBits)
    <3>1. PICK j : j = i * LimbBytes + k
      OBVIOUS
    <3>2. PICK p \in 1..WordBytes : p = WordBytes - j /\ WordBytes - p = j /\ j \div LimbBytes = i /\ j % LimbBytes = k
      BY <3>1, ByteAt
    <3>3. LimbBytesOf(BytesBE(z), i)[k] = BytesBE(z)[p]
      BY <3>1, <3>2 DEF LimbBytesOf
    <3>4. BytesBE(z)[p] = Digit(z[j \div LimbBytes], j % LimbBytes, ByteBits)
      BY <3>2 DEF BytesBE
    <3> QED
      BY <3>2, <3>3, <3>4
  <2>2. z[i] \in Int /\ 0 <= z[i] /\ z[i] < Limb
    BY WordDigits, LimbFacts
  <2>3. Number(LimbBytesOf(BytesBE(z), i), LimbBytes, ByteBits) = z[i] % 2^(ByteBits * LimbBytes)
    BY <2>1, <2>2, ByteFacts, DigitsNumber
  <2>4. z[i] % Limb = z[i]
    BY <2>2, LimbFacts, DivSmall, SMTT(30)
  <2> QED
    BY <2>3, <2>4, ByteFacts, LimbFacts
<1>2. FromBytesBE(BytesBE(z)) = [i \in Index |-> Number(LimbBytesOf(BytesBE(z), i), LimbBytes, ByteBits)]
  BY DEF FromBytesBE, LimbBytesOf
<1>3. z = [i \in Index |-> z[i]]
  BY DEF Word
<1> QED
  BY <1>1, <1>2, <1>3

\* And bytes read as a word are written as they were.
LEMMA BytesRoundTrip ==
  ASSUME NEW bytes \in Bytes
  PROVE  BytesBE(FromBytesBE(bytes)) = bytes
<1> DEFINE z == FromBytesBE(bytes)
<1>1. ASSUME NEW p \in 1..WordBytes PROVE BytesBE(z)[p] = bytes[p]
  <2>1. PICK j \in 0..(WordBytes - 1) : j = WordBytes - p /\ p = WordBytes - j
    BY ByteFacts
  <2>2. PICK i \in Index, k \in 0..(LimbBytes - 1) : i = j \div LimbBytes /\ k = j % LimbBytes /\ j = i * LimbBytes + k
    <3>1. Limbs \in Nat /\ LimbBytes \in Nat \ {0} /\ j \in 0..(Limbs * LimbBytes - 1)
      BY ByteFacts, LimbFacts
    <3>2. j \div LimbBytes \in 0..(Limbs - 1) /\ j % LimbBytes \in 0..(LimbBytes - 1) /\ j = (j \div LimbBytes) * LimbBytes + (j % LimbBytes)
      BY <3>1, GroupOf, Zenon
    <3> QED
      BY <3>2, Zenon DEF Index
  <2>3. BytesBE(z)[p] = Digit(z[i], k, ByteBits)
    BY <2>1, <2>2 DEF BytesBE
  <2>4. z[i] = Number(LimbBytesOf(bytes, i), LimbBytes, ByteBits)
    BY DEF FromBytesBE, LimbBytesOf
  <2>5. HasDigits(LimbBytesOf(bytes, i), LimbBytes, ByteBits) /\ LimbBytes \in Nat /\ ByteBits \in Nat
    BY FromBytes, ByteFacts
  <2>6. Digit(Number(LimbBytesOf(bytes, i), LimbBytes, ByteBits), k, ByteBits) = LimbBytesOf(bytes, i)[k]
    BY <2>5, NumberDigit
  <2>7. LimbBytesOf(bytes, i)[k] = bytes[p]
    BY <2>1, <2>2 DEF LimbBytesOf
  <2> QED
    BY <2>3, <2>4, <2>6, <2>7
<1>2. BytesBE(z) = [p \in 1..WordBytes |-> BytesBE(z)[p]] /\ bytes = [p \in 1..WordBytes |-> bytes[p]]
  BY DEF BytesBE, Bytes
<1> HIDE DEF z
<1>3. BytesBE(z) = bytes
  BY <1>1, <1>2
<1> QED
  BY <1>3 DEF z

\* The number that is meant by a word's lowest bytes, the highest bit of byte b being
\* the sign.
Extended(b, V) ==
  IF b >= WordBytes - 1 THEN V
  ELSE LET range == 2^(ByteBits * (b + 1))
           low == V % range
       IN  (IF low >= range \div 2 THEN low - range ELSE low) % Modulus

\* SignExtend256 is the number that is meant by the lowest bytes, in two's complement.
LEMMA SignExact ==
  ASSUME NEW b \in Nat, NEW x \in Word
  PROVE  SignExtend256(b, x) \in Word /\ Value(SignExtend256(b, x)) = Extended(b, Value(x))
<1>1. CASE b >= WordBytes - 1
  BY <1>1 DEF SignExtend256, Extended
<1>2. CASE ~(b >= WordBytes - 1)
  <2> DEFINE w == LimbBits
             z == SignExtend256(b, x)
  <2>1. PICK t \in 0..(WordBits - 1) : t = b * ByteBits + ByteBits - 1 /\ t + 1 = ByteBits * (b + 1)
    <3>1. PICK bb \in Nat, W \in Nat, g \in Nat : bb = ByteBits /\ W = WordBytes /\ W = b + 1 + g /\ WordBits = bb * W /\ bb >= 1
      <4>1. WordBytes \in Nat /\ ByteBits \in Nat /\ WordBytes - (b + 1) \in Nat /\ WordBytes = b + 1 + (WordBytes - (b + 1))
        BY <1>2, ByteFacts
      <4>2. WordBits = ByteBits * WordBytes /\ ByteBits >= 1
        BY ByteFacts
      <4> QED
        BY <4>1, <4>2, Zenon
    <3>2. bb * W = bb * (b + 1) + bb * g /\ bb * (b + 1) = b * bb + bb /\ bb * g >= 0 /\ b * bb >= 0
      BY <3>1
    <3>3. b * bb + bb - 1 \in 0..(WordBits - 1) /\ (b * bb + bb - 1) + 1 = bb * (b + 1)
      <4>1. PICK A \in Int, C \in Int : A = b * bb /\ C = bb * g
        OBVIOUS
      <4>2. A \in Nat /\ C \in Nat /\ WordBits = A + bb + C /\ bb * (b + 1) = A + bb
        BY <3>1, <3>2, <4>1
      <4> QED
        BY <3>1, <4>1, <4>2
    <3> QED
      BY <3>1, <3>3
  <2>2. PICK m \in Index, s \in 0..(LimbBits - 1) :
           /\ m = t \div LimbBits /\ s = t % LimbBits
           /\ 2^s \in Nat \ {0} /\ 2^(LimbBits - s) \in Nat \ {0} /\ 2^s * 2^(LimbBits - s) = Limb
           /\ 2^t = 2^(LimbBits * m) * 2^s
    BY ShiftParts, Zenon
  <2>3. PICK h \in Nat \ {0}, B \in Nat \ {0}, k \in Nat \ {0}, e \in Nat \ {0}, R \in Nat \ {0} :
          /\ h = 2^s /\ B = 2^(w * m) /\ k = 2^(s + 1) /\ R = 2^(t + 1) /\ e = 2^(w - s - 1)
          /\ k = 2 * h /\ k * e = Limb /\ R = B * k /\ 2^t = B * h /\ R = 2 * 2^t
    <3>1. m \in Nat /\ w \in Nat /\ s \in Nat /\ t \in Nat /\ w - s - 1 \in Nat /\ (s + 1) + (w - s - 1) = w
      BY LimbFacts DEF Index
    <3>2. 2^s \in Nat \ {0} /\ 2^(w * m) \in Nat \ {0} /\ 2^(w - s - 1) \in Nat \ {0}
      BY <3>1, Weight, PowerNat
    <3>3. 2^(s + 1) = 2 * 2^s /\ 2^(t + 1) = 2 * 2^t
      BY <3>1, PowerNext
    <3>4. 2^(s + 1) * 2^(w - s - 1) = Limb
      BY <3>1, LimbFacts, PowerAdd
    <3>5. PICK h \in Nat \ {0}, B \in Nat \ {0} : h = 2^s /\ B = 2^(w * m)
      BY <3>2
    <3>6. 2^t = B * h
      BY <2>2, <3>5
    <3>7. 2 * h \in Nat \ {0} /\ 2 * (B * h) = B * (2 * h) /\ B * (2 * h) \in Nat \ {0}
      OBVIOUS
    <3>8. 2^(s + 1) \in Nat \ {0} /\ 2^(t + 1) \in Nat \ {0} /\ 2^(s + 1) = 2 * h /\ 2^(t + 1) = B * 2^(s + 1) /\ 2^(t + 1) = 2 * 2^t
      BY <3>3, <3>5, <3>6, <3>7
    <3> QED
      BY <3>2, <3>4, <3>5, <3>6, <3>8, Zenon
  <2>4. z = [i \in Index |->
               IF i < m THEN x[i]
               ELSE IF i = m THEN (x[i] % k) + (IF Bit(x, t) = 1 THEN Limb - k ELSE 0)
               ELSE IF Bit(x, t) = 1 THEN Limb - 1 ELSE 0]
    BY <1>2, <2>1, <2>2, <2>3 DEF SignExtend256
  <2> HIDE DEF z
  <2>5. PICK f \in {0, 1} : f = IF Bit(x, t) = 1 THEN 1 ELSE 0
    OBVIOUS
  <2>6. PICK n \in Nat : n = Limbs - (m + 1) /\ (m + 1) + n = Limbs /\ m \in Nat /\ w \in Nat /\ m + 1 \in Nat
    BY LimbFacts DEF Index
  <2>7. PICK a \in Int, q \in Int, r \in Int :
           a = x[m] /\ 0 <= a /\ a < Limb /\ a = k * q + r /\ 0 <= r /\ r < k /\ r = a % k /\ 0 <= q
    <3>1. x[m] \in Int /\ 0 <= x[m] /\ x[m] < Limb
      BY WordDigits, LimbFacts
    <3>2. PICK a \in Int : a = x[m]
      BY <3>1
    <3>3. PICK q \in Int, r \in Int : q = a \div k /\ r = a % k /\ a = k * q + r /\ 0 <= r /\ r < k
      BY DivPick, Zenon
    <3>4. 0 <= q
      <4>1. SUFFICES ASSUME q <= -1 PROVE FALSE
        OBVIOUS
      <4>2. PICK u \in Nat : q = -1 - u
        <5>1. -1 - q \in Nat
          BY <4>1
        <5> QED
          BY <5>1
      <4>3. k * (-1 - u) = -k - k * u /\ k * u >= 0
        OBVIOUS
      <4>4. PICK A \in Int : A = k * u
        OBVIOUS
      <4>5. a = -k - A + r /\ A >= 0
        BY <3>3, <4>2, <4>3, <4>4
      <4> QED
        BY <3>1, <3>2, <3>3, <4>5
    <3> QED
      BY <3>1, <3>2, <3>3, <3>4
  <2>8. z[m] = r + f * (Limb - k) /\ z[m] \in 0..(Limb - 1)
    <3>1. m \in Index /\ ~(m < m)
      BY <2>6
    <3>2. z[m] = (x[m] % k) + (IF Bit(x, t) = 1 THEN Limb - k ELSE 0)
      BY <2>4, <3>1
    <3>3. Limb \in Nat /\ k <= Limb
      <4>1. PICK g \in Nat : e = g + 1
        <5>1. e - 1 \in Nat
          OBVIOUS
        <5> QED
          BY <5>1
      <4>2. k * e = k + k * g /\ k * g >= 0
        BY <4>1
      <4> QED
        BY <2>3, <4>2, LimbFacts, SMTT(30)
    <3>a. x[m] % k = r
      BY <2>7, Zenon
    <3>b. (IF Bit(x, t) = 1 THEN Limb - k ELSE 0) = f * (Limb - k)
      BY <2>5, <3>3
    <3>4. z[m] = r + f * (Limb - k)
      BY <3>a, <3>b, <3>2
    <3>5. f * (Limb - k) \in 0..(Limb - k)
      BY <3>3
    <3> QED
      BY <2>7, <3>3, <3>4, <3>5
  <2>9. \A i \in Index : /\ i < m => z[i] = x[i]
                         /\ i > m => z[i] = f * (Limb - 1)
    <3>1. ASSUME NEW i \in Index PROVE /\ i < m => z[i] = x[i]
                                       /\ i > m => z[i] = f * (Limb - 1)
      <4>1. i \in Int /\ m \in Int /\ Limb \in Int
        BY LimbFacts DEF Index
      <4>2. z[i] = IF i < m THEN x[i]
               ELSE IF i = m THEN (x[i] % k) + (IF Bit(x, t) = 1 THEN Limb - k ELSE 0)
               ELSE IF Bit(x, t) = 1 THEN Limb - 1 ELSE 0
        BY <2>4
      <4>3. (IF Bit(x, t) = 1 THEN Limb - 1 ELSE 0) = f * (Limb - 1)
        BY <2>5, <4>1
      <4> QED
        BY <4>1, <4>2, <4>3
    <3> QED
      BY <3>1
  <2>10. z \in Word
    <3>1. ASSUME NEW i \in Index PROVE z[i] \in 0..(Limb - 1)
      <4>1. i \in Int /\ m \in Int /\ f * (Limb - 1) \in 0..(Limb - 1) /\ x[i] \in 0..(Limb - 1)
        BY LimbFacts, WordDigits DEF Index
      <4> QED
        BY <2>8, <2>9, <4>1
    <3>2. z = [i \in Index |-> z[i]]
      BY <2>4
    <3> QED
      BY <3>1, <3>2, IsWord
  <2>11. HasInts(x, (m + 1) + n) /\ HasInts(z, (m + 1) + n) /\ HasInts(x, m + 1) /\ HasInts(z, m + 1) /\ HasDigits(x, m, w) /\ HasInts(x, m)
    <3>1. HasInts(x, Limbs) /\ HasInts(z, Limbs) /\ HasDigits(x, Limbs, w)
      BY <2>10, WordDigits
    <3>2. Limbs \in Nat /\ m + 1 <= Limbs /\ m <= Limbs
      BY <2>6
    <3>3. HasInts(x, m + 1) /\ HasInts(z, m + 1)
      BY <2>6, <3>1, <3>2, Fewer
    <3>4. HasDigits(x, m, w) /\ HasInts(x, m)
      BY <2>6, <3>1, <3>2, Fewer
    <3> QED
      BY <2>6, <3>1, <3>3, <3>4
  <2>12. PICK l \in Int : l = Number(x, m, w) /\ Number(z, m, w) = l /\ 0 <= l /\ l < B
    <3>1. Number(x, m, w) \in 0..(B - 1)
      BY <2>3, <2>6, <2>11, NumberBounds
    <3>2. \A i \in 0..(m - 1) : z[i] = x[i]
      <4>1. ASSUME NEW i \in 0..(m - 1) PROVE z[i] = x[i]
        <5>1. i \in Index /\ i < m
          BY <2>6, LimbFacts DEF Index
        <5> QED
          BY <2>9, <5>1
      <4> QED
        BY <4>1
    <3>3. Number(z, m, w) = Number(x, m, w)
      BY <2>6, <2>11, <3>2, NumberSame
    <3> QED
      BY <3>1, <3>3
  <2> DEFINE u == Above(z, m + 1, n)
             y == Above(x, m + 1, n)
  <2>13. PICK P \in Nat \ {0}, E \in Nat \ {0} : P = 2^(w * (m + 1)) /\ E = 2^(w * n) /\ P = B * Limb /\ P * E = Modulus
    <3>1. 2^(w * (m + 1)) \in Nat \ {0} /\ 2^(w * n) \in Nat \ {0} /\ 2^(w * (m + 1)) = 2^(w * m) * 2^w
      BY <2>6, Weight
    <3>2. w * (m + 1) \in Nat /\ w * n \in Nat /\ w * (m + 1) + w * n = w * Limbs
      BY <2>6
    <3>3. 2^(w * (m + 1)) * 2^(w * n) = Modulus
      BY <3>2, PowerAdd, LimbFacts
    <3> QED
      BY <2>3, <3>1, <3>3, LimbFacts
  <2>14. Number(u, n, w) = f * (E - 1)
    <3>1. ASSUME NEW i \in 0..(n - 1) PROVE u[i] = f * (Limb - 1)
      <4>1. m + 1 + i \in Index /\ m + 1 + i > m
        BY <2>6, LimbFacts DEF Index
      <4>2. u[i] = z[m + 1 + i]
        BY DEF Above
      <4> QED
        BY <2>9, <4>1, <4>2
    <3> HIDE DEF u
    <3>2. CASE f = 0
      <4>1. \A i \in 0..(n - 1) : u[i] = 0
        BY <3>1, <3>2, LimbFacts
      <4>2. Number(u, n, w) = 0
        BY <2>6, <4>1, NumberZeros
      <4> QED
        BY <3>2, <4>2
    <3>3. CASE f = 1
      <4>1. \A i \in 0..(n - 1) : u[i] = 2^w - 1
        BY <3>1, <3>3, LimbFacts
      <4>2. Number(u, n, w) = E - 1
        BY <2>6, <2>13, <4>1, NumberFull
      <4> QED
        BY <3>3, <4>2
    <3> QED
      BY <3>2, <3>3
  <2>15. Number(z, m + 1, w) = l + z[m] * B /\ Number(x, m + 1, w) = l + a * B
    <3>1. Number(z, m + 1, w) = Number(z, m, w) + z[m] * 2^(w * m) /\ Number(x, m + 1, w) = Number(x, m, w) + x[m] * 2^(w * m)
      BY <2>6, <2>11, NumberIs
    <3> QED
      BY <2>3, <2>7, <2>12, <3>1
  <2>16. /\ Value(z) = Number(z, m + 1, w) + P * Number(u, n, w)
         /\ Value(x) = Number(x, m + 1, w) + P * Number(y, n, w) /\ Number(y, n, w) \in Int
    <3>1. /\ Number(z, (m + 1) + n, w) = Number(z, m + 1, w) + 2^(w * (m + 1)) * Number(u, n, w)
      BY <2>6, <2>11, NumberSplit
    <3>2. /\ Number(x, (m + 1) + n, w) = Number(x, m + 1, w) + 2^(w * (m + 1)) * Number(y, n, w) /\ Number(y, n, w) \in Int
      BY <2>6, <2>11, NumberSplit
    <3> QED
      BY <2>6, <2>13, <3>1, <3>2 DEF Value
  <2> HIDE DEF u, y
  <2>17. PICK V \in Int, Z \in Int, H \in Int, M \in Nat \ {0}, L \in Nat \ {0}, G \in Int :
           /\ V = Value(x) /\ Z = Value(z) /\ H = Number(y, n, w) /\ M = Modulus /\ L = Limb /\ G = l + B * r
           /\ V = (l + a * B) + P * H
           /\ Z = (l + (r + f * (L - k)) * B) + P * (f * (E - 1))
           /\ 0 <= Z /\ Z < M
    <3>1. Value(x) \in Int /\ Value(z) \in Int /\ Modulus \in Nat \ {0} /\ Limb \in Nat \ {0} /\ l + B * r \in Int /\ 0 <= Value(z) /\ Value(z) < Modulus
      BY <2>10, WordDigits, LimbFacts
    <3>2. Value(x) = (l + a * B) + P * Number(y, n, w) /\ Value(z) = (l + (r + f * (Limb - k)) * B) + P * (f * (E - 1))
      BY <2>8, <2>14, <2>15, <2>16
    <3> QED
      BY <2>16, <3>1, <3>2, Zenon
  <2>18. V = R * (q + e * H) + G /\ 0 <= G /\ G < R
    <3>1. R = B * k /\ P = B * L /\ L = k * e /\ a = k * q + r
      BY <2>3, <2>7, <2>13, <2>17
    <3>2. P * H = B * k * e * H /\ a * B = B * k * q + B * r /\ (B * k) * (q + e * H) = B * k * q + B * k * e * H
      <4>1. P = B * k * e
        BY <3>1
      <4> QED
        BY <3>1, <4>1
    <3>3. B * r >= 0 /\ B * r + B <= B * k
      <4>1. PICK g \in Nat : k = r + 1 + g
        <5>1. k - r - 1 \in Nat
          BY <2>7
        <5> QED
          BY <5>1
      <4>a. r \in Nat
        BY <2>7
      <4>2. B * (r + 1 + g) = B * r + B + B * g /\ B * g >= 0 /\ B * r >= 0
        BY <4>a
      <4> QED
        BY <4>1, <4>2
    <3>4. PICK A1 \in Int, A2 \in Int, A3 \in Int, A4 \in Int : A1 = B * k * e * H /\ A2 = B * k * q /\ A3 = B * r /\ A4 = B * k
      OBVIOUS
    <3>5. R * (q + e * H) = A2 + A1
      BY <3>1, <3>2, <3>4
    <3>6. V = (l + (A2 + A3)) + A1 /\ G = l + A3 /\ A3 >= 0 /\ A3 + B <= A4 /\ R = A4
      BY <2>17, <3>1, <3>2, <3>3, <3>4
    <3> QED
      BY <2>12, <3>5, <3>6
  <2>19. V % R = G
    <3>1. PICK c \in Int : c = q + e * H
      OBVIOUS
    <3>2. Division(V, R, c, G)
      BY <2>18, <3>1 DEF Division
    <3> QED
      BY <3>2, Divides
  <2>20. R \div 2 = B * h /\ B * h \in Nat \ {0}
    <3>1. PICK o \in Int, c \in Int, two \in Nat \ {0} : o = 0 /\ c = B * h /\ two = 2
      OBVIOUS
    <3>2. R = two * c
      BY <2>3, <3>1
    <3>3. Division(R, two, c, o)
      BY <3>1, <3>2 DEF Division
    <3>4. R \div two = c
      BY <3>3, Divides
    <3> QED
      BY <3>1, <3>4
  <2>21. (f = 1) <=> (G >= R \div 2)
    <3>1. Digit(V, t, 1) = Bit(x, t)
      BY <2>17, BitOfWord
    <3>2. PICK p \in Nat \ {0}, two \in Nat \ {0} : p = 2^t /\ two = 2 /\ p = B * h
      BY <2>3, <2>20
    <3>3. Digit(V, t, 1) = (V \div p) % two
      <4>1. 1 * t = t /\ 2^1 = 2
        <5>1. PICK o \in Nat : o = 0
          OBVIOUS
        <5>2. 2^(o + 1) = 2 * 2^o
          BY PowerNext
        <5>3. 2^(1 * 0) = 1
          BY Weight
        <5>4. 1 * t = t
          OBVIOUS
        <5> QED
          BY <5>1, <5>2, <5>3, <5>4
      <4> QED
        BY <3>2, <4>1 DEF Digit
    <3>4. PICK g \in Int, c \in Int : g = V \div p /\ c = V % p /\ V = p * g + c /\ 0 <= c /\ c < p
      BY DivPick, Zenon
    <3>5. PICK j \in Int, d \in Int : j = g \div two /\ d = g % two /\ g = two * j + d /\ 0 <= d /\ d < two
      BY DivPick, Zenon
    <3>6. d \in 0..1 /\ R = 2 * p
      BY <2>3, <3>2, <3>5
    <3>a. (d = 0 => p * d = 0) /\ (d = 1 => p * d = p) /\ p * d \in Int
      BY <3>6
    <3>7. PICK v \in Int : v = c + p * d
      BY <3>a
    <3>8. Division(V, R, j, v)
      <4>1. V = p * (2 * j + d) + c
        BY <3>2, <3>4, <3>5
      <4>2. p * (2 * j + d) = (2 * p) * j + p * d
        OBVIOUS
      <4>3. 0 <= v /\ v < 2 * p
        BY <3>4, <3>6, <3>7, <3>a
      <4> QED
        BY <3>6, <3>7, <4>1, <4>2, <4>3 DEF Division
    <3>9. G = c + p * d
      BY <2>19, <3>7, <3>8, Divides
    <3>10. d = 1 <=> f = 1
      <4>1. Bit(x, t) = d
        BY <3>1, <3>3, <3>4, <3>5, Zenon
      <4> QED
        BY <2>5, <3>6, <4>1
    <3>11. d = 1 <=> G >= p
      BY <3>4, <3>6, <3>9, <3>a
    <3> QED
      BY <2>20, <3>2, <3>10, <3>11
  <2>22. Z = G + f * (M - R)
    <3>1. R = B * k /\ P = B * L /\ P * E = M
      BY <2>3, <2>13, <2>17
    <3>2. CASE f = 0
      BY <2>17, <3>2
    <3>3. CASE f = 1
      <4>1. Z = (l + (r + (L - k)) * B) + P * (E - 1)
        BY <2>17, <3>3
      <4>2. (r + (L - k)) * B = B * r + B * L - B * k /\ P * (E - 1) = P * E - P
        OBVIOUS
      <4>3. PICK A1 \in Int, A2 \in Int, A3 \in Int, A4 \in Int : A1 = B * r /\ A2 = B * L /\ A3 = B * k /\ A4 = P * E
        OBVIOUS
      <4>4. Z = (l + (A1 + A2 - A3)) + (A4 - A2) /\ G = l + A1 /\ A4 = M /\ R = A3
        BY <2>17, <3>1, <4>1, <4>2, <4>3
      <4> QED
        BY <3>3, <4>4
    <3> QED
      BY <3>2, <3>3
  <2>23. (IF G >= R \div 2 THEN G - R ELSE G) % M = Z
    <3>a. (IF G >= R \div 2 THEN G - R ELSE G) \in Int
      BY <2>20
    <3>b. -f \in Int
      OBVIOUS
    <3>1. PICK v \in Int, c \in Int : v = (IF G >= R \div 2 THEN G - R ELSE G) /\ c = -f
      BY <3>a, <3>b, Zenon
    <3>2. v = M * c + Z
      BY <2>21, <2>22, <3>1
    <3>3. Division(v, M, c, Z)
      BY <2>17, <3>2 DEF Division
    <3> QED
      BY <3>1, <3>3, Divides
  <2>24. 2^(ByteBits * (b + 1)) = R
    BY <2>1, <2>3
  <2> QED
    BY <1>2, <2>10, <2>17, <2>19, <2>23, <2>24 DEF Extended, z
<1> QED
  BY <1>1, <1>2

\* Factors may be reduced.
LEMMA ModTimes ==
  ASSUME NEW M \in Nat \ {0}, NEW a \in Int, NEW b \in Int
  PROVE  ((a % M) * b) % M = (a * b) % M
<1>1. PICK q \in Int, r \in Int : q = a \div M /\ r = a % M /\ a = M * q + r /\ 0 <= r /\ r < M
  BY DivPick, Zenon
<1>2. PICK x \in Int, y \in Int : x = r * b /\ y = a * b
  OBVIOUS
<1>3. PICK c \in Int, d \in Int : c = x \div M /\ d = x % M /\ x = M * c + d /\ 0 <= d /\ d < M
  BY DivPick, Zenon
<1>4. PICK g \in Int : g = q * b + c
  OBVIOUS
<1>5. y = M * g + d
  <2>1. y = (M * q + r) * b
    BY <1>1, <1>2
  <2>2. (M * q + r) * b = M * (q * b) + r * b /\ M * (q * b + c) = M * (q * b) + M * c
    OBVIOUS
  <2>3. PICK A \in Int, B \in Int : A = M * (q * b) /\ B = M * c
    OBVIOUS
  <2>4. y = A + x /\ x = B + d /\ M * g = A + B
    BY <1>2, <1>3, <1>4, <2>1, <2>2, <2>3
  <2> QED
    BY <2>4
<1>6. Division(y, M, g, d)
  BY <1>3, <1>5 DEF Division
<1>7. y % M = d
  BY <1>6, Divides
<1> QED
  BY <1>1, <1>2, <1>3, <1>7

\* The powers up to the n-th.
Powers(x, n) == LET p[k \in 0..n] == IF k = 0 THEN 1 ELSE (x * p[k - 1]) % Modulus IN p

\* Remainders by the modulus.
LEMMA Residues ==
  /\ Modulus \in Nat \ {0} /\ 1 \in 0..(Modulus - 1) /\ 0 \in 0..(Modulus - 1)
  /\ \A x \in Int : x % Modulus \in 0..(Modulus - 1)
<1>1. Modulus \in Nat \ {0} /\ Modulus >= 2
  <2>1. FromU64(1) \in Word
    BY FromU64Value
  <2>2. Modulus = 2 * (Modulus \div 2) /\ Modulus \div 2 \in Nat \ {0}
    BY <2>1, NegativeExact
  <2> QED
    BY <2>2
<1>2. ASSUME NEW x \in Int PROVE x % Modulus \in 0..(Modulus - 1)
  BY <1>1, DivMod
<1> QED
  BY <1>1, <1>2


\* The loop of powers.
LEMMA PowersAre ==
  ASSUME NEW n \in Nat, NEW x \in Int
  PROVE  /\ Powers(x, n)[0] = 1
         /\ \A k \in 1..n : Powers(x, n)[k] = (x * Powers(x, n)[k - 1]) % Modulus
         /\ \A k \in 0..n : Powers(x, n)[k] \in 0..(Modulus - 1)
<1> DEFINE f == Powers(x, n)
           T == 0..(Modulus - 1)
           E(k, y) == (x * y) % Modulus
           Loop(g) == [k \in 0..n |-> IF k = 0 THEN 1 ELSE E(k, g[k - 1])]
           step == [k \in 1..n |-> [y \in T |-> E(k, y)]]
<1>1. ASSUME NEW k \in 1..n, NEW y \in T PROVE E(k, y) \in T
  BY Residues
<1>2. 1 \in T /\ n \in Nat
  BY Residues
<1>3. f = CHOOSE g : g = Loop(g)
  BY DEF Powers
<1> HIDE DEF E, T
<1>4. step \in [1..n -> [T -> T]] /\ \A k \in 1..n, y \in T : step[k][y] = E(k, y)
  BY <1>1
<1> HIDE DEF step, f
<1>5. PICK g : IsLoop(g, T, n, 1, step)
  BY <1>2, <1>4, Rounds, Zenon
<1>6. g = Loop(g)
  <2>1. ASSUME NEW k \in 0..n PROVE g[k] = Loop(g)[k]
    <3>1. CASE k = 0
      BY <1>5, <3>1 DEF IsLoop
    <3>2. CASE k # 0
      <4>1. k \in 1..n /\ k - 1 \in 0..n
        BY <1>2, <3>2
      <4>2. g[k] = E(k, g[k - 1])
        BY <1>4, <1>5, <4>1 DEF IsLoop
      <4> QED
        BY <3>2, <4>2
    <3> QED
      BY <3>1, <3>2
  <2> QED
    BY <1>5, <2>1 DEF IsLoop
<1>7. f = Loop(f)
  <2> HIDE DEF Loop
  <2> QED
    BY <1>3, <1>6
<1>8. f[0] = 1 /\ \A k \in 1..n : f[k] = E(k, f[k - 1])
  <2>1. ASSUME NEW k \in 0..n PROVE f[k] = IF k = 0 THEN 1 ELSE E(k, f[k - 1])
    BY <1>7
  <2>2. 0 \in 0..n /\ \A k \in 1..n : k \in 0..n /\ k # 0
    BY <1>2
  <2> QED
    BY <2>1, <2>2, Zenon
<1>9. \A k \in 0..n : f[k] \in T
  <2>1. f[0] \in T
    BY <1>2, <1>8
  <2>2. ASSUME NEW k \in 1..n, f[k - 1] \in T PROVE f[k] \in T
    BY <1>1, <1>8, <2>2
  <2> QED
    BY <1>2, <2>1, <2>2, RoundsIn
<1> QED
  BY <1>8, <1>9 DEF f, T, E

\* Powers modulo 2 to the bits of a word, one factor at a time.
LEMMA PowerStep ==
  ASSUME NEW x \in Int, NEW n \in Nat
  PROVE  /\ Power(x, n) \in 0..(Modulus - 1)
         /\ Power(x, 0) = 1
         /\ Power(x, n + 1) = (x * Power(x, n)) % Modulus
<1>1. ASSUME NEW m \in Nat
      PROVE  /\ Power(x, m) = Powers(x, m)[m]
             /\ Powers(x, m)[0] = 1
             /\ \A k \in 1..m : Powers(x, m)[k] = (x * Powers(x, m)[k - 1]) % Modulus
             /\ \A k \in 0..m : Powers(x, m)[k] \in 0..(Modulus - 1)
  <2>1. Power(x, m) = Powers(x, m)[m]
    BY DEF Power, Powers
  <2>2. /\ Powers(x, m)[0] = 1
        /\ \A k \in 1..m : Powers(x, m)[k] = (x * Powers(x, m)[k - 1]) % Modulus
        /\ \A k \in 0..m : Powers(x, m)[k] \in 0..(Modulus - 1)
    BY PowersAre
  <2> QED
    BY <2>1, <2>2
<1> DEFINE I == {k \in 0..n : Powers(x, n)[k] = Powers(x, n + 1)[k]}
<1>2. 0 \in I
  BY <1>1
<1>3. ASSUME NEW k \in 0..(n - 1), k \in I PROVE k + 1 \in I
  <2>1. k + 1 \in 1..n /\ k + 1 \in 1..(n + 1) /\ (k + 1) - 1 = k /\ n + 1 \in Nat
    OBVIOUS
  <2>2. Powers(x, n)[k + 1] = (x * Powers(x, n)[(k + 1) - 1]) % Modulus
    BY <1>1, <2>1
  <2>3. Powers(x, n + 1)[k + 1] = (x * Powers(x, n + 1)[(k + 1) - 1]) % Modulus
    BY <1>1, <2>1
  <2> QED
    BY <1>3, <2>1, <2>2, <2>3
<1> HIDE DEF I
<1>4. n \in I
  BY <1>2, <1>3, Climb
<1>5. Powers(x, n)[n] = Powers(x, n + 1)[n]
  BY <1>4 DEF I
<1>6. Powers(x, n + 1)[n + 1] = (x * Powers(x, n + 1)[(n + 1) - 1]) % Modulus
  BY <1>1
<1>7. (n + 1) - 1 = n /\ n \in 0..n /\ 0 \in Nat /\ n + 1 \in Nat
  OBVIOUS
<1> QED
  BY <1>1, <1>5, <1>6, <1>7

\* Exponents add.
LEMMA PowerSum ==
  ASSUME NEW x \in Int, NEW m \in Nat, NEW n \in Nat
  PROVE  Power(x, m + n) = (Power(x, m) * Power(x, n)) % Modulus
<1> DEFINE I == {k \in 0..m : Power(x, k + n) = (Power(x, k) * Power(x, n)) % Modulus}
<1>1. PICK y \in Int : y = Power(x, n) /\ 0 <= y /\ y < Modulus
  BY PowerStep, Residues, SMTT(30)
<1>2. 0 \in I
  <2>1. 1 * y = y /\ 0 + n = n
    OBVIOUS
  <2>2. y % Modulus = y
    BY <1>1, Residues, DivSmall
  <2> QED
    BY <1>1, <2>1, <2>2, PowerStep
<1>3. ASSUME NEW k \in 0..(m - 1), k \in I PROVE k + 1 \in I
  <2>1. k \in Nat /\ k + n \in Nat /\ (k + 1) + n = (k + n) + 1
    OBVIOUS
  <2>2. PICK a \in Int : a = Power(x, k)
    BY <2>1, PowerStep, Residues
  <2>3. Power(x, k + n) = (a * y) % Modulus
    BY <1>1, <1>3, <2>2
  <2>4. Power(x, (k + n) + 1) = (x * Power(x, k + n)) % Modulus
    BY <2>1, PowerStep
  <2>5. Power(x, k + 1) = (x * a) % Modulus
    BY <2>1, <2>2, PowerStep
  <2>6. PICK b \in Int, c \in Int : b = a * y /\ c = x * a
    OBVIOUS
  <2>7. ((b % Modulus) * x) % Modulus = (b * x) % Modulus
    BY Residues, ModTimes
  <2>8. ((c % Modulus) * y) % Modulus = (c * y) % Modulus
    BY Residues, ModTimes
  <2>9. b * x = c * y
    BY <2>6
  <2>10. x * (b % Modulus) = (b % Modulus) * x
    <3>1. b % Modulus \in Int
      BY Residues
    <3> QED
      BY <3>1
  <2>11. Power(x, (k + 1) + n) = (b * x) % Modulus
    BY <2>1, <2>3, <2>4, <2>6, <2>7, <2>10
  <2>12. (Power(x, k + 1) * Power(x, n)) % Modulus = (c * y) % Modulus
    BY <1>1, <2>5, <2>6, <2>8
  <2> QED
    BY <2>9, <2>11, <2>12
<1> HIDE DEF I
<1>4. m \in I
  BY <1>2, <1>3, Climb
<1> QED
  BY <1>4 DEF I

\* Length counts the digits up to the highest that is not zero.
LEMMA LengthOf ==
  ASSUME NEW n \in Nat, NEW x
  PROVE  /\ Length(x, n) \in 0..n
         /\ Length(x, n) = 0 \/ x[Length(x, n) - 1] # 0
         /\ \A i \in Length(x, n)..(n - 1) : x[i] = 0
<1> DEFINE P(k) == (k = 0 \/ x[k - 1] # 0) /\ \A i \in k..(n - 1) : x[i] = 0
           o == [i \in 0..(n - 1) |-> 0]
<1>1. Decided(x, o, n)
  BY HighestDifference
<1>2. \E k \in 0..n : P(k)
  <2>1. CASE \A i \in 0..(n - 1) : x[i] = o[i]
    <3>1. 0 \in 0..n /\ P(0)
      BY <2>1
    <3> QED
      BY <3>1
  <2>2. CASE \E i \in 0..(n - 1) : x[i] # o[i] /\ \A k \in (i + 1)..(n - 1) : x[k] = o[k]
    <3>1. PICK i \in 0..(n - 1) : x[i] # o[i] /\ \A k \in (i + 1)..(n - 1) : x[k] = o[k]
      BY <2>2
    <3>2. i + 1 \in 0..n /\ (i + 1) - 1 = i /\ \A k \in (i + 1)..(n - 1) : k \in 0..(n - 1)
      OBVIOUS
    <3>3. P(i + 1)
      BY <3>1, <3>2
    <3> QED
      BY <3>2, <3>3
  <2> QED
    BY <1>1, <2>1, <2>2 DEF Decided
<1>3. Length(x, n) = CHOOSE k \in 0..n : P(k)
  BY DEF Length
<1> HIDE DEF P
<1>4. Length(x, n) \in 0..n /\ P(Length(x, n))
  BY <1>2, <1>3
<1> QED
  BY <1>4 DEF P

\* The loop of Exp256.
LEMMA SquaresAre ==
  ASSUME NEW base \in Word, NEW exp \in Word
  PROVE  /\ squares(base, exp)[0] = [r |-> FromU64(1), b |-> base]
         /\ \A k \in 1..WordBits : squares(base, exp)[k] = [r |-> IF Bit(exp, k - 1) = 1 THEN Mul256(squares(base, exp)[k - 1].r, squares(base, exp)[k - 1].b) ELSE squares(base, exp)[k - 1].r, b |-> Mul256(squares(base, exp)[k - 1].b, squares(base, exp)[k - 1].b)]
         /\ \A k \in 0..WordBits : squares(base, exp)[k] \in [r : Word, b : Word]
<1> DEFINE f == squares(base, exp)
           T == [r : Word, b : Word]
           E(k, acc) == [r |-> IF Bit(exp, k - 1) = 1 THEN Mul256(acc.r, acc.b) ELSE acc.r, b |-> Mul256(acc.b, acc.b)]
           Loop(g) == [k \in 0..WordBits |-> IF k = 0 THEN [r |-> FromU64(1), b |-> base] ELSE E(k, g[k - 1])]
           step == [k \in 1..WordBits |-> [acc \in T |-> E(k, acc)]]
<1>1. ASSUME NEW k \in 1..WordBits, NEW acc \in T PROVE E(k, acc) \in T
  BY MulExact
<1>2. [r |-> FromU64(1), b |-> base] \in T /\ WordBits \in Nat
  BY FromU64Value, LimbFacts
<1>3. f = CHOOSE g : g = Loop(g)
  BY DEF squares
<1> HIDE DEF E, T
<1>4. step \in [1..WordBits -> [T -> T]] /\ \A k \in 1..WordBits, acc \in T : step[k][acc] = E(k, acc)
  BY <1>1
<1> HIDE DEF step, f
<1>5. PICK g : IsLoop(g, T, WordBits, [r |-> FromU64(1), b |-> base], step)
  BY <1>2, <1>4, Rounds, Zenon
<1>6. g = Loop(g)
  <2>1. ASSUME NEW k \in 0..WordBits PROVE g[k] = Loop(g)[k]
    <3>1. CASE k = 0
      BY <1>5, <3>1 DEF IsLoop
    <3>2. CASE k # 0
      <4>1. k \in 1..WordBits /\ k - 1 \in 0..WordBits
        BY <1>2, <3>2
      <4>2. g[k] = E(k, g[k - 1])
        BY <1>4, <1>5, <4>1 DEF IsLoop
      <4> QED
        BY <3>2, <4>2
    <3> QED
      BY <3>1, <3>2
  <2> QED
    BY <1>5, <2>1 DEF IsLoop
<1>7. f = Loop(f)
  <2> HIDE DEF Loop
  <2> QED
    BY <1>3, <1>6
<1>8. f[0] = [r |-> FromU64(1), b |-> base] /\ \A k \in 1..WordBits : f[k] = E(k, f[k - 1])
  <2>1. ASSUME NEW k \in 0..WordBits PROVE f[k] = IF k = 0 THEN [r |-> FromU64(1), b |-> base] ELSE E(k, f[k - 1])
    BY <1>7
  <2>2. 0 \in 0..WordBits /\ \A k \in 1..WordBits : k \in 0..WordBits /\ k # 0
    BY <1>2
  <2> QED
    BY <2>1, <2>2, Zenon
<1>9. \A k \in 0..WordBits : f[k] \in T
  <2>1. f[0] \in T
    BY <1>2, <1>8
  <2>2. ASSUME NEW k \in 1..WordBits, f[k - 1] \in T PROVE f[k] \in T
    BY <1>1, <1>8, <2>2
  <2> QED
    BY <1>2, <2>1, <2>2, RoundsIn
<1> QED
  BY <1>8, <1>9 DEF f, T, E

\* The exponent's lowest bits, one more at a time.
LEMMA LowBits ==
  ASSUME NEW e \in Nat, NEW k \in Nat
  PROVE  /\ 2^k \in Nat \ {0} /\ e % 2^k \in Nat /\ Digit(e, k, 1) \in {0, 1}
         /\ 2^(k + 1) = 2^k + 2^k
         /\ e % 2^(k + 1) = (e % 2^k) + 2^k * Digit(e, k, 1)
<1>1. PICK p \in Nat \ {0}, two \in Nat \ {0} : p = 2^k /\ two = 2
  BY PowerNat
<1>2. 2^(k + 1) = p * two /\ 2^(k + 1) = p + p
  BY <1>1, PowerNext
<1>a. e \in Int
  OBVIOUS
<1>3. PICK g \in Int, c \in Int : g = e \div p /\ c = e % p /\ e = p * g + c /\ 0 <= c /\ c < p
  BY <1>a, DivPick, Zenon
<1>4. PICK j \in Int, d \in Int : j = g \div two /\ d = g % two /\ g = two * j + d /\ 0 <= d /\ d < two
  BY DivPick, Zenon
<1>5. Digit(e, k, 1) = d /\ d \in {0, 1}
  <2>1. 1 * k = k /\ 2^1 = 2
    <3>1. PICK o \in Nat : o = 0
      OBVIOUS
    <3>2. 2^(o + 1) = 2 * 2^o
      BY PowerNext
    <3>3. 2^(1 * 0) = 1
      BY Weight
    <3> QED
      BY <3>1, <3>2, <3>3
  <2>2. Digit(e, k, 1) = (e \div p) % two
    BY <1>1, <2>1 DEF Digit
  <2>3. Digit(e, k, 1) = d
    BY <1>3, <1>4, <2>2, Zenon
  <2> QED
    BY <1>1, <1>4, <2>3
<1>6. (d = 0 => p * d = 0) /\ (d = 1 => p * d = p) /\ p * d \in Int
  BY <1>5
<1>7. PICK v \in Int, R \in Nat \ {0} : v = c + p * d /\ R = p * two
  BY <1>1, <1>6
<1>8. Division(e, R, j, v)
  <2>1. e = p * (two * j + d) + c
    BY <1>3, <1>4
  <2>2. p * (two * j + d) = (p * two) * j + p * d
    OBVIOUS
  <2>3. 0 <= v /\ v < p * two
    BY <1>1, <1>3, <1>5, <1>6, <1>7
  <2> QED
    BY <1>7, <2>1, <2>2, <2>3 DEF Division
<1>9. e % R = c + p * d
  BY <1>7, <1>8, Divides
<1>10. e % 2^k = c /\ c \in Nat
  BY <1>1, <1>3
<1>11. e % 2^(k + 1) = c + p * d
  BY <1>2, <1>7, <1>9
<1> QED
  BY <1>1, <1>2, <1>5, <1>10, <1>11

\* Square and multiply gives the power, although it stops at the exponent's highest bit.
LEMMA ExpExact ==
  ASSUME NEW base \in Word, NEW exp \in Word
  PROVE  Exp256(base, exp) \in Word /\ Value(Exp256(base, exp)) = Power(Value(base), Value(exp))
<1> DEFINE s == squares(base, exp)
           bit == [k \in 0..(WordBits - 1) |-> Bit(exp, k)]
           K == Length(bit, WordBits)
<1>1. PICK x \in Int, e \in Nat, M \in Nat \ {0} :
        /\ x = Value(base) /\ e = Value(exp) /\ M = Modulus
        /\ 0 <= x /\ x < M /\ e < M
  <2>1. Value(base) \in Int /\ Value(exp) \in Nat /\ Modulus \in Nat \ {0} /\ 0 <= Value(base) /\ Value(base) < Modulus /\ Value(exp) < Modulus
    <3>1. Value(base) \in 0..(Modulus - 1)
      BY WordDigits
    <3>2. Value(exp) \in 0..(Modulus - 1)
      BY WordDigits
    <3>3. Modulus \in Nat \ {0}
      BY LimbFacts
    <3> QED
      BY <3>1, <3>2, <3>3
  <2> QED
    BY <2>1, Zenon
<1>2. /\ s[0] = [r |-> FromU64(1), b |-> base]
      /\ \A k \in 1..WordBits :
           s[k] = [r |-> IF Bit(exp, k - 1) = 1 THEN Mul256(s[k - 1].r, s[k - 1].b) ELSE s[k - 1].r,
                   b |-> Mul256(s[k - 1].b, s[k - 1].b)]
      /\ \A k \in 0..WordBits : s[k] \in [r : Word, b : Word]
  BY SquaresAre
<1>3. WordBits \in Nat
  BY LimbFacts
<1> DEFINE I == {k \in 0..WordBits : Value(s[k].b) = Power(x, 2^k) /\ Value(s[k].r) = Power(x, e % 2^k)}
<1> HIDE DEF s
<1>4. 0 \in I
  <2>1. PICK o \in Nat, one \in Nat \ {0} : o = 0 /\ one = 1
    OBVIOUS
  <2>2. 2^(1 * 0) = 1
    BY Weight
  <2>3. 2^o = one
    BY <2>1, <2>2
  <2>a. e \in Int
    OBVIOUS
  <2>4. PICK g \in Int, c \in Int : g = e \div one /\ c = e % one /\ e = one * g + c /\ 0 <= c /\ c < one
    BY <2>a, DivPick, Zenon
  <2>5. c = o
    BY <2>1, <2>4
  <2>6. e % 2^o = o
    BY <2>3, <2>4, <2>5, Zenon
  <2>7. Power(x, o) = 1 /\ Power(x, o + 1) = (x * Power(x, o)) % M
    BY <1>1, <2>1, PowerStep
  <2>8. x % M = x
    BY <1>1, DivSmall
  <2>9. Power(x, one) = x
    <3>1. o + 1 = one /\ x * 1 = x
      BY <2>1
    <3> QED
      BY <2>7, <2>8, <3>1
  <2>10. Value(FromU64(1)) = 1
    <3>a. one \in Int /\ 0 <= one /\ one < M
      BY <1>1, <2>1, Residues
    <3>1. one % M = one
      BY <3>a, DivSmall
    <3>2. Value(FromU64(one)) = one % M
      BY <1>1, FromU64Value
    <3> QED
      BY <2>1, <3>1, <3>2
  <2>11. Value(s[o].b) = Power(x, 2^o) /\ Value(s[o].r) = Power(x, e % 2^o)
    BY <1>1, <1>2, <2>1, <2>3, <2>6, <2>7, <2>9, <2>10
  <2> QED
    BY <1>3, <2>1, <2>11
<1>5. ASSUME NEW k \in 0..(WordBits - 1), k \in I PROVE k + 1 \in I
  <2>1. k \in Nat /\ k + 1 \in 1..WordBits /\ (k + 1) - 1 = k /\ k \in 0..WordBits /\ k + 1 \in 0..WordBits
    BY <1>3
  <2>2. PICK p \in Nat \ {0}, c \in Nat, d \in {0, 1} :
          /\ p = 2^k /\ c = e % 2^k /\ d = Digit(e, k, 1) /\ 2^(k + 1) = p + p /\ e % 2^(k + 1) = c + p * d
    <3>1. /\ 2^k \in Nat \ {0} /\ e % 2^k \in Nat /\ Digit(e, k, 1) \in {0, 1}
          /\ 2^(k + 1) = 2^k + 2^k
          /\ e % 2^(k + 1) = (e % 2^k) + 2^k * Digit(e, k, 1)
      BY <2>1, LowBits
    <3> QED
      BY <3>1, Zenon
  <2>3. Bit(exp, k) = d
    BY <1>1, <2>2, BitOfWord
  <2>4. s[k + 1] = [r |-> IF Bit(exp, k) = 1 THEN Mul256(s[k].r, s[k].b) ELSE s[k].r, b |-> Mul256(s[k].b, s[k].b)]
    BY <1>2, <2>1
  <2>5. PICK R \in Word, B \in Word : R = s[k].r /\ B = s[k].b
    BY <1>2, <2>1
  <2>6. Value(B) = Power(x, p) /\ Value(R) = Power(x, c)
    BY <1>5, <2>2, <2>5
  <2>7. Value(Mul256(B, B)) = (Power(x, p) * Power(x, p)) % M /\ Value(Mul256(R, B)) = (Power(x, c) * Power(x, p)) % M
    BY <1>1, <2>6, MulExact
  <2>8. Power(x, p + p) = (Power(x, p) * Power(x, p)) % M /\ Power(x, c + p) = (Power(x, c) * Power(x, p)) % M
    BY <1>1, PowerSum
  <2>9. Value(s[k + 1].b) = Power(x, 2^(k + 1))
    <3>1. s[k + 1].b = Mul256(B, B)
      BY <2>4, <2>5
    <3> QED
      BY <2>2, <2>7, <2>8, <3>1
  <2>10. Value(s[k + 1].r) = Power(x, e % 2^(k + 1))
    <3>1. CASE d = 1
      <4>1. s[k + 1].r = Mul256(R, B)
        BY <2>3, <2>4, <2>5, <3>1
      <4>2. c + p * d = c + p
        BY <3>1
      <4> QED
        BY <2>2, <2>7, <2>8, <4>1, <4>2
    <3>2. CASE d = 0
      <4>1. s[k + 1].r = R
        BY <2>3, <2>4, <2>5, <3>2
      <4>2. c + p * d = c
        BY <3>2
      <4> QED
        BY <2>2, <2>6, <4>1, <4>2
    <3> QED
      BY <3>1, <3>2
  <2> QED
    BY <2>1, <2>9, <2>10
<1> HIDE DEF I
<1>6. \A k \in 0..WordBits : k \in I
  BY <1>3, <1>4, <1>5, Climb
<1>7. K \in 0..WordBits /\ \A k \in K..(WordBits - 1) : bit[k] = 0
  BY <1>3, LengthOf
<1>8. \A k \in 0..(WordBits - 1) : bit[k] = Digit(e, k, 1)
  BY <1>1, BitOfWord
<1> HIDE DEF K, bit
<1>9. e % 2^K = e
  <2>1. PICK n \in Nat, m \in Nat, one \in Nat : n = K /\ m = WordBits - K /\ n + m = WordBits /\ one = 1 /\ one * n = n /\ one * WordBits = WordBits
    BY <1>3, <1>7
  <2>2. HasDigits(bit, WordBits, one) /\ Number(bit, WordBits, one) = e % 2^(one * WordBits)
    <3>1. \A k \in 0..(WordBits - 1) : bit[k] = Digit(e, k, one)
      BY <1>8, <2>1
    <3>2. e \in Int /\ WordBits \in Nat /\ one \in Nat
      BY <1>3
    <3> QED
      BY <3>1, <3>2, DigitsNumber
  <2>3. e % M = e
    BY <1>1, DivSmall
  <2>4. Number(bit, n + m, one) = e
    BY <1>1, <2>1, <2>2, <2>3 DEF Modulus
  <2>5. HasDigits(bit, n, one) /\ HasInts(bit, n + m)
    <3>1. HasDigits(bit, n, one)
      BY <1>3, <2>1, <2>2, Fewer
    <3>2. HasInts(bit, WordBits)
      BY <1>3, <2>2, DigitsInts
    <3> QED
      BY <2>1, <3>1, <3>2
  <2>6. Number(bit, n + m, one) = Number(bit, n, one) + 2^(one * n) * Number(Above(bit, n, m), m, one)
    BY <2>5, NumberSplit
  <2>7. Number(Above(bit, n, m), m, one) = 0
    <3>1. \A k \in 0..(m - 1) : Above(bit, n, m)[k] = 0
      <4>1. ASSUME NEW k \in 0..(m - 1) PROVE Above(bit, n, m)[k] = 0
        <5>1. n + k \in K..(WordBits - 1)
          BY <2>1
        <5>2. Above(bit, n, m)[k] = bit[n + k]
          BY DEF Above
        <5> QED
          BY <1>7, <5>1, <5>2
      <4> QED
        BY <4>1
    <3> QED
      BY <3>1, NumberZeros
  <2>8. Number(bit, n, one) \in 0..(2^(one * n) - 1)
    BY <2>5, NumberBounds
  <2>9. PICK p \in Nat \ {0} : p = 2^n
    BY PowerNat
  <2>10. e < p
    <3>1. Number(bit, n, one) \in Int /\ p * 0 = 0
      BY <2>1, <2>8, <2>9
    <3>2. e = Number(bit, n, one)
      BY <2>1, <2>4, <2>6, <2>7, <2>9, <3>1
    <3> QED
      BY <2>1, <2>8, <2>9, <3>2
  <2>11. e % p = e
    BY <2>10, DivSmall
  <2> QED
    BY <2>1, <2>9, <2>11
<1>10. Exp256(base, exp) = s[K].r
  BY DEF Exp256, s, K, bit
<1>11. K \in I /\ s[K] \in [r : Word, b : Word]
  BY <1>2, <1>6, <1>7
<1> QED
  BY <1>1, <1>9, <1>10, <1>11 DEF I

-----------------------------------------------------------------------------
\* Products and order.
LEMMA TimesLess ==
  ASSUME NEW a \in Int, NEW b \in Int, NEW c \in Nat, a <= b
  PROVE  a * c <= b * c /\ c * a <= c * b
<1>1. PICK g \in Nat : b = a + g
  <2>1. b - a \in Nat /\ b = a + (b - a)
    OBVIOUS
  <2> QED
    BY <2>1
<1>2. (a + g) * c = a * c + g * c /\ g * c >= 0 /\ c * a = a * c /\ c * (a + g) = (a + g) * c
  OBVIOUS
<1> QED
  BY <1>1, <1>2

\* A positive factor can be cancelled from an inequality.
LEMMA TimesCancel ==
  ASSUME NEW a \in Int, NEW b \in Int, NEW c \in Nat \ {0}, a * c < b * c
  PROVE  a < b
<1> SUFFICES ASSUME b <= a PROVE FALSE
  OBVIOUS
<1>1. b * c <= a * c
  BY TimesLess
<1>2. PICK x \in Int, y \in Int : x = a * c /\ y = b * c
  OBVIOUS
<1> QED
  BY <1>1, <1>2

\* The reciprocal v of a normalized divisor, and what it leaves.
IsReciprocal(v, d, rho, L) ==
  /\ L \in Nat /\ L >= 2 /\ d \in Nat /\ L <= 2 * d /\ d < L
  /\ v \in Int /\ 0 <= v /\ v < L /\ rho \in Int /\ 0 <= rho /\ rho < d
  /\ (v + L) * d + rho = L * L - 1

\* reciprocal2by1 is the reciprocal of a divisor with its highest bit set.
LEMMA ReciprocalExact ==
  ASSUME NEW d \in 0..(Limb - 1), Limb <= 2 * d
  PROVE  \E rho : IsReciprocal(reciprocal2by1(d), d, rho, Limb)
<1>1. PICK L \in Nat, x \in Int, D \in Nat \ {0} :
        /\ L = Limb /\ x = (Limb - 1 - d) * Limb + Limb - 1 /\ D = d
        /\ L >= 2
  <2>1. Limb \in Nat /\ ((Limb - 1 - d) * Limb + Limb - 1) \in Int /\ d \in Nat \ {0} /\ Limb >= 2
    BY LimbFacts
  <2> QED
    BY <2>1, Zenon
<1>2. PICK v \in Int, r \in Int : v = x \div D /\ r = x % D /\ x = D * v + r /\ 0 <= r /\ r < D
  BY DivPick, Zenon
<1>3. reciprocal2by1(d) = v
  BY <1>1, <1>2, Zenon DEF reciprocal2by1
<1>4. x = L * L - 1 - D * L /\ (v + L) * D = D * v + D * L
  <2>1. (L - 1 - D) * L = L * L - L - D * L
    OBVIOUS
  <2> QED
    BY <1>1, <2>1
<1>5. (v + L) * D + r = L * L - 1
  <2>1. PICK A \in Int, B \in Int, C \in Int : A = D * v /\ B = D * L /\ C = L * L
    OBVIOUS
  <2> QED
    BY <1>2, <1>4, <2>1
<1>6. 0 <= v
  <2> SUFFICES ASSUME v <= -1 PROVE FALSE
    OBVIOUS
  <2>1. v * D <= -1 * D
    BY TimesLess
  <2>2. D + 1 <= L
    BY <1>1
  <2>3. (D + 1) * L <= L * L
    BY <2>2, TimesLess
  <2>4. (D + 1) * L = D * L + L /\ -1 * D = -D /\ v * D = D * v
    OBVIOUS
  <2>5. PICK A \in Int, B \in Int, C \in Int : A = D * v /\ B = D * L /\ C = L * L
    OBVIOUS
  <2>6. A <= -D /\ B + L <= C /\ C - 1 - B = A + r
    BY <1>2, <1>4, <2>1, <2>3, <2>4, <2>5
  <2> QED
    BY <1>1, <1>2, <2>6
<1>7. v < L
  <2> SUFFICES ASSUME L <= v PROVE FALSE
    OBVIOUS
  <2>1. (2 * L) * D <= (v + L) * D
    BY TimesLess
  <2>2. L * L <= (2 * D) * L
    BY <1>1, TimesLess
  <2>3. (2 * D) * L = (2 * L) * D
    OBVIOUS
  <2>4. PICK A \in Int, B \in Int, C \in Int : A = (v + L) * D /\ B = (2 * L) * D /\ C = L * L
    OBVIOUS
  <2>5. B <= A /\ C <= B /\ A + r = C - 1
    BY <1>5, <2>1, <2>2, <2>3, <2>4
  <2> QED
    BY <1>2, <2>5
<1>8. IsReciprocal(v, D, r, L)
  BY <1>1, <1>2, <1>5, <1>6, <1>7 DEF IsReciprocal
<1> QED
  BY <1>1, <1>3, <1>8

\* The first estimate for the quotient of uh * L + ul, q1 + 1, and its remainder, which
\* may be negative, within the bounds that the two corrections rest on.
Estimated(uh, ul, d, v, L, q1, q0) ==
  /\ uh \in Int /\ 0 <= uh /\ uh < d /\ ul \in Int /\ 0 <= ul /\ ul < L
  /\ q1 \in Int /\ q0 \in Int /\ 0 <= q0 /\ q0 < L
  /\ q1 * L + q0 = (v + L) * uh + ul

\* The quotient estimated with a reciprocal is off by one at most in each direction,
\* and the low half of the product tells which.
LEMMA EstimateBounds ==
  ASSUME NEW uh, NEW ul, NEW d, NEW v, NEW rho, NEW L, NEW q1, NEW q0,
         IsReciprocal(v, d, rho, L), Estimated(uh, ul, d, v, L, q1, q0), NEW R \in Int,
         R = (uh * L + ul) - (q1 + 1) * d
  PROVE  /\ 0 <= q1 /\ q1 < L
         /\ -d <= R /\ q0 - L < R
         /\ R < L - d \/ R < q0
<1>1. /\ L \in Nat /\ L >= 2 /\ d \in Nat /\ d >= 1 /\ L <= 2 * d /\ d < L
      /\ v \in Int /\ 0 <= v /\ v < L /\ rho \in Int /\ 0 <= rho /\ rho < d
      /\ (v + L) * d + rho = L * L - 1
  BY DEF IsReciprocal
<1>2. /\ uh \in Int /\ 0 <= uh /\ uh < d /\ ul \in Int /\ 0 <= ul /\ ul < L
      /\ q1 \in Int /\ q0 \in Int /\ 0 <= q0 /\ q0 < L
      /\ q1 * L + q0 = (v + L) * uh + ul
  BY DEF Estimated
<1>3. L \in Int /\ d \in Int /\ v \in Int /\ rho \in Int /\ uh \in Int /\ ul \in Int /\ q1 \in Int /\ q0 \in Int
  BY <1>1, <1>2
<1>4. 0 <= q1
  <2> SUFFICES ASSUME q1 <= -1 PROVE FALSE
    BY <1>3
  <2>1. q1 * L <= -1 * L
    BY <1>1, <1>3, TimesLess
  <2>2. (v + L) * uh >= 0
    BY <1>1, <1>2
  <2>3. PICK A \in Int, B \in Int : A = q1 * L /\ B = (v + L) * uh
    BY <1>3
  <2>4. A <= -L /\ A + q0 = B + ul /\ B >= 0
    BY <1>2, <1>3, <2>1, <2>2, <2>3
  <2> QED
    BY <1>2, <1>3, <2>4
<1>5. q1 < L
  <2> SUFFICES ASSUME L <= q1 PROVE FALSE
    BY <1>3
  <2>1. L * L <= q1 * L
    BY <1>1, <1>3, TimesLess
  <2>2. uh <= d - 1 /\ v + L \in Nat /\ d - 1 \in Int
    BY <1>1, <1>2
  <2>3. (v + L) * uh <= (v + L) * (d - 1)
    BY <1>3, <2>2, TimesLess
  <2>4. (v + L) * (d - 1) = (v + L) * d - (v + L)
    BY <1>3
  <2>5. PICK A \in Int, B \in Int, C \in Int, E \in Int : A = q1 * L /\ B = (v + L) * uh /\ C = (v + L) * d /\ E = L * L
    BY <1>3
  <2>6. E <= A /\ B <= C - (v + L) /\ C + rho = E - 1 /\ A + q0 = B + ul
    BY <1>1, <1>2, <2>1, <2>3, <2>4, <2>5
  <2> QED
    BY <1>1, <1>2, <1>3, <2>6
<1>6. R * L = uh * (rho + 1) + ul * (L - d) + q0 * d - d * L
  <2>1. R * L = (uh * L + ul) * L - (d * (q1 * L)) - d * L
    BY <1>3
  <2>2. q1 * L = (v + L) * uh + ul - q0
    <3>1. PICK A \in Int, B \in Int : A = q1 * L /\ B = (v + L) * uh
      BY <1>3
    <3> QED
      BY <1>2, <1>3, <3>1
  <2>3. d * ((v + L) * uh + ul - q0) = uh * ((v + L) * d) + ul * d - q0 * d
    BY <1>3
  <2>4. (v + L) * d = L * L - 1 - rho
    <3>1. PICK A \in Int, B \in Int : A = (v + L) * d /\ B = L * L
      BY <1>3
    <3> QED
      BY <1>1, <1>3, <3>1
  <2>5. uh * (L * L - 1 - rho) = uh * L * L - uh * (rho + 1)
    BY <1>3
  <2>6. (uh * L + ul) * L = uh * L * L + ul * L /\ ul * (L - d) = ul * L - ul * d
    BY <1>3
  <2>7. PICK A \in Int, B \in Int, C \in Int, E \in Int, F \in Int, G \in Int :
           A = uh * L * L /\ B = uh * (rho + 1) /\ C = ul * L /\ E = ul * d /\ F = q0 * d /\ G = d * L
    BY <1>3
  <2>8. d * (q1 * L) = (A - B) + E - F
    BY <2>2, <2>3, <2>4, <2>5, <2>7
  <2>9. R * L = (A + C) - ((A - B) + E - F) - G
    BY <2>1, <2>6, <2>7, <2>8
  <2>10. uh * (rho + 1) + ul * (L - d) + q0 * d - d * L = B + (C - E) + F - G
    BY <2>6, <2>7
  <2> QED
    BY <2>9, <2>10
<1>7. PICK A \in Int, B \in Int, C \in Int, E \in Int, F \in Int :
        /\ A = uh * (rho + 1) /\ B = ul * (L - d) /\ C = q0 * d /\ E = d * L /\ F = R * L
        /\ F = A + B + C - E
        /\ A >= 0 /\ B >= 0
  <2>1. uh * (rho + 1) \in Int /\ ul * (L - d) \in Int /\ q0 * d \in Int /\ d * L \in Int /\ R * L \in Int
    BY <1>3
  <2>2. uh \in Nat /\ rho + 1 \in Nat /\ ul \in Nat /\ L - d \in Nat
    BY <1>1, <1>2
  <2>3. uh * (rho + 1) >= 0 /\ ul * (L - d) >= 0
    BY <2>2
  <2> QED
    BY <1>6, <2>1, <2>3, Zenon
<1>8. -d <= R
  <2> SUFFICES ASSUME R <= -d - 1 PROVE FALSE
    BY <1>3
  <2>1. R * L <= (-d - 1) * L
    BY <1>1, <1>3, TimesLess
  <2>2. (-d - 1) * L = -(d * L) - L
    BY <1>3
  <2>3. C >= 0
    BY <1>1, <1>2, <1>7
  <2>4. F <= -E - L
    BY <1>7, <2>1, <2>2
  <2> QED
    BY <1>1, <1>7, <2>3, <2>4
<1>9. q0 - L < R
  <2>1. (q0 - L) * L < R * L
    <3>1. L - q0 \in Nat \ {0} /\ L - d \in Nat \ {0}
      BY <1>1, <1>2
    <3>2. (L - q0) * (L - d) >= 1
      BY <3>1
    <3>3. (L - q0) * (L - d) = L * L - q0 * L - E + C
      BY <1>3, <1>7
    <3>4. (q0 - L) * L = q0 * L - L * L
      BY <1>3
    <3>5. PICK G \in Int, H \in Int : G = q0 * L /\ H = L * L
      BY <1>3
    <3> QED
      BY <1>7, <3>2, <3>3, <3>4, <3>5
  <2>2. q0 - L \in Int /\ L \in Nat \ {0}
    BY <1>1, <1>3
  <2> QED
    BY <2>1, <2>2, TimesCancel
<1>10. R < L - d \/ R < q0
  <2>1. A <= (d - 1) * d
    <3>1. rho + 1 <= d /\ uh <= d - 1 /\ uh \in Nat /\ d - 1 \in Int /\ rho + 1 \in Int
      BY <1>1, <1>2
    <3>2. uh * (rho + 1) <= uh * d
      BY <1>3, <3>1, TimesLess
    <3>3. uh * d <= (d - 1) * d
      BY <1>1, <1>3, <3>1, TimesLess
    <3>4. PICK G \in Int, H \in Int : G = uh * d /\ H = (d - 1) * d
      BY <1>3
    <3> QED
      BY <1>7, <3>2, <3>3, <3>4
  <2>2. B <= (L - 1) * (L - d)
    <3>1. ul <= L - 1 /\ L - 1 \in Int /\ L - d \in Nat
      BY <1>1, <1>2
    <3> QED
      BY <1>3, <1>7, <3>1, TimesLess
  <2>3. F < (L - d) * (L - d) + C
    <3>1. (d - 1) * d = d * d - d /\ (L - 1) * (L - d) = L * L - L - E + d /\ (L - d) * (L - d) = L * L - E - E + d * d
      BY <1>3, <1>7
    <3>2. PICK G \in Int, H \in Int : G = d * d /\ H = L * L
      BY <1>3
    <3>3. A <= G - d /\ B <= H - L - E + d /\ (L - d) * (L - d) = H - E - E + G
      BY <2>1, <2>2, <3>1, <3>2
    <3> QED
      BY <1>1, <1>3, <1>7, <3>3
  <2>4. SUFFICES ASSUME L - d <= R, q0 <= R PROVE FALSE
    BY <1>3
  <2>5. (L - d) * (L - d) <= R * (L - d) /\ q0 * d <= R * d
    <3>1. L - d \in Nat /\ L - d \in Int /\ d \in Nat
      BY <1>1
    <3> QED
      BY <1>3, <2>4, <3>1, TimesLess
  <2>6. R * (L - d) + R * d = R * L
    BY <1>3
  <2>7. PICK G \in Int, H \in Int, J \in Int : G = (L - d) * (L - d) /\ H = R * (L - d) /\ J = R * d
    BY <1>3
  <2> QED
    BY <1>7, <2>3, <2>5, <2>6, <2>7
<1> QED
  BY <1>4, <1>5, <1>8, <1>9, <1>10

\* The two corrections of udivrem2by1, of an estimate q of the quotient, with r.
Corrected(q, r, q0, d) ==
  LET Lower == IF r > q0 THEN [quot |-> (q - 1) % Limb, rem |-> (r + d) % Limb] ELSE [quot |-> q, rem |-> r]
      Raise(e) == IF e.rem >= d THEN [quot |-> (e.quot + 1) % Limb, rem |-> e.rem - d] ELSE e
  IN  Raise(Lower)

\* The two corrections of udivrem2by1, case by case.
LEMMA CorrectedIs ==
  ASSUME NEW q \in Int, NEW r \in Int, NEW q0 \in Int, NEW d \in Int, NEW a \in Int, NEW b \in Int,
         r > q0 => a = (q - 1) % Limb /\ b = (r + d) % Limb,
         ~(r > q0) => a = q /\ b = r
  PROVE  /\ b >= d => Corrected(q, r, q0, d) = [quot |-> (a + 1) % Limb, rem |-> b - d]
         /\ ~(b >= d) => Corrected(q, r, q0, d) = [quot |-> a, rem |-> b]
<1>1. Corrected(q, r, q0, d) = LET e == [quot |-> a, rem |-> b] IN IF e.rem >= d THEN [quot |-> (e.quot + 1) % Limb, rem |-> e.rem - d] ELSE e
  BY DEF Corrected
<1> QED
  BY <1>1

\* A remainder modulo a limb, from a number that differs from it by limbs.
LEMMA LimbResidue ==
  ASSUME NEW x \in Int, NEW c \in Int, NEW r \in Int, 0 <= r, r < Limb, x = Limb * c + r
  PROVE  x % Limb = r /\ x \div Limb = c
<1>1. Limb \in Nat \ {0}
  BY LimbFacts
<1>2. Division(x, Limb, c, r)
  BY <1>1 DEF Division
<1> QED
  BY <1>2, Divides

\* Two limbs by one: exact, although the quotient comes from a product with the reciprocal.
LEMMA TwoByOneExact ==
  ASSUME NEW d \in 0..(Limb - 1), Limb <= 2 * d, NEW uh \in 0..(d - 1), NEW ul \in 0..(Limb - 1)
  PROVE  LET e == udivrem2by1(uh, ul, d, reciprocal2by1(d))
         IN  /\ e.quot \in 0..(Limb - 1) /\ e.rem \in 0..(d - 1)
             /\ e.quot * d + e.rem = uh * Limb + ul
<1>1. PICK L \in Nat \ {0} : L = Limb /\ L >= 2
  BY LimbFacts
<1>2. PICK v, rho : v = reciprocal2by1(d) /\ IsReciprocal(v, d, rho, L)
  BY <1>1, ReciprocalExact
<1>3. v \in Int /\ 0 <= v /\ v < L /\ d \in Int /\ uh \in Int /\ ul \in Int /\ 0 <= uh /\ uh < d /\ 0 <= ul /\ ul < L /\ L <= 2 * d /\ d < L
  BY <1>1, <1>2 DEF IsReciprocal
<1>4. PICK p \in Int : p = v * uh
  BY <1>3
<1>5. PICK a \in Int, b \in Int : a = p \div L /\ b = p % L /\ p = L * a + b /\ 0 <= b /\ b < L
  BY DivPick, Zenon
<1>6. PICK low \in Int : low = b + ul
  BY <1>3
<1>7. PICK c \in Int, q0 \in Int : c = low \div L /\ q0 = low % L /\ low = L * c + q0 /\ 0 <= q0 /\ q0 < L
  BY DivPick, Zenon
<1>8. PICK q1 \in Int : q1 = a + uh + c
  BY <1>3
<1>9. Estimated(uh, ul, d, v, L, q1, q0)
  <2>1. q1 * L + q0 = (v + L) * uh + ul
    <3>1. (a + uh + c) * L = L * a + uh * L + L * c /\ (v + L) * uh = v * uh + uh * L
      BY <1>3
    <3>2. PICK A \in Int, B \in Int, C \in Int : A = L * a /\ B = uh * L /\ C = L * c
      BY <1>3
    <3>3. q1 * L = A + B + C /\ (v + L) * uh = p + B
      BY <1>4, <1>8, <3>1, <3>2
    <3>4. p = A + b /\ b + ul = C + q0
      BY <1>5, <1>6, <1>7, <3>2
    <3> QED
      BY <1>3, <3>3, <3>4
  <2> QED
    BY <1>3, <1>7, <2>1 DEF Estimated
<1>10. PICK U \in Int : U = uh * L + ul
  BY <1>3
<1>11. PICK R \in Int : R = (uh * L + ul) - (q1 + 1) * d
  BY <1>3
<1>12. 0 <= q1 /\ q1 < L /\ -d <= R /\ q0 - L < R /\ (R < L - d \/ R < q0)
  BY <1>2, <1>9, <1>11, EstimateBounds
<1>13. PICK qh \in Int : qh = (q1 + 1) % L /\ 0 <= qh /\ qh < L /\ (q1 + 1 < L => qh = q1 + 1) /\ (q1 + 1 = L => qh = 0)
  <2>1. CASE q1 + 1 < L
    <3>1. (q1 + 1) % L = q1 + 1
      BY <1>12, <2>1, DivSmall
    <3> QED
      BY <1>12, <2>1, <3>1
  <2>2. CASE q1 + 1 = L
    <3>1. PICK x \in Int, g \in Int, o \in Int : x = q1 + 1 /\ g = 1 /\ o = 0
      OBVIOUS
    <3>2. x = L * g + o
      BY <2>2, <3>1
    <3>3. x % L = o
      BY <1>1, <3>1, <3>2, LimbResidue
    <3> QED
      BY <2>2, <3>1, <3>3
  <2> QED
    BY <1>12, <2>1, <2>2
<1>14. PICK r \in Int : r = (ul - qh * d) % L /\ (R >= 0 => r = R) /\ (R < 0 => r = R + L)
  <2>1. PICK g \in Int : ul - qh * d = L * g + R
    <3>1. CASE q1 + 1 < L
      <4>1. ul - (q1 + 1) * d = L * (-uh) + R
        <5>1. PICK A \in Int, B \in Int : A = (q1 + 1) * d /\ B = uh * L
          BY <1>3
        <5>2. L * (-uh) = -B
          BY <1>3, <5>1
        <5> QED
          BY <1>3, <1>11, <5>1, <5>2
      <4>2. -uh \in Int
        BY <1>3
      <4> QED
        BY <1>13, <3>1, <4>1, <4>2
    <3>2. CASE q1 + 1 = L
      <4>1. ul - 0 * d = L * (d - uh) + R
        <5>1. R = uh * L + ul - L * d
          BY <1>11, <3>2
        <5>2. L * (d - uh) = L * d - uh * L
          BY <1>3
        <5>3. PICK A \in Int, B \in Int : A = L * d /\ B = uh * L
          BY <1>3
        <5> QED
          BY <1>3, <5>1, <5>2, <5>3
      <4>2. d - uh \in Int
        BY <1>3
      <4> QED
        BY <1>13, <3>2, <4>1, <4>2
    <3> QED
      BY <1>12, <3>1, <3>2
  <2>2. PICK x \in Int : x = ul - qh * d
    BY <1>3
  <2>3. R < L
    BY <1>3, <1>7, <1>12
  <2>4. CASE R >= 0
    <3>1. x % L = R
      BY <1>1, <2>1, <2>2, <2>3, <2>4, LimbResidue
    <3> QED
      BY <2>2, <2>4, <3>1
  <2>5. CASE R < 0
    <3>1. PICK y \in Int, k \in Int : y = R + L /\ k = g - 1
      OBVIOUS
    <3>2. 0 <= y /\ y < L
      BY <1>3, <1>12, <2>5, <3>1
    <3>3. L * g + R = L * (g - 1) + (R + L)
      OBVIOUS
    <3>4. x = L * k + y
      BY <2>1, <2>2, <3>1, <3>3
    <3>5. x % L = y
      BY <1>1, <3>2, <3>4, LimbResidue
    <3> QED
      BY <2>2, <2>5, <3>1, <3>5
  <2> QED
    BY <2>4, <2>5
<1>15. udivrem2by1(uh, ul, d, reciprocal2by1(d)) = Corrected(qh, r, q0, d)
  <2>1. ((v * uh) % L) + ul = low /\ (v * uh) \div L + uh + low \div L + 1 = q1 + 1
    BY <1>3, <1>4, <1>5, <1>6, <1>7, <1>8
  <2>2. low % L = q0
    BY <1>7
  <2>3. ((v * uh) \div L + uh + low \div L + 1) % L = qh
    BY <1>13, <2>1
  <2>4. (ul - qh * d) % L = r
    BY <1>14
  <2> QED
    BY <1>1, <1>2, <2>1, <2>2, <2>3, <2>4, Zenon DEF udivrem2by1, Corrected
<1>16. U = (q1 + 1) * d + R /\ U = q1 * d + (R + d) /\ U = (q1 + 2) * d + (R - d)
  <2>1. (q1 + 2) * d = (q1 + 1) * d + d /\ q1 * d = (q1 + 1) * d - d
    BY <1>3
  <2>2. PICK A \in Int, B \in Int : A = (q1 + 1) * d /\ B = uh * L
    BY <1>3
  <2> QED
    BY <1>3, <1>10, <1>11, <2>1, <2>2
<1>17. ASSUME NEW q \in Int, NEW m \in Int, U = q * d + m, 0 <= m PROVE q < L
  <2>1. q * d < L * d
    <3>1. uh + 1 <= d /\ L \in Nat /\ uh + 1 \in Int
      BY <1>3
    <3>2. (uh + 1) * L <= d * L
      BY <1>3, <3>1, TimesLess
    <3>3. (uh + 1) * L = uh * L + L /\ d * L = L * d
      BY <1>3
    <3>4. PICK A \in Int, B \in Int, C \in Int : A = uh * L /\ B = L * d /\ C = q * d
      BY <1>3
    <3> QED
      BY <1>3, <1>10, <1>17, <3>2, <3>3, <3>4
  <2>2. d \in Nat \ {0}
    BY <1>1, <1>3
  <2> QED
    BY <2>1, <2>2, TimesCancel
<1> DEFINE e == udivrem2by1(uh, ul, d, reciprocal2by1(d))
<1>18. e = Corrected(qh, r, q0, d)
  BY <1>15
<1> HIDE DEF e
<1>19. /\ e.quot \in 0..(L - 1) /\ e.rem \in 0..(d - 1)
       /\ e.quot * d + e.rem = U
  <2>1. CASE R >= 0
    <3>1. r = R /\ q1 + 1 < L /\ qh = q1 + 1
      <4>1. q1 + 1 < L
        BY <1>16, <1>17, <2>1
      <4> QED
        BY <1>13, <1>14, <2>1, <4>1
    <3>2. CASE r > q0
      <4>1. R + d < L /\ R < d
        BY <1>3, <1>12, <3>1, <3>2
      <4>2. PICK aa \in Int, bb \in Int : aa = q1 /\ bb = R + d
        BY <1>3
      <4>3. aa = (qh - 1) % L
        <5>1. qh - 1 = q1
          BY <3>1
        <5>2. q1 % L = q1
          BY <1>12, DivSmall
        <5> QED
          BY <4>2, <5>1, <5>2
      <4>4. bb = (r + d) % L
        <5>1. bb % L = bb
          BY <1>3, <2>1, <4>1, <4>2, DivSmall
        <5> QED
          BY <3>1, <4>2, <5>1
      <4>5. bb >= d
        BY <1>3, <2>1, <4>2
      <4>a. qh \in Int /\ r \in Int /\ q0 \in Int /\ d \in Int /\ aa \in Int /\ bb \in Int
        BY <1>3
      <4>b. (r > q0 => aa = (qh - 1) % Limb /\ bb = (r + d) % Limb) /\ (~(r > q0) => aa = qh /\ bb = r)
        BY <1>1, <3>2, <4>3, <4>4
      <4>c. Corrected(qh, r, q0, d) = [quot |-> (aa + 1) % Limb, rem |-> bb - d]
        BY <4>5, <4>a, <4>b, CorrectedIs
      <4>6. e = [quot |-> (aa + 1) % L, rem |-> bb - d]
        BY <1>1, <1>18, <4>c
      <4>7. (aa + 1) % L = q1 + 1
        BY <1>13, <3>1, <4>2
      <4>8. e.quot = q1 + 1 /\ e.rem = R
        BY <1>3, <4>2, <4>6, <4>7
      <4> QED
        BY <1>1, <1>3, <1>12, <1>16, <2>1, <3>1, <4>1, <4>8
    <3>3. CASE ~(r > q0)
      <4>1. PICK aa \in Int, bb \in Int : aa = q1 + 1 /\ bb = R
        OBVIOUS
      <4>2. CASE bb >= d
        <5>1. q1 + 2 < L /\ R - d < d
          <6>1. 0 <= R - d
            BY <1>3, <4>1, <4>2
          <6>2. R - d \in Int /\ q1 + 2 \in Int
            BY <1>3
          <6>3. q1 + 2 < L
            BY <1>16, <1>17, <6>1, <6>2
          <6> QED
            BY <1>3, <1>7, <1>12, <6>3
        <5>a. aa = qh /\ bb = r
          BY <3>1, <4>1
        <5>2. e = [quot |-> (aa + 1) % L, rem |-> bb - d]
          BY <1>1, <1>3, <1>18, <3>3, <4>2, <5>a, CorrectedIs
        <5>3. PICK y \in Int : y = q1 + 2
          OBVIOUS
        <5>4. y % L = y
          BY <1>12, <5>1, <5>3, DivSmall
        <5>5. aa + 1 = y
          BY <4>1, <5>3
        <5>6. e.quot = q1 + 2 /\ e.rem = R - d
          BY <4>1, <5>2, <5>3, <5>4, <5>5
        <5> QED
          BY <1>1, <1>3, <1>12, <1>16, <4>1, <4>2, <5>1, <5>6
      <4>3. CASE ~(bb >= d)
        <5>1. e = [quot |-> aa, rem |-> bb]
          BY <1>1, <1>3, <1>18, <3>1, <3>3, <4>1, <4>3, CorrectedIs
        <5>2. e.quot = q1 + 1 /\ e.rem = R
          BY <4>1, <5>1
        <5> QED
          BY <1>1, <1>3, <1>12, <1>16, <2>1, <3>1, <4>1, <4>3, <5>2
      <4> QED
        BY <4>2, <4>3
    <3> QED
      BY <3>2, <3>3
  <2>2. CASE R < 0
    <3>1. r = R + L /\ r > q0
      BY <1>7, <1>12, <1>14, <2>2
    <3>2. PICK aa \in Int, bb \in Int : aa = q1 /\ bb = R + d /\ 0 <= bb /\ bb < d
      BY <1>3, <1>12, <2>2
    <3>3. aa = (qh - 1) % L
      <4>1. CASE q1 + 1 < L
        <5>1. qh - 1 = q1
          BY <1>13, <4>1
        <5>2. q1 % L = q1
          BY <1>12, DivSmall
        <5> QED
          BY <3>2, <5>1, <5>2
      <4>2. CASE q1 + 1 = L
        <5>1. PICK x \in Int, g \in Int : x = qh - 1 /\ g = -1
          OBVIOUS
        <5>2. x = L * g + q1
          BY <1>13, <4>2, <5>1
        <5>3. x % L = q1
          BY <1>1, <1>12, <5>2, LimbResidue
        <5> QED
          BY <3>2, <5>1, <5>3
      <4> QED
        BY <1>12, <4>1, <4>2
    <3>4. bb = (r + d) % L
      <4>1. PICK x \in Int, g \in Int : x = r + d /\ g = 1
        BY <1>3
      <4>2. x = L * g + bb /\ bb < L
        BY <1>3, <3>1, <3>2, <4>1
      <4>3. x % L = bb
        BY <1>1, <3>2, <4>2, LimbResidue
      <4> QED
        BY <4>1, <4>3
    <3>5. e = [quot |-> aa, rem |-> bb]
      BY <1>1, <1>3, <1>18, <3>1, <3>2, <3>3, <3>4, CorrectedIs
    <3>6. e.quot = q1 /\ e.rem = R + d
      BY <3>2, <3>5
    <3> QED
      BY <1>1, <1>3, <1>12, <1>16, <3>2, <3>6
  <2> QED
    BY <2>1, <2>2
<1> QED
  BY <1>1, <1>10, <1>19 DEF e

-----------------------------------------------------------------------------
\* The shift that sets a limb's highest bit.
LEMMA LeadingZerosOf ==
  ASSUME NEW x \in 1..(Limb - 1)
  PROVE  /\ LeadingZeros64(x) \in 0..(LimbBits - 1)
         /\ Limb <= 2 * (x * 2^LeadingZeros64(x)) /\ x * 2^LeadingZeros64(x) < Limb
<1> DEFINE P(s) == 2^(LimbBits - 1) <= x * 2^s /\ x * 2^s < Limb
<1>1. PICK w \in Nat \ {0}, H \in Nat \ {0}, L \in Nat \ {0} :
        /\ w = LimbBits /\ H = 2^(LimbBits - 1) /\ L = Limb
        /\ w - 1 \in Nat /\ L = 2 * H
  <2>1. LimbBits \in Nat \ {0} /\ (2^(LimbBits - 1)) \in Nat \ {0} /\ Limb \in Nat \ {0} /\ LimbBits - 1 \in Nat /\ Limb = 2 * (2^(LimbBits - 1))
    <3>1. LimbBits \in Nat \ {0} /\ Limb \in Nat \ {0} /\ LimbBits - 1 \in Nat /\ (LimbBits - 1) + 1 = LimbBits
      BY LimbFacts
    <3>2. 2^(LimbBits - 1) \in Nat \ {0} /\ 2^((LimbBits - 1) + 1) = 2 * 2^(LimbBits - 1)
      BY <3>1, PowerNat, PowerNext
    <3> QED
      BY <3>1, <3>2 DEF Limb
  <2> QED
    BY <2>1, Zenon
<1> DEFINE I == {k \in 0..(w - 1) : (\E s \in 0..k : P(s)) \/ x * 2^k < H}
<1>2. 0 \in I
  <2>1. PICK o \in Nat : o = 0
    OBVIOUS
  <2>2. 2^(1 * 0) = 1
    BY Weight
  <2>3. x * 2^o = x /\ x < L
    BY <1>1, <2>1, <2>2
  <2>4. CASE H <= x
    <3>1. P(o)
      BY <1>1, <2>3, <2>4
    <3>2. o \in 0..o /\ o \in 0..(w - 1)
      BY <2>1
    <3>3. \E s \in 0..o : P(s)
      BY <3>1, <3>2, Zenon
    <3> HIDE DEF P
    <3>4. o \in I
      BY <3>2, <3>3
    <3> QED
      BY <2>1, <3>4
  <2>5. CASE x < H
    BY <1>1, <2>1, <2>3, <2>5
  <2> QED
    BY <1>1, <2>4, <2>5
<1>3. ASSUME NEW k \in 0..((w - 1) - 1), k \in I PROVE k + 1 \in I
  <2>1. k \in Nat /\ k + 1 \in 0..(w - 1)
    OBVIOUS
  <2>2. CASE \E s \in 0..k : P(s)
    <3>1. PICK s \in 0..k : P(s)
      BY <2>2
    <3>2. s \in 0..(k + 1)
      OBVIOUS
    <3> QED
      BY <2>1, <3>1, <3>2
  <2>3. CASE x * 2^k < H
    <3>1. PICK p \in Nat \ {0} : p = 2^k /\ 2^(k + 1) = 2 * p
      BY <2>1, PowerNat, PowerNext
    <3>2. x * (2 * p) = 2 * (x * p)
      OBVIOUS
    <3>3. PICK y \in Int : y = x * p
      OBVIOUS
    <3>4. x * 2^(k + 1) = 2 * y /\ 2 * y < L
      BY <1>1, <2>3, <3>1, <3>2, <3>3
    <3>5. CASE 2 * y < H
      BY <2>1, <3>4, <3>5
    <3>6. CASE H <= 2 * y
      <4>1. P(k + 1)
        BY <1>1, <3>4, <3>6
      <4>2. k + 1 \in 0..(k + 1)
        BY <2>1
      <4> QED
        BY <2>1, <4>1, <4>2
    <3> QED
      BY <1>1, <3>5, <3>6
  <2> QED
    BY <1>3, <2>2, <2>3
<1>4. w - 1 \in I
  <2> HIDE DEF I
  <2>1. w - 1 \in Nat /\ w - 1 \in 0..(w - 1)
    BY <1>1
  <2> QED
    BY <1>2, <1>3, <2>1, Climb
<1>5. \E s \in 0..(LimbBits - 1) : P(s)
  <2>1. ~(x * 2^(w - 1) < H)
    <3>1. x * H >= H
      <4>1. 1 * H <= x * H
        BY TimesLess
      <4> QED
        BY <4>1
    <3>2. PICK y \in Int : y = x * H
      OBVIOUS
    <3> QED
      BY <1>1, <3>1, <3>2
  <2> QED
    BY <1>1, <1>4, <2>1
<1>6. LeadingZeros64(x) = CHOOSE s \in 0..(LimbBits - 1) : P(s)
  BY DEF LeadingZeros64
<1>7. LeadingZeros64(x) \in 0..(LimbBits - 1) /\ P(LeadingZeros64(x))
  <2> HIDE DEF P
  <2> QED
    BY <1>5, <1>6
<1>8. PICK s \in 0..(LimbBits - 1) : s = LeadingZeros64(x)
  BY <1>7
<1>9. PICK y \in Int :
        /\ y = x * 2^s
  <2>1. (x * 2^s) \in Int
    <3>1. s \in Nat
      BY <1>1
    <3>2. 2^s \in Nat
      BY <3>1, PowerNat
    <3> QED
      BY <3>2
  <2> QED
    BY <2>1, Zenon
<1>10. H <= y /\ y < L
  BY <1>1, <1>7, <1>8, <1>9
<1> QED
  BY <1>1, <1>7, <1>8, <1>9, <1>10

\* A shift by s within a limb: t = 2^s, and e is the rest.
Shift(s, t, e) == /\ s \in 0..(LimbBits - 1) /\ t = 2^s /\ e = 2^(LimbBits - s)
                  /\ t \in Nat \ {0} /\ e \in Nat \ {0} /\ t * e = Limb

\* Shifting by s bits divides a limb into s and LimbBits - s of them.
LEMMA ShiftIs ==
  ASSUME NEW s \in 0..(LimbBits - 1)
  PROVE  Shift(s, 2^s, 2^(LimbBits - s))
<1>1. s \in Nat /\ LimbBits - s \in Nat /\ s + (LimbBits - s) = LimbBits
  BY LimbFacts
<1>2. 2^(s + (LimbBits - s)) = 2^s * 2^(LimbBits - s)
  BY <1>1, PowerAdd
<1> QED
  BY <1>1, <1>2, PowerNat DEF Shift, Limb

\* The limbs of x, zeros above the first len.
Padded(x, len, n) == [i \in 0..(n - 1) |-> IF i \in 0..(len - 1) THEN x[i] ELSE 0]

\* Zeros above the digits do not change the number.
LEMMA PaddedDigits ==
  ASSUME NEW len \in Nat, NEW n \in Nat, NEW x, HasDigits(x, len, LimbBits), len <= n
  PROVE  /\ HasDigits(Padded(x, len, n), n, LimbBits)
         /\ Number(Padded(x, len, n), n, LimbBits) = Number(x, len, LimbBits)
         /\ \A i \in 0..(len - 1) : Padded(x, len, n)[i] = x[i]
         /\ \A i \in len..(n - 1) : Padded(x, len, n)[i] = 0
<1> DEFINE y == Padded(x, len, n)
<1>1. \A i \in 0..(len - 1) : y[i] = x[i]
  BY DEF Padded
<1>2. \A i \in len..(n - 1) : y[i] = 0
  BY DEF Padded
<1> HIDE DEF y
<1>3. LimbBits \in Nat /\ Digits(LimbBits) = 0..(Limb - 1) /\ Limb \in Nat /\ Limb >= 2
  BY LimbFacts
<1>4. HasDigits(y, n, LimbBits)
  <2>1. ASSUME NEW i \in 0..(n - 1) PROVE y[i] \in Digits(LimbBits)
    <3>1. CASE i < len
      <4>1. i \in 0..(len - 1)
        BY <3>1
      <4>2. x[i] \in Digits(LimbBits)
        BY <4>1 DEF HasDigits
      <4> QED
        BY <1>1, <4>1, <4>2
    <3>2. CASE len <= i
      <4>1. i \in len..(n - 1)
        BY <3>2
      <4> QED
        BY <1>2, <1>3, <4>1
    <3> QED
      BY <3>1, <3>2
  <2> QED
    BY <2>1 DEF HasDigits
<1>5. PICK m \in Nat : m = n - len /\ len + m = n
  <2>1. n - len \in Nat
    OBVIOUS
  <2> QED
    BY <2>1
<1>6. HasInts(y, len + m) /\ HasInts(x, len)
  BY <1>3, <1>4, <1>5, DigitsInts
<1>7. Number(y, len + m, LimbBits) = Number(y, len, LimbBits) + 2^(LimbBits * len) * Number(Above(y, len, m), m, LimbBits)
  BY <1>3, <1>6, NumberSplit
<1>8. Number(Above(y, len, m), m, LimbBits) = 0
  <2>1. \A k \in 0..(m - 1) : Above(y, len, m)[k] = 0
    <3>1. ASSUME NEW k \in 0..(m - 1) PROVE Above(y, len, m)[k] = 0
      <4>1. len + k \in len..(n - 1)
        BY <1>5
      <4>2. Above(y, len, m)[k] = y[len + k]
        BY DEF Above
      <4> QED
        BY <1>2, <4>1, <4>2
    <3> QED
      BY <3>1
  <2> QED
    BY <1>3, <2>1, NumberZeros
<1>9. Number(y, len, LimbBits) = Number(x, len, LimbBits) /\ Number(x, len, LimbBits) \in Int
  BY <1>1, <1>3, <1>6, NumberSame, NumberTyped, SMTT(30)
<1>10. PICK p \in Int, N \in Int :
        /\ p = 2^(LimbBits * len) /\ N = Number(x, len, LimbBits)
  <2>1. (2^(LimbBits * len)) \in Int /\ Number(x, len, LimbBits) \in Int
    BY <1>3, <1>9, Weight
  <2> QED
    BY <2>1, Zenon
<1>11. N + p * 0 = N
  OBVIOUS
<1> QED
  BY <1>1, <1>2, <1>4, <1>5, <1>7, <1>8, <1>9, <1>10, <1>11 DEF y

\* y has m limbs of x, which has len, times t; c is what does not fit.
Normal(x, y, len, n, m, t) ==
  \E c \in 0..(t - 1) :
    /\ c = IF m = 0 THEN 0 ELSE (Padded(x, len, n)[m - 1] * t) \div Limb
    /\ Number(y, m, LimbBits) + c * 2^(LimbBits * m) = Number(x, len, LimbBits) * t

\* A normalized number: its limbs shifted, as many as m.
LEMMA NormalizedIs ==
  ASSUME NEW len \in Nat, NEW n \in Nat, NEW x, HasDigits(x, len, LimbBits), NEW m \in Nat, m <= n, len <= m,
         NEW s, NEW t, NEW e, Shift(s, t, e)
  PROVE  /\ HasDigits(Normalized(x, len, s, n), n, LimbBits)
         /\ Normal(x, Normalized(x, len, s, n), len, n, m, t)
         /\ \A i \in (len + 1)..(n - 1) : Normalized(x, len, s, n)[i] = 0
<1> DEFINE y == Normalized(x, len, s, n)
           p == Padded(x, len, n)
<1>1. t \in Nat \ {0} /\ e \in Nat \ {0} /\ t * e = Limb /\ t = 2^s
  BY DEF Shift
<1>2. LimbBits \in Nat /\ len <= n /\ Limb \in Nat \ {0} /\ Digits(LimbBits) = 0..(Limb - 1)
  BY LimbFacts
<1>3. /\ HasDigits(p, n, LimbBits)
      /\ \A i \in 0..(len - 1) : p[i] = x[i]
      /\ \A i \in len..(n - 1) : p[i] = 0
  BY <1>2, PaddedDigits
<1>4. 0 * t = 0 /\ (0 % Limb) = 0 /\ 0 \div Limb = 0
  <2>1. PICK o \in Int : o = 0
    OBVIOUS
  <2>2. o % Limb = 0 /\ o \div Limb = 0
    BY <1>2, <2>1, DivSmall
  <2> QED
    BY <1>1, <2>1, <2>2
<1> HIDE DEF p
<1>5. ASSUME NEW i \in 0..(n - 1)
      PROVE  y[i] = ((p[i] * t) % Limb) + (IF i = 0 THEN 0 ELSE (p[i - 1] * t) \div Limb)
  <2> DEFINE At(k) == IF k \in 0..(len - 1) THEN x[k] * 2^s ELSE 0
  <2>1. y[i] = (At(i) % Limb) + At(i - 1) \div Limb
    BY DEF Normalized
  <2>2. At(i) = p[i] * t
    <3>1. CASE i \in 0..(len - 1)
      BY <1>1, <1>3, <3>1
    <3>2. CASE i \notin 0..(len - 1)
      <4>1. i \in len..(n - 1)
        BY <3>2
      <4> QED
        BY <1>3, <1>4, <3>2, <4>1
    <3> QED
      BY <3>1, <3>2
  <2>3. CASE i = 0
    <3>1. At(i - 1) = 0
      BY <2>3
    <3> HIDE DEF At
    <3>2. y[i] = ((p[i] * t) % Limb) + 0
      BY <1>4, <2>1, <2>2, <3>1
    <3> QED
      BY <2>3, <3>2
  <2>4. CASE i # 0
    <3>1. At(i - 1) = p[i - 1] * t
      <4>1. CASE i - 1 \in 0..(len - 1)
        BY <1>1, <1>3, <4>1
      <4>2. CASE i - 1 \notin 0..(len - 1)
        <5>1. i - 1 \in len..(n - 1)
          BY <2>4, <4>2
        <5> QED
          BY <1>3, <1>4, <4>2, <5>1
      <4> QED
        BY <4>1, <4>2
    <3> HIDE DEF At
    <3> QED
      BY <2>1, <2>2, <2>4, <3>1
  <2> QED
    BY <2>3, <2>4
<1> HIDE DEF y
<1>6. Ups(p, y, n, t)
  BY <1>3, <1>5 DEF Ups
<1>7. HasDigits(y, n, LimbBits)
  BY <1>1, <1>6, ShiftUp
<1>8. HasDigits(p, m, LimbBits)
  BY <1>2, <1>3, Fewer
<1>9. Ups(p, y, m, t)
  <2>1. ASSUME NEW i \in 0..(m - 1) PROVE y[i] = ((p[i] * t) % Limb) + (IF i = 0 THEN 0 ELSE (p[i - 1] * t) \div Limb)
    <3>1. i \in 0..(n - 1)
      OBVIOUS
    <3> QED
      BY <1>5, <3>1
  <2> QED
    BY <1>8, <2>1 DEF Ups
<1>10. Upped(p, y, m, t)
  BY <1>1, <1>9, ShiftUp
<1>11. Number(p, m, LimbBits) = Number(x, len, LimbBits)
  <2>1. Number(Padded(x, len, m), m, LimbBits) = Number(x, len, LimbBits)
    BY PaddedDigits
  <2>2. \A i \in 0..(m - 1) : p[i] = Padded(x, len, m)[i]
    BY DEF p, Padded
  <2>3. HasInts(Padded(x, len, m), m)
    <3>1. HasDigits(Padded(x, len, m), m, LimbBits)
      BY PaddedDigits
    <3> QED
      BY <1>2, <3>1, DigitsInts
  <2>4. Number(p, m, LimbBits) = Number(Padded(x, len, m), m, LimbBits)
    BY <1>2, <2>2, <2>3, NumberSame
  <2> QED
    BY <2>1, <2>4
<1>12. ASSUME NEW i \in (len + 1)..(n - 1) PROVE y[i] = 0
  <2>1. i \in 0..(n - 1) /\ i # 0 /\ i \in len..(n - 1) /\ i - 1 \in len..(n - 1)
    OBVIOUS
  <2>2. p[i] = 0 /\ p[i - 1] = 0
    BY <1>3, <2>1
  <2> QED
    BY <1>4, <1>5, <2>1, <2>2
<1>13. \E c \in 0..(t - 1) :
         /\ c = IF m = 0 THEN 0 ELSE (p[m - 1] * t) \div Limb
         /\ Number(y, m, LimbBits) + c * 2^(LimbBits * m) = Number(x, len, LimbBits) * t
  BY <1>10, <1>11 DEF Upped
<1>14. Normal(x, y, len, n, m, t)
  BY <1>13 DEF Normal, p
<1> QED
  BY <1>7, <1>12, <1>14 DEF y

\* y is x with v as digit j.
Changed(x, y, n, j, v) ==
  /\ HasInts(x, n) /\ j \in 0..(n - 1) /\ v \in Int /\ y[j] = v
  /\ \A i \in 0..(n - 1) : i # j => y[i] = x[i]

\* Changing one digit changes the number by the difference at its place.
LEMMA NumberChanged ==
  ASSUME NEW n \in Nat, NEW w \in Nat, NEW x, NEW y, NEW j, NEW v, Changed(x, y, n, j, v)
  PROVE  HasInts(y, n) /\ Number(y, n, w) = Number(x, n, w) + (v - x[j]) * 2^(w * j)
<1>1. HasInts(x, n) /\ j \in 0..(n - 1) /\ v \in Int /\ y[j] = v /\ \A i \in 0..(n - 1) : i # j => y[i] = x[i]
  BY DEF Changed
<1>2. PICK m \in Nat : m = n - (j + 1) /\ (j + 1) + m = n /\ j \in Nat /\ j + 1 \in Nat
  <2>1. n - (j + 1) \in Nat /\ (j + 1) + (n - (j + 1)) = n /\ j \in Nat /\ j + 1 \in Nat
    BY <1>1
  <2> QED
    BY <2>1, Zenon
<1>3. HasInts(y, n)
  BY <1>1 DEF HasInts
<1>4. HasInts(x, j + 1) /\ HasInts(y, j + 1) /\ HasInts(x, j) /\ HasInts(y, j)
  <2>1. j + 1 <= n /\ j <= n
    BY <1>2
  <2> QED
    BY <1>1, <1>2, <1>3, <2>1, Fewer
<1>5. HasInts(x, (j + 1) + m) /\ HasInts(y, (j + 1) + m)
  BY <1>1, <1>2, <1>3
<1>6. Number(x, j + 1, w) = Number(x, j, w) + x[j] * 2^(w * j) /\ Number(y, j + 1, w) = Number(y, j, w) + y[j] * 2^(w * j)
  BY <1>2, <1>4, NumberIs
<1>7. /\ Number(x, (j + 1) + m, w) = Number(x, j + 1, w) + 2^(w * (j + 1)) * Number(Above(x, j + 1, m), m, w)
      /\ Number(Above(x, j + 1, m), m, w) \in Int
  BY <1>2, <1>5, NumberSplit
<1>8. /\ Number(y, (j + 1) + m, w) = Number(y, j + 1, w) + 2^(w * (j + 1)) * Number(Above(y, j + 1, m), m, w)
  BY <1>2, <1>5, NumberSplit
<1>9. Number(y, j, w) = Number(x, j, w)
  <2>1. \A i \in 0..(j - 1) : y[i] = x[i]
    BY <1>1
  <2> QED
    BY <1>2, <1>4, <2>1, NumberSame
<1>10. Number(Above(y, j + 1, m), m, w) = Number(Above(x, j + 1, m), m, w)
  <2>1. \A i \in 0..(m - 1) : Above(y, j + 1, m)[i] = Above(x, j + 1, m)[i]
    BY <1>1, <1>2 DEF Above
  <2>2. HasInts(Above(x, j + 1, m), m)
    BY <1>1, <1>2 DEF Above, HasInts
  <2> QED
    BY <2>1, <2>2, NumberSame
<1>11. PICK a \in Int, b \in Int, c \in Int, h \in Int, o \in Int :
        /\ a = Number(x, j, w) /\ b = 2^(w * j) /\ c = 2^(w * (j + 1)) /\ h = Number(Above(x, j + 1, m), m, w) /\ o = x[j]
  <2>1. Number(x, j, w) \in Int /\ (2^(w * j)) \in Int /\ (2^(w * (j + 1))) \in Int /\ (Number(Above(x, j + 1, m), m, w)) \in Int /\ x[j] \in Int
    <3>1. Number(x, j, w) \in Int
      BY <1>2, <1>4, NumberTyped
    <3>2. 2^(w * j) \in Int /\ 2^(w * (j + 1)) \in Int
      BY <1>2, Weight
    <3>3. x[j] \in Int
      BY <1>1 DEF HasInts
    <3> QED
      BY <1>7, <3>1, <3>2, <3>3
  <2> QED
    BY <2>1, Zenon
<1>12. Number(x, n, w) = (a + o * b) + c * h /\ Number(y, n, w) = (a + v * b) + c * h
  BY <1>1, <1>2, <1>6, <1>7, <1>8, <1>9, <1>10, <1>11
<1>13. (v - o) * b = v * b - o * b
  BY <1>1
<1>14. PICK A \in Int, B \in Int, C \in Int : A = v * b /\ B = o * b /\ C = c * h
  BY <1>1
<1> QED
  BY <1>3, <1>11, <1>12, <1>13, <1>14

\* The loop of a division by one limb.
LEMMA LimbRoundsAre ==
  ASSUME NEW uLen \in 0..(2 * Limbs), NEW d \in 0..(Limb - 1), Limb <= 2 * d, NEW un, HasDigits(un, uLen + 1, LimbBits), un[uLen] < d
  PROVE  /\ limbRounds(un, uLen, d)[0] = [r |-> un[uLen], quot |-> Zeros]
         /\ \A k \in 1..uLen : limbRounds(un, uLen, d)[k] = [r |-> udivrem2by1(limbRounds(un, uLen, d)[k - 1].r, un[uLen - k], d, reciprocal2by1(d)).rem, quot |-> [limbRounds(un, uLen, d)[k - 1].quot EXCEPT ![uLen - k] = udivrem2by1(limbRounds(un, uLen, d)[k - 1].r, un[uLen - k], d, reciprocal2by1(d)).quot]]
         /\ \A k \in 0..uLen : limbRounds(un, uLen, d)[k] \in [r : 0..(d - 1), quot : Doubles]
<1> DEFINE f == limbRounds(un, uLen, d)
           T == [r : 0..(d - 1), quot : Doubles]
           E(k, acc) == [r |-> udivrem2by1(acc.r, un[uLen - k], d, reciprocal2by1(d)).rem, quot |-> [acc.quot EXCEPT ![uLen - k] = udivrem2by1(acc.r, un[uLen - k], d, reciprocal2by1(d)).quot]]
           Loop(g) == [k \in 0..uLen |-> IF k = 0 THEN [r |-> un[uLen], quot |-> Zeros] ELSE E(k, g[k - 1])]
           step == [k \in 1..uLen |-> [acc \in T |-> E(k, acc)]]
<1>1. ASSUME NEW k \in 1..uLen, NEW acc \in T PROVE E(k, acc) \in T
  <2>1. uLen - k \in 0..((uLen + 1) - 1) /\ Limb \in Nat /\ Digits(LimbBits) = 0..(Limb - 1)
    BY LimbFacts
  <2>2. un[uLen - k] \in 0..(Limb - 1)
    BY <2>1 DEF HasDigits
  <2>3. acc.r \in 0..(d - 1) /\ acc.quot \in Doubles
    OBVIOUS
  <2>4. /\ udivrem2by1(acc.r, un[uLen - k], d, reciprocal2by1(d)).quot \in 0..(Limb - 1)
        /\ udivrem2by1(acc.r, un[uLen - k], d, reciprocal2by1(d)).rem \in 0..(d - 1)
    BY <2>2, <2>3, TwoByOneExact
  <2> QED
    BY <2>3, <2>4 DEF Doubles
<1>2. [r |-> un[uLen], quot |-> Zeros] \in T /\ uLen \in Nat
  <2>1. uLen \in Nat /\ Limb \in Nat /\ Limb >= 2 /\ Limbs \in Nat /\ Digits(LimbBits) = 0..(Limb - 1)
    BY LimbFacts
  <2>2. un[uLen] \in 0..(Limb - 1)
    BY <2>1 DEF HasDigits
  <2>3. Zeros \in Doubles
    BY <2>1 DEF Zeros, Doubles
  <2> QED
    BY <2>1, <2>2, <2>3
<1>3. f = CHOOSE g : g = Loop(g)
  BY DEF limbRounds
<1> HIDE DEF E, T
<1>4. step \in [1..uLen -> [T -> T]] /\ \A k \in 1..uLen, acc \in T : step[k][acc] = E(k, acc)
  BY <1>1
<1> HIDE DEF step, f
<1>5. PICK g : IsLoop(g, T, uLen, [r |-> un[uLen], quot |-> Zeros], step)
  BY <1>2, <1>4, Rounds, Zenon
<1>6. g = Loop(g)
  <2>1. ASSUME NEW k \in 0..uLen PROVE g[k] = Loop(g)[k]
    <3>1. CASE k = 0
      BY <1>5, <3>1 DEF IsLoop
    <3>2. CASE k # 0
      <4>1. k \in 1..uLen /\ k - 1 \in 0..uLen
        BY <1>2, <3>2
      <4>2. g[k] = E(k, g[k - 1])
        BY <1>4, <1>5, <4>1 DEF IsLoop
      <4> QED
        BY <3>2, <4>2
    <3> QED
      BY <3>1, <3>2
  <2> QED
    BY <1>5, <2>1 DEF IsLoop
<1>7. f = Loop(f)
  <2> HIDE DEF Loop
  <2> QED
    BY <1>3, <1>6
<1>8. f[0] = [r |-> un[uLen], quot |-> Zeros] /\ \A k \in 1..uLen : f[k] = E(k, f[k - 1])
  <2>1. ASSUME NEW k \in 0..uLen PROVE f[k] = IF k = 0 THEN [r |-> un[uLen], quot |-> Zeros] ELSE E(k, f[k - 1])
    BY <1>7
  <2>2. 0 \in 0..uLen /\ \A k \in 1..uLen : k \in 0..uLen /\ k # 0
    BY <1>2
  <2> QED
    BY <2>1, <2>2, Zenon
<1>9. \A k \in 0..uLen : f[k] \in T
  <2>1. f[0] \in T
    BY <1>2, <1>8
  <2>2. ASSUME NEW k \in 1..uLen, f[k - 1] \in T PROVE f[k] \in T
    BY <1>1, <1>8, <2>2
  <2> QED
    BY <1>2, <2>1, <2>2, RoundsIn
<1> QED
  BY <1>8, <1>9 DEF f, T, E

\* Limb by limb from the highest, the quotient of a number by one limb.
LEMMA LimbRoundsExact ==
  ASSUME NEW uLen \in 0..(2 * Limbs), NEW d \in 0..(Limb - 1), Limb <= 2 * d,
         NEW un, HasDigits(un, uLen + 1, LimbBits), un[uLen] < d
  PROVE  LET f == limbRounds(un, uLen, d)[uLen]
         IN  /\ f.r \in 0..(d - 1) /\ f.quot \in Doubles
             /\ Number(f.quot, 2 * Limbs, LimbBits) * d + f.r = Number(un, uLen + 1, LimbBits)
<1> DEFINE g == limbRounds(un, uLen, d)
           w == LimbBits
           T == 2 * Limbs
           e(k) == udivrem2by1(g[k - 1].r, un[uLen - k], d, reciprocal2by1(d))
<1>1. /\ g[0] = [r |-> un[uLen], quot |-> Zeros]
      /\ \A k \in 1..uLen : g[k] = [r |-> e(k).rem, quot |-> [g[k - 1].quot EXCEPT ![uLen - k] = e(k).quot]]
      /\ \A k \in 0..uLen : g[k] \in [r : 0..(d - 1), quot : Doubles]
  BY LimbRoundsAre
<1>2. uLen \in Nat /\ T \in Nat /\ w \in Nat /\ uLen <= T /\ Limb \in Nat /\ Digits(w) = 0..(Limb - 1) /\ 2^w = Limb
  BY LimbFacts
<1>3. HasInts(un, uLen + 1) /\ \A j \in 0..uLen : un[j] \in 0..(Limb - 1)
  <2>1. uLen + 1 \in Nat /\ (uLen + 1) - 1 = uLen
    BY <1>2
  <2>2. HasInts(un, uLen + 1)
    BY <1>2, <2>1, DigitsInts
  <2>3. \A j \in 0..((uLen + 1) - 1) : un[j] \in Digits(w)
    BY DEF HasDigits
  <2> QED
    BY <1>2, <2>1, <2>2, <2>3
<1> DEFINE N == Number(un, uLen + 1, w)
           I == {k \in 0..uLen : /\ \A i \in 0..(uLen - k - 1) : g[k].quot[i] = 0
                                 /\ N = Number(g[k].quot, T, w) * d + g[k].r * 2^(w * (uLen - k)) + Number(un, uLen - k, w)}
<1> HIDE DEF g
<1>4. N \in Int
  BY <1>2, <1>3, NumberTyped
<1>5. 0 \in I
  <2>1. g[0].quot = Zeros /\ g[0].r = un[uLen]
    BY <1>1
  <2>2. \A i \in 0..(T - 1) : Zeros[i] = 0
    BY DEF Zeros
  <2>3. Number(Zeros, T, w) = 0
    BY <1>2, <2>2, NumberZeros
  <2>4. N = Number(un, uLen, w) + un[uLen] * 2^(w * uLen) /\ Number(un, uLen, w) \in Int
    BY <1>2, <1>3, NumberIs
  <2>5. uLen - 0 = uLen /\ 0 * d = 0
    BY <1>2
  <2>6. PICK a \in Int, b \in Int :
          /\ a = Number(un, uLen, w) /\ b = un[uLen] * 2^(w * uLen)
    <3>1. Number(un, uLen, w) \in Int /\ (un[uLen] * 2^(w * uLen)) \in Int
      <4>1. un[uLen] \in Int
        BY <1>2, <1>3
      <4>2. 2^(w * uLen) \in Int
        BY <1>2, Weight
      <4> QED
        BY <2>4, <4>1, <4>2
    <3> QED
      BY <3>1, Zenon
  <2>7. N = 0 + b + a
    BY <2>4, <2>6
  <2>8. \A i \in 0..(uLen - 0 - 1) : g[0].quot[i] = 0
    BY <1>2, <2>1, <2>2
  <2> HIDE DEF N
  <2>9. N = Number(g[0].quot, T, w) * d + g[0].r * 2^(w * (uLen - 0)) + Number(un, uLen - 0, w)
    BY <2>1, <2>3, <2>5, <2>6, <2>7
  <2>10. 0 \in 0..uLen
    BY <1>2
  <2> QED
    BY <2>8, <2>9, <2>10
<1>6. ASSUME NEW k \in 0..(uLen - 1), k \in I PROVE k + 1 \in I
  <2>1. PICK j \in Nat : j = uLen - (k + 1) /\ uLen - k = j + 1 /\ j \in 0..(T - 1) /\ k \in 0..uLen /\ k + 1 \in 1..uLen /\ (k + 1) - 1 = k /\ j \in 0..uLen /\ j + 1 <= uLen
    <3>1. uLen - (k + 1) \in Nat /\ uLen - k = (uLen - (k + 1)) + 1 /\ uLen - (k + 1) \in 0..(T - 1) /\ k \in 0..uLen /\ k + 1 \in 1..uLen /\ (k + 1) - 1 = k /\ uLen - (k + 1) \in 0..uLen /\ (uLen - (k + 1)) + 1 <= uLen
      BY <1>2
    <3> QED
      BY <3>1, Zenon
  <2>2. PICK r \in 0..(d - 1), Q \in Doubles : r = g[k].r /\ Q = g[k].quot
    BY <1>1, <2>1
  <2> DEFINE s == udivrem2by1(r, un[j], d, reciprocal2by1(d))
  <2>3. g[k + 1] = [r |-> s.rem, quot |-> [Q EXCEPT ![j] = s.quot]]
    BY <1>1, <2>1, <2>2
  <2>4. /\ s.quot \in 0..(Limb - 1) /\ s.rem \in 0..(d - 1)
        /\ s.quot * d + s.rem = r * Limb + un[j]
    <3>1. un[j] \in 0..(Limb - 1)
      BY <1>3, <2>1
    <3> QED
      BY <3>1, TwoByOneExact
  <2> HIDE DEF s
  <2>5. PICK q \in Int, m \in Int, u \in Int : q = s.quot /\ m = s.rem /\ u = un[j] /\ q * d + m = r * Limb + u
    <3>1. s.quot \in Int /\ s.rem \in Int /\ un[j] \in Int
      BY <1>2, <1>3, <2>1, <2>4, SMTT(30)
    <3> QED
      BY <2>4, <3>1, Zenon
  <2> DEFINE P == [Q EXCEPT ![j] = q]
  <2>6. g[k + 1].r = m /\ g[k + 1].quot = P
    BY <2>3, <2>5
  <2>7. /\ \A i \in 0..j : Q[i] = 0
        /\ N = Number(Q, T, w) * d + r * 2^(w * (j + 1)) + Number(un, j + 1, w)
    <3>1. uLen - k - 1 = j
      BY <2>1
    <3> QED
      BY <1>6, <2>1, <2>2, <3>1
  <2>8. HasInts(Q, T) /\ P[j] = q /\ \A i \in 0..(T - 1) : i # j => P[i] = Q[i]
    BY <1>2, <2>1 DEF Doubles, HasInts
  <2>9. \A i \in 0..(j - 1) : P[i] = 0
    BY <1>2, <2>1, <2>7, <2>8
  <2> HIDE DEF P
  <2>10. Changed(Q, P, T, j, q)
    BY <2>1, <2>8 DEF Changed
  <2>11. Number(P, T, w) = Number(Q, T, w) + (q - Q[j]) * 2^(w * j)
    BY <1>2, <2>10, NumberChanged
  <2>12. Q[j] = 0
    BY <2>1, <2>7
  <2>13. Number(un, j + 1, w) = Number(un, j, w) + u * 2^(w * j) /\ Number(un, j, w) \in Int
    <3>1. HasInts(un, j + 1)
      <4>1. j + 1 <= uLen + 1 /\ j + 1 \in Nat /\ uLen + 1 \in Nat
        BY <2>1
      <4> QED
        BY <1>2, <1>3, <4>1, Fewer
    <3> QED
      BY <1>2, <2>1, <2>5, <3>1, NumberIs
  <2>14. PICK B \in Int, X \in Int, Y \in Int, L \in Int :
          /\ B = 2^(w * j) /\ X = Number(Q, T, w) /\ Y = Number(un, j, w) /\ L = Limb
          /\ 2^(w * (j + 1)) = B * L
    <3>1. (2^(w * j)) \in Int /\ Number(Q, T, w) \in Int /\ Number(un, j, w) \in Int /\ Limb \in Int /\ 2^(w * (j + 1)) = (2^(w * j)) * Limb
      <4>1. 2^(w * j) \in Int /\ 2^(w * (j + 1)) = 2^(w * j) * Limb
        <5>1. 2^(w * j) \in Nat \ {0} /\ 2^(w * (j + 1)) = 2^(w * j) * 2^w
          BY <1>2, Weight
        <5> QED
          BY <1>2, <5>1
      <4>2. Number(Q, T, w) \in Int
        BY <1>2, <2>8, NumberTyped
      <4> QED
        BY <1>2, <2>13, <4>1, <4>2
    <3> QED
      BY <3>1, Zenon
  <2>15. N = X * d + r * (B * L) + (Y + u * B)
    BY <2>7, <2>13, <2>14
  <2>16. Number(P, T, w) = X + q * B
    <3>1. q - 0 = q
      OBVIOUS
    <3> QED
      BY <2>11, <2>12, <2>14, <3>1
  <2>17. (X + q * B) * d + m * B = X * d + (q * d + m) * B
    OBVIOUS
  <2>18. (r * L + u) * B = r * (B * L) + u * B
    OBVIOUS
  <2>19. q * d + m = r * L + u
    BY <2>5, <2>14
  <2>20. N = (X + q * B) * d + m * B + Y
    <3>1. PICK A1 \in Int, A2 \in Int, A3 \in Int, A4 \in Int : A1 = X * d /\ A2 = r * (B * L) /\ A3 = u * B /\ A4 = (q * d + m) * B
      OBVIOUS
    <3>2. A4 = A2 + A3
      BY <2>18, <2>19, <3>1
    <3>3. N = A1 + A2 + (Y + A3) /\ (X + q * B) * d + m * B = A1 + A4
      BY <2>15, <2>17, <3>1
    <3> QED
      BY <3>2, <3>3
  <2>21. N = Number(g[k + 1].quot, T, w) * d + g[k + 1].r * 2^(w * (uLen - (k + 1))) + Number(un, uLen - (k + 1), w)
    BY <2>1, <2>6, <2>14, <2>16, <2>20
  <2>22. \A i \in 0..(uLen - (k + 1) - 1) : g[k + 1].quot[i] = 0
    BY <2>1, <2>6, <2>9
  <2>23. k + 1 \in 0..uLen
    BY <2>1
  <2> HIDE DEF N
  <2> QED
    BY <2>21, <2>22, <2>23
<1> HIDE DEF I, N
<1>7. uLen \in I
  <2>1. uLen \in 0..uLen
    BY <1>2
  <2> QED
    BY <1>2, <1>5, <1>6, <2>1, Climb
<1>8. g[uLen] \in [r : 0..(d - 1), quot : Doubles]
  BY <1>1, <1>2
<1>9. N = Number(g[uLen].quot, T, w) * d + g[uLen].r
  <2>1. uLen - uLen = 0
    BY <1>2
  <2>2. N = Number(g[uLen].quot, T, w) * d + g[uLen].r * 2^(w * 0) + Number(un, 0, w)
    BY <1>7, <2>1 DEF I
  <2>3. 2^(w * 0) = 1 /\ Number(un, 0, w) = 0
    BY <1>2, Weight, NumberZero
  <2>4. PICK X \in Int, r \in Int :
          /\ X = Number(g[uLen].quot, T, w) /\ r = g[uLen].r
    <3>1. Number(g[uLen].quot, T, w) \in Int /\ g[uLen].r \in Int
      <4>1. HasInts(g[uLen].quot, T)
        BY <1>2, <1>8 DEF Doubles, HasInts
      <4> QED
        BY <1>2, <1>8, <4>1, NumberTyped
    <3> QED
      BY <3>1, Zenon
  <2>5. N = X * d + r * 1 + 0
    BY <2>2, <2>3, <2>4
  <2>6. r * 1 = r /\ X * d \in Int
    OBVIOUS
  <2> QED
    BY <2>4, <2>5, <2>6
<1> QED
  BY <1>8, <1>9 DEF g, N

-----------------------------------------------------------------------------
\* The dividend's limbs, one more than a product has.
Longs == [0..(2 * Limbs) -> 0..(Limb - 1)]

\* A limb y of the divisor, times x, is taken from the limb u, with the borrow c: d is
\* kept and k borrowed.
SubMulAt(x, y, u, c, d, k) ==
  /\ x \in 0..(Limb - 1) /\ y \in 0..(Limb - 1) /\ u \in 0..(Limb - 1) /\ c \in 0..(Limb - 1)
  /\ d = (u - c - ((y * x) % Limb)) % Limb
  /\ k = (y * x) \div Limb - (u - c - ((y * x) % Limb)) \div Limb

\* What a limb keeps and borrows is exact, and the borrow fits a limb.
LEMMA SubMulLimb ==
  ASSUME NEW x, NEW y, NEW u, NEW c, NEW d, NEW k, SubMulAt(x, y, u, c, d, k)
  PROVE  /\ d \in 0..(Limb - 1) /\ k \in 0..(Limb - 1)
         /\ d - Limb * k = u - c - y * x
<1>1. PICK L \in Nat \ {0} : L = Limb
  BY LimbFacts
<1>2. x \in 0..(L - 1) /\ y \in 0..(L - 1) /\ u \in 0..(L - 1) /\ c \in 0..(L - 1)
  BY <1>1 DEF SubMulAt
<1>3. y * x \in 0..((L - 1) * (L - 1))
  <2>1. y * x >= 0 /\ y * x <= y * (L - 1)
    BY <1>2
  <2>2. y * (L - 1) <= (L - 1) * (L - 1)
    BY <1>2
  <2>3. y * x \in Int /\ y * (L - 1) \in Int
    BY <1>2
  <2> QED
    BY <2>1, <2>2, <2>3
<1>4. PICK v \in Int : v = y * x
  BY <1>3
<1>5. PICK h \in Int, l \in Int : h = v \div L /\ l = v % L /\ v = L * h + l /\ 0 <= l /\ l < L
  BY DivPick, Zenon
<1>6. PICK t \in Int : t = u - c - l
  BY <1>2
<1>7. PICK g \in Int, e \in Int : g = t \div L /\ e = t % L /\ t = L * g + e /\ 0 <= e /\ e < L
  BY DivPick, Zenon
<1>8. PICK q \in Int : q = h - g
  OBVIOUS
<1>9. e - L * q = u - c - v
  <2>1. L * (h - g) = L * h - L * g
    OBVIOUS
  <2>2. PICK A \in Int, B \in Int : A = L * h /\ B = L * g
    OBVIOUS
  <2>3. L * q = A - B
    BY <1>8, <2>1, <2>2
  <2> QED
    BY <1>2, <1>5, <1>6, <1>7, <2>2, <2>3
<1>10. 0 <= q /\ q < L
  <2>1. (L - 1) * (L - 1) + (L - 1) + (L - 1) = L * L - 1
    OBVIOUS
  <2>2. PICK S \in Int, A \in Int, G \in Int : S = L * L /\ A = L * q /\ G = (L - 1) * (L - 1)
    OBVIOUS
  <2>3. A > -L /\ A <= S - 1
    <3>1. 0 <= v /\ v <= G
      BY <1>3, <1>4, <2>2
    <3>2. A = e + c + v - u
      BY <1>2, <1>9, <2>2
    <3>3. G + (L - 1) + (L - 1) = S - 1
      BY <2>1, <2>2
    <3> QED
      BY <1>2, <1>7, <3>1, <3>2, <3>3
  <2>4. ~(q <= -1)
    <3>1. ASSUME q <= -1 PROVE L * q <= -L
      BY <3>1
    <3> QED
      BY <2>2, <2>3, <3>1
  <2>5. ~(q >= L)
    <3>1. ASSUME q >= L PROVE L * q >= L * L
      BY <3>1
    <3> QED
      BY <2>2, <2>3, <3>1
  <2> QED
    BY <2>4, <2>5
<1>11. d = e /\ k = q
  BY <1>1, <1>4, <1>5, <1>6, <1>7, <1>8 DEF SubMulAt
<1> QED
  BY <1>1, <1>4, <1>7, <1>9, <1>10, <1>11

\* n limbs of un, from limb j on, meet a divisor of n limbs.
Window(un, j, dn, n) ==
  /\ un \in Longs /\ n \in Nat /\ j \in Nat /\ j + n <= 2 * Limbs
  /\ HasDigits(dn, n, LimbBits)

\* The limbs of the dividend under the divisor, and of the divisor.
LEMMA WindowLimbs ==
  ASSUME NEW un, NEW j, NEW dn, NEW n, Window(un, j, dn, n)
  PROVE  /\ \A i \in 0..(n - 1) : un[j + i] \in 0..(Limb - 1) /\ dn[i] \in 0..(Limb - 1)
         /\ \A i \in 0..n : un[j + i] \in 0..(Limb - 1)
         /\ HasDigits(Above(un, j, n), n, LimbBits)
         /\ HasDigits(un, 2 * Limbs + 1, LimbBits)
<1>1. Limbs \in Nat /\ Limb \in Nat /\ Digits(LimbBits) = 0..(Limb - 1)
  BY LimbFacts
<1>2. \A i \in 0..n : un[j + i] \in 0..(Limb - 1)
  BY <1>1 DEF Window, Longs
<1>3. \A i \in 0..(n - 1) : un[j + i] \in 0..(Limb - 1) /\ dn[i] \in 0..(Limb - 1)
  BY <1>1, <1>2 DEF Window, HasDigits
<1>4. HasDigits(Above(un, j, n), n, LimbBits)
  BY <1>1, <1>3 DEF HasDigits, Above
<1>5. HasDigits(un, 2 * Limbs + 1, LimbBits)
  BY <1>1 DEF Window, Longs, HasDigits
<1> QED
  BY <1>2, <1>3, <1>4, <1>5

\* What the limbs below i borrow, when the divisor times m is subtracted.
LEMMA SubMulBorrowsAre ==
  ASSUME NEW un, NEW j, NEW dn, NEW n, Window(un, j, dn, n), NEW m \in 0..(Limb - 1)
  PROVE  /\ subMulBorrows(un, j, dn, n, m)[0] = 0
         /\ \A i \in 1..n : subMulBorrows(un, j, dn, n, m)[i] = (dn[i - 1] * m) \div Limb - subMulDiff(un, j, dn, m, i - 1, subMulBorrows(un, j, dn, n, m)[i - 1]) \div Limb
         /\ \A i \in 0..n : subMulBorrows(un, j, dn, n, m)[i] \in 0..(Limb - 1)
<1> DEFINE f == subMulBorrows(un, j, dn, n, m)
           T == 0..(Limb - 1)
           E(i, cy) == (dn[i - 1] * m) \div Limb - subMulDiff(un, j, dn, m, i - 1, cy) \div Limb
           Loop(g) == [i \in 0..n |-> IF i = 0 THEN 0 ELSE E(i, g[i - 1])]
           step == [i \in 1..n |-> [cy \in T |-> E(i, cy)]]
<1>1. ASSUME NEW i \in 1..n, NEW cy \in T PROVE E(i, cy) \in T
  <2>1. i - 1 \in 0..(n - 1)
    BY DEF Window
  <2>2. un[j + (i - 1)] \in 0..(Limb - 1) /\ dn[i - 1] \in 0..(Limb - 1)
    BY <2>1, WindowLimbs
  <2>3. SubMulAt(m, dn[i - 1], un[j + (i - 1)], cy, (un[j + (i - 1)] - cy - ((dn[i - 1] * m) % Limb)) % Limb, E(i, cy))
    BY <2>2 DEF SubMulAt, subMulDiff
  <2> QED
    BY <2>3, SubMulLimb
<1>2. 0 \in T /\ n \in Nat
  BY LimbFacts DEF Window
<1>3. f = CHOOSE g : g = Loop(g)
  BY DEF subMulBorrows
<1> HIDE DEF E, T
<1>4. step \in [1..n -> [T -> T]] /\ \A i \in 1..n, cy \in T : step[i][cy] = E(i, cy)
  BY <1>1
<1> HIDE DEF step, f
<1>5. PICK g : IsLoop(g, T, n, 0, step)
  BY <1>2, <1>4, Rounds, Zenon
<1>6. g = Loop(g)
  <2>1. ASSUME NEW i \in 0..n PROVE g[i] = Loop(g)[i]
    <3>1. CASE i = 0
      BY <1>5, <3>1 DEF IsLoop
    <3>2. CASE i # 0
      <4>1. i \in 1..n /\ i - 1 \in 0..n
        BY <1>2, <3>2
      <4>2. g[i] = E(i, g[i - 1])
        BY <1>4, <1>5, <4>1 DEF IsLoop
      <4> QED
        BY <3>2, <4>2
    <3> QED
      BY <3>1, <3>2
  <2> QED
    BY <1>5, <2>1 DEF IsLoop
<1>7. f = Loop(f)
  <2> HIDE DEF Loop
  <2> QED
    BY <1>3, <1>6
<1>8. f[0] = 0 /\ \A i \in 1..n : f[i] = E(i, f[i - 1])
  <2>1. ASSUME NEW i \in 0..n PROVE f[i] = IF i = 0 THEN 0 ELSE E(i, f[i - 1])
    BY <1>7
  <2>2. 0 \in 0..n /\ \A i \in 1..n : i \in 0..n /\ i # 0
    BY <1>2
  <2> QED
    BY <2>1, <2>2, Zenon
<1>9. \A i \in 0..n : f[i] \in T
  <2>1. f[0] \in T
    BY <1>2, <1>8
  <2>2. ASSUME NEW i \in 1..n, f[i - 1] \in T PROVE f[i] \in T
    BY <1>1, <1>8, <2>2
  <2> QED
    BY <1>2, <2>1, <2>2, RoundsIn
<1> QED
  BY <1>8, <1>9 DEF f, T, E


\* What the limbs below i carry, when the divisor is added back.
LEMMA AddToUnCarriesAre ==
  ASSUME NEW un, NEW j, NEW dn, NEW n, Window(un, j, dn, n)
  PROVE  /\ addToUnCarries(un, j, dn, n)[0] = 0
         /\ \A i \in 1..n : addToUnCarries(un, j, dn, n)[i] = (un[j + i - 1] + dn[i - 1] + addToUnCarries(un, j, dn, n)[i - 1]) \div Limb
         /\ \A i \in 0..n : addToUnCarries(un, j, dn, n)[i] \in 0..1
<1> DEFINE f == addToUnCarries(un, j, dn, n)
           T == 0..1
           E(i, cy) == (un[j + i - 1] + dn[i - 1] + cy) \div Limb
           Loop(g) == [i \in 0..n |-> IF i = 0 THEN 0 ELSE E(i, g[i - 1])]
           step == [i \in 1..n |-> [cy \in T |-> E(i, cy)]]
<1>1. ASSUME NEW i \in 1..n, NEW cy \in T PROVE E(i, cy) \in T
  <2>1. i - 1 \in 0..(n - 1) /\ j + (i - 1) = j + i - 1 /\ Limb \in Nat \ {0}
    BY LimbFacts DEF Window
  <2>2. un[j + i - 1] \in 0..(Limb - 1) /\ dn[i - 1] \in 0..(Limb - 1)
    BY <2>1, WindowLimbs
  <2>3. un[j + i - 1] + dn[i - 1] + cy \in 0..(2 * Limb - 1)
    BY <2>1, <2>2
  <2> QED
    BY <2>1, <2>3, CarryBound
<1>2. 0 \in T /\ n \in Nat
  BY LimbFacts DEF Window
<1>3. f = CHOOSE g : g = Loop(g)
  BY DEF addToUnCarries
<1> HIDE DEF E, T
<1>4. step \in [1..n -> [T -> T]] /\ \A i \in 1..n, cy \in T : step[i][cy] = E(i, cy)
  BY <1>1
<1> HIDE DEF step, f
<1>5. PICK g : IsLoop(g, T, n, 0, step)
  BY <1>2, <1>4, Rounds, Zenon
<1>6. g = Loop(g)
  <2>1. ASSUME NEW i \in 0..n PROVE g[i] = Loop(g)[i]
    <3>1. CASE i = 0
      BY <1>5, <3>1 DEF IsLoop
    <3>2. CASE i # 0
      <4>1. i \in 1..n /\ i - 1 \in 0..n
        BY <1>2, <3>2
      <4>2. g[i] = E(i, g[i - 1])
        BY <1>4, <1>5, <4>1 DEF IsLoop
      <4> QED
        BY <3>2, <4>2
    <3> QED
      BY <3>1, <3>2
  <2> QED
    BY <1>5, <2>1 DEF IsLoop
<1>7. f = Loop(f)
  <2> HIDE DEF Loop
  <2> QED
    BY <1>3, <1>6
<1>8. f[0] = 0 /\ \A i \in 1..n : f[i] = E(i, f[i - 1])
  <2>1. ASSUME NEW i \in 0..n PROVE f[i] = IF i = 0 THEN 0 ELSE E(i, f[i - 1])
    BY <1>7
  <2>2. 0 \in 0..n /\ \A i \in 1..n : i \in 0..n /\ i # 0
    BY <1>2
  <2> QED
    BY <2>1, <2>2, Zenon
<1>9. \A i \in 0..n : f[i] \in T
  <2>1. f[0] \in T
    BY <1>2, <1>8
  <2>2. ASSUME NEW i \in 1..n, f[i - 1] \in T PROVE f[i] \in T
    BY <1>1, <1>8, <2>2
  <2> QED
    BY <1>2, <2>1, <2>2, RoundsIn
<1> QED
  BY <1>8, <1>9 DEF f, T, E

\* v is un with the limbs y from limb j on.
PlacedAt(un, v, j, n, y) ==
  /\ v \in Longs
  /\ \A i \in 0..(n - 1) : v[j + i] = y[i]
  /\ \A k \in 0..(2 * Limbs) : k < j \/ k >= j + n => v[k] = un[k]
  /\ Number(Above(v, j, n), n, LimbBits) = Number(y, n, LimbBits)

\* Limbs put under the divisor replace those, and no others.
LEMMA PlacedIs ==
  ASSUME NEW un, NEW j, NEW dn, NEW n, Window(un, j, dn, n), NEW y, HasDigits(y, n, LimbBits)
  PROVE  PlacedAt(un, Placed(un, j, n, y), j, n, y)
<1> DEFINE v == Placed(un, j, n, y)
<1>1. Limbs \in Nat /\ Limb \in Nat /\ LimbBits \in Nat /\ Digits(LimbBits) = 0..(Limb - 1)
  BY LimbFacts
<1>2. un \in Longs /\ n \in Nat /\ j \in Nat /\ j + n <= 2 * Limbs
  BY DEF Window
<1>3. v = [k \in 0..(2 * Limbs) |-> IF k - j \in 0..(n - 1) THEN y[k - j] ELSE un[k]]
  BY DEF Placed
<1> HIDE DEF v
<1>4. ASSUME NEW i \in 0..(n - 1) PROVE v[j + i] = y[i]
  <2>1. j + i \in 0..(2 * Limbs) /\ (j + i) - j = i
    BY <1>1, <1>2
  <2> QED
    BY <1>3, <2>1
<1>5. ASSUME NEW k \in 0..(2 * Limbs), k < j \/ k >= j + n PROVE v[k] = un[k]
  <2>1. k - j \notin 0..(n - 1)
    BY <1>1, <1>2, <1>5
  <2> QED
    BY <1>3, <2>1
<1>6. v \in Longs
  <2>1. ASSUME NEW k \in 0..(2 * Limbs) PROVE v[k] \in 0..(Limb - 1)
    <3>1. CASE k - j \in 0..(n - 1)
      <4>1. v[k] = y[k - j] /\ y[k - j] \in Digits(LimbBits)
        BY <1>3, <3>1 DEF HasDigits
      <4> QED
        BY <1>1, <4>1
    <3>2. CASE k - j \notin 0..(n - 1)
      BY <1>2, <1>3, <3>2 DEF Longs
    <3> QED
      BY <3>1, <3>2
  <2> QED
    BY <1>3, <2>1 DEF Longs
<1>7. Number(Above(v, j, n), n, LimbBits) = Number(y, n, LimbBits)
  <2>1. HasInts(y, n)
    BY <1>1, <1>2, DigitsInts
  <2>2. \A i \in 0..(n - 1) : Above(v, j, n)[i] = y[i]
    BY <1>4 DEF Above
  <2> QED
    BY <1>1, <1>2, <2>1, <2>2, NumberSame
<1> QED
  BY <1>4, <1>5, <1>6, <1>7 DEF v, PlacedAt

\* The divisor times m is subtracted from n limbs, up to what is borrowed.
Subtracted(un, v, j, dn, n, m, c) ==
  /\ v \in Longs /\ c \in 0..(Limb - 1)
  /\ \A k \in 0..(2 * Limbs) : k < j \/ k >= j + n => v[k] = un[k]
  /\ Number(Above(v, j, n), n, LimbBits) - c * 2^(LimbBits * n)
       = Number(Above(un, j, n), n, LimbBits) - m * Number(dn, n, LimbBits)

\* subMulToUn subtracts m times the divisor, and its carry is what is missing.
LEMMA SubMulExact ==
  ASSUME NEW un, NEW j, NEW dn, NEW n, Window(un, j, dn, n), NEW m \in 0..(Limb - 1)
  PROVE  Subtracted(un, subMulToUn(un, j, dn, n, m).un, j, dn, n, m, subMulToUn(un, j, dn, n, m).carry)
<1> DEFINE w == LimbBits
           b == subMulBorrows(un, j, dn, n, m)
           a == Above(un, j, n)
           s == [i \in 0..(n - 1) |-> subMulDiff(un, j, dn, m, i, b[i]) % Limb]
           v == Placed(un, j, n, s)
<1>1. /\ b[0] = 0
      /\ \A i \in 1..n : b[i] = (dn[i - 1] * m) \div Limb - subMulDiff(un, j, dn, m, i - 1, b[i - 1]) \div Limb
      /\ \A i \in 0..n : b[i] \in 0..(Limb - 1)
  BY SubMulBorrowsAre
<1>2. subMulToUn(un, j, dn, n, m) = [un |-> v, carry |-> b[n]]
  BY DEF subMulToUn
<1> HIDE DEF b
<1>3. Limb \in Nat /\ w \in Nat /\ Digits(w) = 0..(Limb - 1) /\ n \in Nat /\ j \in Nat /\ Limb >= 2
  BY LimbFacts DEF Window
<1>4. ASSUME NEW i \in 0..(n - 1)
      PROVE  /\ s[i] \in 0..(Limb - 1) /\ un[j + i] \in Int /\ dn[i] \in Int
             /\ b[i] \in Int /\ b[i + 1] \in Int
             /\ s[i] - Limb * b[i + 1] = un[j + i] - b[i] - dn[i] * m
  <2>1. un[j + i] \in 0..(Limb - 1) /\ dn[i] \in 0..(Limb - 1)
    BY WindowLimbs
  <2>2. i \in 0..n /\ i + 1 \in 1..n /\ (i + 1) - 1 = i /\ i + 1 \in 0..n
    BY <1>3
  <2>3. b[i] \in 0..(Limb - 1) /\ b[i + 1] \in 0..(Limb - 1)
    BY <1>1, <2>2
  <2>4. b[i + 1] = (dn[i] * m) \div Limb - subMulDiff(un, j, dn, m, i, b[i]) \div Limb
    BY <1>1, <2>2
  <2>5. s[i] = subMulDiff(un, j, dn, m, i, b[i]) % Limb
    OBVIOUS
  <2> HIDE DEF s
  <2>6. SubMulAt(m, dn[i], un[j + i], b[i], s[i], b[i + 1])
    BY <2>1, <2>3, <2>4, <2>5 DEF SubMulAt, subMulDiff
  <2>7. s[i] \in 0..(Limb - 1) /\ s[i] - Limb * b[i + 1] = un[j + i] - b[i] - dn[i] * m
    BY <2>6, SubMulLimb
  <2> QED
    BY <1>3, <2>1, <2>3, <2>7, SMTT(30)
<1> HIDE DEF s, v
<1>5. HasDigits(s, n, w)
  BY <1>3, <1>4 DEF HasDigits
<1>6. PlacedAt(un, v, j, n, s)
  BY <1>5, PlacedIs DEF v
<1> DEFINE z == [i \in 0..(n - 1) |-> un[j + i] - dn[i] * m]
           c == [i \in 0..n |-> -b[i]]
<1>7. PICK mm \in Int : mm = -m
  BY <1>3
<1>8. Combined(z, a, mm, dn, n)
  <2>1. \A i \in 0..(n - 1) : z[i] = a[i] + mm * dn[i] /\ a[i] = un[j + i]
    BY <1>4, <1>7 DEF Above
  <2>2. HasInts(a, n) /\ HasInts(dn, n)
    BY <1>4, <2>1 DEF HasInts
  <2> QED
    BY <2>1, <2>2 DEF Combined
<1>9. \A i \in 0..(n - 1) : z[i] = un[j + i] - dn[i] * m
  OBVIOUS
<1>10. \A i \in 0..n : c[i] = -b[i] /\ c[i] \in Int
  BY <1>1, <1>3
<1> HIDE DEF z, c
<1>11. HasInts(z, n) /\ Number(z, n, w) = Number(a, n, w) + mm * Number(dn, n, w)
  BY <1>3, <1>8, NumberLinear
<1>12. Carries(s, z, c, n)
  <2>1. HasInts(s, n)
    BY <1>3, <1>5, DigitsInts
  <2>2. HasInts(c, n + 1)
    BY <1>3, <1>10 DEF HasInts
  <2>3. ASSUME NEW i \in 0..(n - 1) PROVE s[i] + Limb * c[i + 1] = z[i] + c[i]
    <3>1. i \in 0..n /\ i + 1 \in 0..n
      BY <1>3
    <3>2. c[i] = -b[i] /\ c[i + 1] = -b[i + 1]
      BY <1>10, <3>1
    <3>3. PICK x \in Int, y \in Int, e \in Int, p \in Int : x = b[i] /\ y = b[i + 1] /\ e = s[i] /\ p = un[j + i] - dn[i] * m
      <4>1. b[i] \in Int /\ b[i + 1] \in Int /\ s[i] \in Int /\ (un[j + i] - dn[i] * m) \in Int
        <5>1. dn[i] * m \in Int
          BY <1>3, <1>4
        <5> QED
          BY <1>3, <1>4, <5>1, SMTT(30)
      <4> QED
        BY <4>1, Zenon
    <3>4. Limb * (-y) = -(Limb * y)
      BY <1>3
    <3>5. PICK Y \in Int : Y = Limb * y
      BY <1>3
    <3>6. e - Y = p - x
      <4>1. un[j + i] - b[i] - dn[i] * m = (un[j + i] - dn[i] * m) - b[i]
        <5>1. dn[i] * m \in Int
          BY <1>3, <1>4
        <5> QED
          BY <1>4, <5>1
      <4> QED
        BY <1>4, <3>3, <3>5, <4>1
    <3>7. e + Limb * (-y) = p + (-x)
      BY <3>4, <3>5, <3>6
    <3> QED
      BY <1>9, <3>2, <3>3, <3>7
  <2> QED
    BY <1>11, <2>1, <2>2, <2>3 DEF Carries
<1>13. Number(s, n, w) + c[n] * 2^(w * n) = Number(z, n, w) + c[0]
  BY <1>3, <1>12, Carried
<1>14. c[0] = 0 /\ c[n] = -b[n] /\ b[n] \in 0..(Limb - 1)
  <2>1. 0 \in 0..n /\ n \in 0..n
    BY <1>3
  <2>2. PICK o \in Int : o = 0 /\ -o = o
    OBVIOUS
  <2> QED
    BY <1>1, <1>10, <2>1, <2>2
<1>15. PICK B \in Int, N \in Int, U \in Int, D \in Int, x \in Int :
        /\ B = 2^(w * n) /\ N = Number(s, n, w) /\ U = Number(a, n, w) /\ D = Number(dn, n, w) /\ x = b[n]
  <2>1. (2^(w * n)) \in Int /\ Number(s, n, w) \in Int /\ Number(a, n, w) \in Int /\ Number(dn, n, w) \in Int /\ b[n] \in Int
    <3>1. 2^(w * n) \in Int
      BY <1>3, Weight
    <3>2. HasInts(s, n) /\ HasInts(a, n) /\ HasInts(dn, n)
      BY <1>8, <1>12 DEF Combined, Carries
    <3> QED
      BY <1>3, <1>14, <3>1, <3>2, NumberTyped, SMTT(30)
  <2> QED
    BY <2>1, Zenon
<1>16. N + (-x) * B = (U + mm * D) + 0
  BY <1>11, <1>13, <1>14, <1>15
<1>17. (-x) * B = -(x * B) /\ mm * D = -(m * D)
  BY <1>3, <1>7
<1>18. PICK A1 \in Int, A2 \in Int : A1 = x * B /\ A2 = m * D
  BY <1>3
<1>19. N - A1 = U - A2
  BY <1>16, <1>17, <1>18
<1>20. Number(Above(v, j, n), n, w) = N
  BY <1>6, <1>15 DEF PlacedAt
<1>21. Number(Above(v, j, n), n, w) - b[n] * 2^(w * n) = Number(a, n, w) - m * Number(dn, n, w)
  BY <1>15, <1>18, <1>19, <1>20
<1>22. v \in Longs /\ \A k \in 0..(2 * Limbs) : k < j \/ k >= j + n => v[k] = un[k]
  BY <1>6 DEF PlacedAt
<1> HIDE DEF a
<1>23. Subtracted(un, v, j, dn, n, m, b[n])
  BY <1>14, <1>21, <1>22 DEF Subtracted, a
<1> QED
  BY <1>2, <1>23

\* The divisor is added to n limbs, up to what is carried.
AddedBack(un, v, j, dn, n, c) ==
  /\ v \in Longs /\ c \in 0..1
  /\ \A k \in 0..(2 * Limbs) : k < j \/ k >= j + n => v[k] = un[k]
  /\ Number(Above(v, j, n), n, LimbBits) + c * 2^(LimbBits * n)
       = Number(Above(un, j, n), n, LimbBits) + Number(dn, n, LimbBits)

\* addToUn adds the divisor back, and its carry is what exceeds the limbs.
LEMMA AddToUnExact ==
  ASSUME NEW un, NEW j, NEW dn, NEW n, Window(un, j, dn, n)
  PROVE  AddedBack(un, addToUn(un, j, dn, n).un, j, dn, n, addToUn(un, j, dn, n).carry)
<1> DEFINE w == LimbBits
           c == addToUnCarries(un, j, dn, n)
           a == Above(un, j, n)
           s == [i \in 0..(n - 1) |-> (un[j + i] + dn[i] + c[i]) % Limb]
           v == Placed(un, j, n, s)
<1>1. /\ c[0] = 0
      /\ \A i \in 1..n : c[i] = (un[j + i - 1] + dn[i - 1] + c[i - 1]) \div Limb
      /\ \A i \in 0..n : c[i] \in 0..1
  BY AddToUnCarriesAre
<1>2. addToUn(un, j, dn, n) = [un |-> v, carry |-> c[n]]
  BY DEF addToUn
<1> HIDE DEF c
<1>3. Limb \in Nat /\ w \in Nat /\ Digits(w) = 0..(Limb - 1) /\ n \in Nat /\ j \in Nat /\ Limb >= 2
  BY LimbFacts DEF Window
<1>4. ASSUME NEW i \in 0..(n - 1)
      PROVE  /\ s[i] \in 0..(Limb - 1) /\ un[j + i] \in Int /\ dn[i] \in Int
             /\ c[i] \in Int /\ c[i + 1] \in Int
             /\ s[i] + Limb * c[i + 1] = un[j + i] + dn[i] + c[i]
  <2>1. un[j + i] \in 0..(Limb - 1) /\ dn[i] \in 0..(Limb - 1)
    BY WindowLimbs
  <2>2. i \in 0..n /\ i + 1 \in 1..n /\ (i + 1) - 1 = i /\ i + 1 \in 0..n /\ j + (i + 1) - 1 = j + i
    BY <1>3
  <2>3. c[i] \in 0..1 /\ c[i + 1] \in 0..1
    BY <1>1, <2>2
  <2>4. c[i + 1] = (un[j + i] + dn[i] + c[i]) \div Limb
    BY <1>1, <2>2
  <2>5. s[i] = (un[j + i] + dn[i] + c[i]) % Limb
    OBVIOUS
  <2> HIDE DEF s
  <2>6. PICK t \in Int : t = un[j + i] + dn[i] + c[i]
    BY <1>3, <2>1, <2>3
  <2>7. t = Limb * (t \div Limb) + (t % Limb) /\ t \div Limb \in Int /\ t % Limb \in 0..(Limb - 1)
    BY LimbDivMod
  <2>8. c[i + 1] = t \div Limb /\ s[i] = t % Limb
    BY <2>4, <2>5, <2>6
  <2>9. s[i] + Limb * c[i + 1] = t /\ s[i] \in 0..(Limb - 1)
    <3>1. PICK A \in Int, r \in Int : A = Limb * (t \div Limb) /\ r = t % Limb /\ t = A + r
      BY <1>3, <2>7
    <3> QED
      BY <2>7, <2>8, <3>1
  <2>10. un[j + i] \in Int /\ dn[i] \in Int /\ c[i] \in Int /\ c[i + 1] \in Int
    BY <1>3, <2>1, <2>3
  <2>11. s[i] + Limb * c[i + 1] = un[j + i] + dn[i] + c[i]
    BY <2>6, <2>9
  <2> QED
    BY <2>9, <2>10, <2>11, Zenon
<1> HIDE DEF s, v
<1>5. HasDigits(s, n, w)
  BY <1>3, <1>4 DEF HasDigits
<1>6. PlacedAt(un, v, j, n, s)
  BY <1>5, PlacedIs DEF v
<1> DEFINE z == [i \in 0..(n - 1) |-> un[j + i] + dn[i]]
<1>7. PICK one \in Int : one = 1
  OBVIOUS
<1>8. Combined(z, a, one, dn, n)
  <2>1. \A i \in 0..(n - 1) : z[i] = a[i] + one * dn[i] /\ a[i] = un[j + i]
    BY <1>4, <1>7 DEF Above
  <2>2. HasInts(a, n) /\ HasInts(dn, n)
    BY <1>4, <2>1 DEF HasInts
  <2> QED
    BY <2>1, <2>2 DEF Combined
<1>9. \A i \in 0..(n - 1) : z[i] = un[j + i] + dn[i]
  OBVIOUS
<1> HIDE DEF z
<1>10. HasInts(z, n) /\ Number(z, n, w) = Number(a, n, w) + one * Number(dn, n, w)
  BY <1>3, <1>8, NumberLinear
<1>11. Carries(s, z, c, n)
  <2>1. HasInts(s, n)
    BY <1>3, <1>5, DigitsInts
  <2>2. HasInts(c, n + 1)
    BY <1>1, <1>3 DEF HasInts
  <2>3. \A i \in 0..(n - 1) : s[i] + Limb * c[i + 1] = z[i] + c[i]
    BY <1>4, <1>9
  <2> QED
    BY <1>10, <2>1, <2>2, <2>3 DEF Carries
<1>12. Number(s, n, w) + c[n] * 2^(w * n) = Number(z, n, w) + c[0]
  BY <1>3, <1>11, Carried
<1>13. c[0] = 0 /\ c[n] \in 0..1
  BY <1>1, <1>3
<1>14. PICK U \in Int, D \in Int :
        /\ U = Number(a, n, w) /\ D = Number(dn, n, w)
  <2>1. Number(a, n, w) \in Int /\ Number(dn, n, w) \in Int
    <3>1. HasInts(a, n) /\ HasInts(dn, n)
      BY <1>8 DEF Combined
    <3> QED
      BY <1>3, <3>1, NumberTyped
  <2> QED
    BY <2>1, Zenon
<1>15. U + one * D = U + D
  BY <1>7
<1>16. Number(z, n, w) + 0 = U + D
  BY <1>10, <1>14, <1>15
<1>17. Number(Above(v, j, n), n, w) + c[n] * 2^(w * n) = Number(a, n, w) + Number(dn, n, w)
  BY <1>6, <1>12, <1>13, <1>14, <1>16 DEF PlacedAt
<1>18. v \in Longs /\ \A k \in 0..(2 * Limbs) : k < j \/ k >= j + n => v[k] = un[k]
  BY <1>6 DEF PlacedAt
<1>19. AddedBack(un, v, j, dn, n, c[n])
  BY <1>13, <1>17, <1>18 DEF AddedBack
<1> QED
  BY <1>2, <1>19

-----------------------------------------------------------------------------
\* The highest limbs of a dividend U and of a divisor D, above b; the quotient fits a limb.
Leads(U, D, b, u2, u1, u0, dh, dl) ==
  /\ u2 \in 0..(Limb - 1) /\ u1 \in 0..(Limb - 1) /\ u0 \in 0..(Limb - 1)
  /\ dh \in 0..(Limb - 1) /\ dl \in 0..(Limb - 1) /\ Limb <= 2 * dh
  /\ b \in Nat \ {0} /\ U \in Nat /\ D \in Nat /\ U < D * Limb
  /\ U - ((u2 * Limb + u1) * Limb + u0) * b \in 0..(b - 1)
  /\ D - (dh * Limb + dl) * b \in 0..(b - 1)

\* The estimate e of U div D is the quotient or one more.
Near(e, U, D) == e \in 0..(Limb - 1) /\ (e - 1) * D <= U /\ U < (e + 1) * D

\* The same with the parts below the highest limbs.
LeadParts(L, dh, dl, u2, u1, u0, b, U, D, D3, U3, D0, U0) ==
  /\ L \in Nat /\ L >= 2 /\ dh \in 0..(L - 1) /\ L <= 2 * dh /\ dl \in 0..(L - 1)
  /\ u2 \in 0..(L - 1) /\ u1 \in 0..(L - 1) /\ u0 \in 0..(L - 1) /\ b \in Nat \ {0}
  /\ U \in Nat /\ D \in Nat /\ U < D * L
  /\ D3 \in Int /\ U3 \in Int /\ D0 \in 0..(b - 1) /\ U0 \in 0..(b - 1)
  /\ D3 = dh * L + dl /\ U3 = (u2 * L + u1) * L + u0 /\ D = D3 * b + D0 /\ U = U3 * b + U0

\* What estimates rest on: the two highest limbs bound the quotient from both sides.
LEMMA QHatBounds ==
  ASSUME NEW L, NEW dh, NEW dl, NEW u2, NEW u1, NEW u0, NEW b, NEW U, NEW D, NEW D3, NEW U3, NEW D0, NEW U0,
         LeadParts(L, dh, dl, u2, u1, u0, b, U, D, D3, U3, D0, U0)
  PROVE  /\ u2 <= dh
         /\ u2 = dh => ((L - 1) - 1) * D <= U /\ U < ((L - 1) + 1) * D
         /\ \A e \in 0..(L - 1), r \in 0..(dh - 1) :
              e * dh + r = u2 * L + u1 =>
                /\ e * dl <= r * L + u0 => (e - 1) * D <= U /\ U < (e + 1) * D
                /\ e * dl > r * L + u0 => e >= 1 /\ ((e - 1) - 1) * D <= U /\ U < ((e - 1) + 1) * D
<1>1. /\ L \in Nat /\ L >= 2 /\ dh \in 0..(L - 1) /\ L <= 2 * dh /\ dl \in 0..(L - 1)
      /\ u2 \in 0..(L - 1) /\ u1 \in 0..(L - 1) /\ u0 \in 0..(L - 1) /\ b \in Nat \ {0}
      /\ U \in Nat /\ D \in Nat /\ U < D * L
      /\ D3 \in Int /\ U3 \in Int /\ D0 \in 0..(b - 1) /\ U0 \in 0..(b - 1)
      /\ D3 = dh * L + dl /\ U3 = (u2 * L + u1) * L + u0 /\ D = D3 * b + D0 /\ U = U3 * b + U0
  BY Zenon DEF LeadParts
<1> USE <1>1
<1>2. D3 <= dh * L + L - 1 /\ D3 >= dh * L /\ dh >= 1
  OBVIOUS
<1>3. D < (D3 + 1) * b /\ D3 * b <= D /\ U < (U3 + 1) * b /\ U3 * b <= U
  <2>1. (D3 + 1) * b = D3 * b + b /\ (U3 + 1) * b = U3 * b + b
    OBVIOUS
  <2>2. PICK X \in Int, Y \in Int : X = D3 * b /\ Y = U3 * b
    OBVIOUS
  <2> QED
    BY <2>1, <2>2
<1>4. D >= L * b
  <2>1. L <= D3
    <3>1. 1 * L <= dh * L
      BY <1>2, TimesLess
    <3> QED
      BY <1>2, <3>1
  <2>2. L * b <= D3 * b
    BY <2>1, TimesLess
  <2>3. PICK X \in Int, Y \in Int : X = D3 * b /\ Y = L * b
    OBVIOUS
  <2> QED
    BY <1>3, <2>2, <2>3
<1>5. D <= (dh + 1) * L * b
  <2>1. D3 + 1 <= (dh + 1) * L
    BY <1>2
  <2>2. (D3 + 1) * b <= ((dh + 1) * L) * b
    <3>1. PICK X \in Int, Y \in Int : X = D3 + 1 /\ Y = (dh + 1) * L /\ X <= Y
      BY <2>1
    <3>2. X * b <= Y * b
      BY <3>1, TimesLess
    <3> QED
      BY <3>1, <3>2
  <2>3. PICK X \in Int, Y \in Int : X = (D3 + 1) * b /\ Y = ((dh + 1) * L) * b
    OBVIOUS
  <2> QED
    BY <1>3, <2>2, <2>3
<1>6. U >= u2 * L * L * b
  <2>1. U3 >= u2 * L * L
    <3>1. (u2 * L + u1) * L = u2 * L * L + u1 * L /\ u1 * L >= 0
      OBVIOUS
    <3>2. PICK X \in Int, Y \in Int, Z \in Int : X = u2 * L * L /\ Y = u1 * L /\ Z = (u2 * L + u1) * L
      OBVIOUS
    <3> QED
      BY <3>1, <3>2
  <2>2. PICK X \in Int : X = u2 * L * L
    OBVIOUS
  <2>3. X * b <= U3 * b
    BY <2>1, <2>2, TimesLess
  <2>4. PICK A \in Int, B \in Int : A = X * b /\ B = U3 * b
    OBVIOUS
  <2> QED
    BY <1>3, <2>2, <2>3, <2>4
<1>7. u2 <= dh
  <2>1. ASSUME u2 >= dh + 1 PROVE FALSE
    <3>1. PICK C \in Nat : C = L * L * b
      OBVIOUS
    <3>2. (dh + 1) * C <= u2 * C
      BY <2>1, TimesLess
    <3>3. u2 * L * L * b = u2 * C /\ ((dh + 1) * L * b) * L = (dh + 1) * C
      BY <3>1
    <3>4. PICK X \in Int : X = (dh + 1) * L * b
      OBVIOUS
    <3>5. D * L <= X * L
      BY <1>5, <3>4, TimesLess
    <3>6. PICK A \in Int, B \in Int, E \in Int : A = D * L /\ B = u2 * C /\ E = (dh + 1) * C
      OBVIOUS
    <3>7. A <= E /\ E <= B /\ B <= U /\ U < A
      BY <1>6, <3>2, <3>3, <3>4, <3>5, <3>6
    <3> QED
      BY <3>7
  <2> QED
    BY <2>1
<1>8. ASSUME u2 = dh PROVE ((L - 1) - 1) * D <= U /\ U < ((L - 1) + 1) * D
  <2>1. (L - 2) * (dh + 1) <= dh * L
    OBVIOUS
  <2>2. PICK M \in Int, N \in Nat, X \in Int : M = L - 2 /\ N = L * b /\ X = (dh + 1) * L * b
    OBVIOUS
  <2>3. M >= 0 /\ (L - 1) - 1 = M /\ (L - 1) + 1 = L
    BY <2>2
  <2>4. M * D <= M * X
    BY <1>5, <2>2, <2>3, TimesLess
  <2>5. M * X = (M * (dh + 1)) * N
    BY <2>2
  <2>6. PICK Y \in Int, Z \in Int : Y = M * (dh + 1) /\ Z = dh * L /\ Y <= Z
    BY <2>1, <2>2
  <2>7. Y * N <= Z * N
    BY <2>6, TimesLess
  <2>8. Z * N = u2 * L * L * b
    BY <1>8, <2>2, <2>6
  <2>9. PICK A \in Int, B \in Int, C \in Int, G \in Int : A = M * D /\ B = M * X /\ C = Y * N /\ G = Z * N
    OBVIOUS
  <2>10. A <= B /\ B = C /\ C <= G /\ G <= U
    BY <1>6, <2>4, <2>5, <2>6, <2>7, <2>8, <2>9
  <2>11. D * L = L * D
    OBVIOUS
  <2> QED
    BY <2>3, <2>9, <2>10, <2>11
<1>9. ASSUME NEW e \in 0..(L - 1), NEW r \in 0..(dh - 1), e * dh + r = u2 * L + u1
      PROVE  U3 - e * D3 = r * L + u0 - e * dl
  <2>1. U3 = (e * dh + r) * L + u0
    BY <1>9
  <2>2. (e * dh + r) * L = e * dh * L + r * L /\ e * (dh * L + dl) = e * dh * L + e * dl
    OBVIOUS
  <2>3. PICK X \in Int, Y \in Int, Z \in Int, A \in Int, B \in Int :
          X = e * dh * L /\ Y = r * L /\ Z = e * dl /\ A = (e * dh + r) * L /\ B = e * (dh * L + dl)
    OBVIOUS
  <2> QED
    BY <2>1, <2>2, <2>3
<1>10. ASSUME NEW e \in 0..(L - 1), NEW r \in 0..(dh - 1), e * dh + r = u2 * L + u1, e * dl <= r * L + u0
      PROVE  (e - 1) * D <= U /\ U < (e + 1) * D
  <2>1. PICK E \in Int, Y \in Int, Z \in Int : E = e * D3 /\ Y = r * L /\ Z = e * dl /\ U3 - E = Y + u0 - Z /\ E <= U3
    <3>1. PICK E \in Int, Y \in Int, Z \in Int : E = e * D3 /\ Y = r * L /\ Z = e * dl
      OBVIOUS
    <3>2. U3 - E = Y + u0 - Z
      BY <1>9, <1>10, <3>1
    <3>3. E <= U3
      BY <1>10, <3>1, <3>2
    <3> QED
      BY <3>1, <3>2, <3>3
  <2>2. (e - 1) * D <= U
    <3>1. (e - 1) * D = e * D - D /\ e * (D3 * b + D0) = (e * D3) * b + e * D0
      OBVIOUS
    <3>2. E * b <= U3 * b
      BY <2>1, TimesLess
    <3>3. e * D0 <= L * b
      <4>1. e * D0 <= L * D0
        BY TimesLess
      <4>2. L * D0 <= L * b
        BY TimesLess
      <4>3. PICK A \in Int, B \in Int, C \in Int : A = e * D0 /\ B = L * D0 /\ C = L * b
        OBVIOUS
      <4> QED
        BY <4>1, <4>2, <4>3
    <3>4. PICK A \in Int, B \in Int, C \in Int, F \in Int, G \in Int : A = e * D0 /\ B = L * b /\ C = E * b /\ F = U3 * b /\ G = e * D
      OBVIOUS
    <3>5. G = C + A
      BY <2>1, <3>1, <3>4
    <3>6. A <= B /\ C <= F /\ F <= U /\ B <= D
      BY <1>3, <1>4, <3>2, <3>3, <3>4
    <3> QED
      BY <3>1, <3>4, <3>5, <3>6
  <2>3. U < (e + 1) * D
    <3>1. U3 + 1 <= (e + 1) * D3
      <4>1. (e + 1) * D3 = e * D3 + D3
        OBVIOUS
      <4>2. (r + 1) * L <= dh * L /\ (r + 1) * L = r * L + L
        <5>1. r + 1 \in Int /\ r + 1 <= dh
          OBVIOUS
        <5> QED
          BY <5>1, TimesLess
      <4>3. PICK W \in Int, V \in Int : W = dh * L /\ V = (r + 1) * L
        OBVIOUS
      <4>4. Z >= 0
        BY <2>1
      <4> QED
        BY <1>2, <2>1, <4>1, <4>2, <4>3, <4>4
    <3>2. PICK X \in Int, Y2 \in Int : X = U3 + 1 /\ Y2 = (e + 1) * D3 /\ X <= Y2
      BY <3>1
    <3>3. X * b <= Y2 * b
      BY <3>2, TimesLess
    <3>4. PICK P \in Int : P = D3 * b /\ P <= D
      BY <1>3
    <3>5. (e + 1) * P <= (e + 1) * D
      <4>1. e + 1 \in Nat
        OBVIOUS
      <4> QED
        BY <3>4, <4>1, TimesLess
    <3>6. Y2 * b = (e + 1) * P
      BY <3>2, <3>4
    <3>7. PICK A \in Int, B \in Int, C \in Int, F \in Int : A = X * b /\ B = Y2 * b /\ C = (e + 1) * P /\ F = (e + 1) * D
      OBVIOUS
    <3>8. U < A /\ A <= B /\ B = C /\ C <= F
      BY <1>3, <3>2, <3>3, <3>5, <3>6, <3>7
    <3> QED
      BY <3>7, <3>8
  <2> QED
    BY <2>2, <2>3
<1>11. ASSUME NEW e \in 0..(L - 1), NEW r \in 0..(dh - 1), e * dh + r = u2 * L + u1, e * dl > r * L + u0
       PROVE  e >= 1 /\ ((e - 1) - 1) * D <= U /\ U < ((e - 1) + 1) * D
  <2>1. PICK E \in Int, Y \in Int, Z \in Int : E = e * D3 /\ Y = r * L /\ Z = e * dl
    OBVIOUS
  <2>2. U3 - E = Y + u0 - Z /\ U3 + 1 <= E /\ Y >= 0
    <3>1. U3 - E = Y + u0 - Z
      BY <1>9, <1>11, <2>1
    <3>2. Y >= 0
      BY <2>1
    <3> QED
      BY <1>11, <2>1, <3>1, <3>2
  <2>3. e >= 1
    <3>1. ASSUME e = 0 PROVE FALSE
      <4>1. Z = 0
        BY <2>1, <3>1
      <4> QED
        BY <1>11, <2>1, <2>2, <4>1
    <3> QED
      BY <3>1
  <2>4. U < e * D
    <3>1. PICK X \in Int : X = U3 + 1 /\ X <= E
      BY <2>2
    <3>2. X * b <= E * b
      BY <3>1, TimesLess
    <3>3. PICK P \in Int : P = D3 * b /\ P <= D
      BY <1>3
    <3>4. e * P <= e * D
      BY <3>3, TimesLess
    <3>5. E * b = e * P
      BY <2>1, <3>3
    <3>6. PICK A \in Int, B \in Int, C \in Int, F \in Int : A = X * b /\ B = E * b /\ C = e * P /\ F = e * D
      OBVIOUS
    <3>7. U < A /\ A <= B /\ B = C /\ C <= F
      BY <1>3, <3>1, <3>2, <3>4, <3>5, <3>6
    <3> QED
      BY <3>6, <3>7
  <2>5. (e - 2) * D <= U
    <3>1. CASE e = 1
      <4>1. (e - 2) * D = -D
        BY <3>1
      <4> QED
        BY <4>1
    <3>2. CASE e >= 2
      <4>1. PICK M \in Nat : M = e - 2 /\ M <= L
        BY <3>2
      <4>2. M * (D3 + 1) <= U3
        <5>1. M * (D3 + 1) = e * D3 - 2 * D3 + M
          BY <4>1
        <5>2. M * (dl + 1) <= L * L
          <6>1. M * (dl + 1) <= M * L
            BY TimesLess
          <6>2. M * L <= L * L
            BY <4>1, TimesLess
          <6>3. PICK A \in Int, B \in Int, C \in Int : A = M * (dl + 1) /\ B = M * L /\ C = L * L
            OBVIOUS
          <6> QED
            BY <6>1, <6>2, <6>3
        <5>3. L * L <= (2 * dh) * L
          BY TimesLess
        <5>4. M * (dl + 1) = e * dl - 2 * dl + M
          BY <4>1
        <5>5. (2 * dh) * L = 2 * (dh * L)
          OBVIOUS
        <5>6. PICK A \in Int, B \in Int, C \in Int, H \in Int : A = M * (dl + 1) /\ B = M * (D3 + 1) /\ C = L * L /\ H = dh * L
          OBVIOUS
        <5>7. A <= C /\ C <= 2 * H /\ A = Z - 2 * dl + M /\ B = E - 2 * D3 + M /\ D3 = H + dl
          BY <2>1, <5>1, <5>2, <5>3, <5>4, <5>5, <5>6
        <5> QED
          BY <2>2, <5>6, <5>7
      <4>3. PICK X \in Int, Y2 \in Int, W \in Int : X = (D3 + 1) * b /\ Y2 = M * (D3 + 1) /\ W = D3 + 1
        OBVIOUS
      <4>4. M * D <= M * X
        BY <1>3, <4>3, TimesLess
      <4>5. M * X = Y2 * b
        BY <4>3
      <4>6. Y2 * b <= U3 * b
        BY <4>2, <4>3, TimesLess
      <4>7. PICK A \in Int, B \in Int, C \in Int, F \in Int : A = M * D /\ B = M * X /\ C = Y2 * b /\ F = U3 * b
        OBVIOUS
      <4>8. A <= B /\ B = C /\ C <= F /\ F <= U
        BY <1>3, <4>4, <4>5, <4>6, <4>7
      <4> QED
        BY <4>1, <4>7, <4>8
    <3> QED
      BY <2>3, <3>1, <3>2
  <2>6. (e - 1) - 1 = e - 2 /\ (e - 1) + 1 = e
    OBVIOUS
  <2> QED
    BY <2>3, <2>4, <2>5, <2>6
<1> QED
  BY <1>7, <1>8, <1>10, <1>11

\* The estimate that the code makes is near the quotient.
LEMMA QHatNear ==
  ASSUME NEW U, NEW D, NEW b, NEW u2, NEW u1, NEW u0, NEW dh, NEW dl, Leads(U, D, b, u2, u1, u0, dh, dl)
  PROVE  Near(qhat(u2, u1, u0, dh, dl, reciprocal2by1(dh)), U, D)
<1> DEFINE z == udivrem2by1(u2, u1, dh, reciprocal2by1(dh))
           q == qhat(u2, u1, u0, dh, dl, reciprocal2by1(dh))
<1>1. PICK L \in Nat : L = Limb /\ L >= 2
  BY LimbFacts
<1>2. /\ u2 \in 0..(L - 1) /\ u1 \in 0..(L - 1) /\ u0 \in 0..(L - 1)
      /\ dh \in 0..(L - 1) /\ dl \in 0..(L - 1) /\ L <= 2 * dh
      /\ b \in Nat \ {0} /\ U \in Nat /\ D \in Nat /\ U < D * L
      /\ U - ((u2 * L + u1) * L + u0) * b \in 0..(b - 1)
      /\ D - (dh * L + dl) * b \in 0..(b - 1)
  BY <1>1 DEF Leads
<1>3. PICK D3 \in Int, U3 \in Int : D3 = dh * L + dl /\ U3 = (u2 * L + u1) * L + u0
  BY <1>2
<1>4. PICK D0 \in 0..(b - 1), U0 \in 0..(b - 1) : D0 = D - D3 * b /\ U0 = U - U3 * b
  BY <1>2, <1>3
<1>5. D = D3 * b + D0 /\ U = U3 * b + U0
  <2>1. D3 * b \in Int /\ U3 * b \in Int
    BY <1>2
  <2> QED
    BY <1>2, <1>4, <2>1
<1>6. /\ u2 <= dh
      /\ u2 = dh => ((L - 1) - 1) * D <= U /\ U < ((L - 1) + 1) * D
      /\ \A e \in 0..(L - 1), r \in 0..(dh - 1) :
           e * dh + r = u2 * L + u1 =>
             /\ e * dl <= r * L + u0 => (e - 1) * D <= U /\ U < (e + 1) * D
             /\ e * dl > r * L + u0 => e >= 1 /\ ((e - 1) - 1) * D <= U /\ U < ((e - 1) + 1) * D
  <2>1. LeadParts(L, dh, dl, u2, u1, u0, b, U, D, D3, U3, D0, U0)
    BY <1>1, <1>2, <1>3, <1>5, Zenon DEF LeadParts
  <2> QED
    BY <2>1, QHatBounds, Zenon
<1>7. CASE u2 >= dh
  <2>1. q = L - 1
    BY <1>1, <1>7 DEF qhat
  <2>2. u2 = dh
    BY <1>2, <1>6, <1>7
  <2>3. L - 1 \in 0..(Limb - 1)
    BY <1>1
  <2> HIDE DEF q
  <2> QED
    BY <1>6, <2>1, <2>2, <2>3 DEF Near, q
<1>8. CASE u2 < dh
  <2>1. u2 \in 0..(dh - 1)
    BY <1>2, <1>8
  <2>2. z.quot \in 0..(Limb - 1) /\ z.rem \in 0..(dh - 1) /\ z.quot * dh + z.rem = u2 * Limb + u1
    BY <1>1, <1>2, <2>1, TwoByOneExact
  <2>3. q = IF z.quot * dl > z.rem * Limb + u0 THEN z.quot - 1 ELSE z.quot
    <3>1. ~(u2 >= dh)
      BY <1>2, <1>8
    <3> QED
      BY <3>1 DEF qhat
  <2> HIDE DEF z, q
  <2>4. PICK e \in 0..(L - 1), r \in 0..(dh - 1) : e = z.quot /\ r = z.rem /\ e * dh + r = u2 * L + u1
    BY <1>1, <2>2
  <2>5. CASE e * dl > r * L + u0
    <3>1. q = e - 1
      BY <1>1, <2>3, <2>4, <2>5
    <3>2. e >= 1 /\ ((e - 1) - 1) * D <= U /\ U < ((e - 1) + 1) * D
      BY <1>6, <2>4, <2>5
    <3>3. e - 1 \in 0..(Limb - 1)
      BY <1>1, <3>2
    <3> QED
      BY <3>1, <3>2, <3>3 DEF Near, q
  <2>6. CASE ~(e * dl > r * L + u0)
    <3>1. q = e
      BY <1>1, <2>3, <2>4, <2>6
    <3>2. e * dl <= r * L + u0
      <4>1. e * dl \in Int /\ r * L + u0 \in Int
        BY <1>2
      <4> QED
        BY <2>6, <4>1
    <3>3. (e - 1) * D <= U /\ U < (e + 1) * D
      BY <1>6, <2>4, <3>2
    <3>4. e \in 0..(Limb - 1)
      BY <1>1
    <3> QED
      BY <3>1, <3>3, <3>4 DEF Near, q
  <2> QED
    BY <2>5, <2>6
<1> QED
  BY <1>2, <1>7, <1>8

-----------------------------------------------------------------------------
\* The two, and the three, highest limbs of a number.
LEMMA HighestTwo ==
  ASSUME NEW m \in Nat, NEW x, HasDigits(x, m + 2, LimbBits)
  PROVE  Number(x, m + 2, LimbBits) - (x[m + 1] * Limb + x[m]) * 2^(LimbBits * m) \in 0..(2^(LimbBits * m) - 1)
<1>1. LimbBits \in Nat /\ 2^LimbBits = Limb /\ Limb \in Nat /\ m + 1 \in Nat /\ (m + 1) + 1 = m + 2 /\ m + 2 \in Nat
  BY LimbFacts
<1>2. HasInts(x, m + 2)
  BY <1>1, DigitsInts
<1>3. HasInts(x, m + 1) /\ HasDigits(x, m, LimbBits)
  <2>1. m <= m + 2 /\ m + 1 <= m + 2
    OBVIOUS
  <2> QED
    BY <1>1, <1>2, <2>1, Fewer
<1>4. Number(x, m + 1, LimbBits) = Number(x, m, LimbBits) + x[m] * 2^(LimbBits * m)
  BY <1>1, <1>3, NumberIs
<1>5. Number(x, m + 2, LimbBits) = Number(x, m + 1, LimbBits) + x[m + 1] * 2^(LimbBits * (m + 1))
  <2>1. HasInts(x, (m + 1) + 1)
    BY <1>1, <1>2
  <2>2. Number(x, (m + 1) + 1, LimbBits) = Number(x, m + 1, LimbBits) + x[m + 1] * 2^(LimbBits * (m + 1))
    BY <1>1, <2>1, NumberIs
  <2> QED
    BY <1>1, <2>2
<1>6. PICK b \in Int, N \in Int, g \in Int, h \in Int :
        /\ b = 2^(LimbBits * m) /\ N = Number(x, m, LimbBits) /\ g = x[m] /\ h = x[m + 1]
        /\ N \in 0..(b - 1) /\ 2^(LimbBits * (m + 1)) = b * Limb
  <2>1. (2^(LimbBits * m)) \in Int /\ Number(x, m, LimbBits) \in Int /\ x[m] \in Int /\ (x[m + 1]) \in Int /\ Number(x, m, LimbBits) \in 0..((2^(LimbBits * m)) - 1) /\ 2^(LimbBits * (m + 1)) = (2^(LimbBits * m)) * Limb
    <3>1. 2^(LimbBits * m) \in Nat \ {0} /\ 2^(LimbBits * (m + 1)) = 2^(LimbBits * m) * 2^LimbBits
      BY <1>1, Weight
    <3>2. Number(x, m, LimbBits) \in 0..(2^(LimbBits * m) - 1)
      BY <1>1, <1>3, NumberBounds
    <3>3. x[m] \in Int /\ x[m + 1] \in Int
      BY <1>1, <1>2 DEF HasInts
    <3> QED
      BY <1>1, <3>1, <3>2, <3>3
  <2> QED
    BY <2>1, Zenon
<1>7. Number(x, m + 2, LimbBits) = (N + g * b) + h * (b * Limb)
  BY <1>4, <1>5, <1>6
<1>8. (h * Limb + g) * b = g * b + h * (b * Limb)
  BY <1>1
<1>9. PICK A \in Int, B \in Int, C \in Int : A = g * b /\ B = h * (b * Limb) /\ C = (h * Limb + g) * b
  BY <1>1
<1>10. ((N + A) + B) - C = N
  BY <1>8, <1>9
<1> QED
  BY <1>6, <1>7, <1>9, <1>10

\* The same, of three limbs.
LEMMA HighestThree ==
  ASSUME NEW m \in Nat, NEW x, HasDigits(x, m + 3, LimbBits)
  PROVE  Number(x, m + 3, LimbBits) - ((x[m + 2] * Limb + x[m + 1]) * Limb + x[m]) * 2^(LimbBits * m)
           \in 0..(2^(LimbBits * m) - 1)
<1>1. LimbBits \in Nat /\ 2^LimbBits = Limb /\ Limb \in Nat /\ m + 1 \in Nat /\ (m + 1) + 1 = m + 2 /\ m + 2 \in Nat /\ (m + 2) + 1 = m + 3 /\ m + 3 \in Nat
  BY LimbFacts
<1>2. HasInts(x, m + 3)
  BY <1>1, DigitsInts
<1>3. HasDigits(x, m + 2, LimbBits)
  <2>1. m + 2 <= m + 3
    OBVIOUS
  <2> QED
    BY <1>1, <2>1, Fewer
<1>4. Number(x, m + 2, LimbBits) - (x[m + 1] * Limb + x[m]) * 2^(LimbBits * m) \in 0..(2^(LimbBits * m) - 1)
  BY <1>3, HighestTwo
<1>5. Number(x, m + 3, LimbBits) = Number(x, m + 2, LimbBits) + x[m + 2] * 2^(LimbBits * (m + 2)) /\ Number(x, m + 2, LimbBits) \in Int
  <2>1. HasInts(x, (m + 2) + 1)
    BY <1>1, <1>2
  <2>2. Number(x, (m + 2) + 1, LimbBits) = Number(x, m + 2, LimbBits) + x[m + 2] * 2^(LimbBits * (m + 2)) /\ Number(x, m + 2, LimbBits) \in Int
    BY <1>1, <2>1, NumberIs
  <2> QED
    BY <1>1, <2>2
<1>6. PICK b \in Int, N \in Int, f \in Int, g \in Int, h \in Int :
        /\ b = 2^(LimbBits * m) /\ N = Number(x, m + 2, LimbBits) /\ f = x[m] /\ g = x[m + 1] /\ h = x[m + 2]
        /\ 2^(LimbBits * (m + 2)) = (b * Limb) * Limb
  <2>1. (2^(LimbBits * m)) \in Int /\ (Number(x, m + 2, LimbBits)) \in Int /\ x[m] \in Int /\ (x[m + 1]) \in Int /\ (x[m + 2]) \in Int /\ 2^(LimbBits * (m + 2)) = ((2^(LimbBits * m)) * Limb) * Limb
    <3>1. 2^(LimbBits * m) \in Nat \ {0} /\ 2^(LimbBits * (m + 1)) = 2^(LimbBits * m) * 2^LimbBits
      BY <1>1, Weight
    <3>2. 2^(LimbBits * ((m + 1) + 1)) = 2^(LimbBits * (m + 1)) * 2^LimbBits
      BY <1>1, Weight
    <3>3. x[m] \in Int /\ x[m + 1] \in Int /\ x[m + 2] \in Int
      BY <1>1, <1>2 DEF HasInts
    <3> QED
      BY <1>1, <1>5, <3>1, <3>2, <3>3
  <2> QED
    BY <2>1, Zenon
<1>7. Number(x, m + 3, LimbBits) = N + h * ((b * Limb) * Limb)
  BY <1>5, <1>6
<1>8. ((h * Limb + g) * Limb + f) * b = (g * Limb + f) * b + h * ((b * Limb) * Limb)
  BY <1>1
<1>9. PICK A \in Int, B \in Int, C \in Int : A = (g * Limb + f) * b /\ B = h * ((b * Limb) * Limb) /\ C = ((h * Limb + g) * Limb + f) * b
  BY <1>1
<1>10. (N + B) - C = N - A
  BY <1>8, <1>9
<1> QED
  BY <1>4, <1>6, <1>7, <1>9, <1>10

\* Below B, a number has one upper part.
LEMMA OnlyLower ==
  ASSUME NEW B \in Nat \ {0}, NEW s \in 0..(B - 1), NEW k \in Int, NEW x \in 0..(B - 1), s + k * B = x
  PROVE  k = 0 /\ s = x
<1>1. k = 0
  <2>1. ASSUME k >= 1 PROVE FALSE
    <3>1. k * B >= B
      BY <2>1
    <3> QED
      BY <3>1
  <2>2. ASSUME k <= -1 PROVE FALSE
    <3>1. k * B <= -B
      BY <2>2
    <3> QED
      BY <3>1
  <2> QED
    BY <2>1, <2>2
<1>2. k * B = 0
  BY <1>1
<1> QED
  BY <1>1, <1>2

\* The n + 1 limbs of un from limb j on.
Part(un, j, n) == Number(Above(un, j, n), n, LimbBits) + un[j + n] * 2^(LimbBits * n)

\* After a round the limb j of the quotient is q, and the rest is below the divisor.
RoundOf(acc, res, j, dn, n, q) ==
  /\ q \in 0..(Limb - 1) /\ res.un \in Longs /\ res.quot = [acc.quot EXCEPT ![j] = q]
  /\ res.un[j + n] = 0 /\ \A k \in 0..(j - 1) : res.un[k] = acc.un[k]
  /\ Number(Above(res.un, j, n), n, LimbBits) = Part(acc.un, j, n) - q * Number(dn, n, LimbBits)
  /\ Number(Above(res.un, j, n), n, LimbBits) < Number(dn, n, LimbBits)

\* A near estimate is corrected: what was subtracted too often is added back.
LEMMA CorrectExact ==
  ASSUME NEW acc, NEW j, NEW dn, NEW n, Window(acc.un, j, dn, n), NEW est,
         Near(est, Part(acc.un, j, n), Number(dn, n, LimbBits))
  PROVE  \E q : RoundOf(acc, Correct(acc, j, dn, n, acc.un[j + n], est), j, dn, n, q)
<1> DEFINE w == LimbBits
           un == acc.un
           u == un[j + n]
           res == Correct(acc, j, dn, n, u, est)
           sub == subMulToUn(un, j, dn, n, est)
           v == sub.un
           c == sub.carry
           add == addToUn(v, j, dn, n)
<1>1. n \in Nat /\ j \in Nat /\ j + n <= 2 * Limbs /\ un \in Longs /\ HasDigits(dn, n, w) /\ w \in Nat /\ Limbs \in Nat /\ Limb \in Nat /\ Limb >= 2 /\ j + n \in 0..(2 * Limbs)
  BY LimbFacts DEF Window
<1>2. est \in 0..(Limb - 1) /\ u \in 0..(Limb - 1)
  <2>1. n \in 0..n
    BY <1>1
  <2>2. u \in 0..(Limb - 1)
    BY <2>1, WindowLimbs
  <2> QED
    BY <2>2 DEF Near
<1> DEFINE Top(x, limb, q) == [un |-> [x EXCEPT ![j + n] = limb % Limb], quot |-> [acc.quot EXCEPT ![j] = q]]
<1>3. res = IF u < c THEN Top(add.un, u - c + add.carry, est - 1) ELSE Top(v, u - c, est)
  BY DEF Correct
<1>4. Subtracted(un, v, j, dn, n, est, c)
  BY <1>2, SubMulExact
<1> HIDE DEF sub, res, u, un
<1> HIDE DEF v, c
<1>5. /\ v \in Longs /\ c \in 0..(Limb - 1)
      /\ \A k \in 0..(2 * Limbs) : k < j \/ k >= j + n => v[k] = un[k]
      /\ Number(Above(v, j, n), n, w) - c * 2^(w * n) = Number(Above(un, j, n), n, w) - est * Number(dn, n, w)
  BY <1>4 DEF Subtracted
<1>6. Window(v, j, dn, n)
  BY <1>1, <1>5 DEF Window
<1>7. PICK B \in Nat \ {0}, S \in Int, A \in Int, D \in Int, V \in Int :
        /\ B = 2^(w * n) /\ S = Number(Above(v, j, n), n, w) /\ A = Number(Above(un, j, n), n, w) /\ D = Number(dn, n, w) /\ V = Part(un, j, n)
        /\ S \in 0..(B - 1) /\ A \in 0..(B - 1) /\ D \in 0..(B - 1) /\ V = A + u * B
  <2>1. (2^(w * n)) \in Nat \ {0} /\ Number(Above(v, j, n), n, w) \in Int /\ Number(Above(un, j, n), n, w) \in Int /\ Number(dn, n, w) \in Int /\ Part(un, j, n) \in Int /\ Number(Above(v, j, n), n, w) \in 0..((2^(w * n)) - 1) /\ Number(Above(un, j, n), n, w) \in 0..((2^(w * n)) - 1) /\ Number(dn, n, w) \in 0..((2^(w * n)) - 1) /\ Part(un, j, n) = Number(Above(un, j, n), n, w) + u * (2^(w * n))
    <3>1. 2^(w * n) \in Nat \ {0}
      BY <1>1, Weight
    <3>2. HasDigits(Above(v, j, n), n, w)
      BY <1>6, WindowLimbs
    <3>3. HasDigits(Above(un, j, n), n, w)
      BY WindowLimbs DEF un
    <3>4. Number(Above(v, j, n), n, w) \in 0..(2^(w * n) - 1)
      BY <1>1, <3>2, NumberBounds
    <3>5. Number(Above(un, j, n), n, w) \in 0..(2^(w * n) - 1)
      BY <1>1, <3>3, NumberBounds
    <3>6. Number(dn, n, w) \in 0..(2^(w * n) - 1)
      BY <1>1, NumberBounds
    <3>7. Part(un, j, n) = Number(Above(un, j, n), n, w) + u * 2^(w * n)
      BY DEF Part, u
    <3>8. u * 2^(w * n) \in Int
      BY <1>1, <1>2, <3>1
    <3> QED
      BY <3>1, <3>4, <3>5, <3>6, <3>7, <3>8
  <2> QED
    BY <2>1, Zenon
<1>8. (est - 1) * D <= V /\ V < (est + 1) * D
  BY <1>7 DEF Near, un
<1>9. V - est * D = S + (u - c) * B
  <2>1. S - c * B = A - est * D
    BY <1>5, <1>7
  <2>2. (u - c) * B = u * B - c * B
    BY <1>1, <1>2, <1>5
  <2>3. PICK X \in Int, Y \in Int, Z \in Int : X = c * B /\ Y = est * D /\ Z = u * B
    BY <1>1, <1>2, <1>5
  <2> QED
    BY <1>7, <2>1, <2>2, <2>3
<1>10. V >= 0
  <2>1. u * B >= 0 /\ u * B \in Int
    BY <1>1, <1>2
  <2> QED
    BY <1>7, <2>1
<1>11. CASE u < c
  <2>1. AddedBack(v, add.un, j, dn, n, add.carry)
    BY <1>6, AddToUnExact
  <2>2. res = Top(add.un, u - c + add.carry, est - 1)
    BY <1>3, <1>11
  <2> HIDE DEF add
  <2> DEFINE v2 == add.un
             c2 == add.carry
  <2> HIDE DEF v2, c2
  <2>3. /\ v2 \in Longs /\ c2 \in 0..1
        /\ \A k \in 0..(2 * Limbs) : k < j \/ k >= j + n => v2[k] = v[k]
        /\ Number(Above(v2, j, n), n, w) + c2 * 2^(w * n) = Number(Above(v, j, n), n, w) + Number(dn, n, w)
    BY <2>1 DEF AddedBack, v2, c2
  <2>4. PICK E \in Int :
          /\ E = Number(Above(v2, j, n), n, w)
          /\ E \in 0..(B - 1)
    <3>1. Number(Above(v2, j, n), n, w) \in Int /\ Number(Above(v2, j, n), n, w) \in 0..(B - 1)
      <4>1. Window(v2, j, dn, n)
        BY <1>1, <2>3 DEF Window
      <4>2. HasDigits(Above(v2, j, n), n, w)
        BY <4>1, WindowLimbs
      <4>3. Number(Above(v2, j, n), n, w) \in 0..(2^(w * n) - 1)
        BY <1>1, <4>2, NumberBounds
      <4> QED
        BY <1>7, <4>3
    <3> QED
      BY <3>1, Zenon
  <2>5. E + c2 * B = S + D
    BY <1>7, <2>3, <2>4
  <2>6. PICK K \in Int : K = u - c + c2
    BY <1>1, <1>2, <1>5, <2>3
  <2>7. PICK X \in Int, Y \in Int : X = (est - 1) * D /\ Y = est * D /\ X = Y - D
    <3>1. est * D \in Int /\ (est - 1) * D = est * D - D
      BY <1>1, <1>2
    <3> QED
      BY <3>1
  <2>8. E + K * B = V - X
    <3>1. (u - c + c2) * B = (u - c) * B + c2 * B
      BY <1>1, <1>2, <1>5, <2>3
    <3>2. PICK P \in Int, R \in Int : P = (u - c) * B /\ R = c2 * B
      BY <1>1, <1>2, <1>5, <2>3
    <3>3. K * B = P + R
      BY <2>6, <3>1, <3>2
    <3>4. V - Y = S + P /\ E + R = S + D
      BY <1>9, <2>5, <2>7, <3>2
    <3>5. PICK T \in Int : T = K * B
      OBVIOUS
    <3>6. E + T = V - X
      <4>1. T = P + R
        BY <3>3, <3>5
      <4>2. X = Y - D
        BY <2>7
      <4> QED
        BY <3>4, <4>1, <4>2
    <3> QED
      BY <3>5, <3>6
  <2>9. V - X \in 0..(D - 1)
    <3>1. (u - c) * B <= -B
      <4>1. PICK P \in Int : P = u - c /\ P <= -1
        BY <1>1, <1>2, <1>5, <1>11
      <4>2. P * B <= -B
        BY <4>1
      <4> QED
        BY <4>1, <4>2
    <3>2. PICK P \in Int : P = (u - c) * B
      BY <1>1, <1>2, <1>5
    <3>3. V - Y < 0
      BY <1>7, <1>9, <2>7, <3>1, <3>2
    <3> QED
      BY <1>8, <2>7, <3>3
  <2>10. K = 0 /\ E = V - X
    <3>1. V - X \in 0..(B - 1)
      BY <1>7, <2>9
    <3> QED
      BY <2>4, <2>8, <3>1, OnlyLower
  <2>11. est - 1 \in 0..(Limb - 1)
    <3>1. ASSUME est = 0 PROVE FALSE
      <4>1. X = -D
        BY <2>7, <3>1
      <4> QED
        BY <1>7, <1>10, <2>9, <4>1
    <3> QED
      BY <1>1, <1>2, <3>1
  <2>12. (u - c + c2) % Limb = 0
    <3>1. K % Limb = K
      BY <1>1, <2>10, DivSmall
    <3> QED
      BY <2>6, <2>10, <3>1
  <2>13. res.un = [v2 EXCEPT ![j + n] = 0] /\ res.quot = [acc.quot EXCEPT ![j] = est - 1]
    BY <2>2, <2>12 DEF v2, c2
  <2>14. res.un \in Longs /\ res.un[j + n] = 0 /\ \A k \in 0..(2 * Limbs) : k # j + n => res.un[k] = v2[k]
    BY <1>1, <2>3, <2>13 DEF Longs
  <2>15. Number(Above(res.un, j, n), n, w) = E
    <3>1. \A i \in 0..(n - 1) : Above(res.un, j, n)[i] = Above(v2, j, n)[i]
      BY <1>1, <2>14 DEF Above
    <3>2. HasInts(Above(v2, j, n), n)
      <4>1. Window(v2, j, dn, n)
        BY <1>1, <2>3 DEF Window
      <4>2. HasDigits(Above(v2, j, n), n, w)
        BY <4>1, WindowLimbs
      <4> QED
        BY <1>1, <4>2, DigitsInts
    <3> QED
      BY <1>1, <2>4, <3>1, <3>2, NumberSame
  <2>16. \A k \in 0..(j - 1) : res.un[k] = un[k]
    BY <1>1, <1>5, <2>3, <2>14
  <2>17. Number(Above(res.un, j, n), n, w) = Part(un, j, n) - (est - 1) * Number(dn, n, w) /\ Number(Above(res.un, j, n), n, w) < Number(dn, n, w)
    BY <1>7, <2>7, <2>9, <2>10, <2>15
  <2>18. RoundOf(acc, res, j, dn, n, est - 1)
    BY <2>11, <2>13, <2>14, <2>16, <2>17 DEF RoundOf, un
  <2> QED
    BY <2>18 DEF res, u, un
<1>12. CASE ~(u < c)
  <2>1. res = Top(v, u - c, est)
    BY <1>3, <1>12
  <2>2. PICK K \in Int : K = u - c /\ K >= 0
    BY <1>1, <1>2, <1>5, <1>12
  <2>3. PICK Y \in Int : Y = est * D /\ V - Y = S + K * B /\ V < Y + D
    <3>1. est * D \in Int /\ (est + 1) * D = est * D + D
      BY <1>1, <1>2
    <3>2. V < est * D + D
      BY <1>8, <3>1
    <3> QED
      BY <1>9, <2>2, <3>1, <3>2
  <2>4. V - Y \in 0..(D - 1)
    <3>1. K * B >= 0 /\ K * B \in Int
      BY <2>2
    <3> QED
      BY <1>7, <2>3, <3>1
  <2>5. K = 0 /\ S = V - Y
    <3>1. V - Y \in 0..(B - 1)
      BY <1>7, <2>4
    <3> QED
      BY <1>7, <2>3, <3>1, OnlyLower
  <2>6. (u - c) % Limb = 0
    <3>1. K % Limb = K
      BY <1>1, <2>5, DivSmall
    <3> QED
      BY <2>2, <2>5, <3>1
  <2>7. res.un = [v EXCEPT ![j + n] = 0] /\ res.quot = [acc.quot EXCEPT ![j] = est]
    BY <2>1, <2>6
  <2>8. res.un \in Longs /\ res.un[j + n] = 0 /\ \A k \in 0..(2 * Limbs) : k # j + n => res.un[k] = v[k]
    BY <1>1, <1>5, <2>7 DEF Longs
  <2>9. Number(Above(res.un, j, n), n, w) = S
    <3>1. \A i \in 0..(n - 1) : Above(res.un, j, n)[i] = Above(v, j, n)[i]
      BY <1>1, <2>8 DEF Above
    <3>2. HasInts(Above(v, j, n), n)
      <4>1. HasDigits(Above(v, j, n), n, w)
        BY <1>6, WindowLimbs
      <4> QED
        BY <1>1, <4>1, DigitsInts
    <3> QED
      BY <1>1, <1>7, <3>1, <3>2, NumberSame
  <2>10. \A k \in 0..(j - 1) : res.un[k] = un[k]
    BY <1>1, <1>5, <2>8
  <2>11. Number(Above(res.un, j, n), n, w) = Part(un, j, n) - est * Number(dn, n, w) /\ Number(Above(res.un, j, n), n, w) < Number(dn, n, w)
    BY <1>7, <2>3, <2>4, <2>5, <2>9
  <2>12. RoundOf(acc, res, j, dn, n, est)
    BY <1>2, <2>7, <2>8, <2>10, <2>11 DEF RoundOf, un
  <2> QED
    BY <2>12 DEF res, u, un
<1> QED
  BY <1>11, <1>12

\* A round of the division, when what is left is below the divisor times a limb.
LEMMA LimbsRoundExact ==
  ASSUME NEW acc, NEW j, NEW dn, NEW n, Window(acc.un, j, dn, n), n >= 2, Limb <= 2 * dn[n - 1],
         Part(acc.un, j, n) < Number(dn, n, LimbBits) * Limb
  PROVE  \E q : RoundOf(acc, limbsRound(acc, j, dn, n), j, dn, n, q)
<1> DEFINE w == LimbBits
           un == acc.un
           a == Above(un, j, n + 1)
           est == qhat(un[j + n], un[j + n - 1], un[j + n - 2], dn[n - 1], dn[n - 2], reciprocal2by1(dn[n - 1]))
<1>1. n \in Nat /\ j \in Nat /\ w \in Nat /\ Limb \in Nat /\ Limb >= 2 /\ HasDigits(dn, n, w)
  BY LimbFacts DEF Window
<1>2. PICK m \in Nat : m = n - 2 /\ n = m + 2 /\ n + 1 = m + 3 /\ m + 2 \in 0..n /\ m + 1 \in 0..n /\ m \in 0..n /\ j + n = j + (m + 2) /\ j + n - 1 = j + (m + 1) /\ j + n - 2 = j + m
                       /\ m + 1 \in 0..(n - 1) /\ m \in 0..(n - 1) /\ n - 1 = m + 1 /\ n - 2 = m
  <2>1. n - 2 \in Nat
    BY <1>1
  <2>2. PICK m \in Nat : m = n - 2
    BY <2>1
  <2> QED
    BY <1>1, <2>2
<1>3. \A i \in 0..n : un[j + i] \in 0..(Limb - 1)
  BY WindowLimbs
<1>4. \A i \in 0..(n - 1) : dn[i] \in 0..(Limb - 1)
  BY WindowLimbs
<1>5. \A i \in 0..n : a[i] = un[j + i]
  BY <1>1 DEF Above
<1>6. HasDigits(a, n + 1, w)
  <2>1. Digits(w) = 0..(Limb - 1) /\ (n + 1) - 1 = n
    BY <1>1, LimbFacts
  <2>2. \A i \in 0..((n + 1) - 1) : a[i] \in Digits(w)
    BY <1>3, <1>5, <2>1
  <2> QED
    BY <2>2 DEF HasDigits
<1> HIDE DEF a
<1>7. Number(a, n + 1, w) = Part(un, j, n)
  <2>1. HasInts(a, n + 1) /\ n + 1 \in Nat
    BY <1>1, <1>6, DigitsInts
  <2>2. Number(a, n + 1, w) = Number(a, n, w) + a[n] * 2^(w * n)
    BY <1>1, <2>1, NumberIs
  <2>3. a[n] = un[j + n]
    BY <1>1, <1>5
  <2>4. Number(a, n, w) = Number(Above(un, j, n), n, w)
    <3>1. HasDigits(Above(un, j, n), n, w)
      BY WindowLimbs
    <3>2. HasInts(Above(un, j, n), n)
      BY <1>1, <3>1, DigitsInts
    <3>3. \A i \in 0..(n - 1) : a[i] = Above(un, j, n)[i]
      BY <1>1, <1>5 DEF Above
    <3> QED
      BY <1>1, <3>2, <3>3, NumberSame
  <2> QED
    BY <2>2, <2>3, <2>4 DEF Part
<1>8. PICK V \in Nat, D \in Nat, b \in Nat \ {0} :
        /\ V = Part(un, j, n) /\ D = Number(dn, n, w) /\ b = 2^(w * m)
  <2>1. Part(un, j, n) \in Nat /\ Number(dn, n, w) \in Nat /\ (2^(w * m)) \in Nat \ {0}
    <3>1. 2^(w * m) \in Nat \ {0}
      BY <1>1, Weight
    <3>2. n + 1 \in Nat /\ 2^(w * (n + 1)) \in Nat \ {0} /\ 2^(w * n) \in Nat \ {0}
      <4>1. n + 1 \in Nat
        BY <1>1
      <4> QED
        BY <1>1, <4>1, Weight
    <3>3. Number(a, n + 1, w) \in 0..(2^(w * (n + 1)) - 1)
      BY <1>1, <1>6, <3>2, NumberBounds
    <3>4. Number(dn, n, w) \in 0..(2^(w * n) - 1)
      BY <1>1, NumberBounds
    <3> QED
      BY <1>7, <3>1, <3>2, <3>3, <3>4
  <2> QED
    BY <2>1, Zenon
<1>9. PICK u2 \in Int, u1 \in Int, u0 \in Int, dh \in Int, dl \in Int :
        /\ u2 = un[j + n] /\ u1 = un[j + n - 1] /\ u0 = un[j + n - 2] /\ dh = dn[n - 1] /\ dl = dn[n - 2]
        /\ u2 \in 0..(Limb - 1) /\ u1 \in 0..(Limb - 1) /\ u0 \in 0..(Limb - 1) /\ dh \in 0..(Limb - 1) /\ dl \in 0..(Limb - 1)
  <2>1. (un[j + n]) \in Int /\ (un[j + n - 1]) \in Int /\ (un[j + n - 2]) \in Int /\ (dn[n - 1]) \in Int /\ (dn[n - 2]) \in Int /\ (un[j + n]) \in 0..(Limb - 1) /\ (un[j + n - 1]) \in 0..(Limb - 1) /\ (un[j + n - 2]) \in 0..(Limb - 1) /\ (dn[n - 1]) \in 0..(Limb - 1) /\ (dn[n - 2]) \in 0..(Limb - 1)
    BY <1>1, <1>2, <1>3, <1>4
  <2> QED
    BY <2>1, Zenon
<1>10. V - ((u2 * Limb + u1) * Limb + u0) * b \in 0..(b - 1)
  <2>1. HasDigits(a, m + 3, w)
    BY <1>2, <1>6
  <2>2. Number(a, m + 3, w) - ((a[m + 2] * Limb + a[m + 1]) * Limb + a[m]) * 2^(w * m) \in 0..(2^(w * m) - 1)
    BY <2>1, HighestThree
  <2>3. a[m + 2] = u2 /\ a[m + 1] = u1 /\ a[m] = u0
    BY <1>2, <1>5, <1>9
  <2> QED
    BY <1>2, <1>7, <1>8, <2>2, <2>3
<1>11. D - (dh * Limb + dl) * b \in 0..(b - 1)
  <2>1. HasDigits(dn, m + 2, w)
    BY <1>1, <1>2
  <2>2. Number(dn, m + 2, w) - (dn[m + 1] * Limb + dn[m]) * 2^(w * m) \in 0..(2^(w * m) - 1)
    BY <2>1, HighestTwo
  <2>3. dn[m + 1] = dh /\ dn[m] = dl
    BY <1>2, <1>9
  <2> QED
    BY <1>2, <1>8, <2>2, <2>3
<1>12. Leads(V, D, b, u2, u1, u0, dh, dl)
  <2>1. V < D * Limb /\ Limb <= 2 * dh
    BY <1>8, <1>9
  <2> QED
    BY <1>8, <1>9, <1>10, <1>11, <2>1 DEF Leads
<1>13. Near(est, Part(un, j, n), Number(dn, n, w))
  <2>1. Near(qhat(u2, u1, u0, dh, dl, reciprocal2by1(dh)), V, D)
    BY <1>12, QHatNear
  <2> QED
    BY <1>8, <1>9, <2>1
<1>14. limbsRound(acc, j, dn, n) = Correct(acc, j, dn, n, un[j + n], est)
  BY DEF limbsRound
<1> HIDE DEF est
<1>15. \E q : RoundOf(acc, Correct(acc, j, dn, n, acc.un[j + n], est), j, dn, n, q)
  BY <1>13, CorrectExact
<1> QED
  BY <1>14, <1>15

-----------------------------------------------------------------------------
\* Whatever the limbs, the estimate is a limb.
LEMMA QHatTyped ==
  ASSUME NEW u2 \in 0..(Limb - 1), NEW u1 \in 0..(Limb - 1), NEW u0 \in 0..(Limb - 1),
         NEW dh \in 0..(Limb - 1), NEW dl \in 0..(Limb - 1), Limb <= 2 * dh
  PROVE  qhat(u2, u1, u0, dh, dl, reciprocal2by1(dh)) \in 0..(Limb - 1)
<1> DEFINE z == udivrem2by1(u2, u1, dh, reciprocal2by1(dh))
           q == qhat(u2, u1, u0, dh, dl, reciprocal2by1(dh))
<1>1. Limb \in Nat /\ Limb >= 2
  BY LimbFacts
<1>2. CASE u2 >= dh
  <2>1. q = Limb - 1
    BY <1>2 DEF qhat
  <2> HIDE DEF q
  <2> QED
    BY <1>1, <2>1 DEF q
<1>3. CASE u2 < dh
  <2>1. u2 \in 0..(dh - 1) /\ ~(u2 >= dh)
    BY <1>1, <1>3
  <2>2. z.quot \in 0..(Limb - 1) /\ z.rem \in 0..(dh - 1)
    BY <2>1, TwoByOneExact
  <2>3. q = IF z.quot * dl > z.rem * Limb + u0 THEN z.quot - 1 ELSE z.quot
    BY <2>1 DEF qhat
  <2> HIDE DEF z, q
  <2>4. PICK e \in 0..(Limb - 1), r \in 0..(dh - 1) : e = z.quot /\ r = z.rem
    BY <2>2
  <2>5. CASE e * dl > r * Limb + u0
    <3>1. ASSUME e = 0 PROVE FALSE
      <4>1. e * dl = 0
        BY <1>1, <3>1
      <4>2. r * Limb >= 0 /\ r * Limb \in Int
        BY <1>1
      <4> QED
        BY <1>1, <2>5, <4>1, <4>2
    <3>2. q = e - 1
      BY <2>3, <2>4, <2>5
    <3> QED
      BY <1>1, <3>1, <3>2 DEF q
  <2>6. CASE ~(e * dl > r * Limb + u0)
    BY <2>3, <2>4, <2>6 DEF q
  <2> QED
    BY <2>5, <2>6
<1> QED
  BY <1>1, <1>2, <1>3

\* The states of a division by several limbs.
Rests == [un : Longs, quot : [0..(2 * Limbs - 1) -> Int]]

\* A round keeps the types, whatever is left to divide.
LEMMA LimbsRoundTyped ==
  ASSUME NEW acc \in Rests, NEW j, NEW dn, NEW n, Window(acc.un, j, dn, n), n >= 2, Limb <= 2 * dn[n - 1]
  PROVE  limbsRound(acc, j, dn, n) \in Rests
<1> DEFINE un == acc.un
           u == un[j + n]
           est == qhat(un[j + n], un[j + n - 1], un[j + n - 2], dn[n - 1], dn[n - 2], reciprocal2by1(dn[n - 1]))
           res == Correct(acc, j, dn, n, u, est)
           sub == subMulToUn(un, j, dn, n, est)
           add == addToUn(sub.un, j, dn, n)
           Top(x, limb, q) == [un |-> [x EXCEPT ![j + n] = limb % Limb], quot |-> [acc.quot EXCEPT ![j] = q]]
<1>1. n \in Nat /\ j \in Nat /\ Limb \in Nat /\ Limb >= 2 /\ Limbs \in Nat /\ j + n <= 2 * Limbs
  BY LimbFacts DEF Window
<1>2. j + n - 1 = j + (n - 1) /\ j + n - 2 = j + (n - 2) /\ n \in 0..n /\ n - 1 \in 0..n /\ n - 2 \in 0..n /\ n - 1 \in 0..(n - 1) /\ n - 2 \in 0..(n - 1)
  BY <1>1
<1>3. un[j + n] \in 0..(Limb - 1) /\ un[j + n - 1] \in 0..(Limb - 1) /\ un[j + n - 2] \in 0..(Limb - 1)
  BY <1>2, WindowLimbs
<1>4. dn[n - 1] \in 0..(Limb - 1) /\ dn[n - 2] \in 0..(Limb - 1)
  BY <1>2, WindowLimbs
<1>5. est \in 0..(Limb - 1)
  BY <1>3, <1>4, QHatTyped
<1>6. limbsRound(acc, j, dn, n) = res
  BY DEF limbsRound
<1>7. res = IF u < sub.carry THEN Top(add.un, u - sub.carry + add.carry, est - 1) ELSE Top(sub.un, u - sub.carry, est)
  BY DEF Correct
<1> HIDE DEF est, res
<1>8. Subtracted(un, sub.un, j, dn, n, est, sub.carry)
  BY <1>5, SubMulExact
<1> HIDE DEF sub
<1>9. sub.un \in Longs /\ sub.carry \in Int
  BY <1>1, <1>8 DEF Subtracted
<1>10. Window(sub.un, j, dn, n)
  BY <1>9 DEF Window
<1>11. AddedBack(sub.un, add.un, j, dn, n, add.carry)
  BY <1>10, AddToUnExact
<1> HIDE DEF add
<1>12. add.un \in Longs /\ add.carry \in Int
  BY <1>11 DEF AddedBack
<1>13. ASSUME NEW x \in Longs, NEW limb \in Int, NEW q \in Int PROVE Top(x, limb, q) \in Rests
  <2>1. limb % Limb \in 0..(Limb - 1)
    BY <1>1, LimbDivMod
  <2>2. [x EXCEPT ![j + n] = limb % Limb] \in Longs
    BY <1>1, <2>1 DEF Longs
  <2>3. [acc.quot EXCEPT ![j] = q] \in [0..(2 * Limbs - 1) -> Int]
    BY DEF Rests
  <2> QED
    BY <2>2, <2>3 DEF Rests
<1>14. u - sub.carry + add.carry \in Int /\ u - sub.carry \in Int /\ est - 1 \in Int /\ est \in Int
  BY <1>1, <1>3, <1>5, <1>9, <1>12
<1> HIDE DEF Top
<1> QED
  BY <1>6, <1>7, <1>9, <1>12, <1>13, <1>14

\* The loop of a division by several limbs.
LEMMA LimbsRoundsAre ==
  ASSUME NEW un \in Longs, NEW n \in 2..Limbs, NEW uLen \in n..(2 * Limbs), NEW dn, HasDigits(dn, n, LimbBits), Limb <= 2 * dn[n - 1]
  PROVE  /\ limbsRounds(un, uLen, dn, n)[0] = [un |-> un, quot |-> Zeros]
         /\ \A k \in 1..(uLen - n + 1) : limbsRounds(un, uLen, dn, n)[k] = limbsRound(limbsRounds(un, uLen, dn, n)[k - 1], uLen - n + 1 - k, dn, n)
         /\ \A k \in 0..(uLen - n + 1) : limbsRounds(un, uLen, dn, n)[k] \in Rests
<1> DEFINE f == limbsRounds(un, uLen, dn, n)
           T == Rests
           E(k, acc) == limbsRound(acc, uLen - n + 1 - k, dn, n)
           Loop(g) == [k \in 0..(uLen - n + 1) |-> IF k = 0 THEN [un |-> un, quot |-> Zeros] ELSE E(k, g[k - 1])]
           step == [k \in 1..(uLen - n + 1) |-> [acc \in T |-> E(k, acc)]]
<1>1. ASSUME NEW k \in 1..(uLen - n + 1), NEW acc \in T PROVE E(k, acc) \in T
  <2>1. uLen - n + 1 - k \in Nat /\ n \in Nat /\ (uLen - n + 1 - k) + n <= 2 * Limbs /\ n >= 2
    BY LimbFacts
  <2>2. acc.un \in Longs
    BY DEF Rests
  <2>3. Window(acc.un, uLen - n + 1 - k, dn, n)
    BY <2>1, <2>2 DEF Window
  <2> QED
    BY <2>1, <2>3, LimbsRoundTyped
<1>2. [un |-> un, quot |-> Zeros] \in T /\ (uLen - n + 1) \in Nat
  BY LimbFacts DEF Rests, Zeros
<1>3. f = CHOOSE g : g = Loop(g)
  BY DEF limbsRounds
<1> HIDE DEF E, T
<1>4. step \in [1..(uLen - n + 1) -> [T -> T]] /\ \A k \in 1..(uLen - n + 1), acc \in T : step[k][acc] = E(k, acc)
  BY <1>1
<1> HIDE DEF step, f
<1>5. PICK g : IsLoop(g, T, (uLen - n + 1), [un |-> un, quot |-> Zeros], step)
  BY <1>2, <1>4, Rounds, Zenon
<1>6. g = Loop(g)
  <2>1. ASSUME NEW k \in 0..(uLen - n + 1) PROVE g[k] = Loop(g)[k]
    <3>1. CASE k = 0
      BY <1>5, <3>1 DEF IsLoop
    <3>2. CASE k # 0
      <4>1. k \in 1..(uLen - n + 1) /\ k - 1 \in 0..(uLen - n + 1)
        BY <1>2, <3>2
      <4>2. g[k] = E(k, g[k - 1])
        BY <1>4, <1>5, <4>1 DEF IsLoop
      <4> QED
        BY <3>2, <4>2
    <3> QED
      BY <3>1, <3>2
  <2> QED
    BY <1>5, <2>1 DEF IsLoop
<1>7. f = Loop(f)
  <2> HIDE DEF Loop
  <2> QED
    BY <1>3, <1>6
<1>8. f[0] = [un |-> un, quot |-> Zeros] /\ \A k \in 1..(uLen - n + 1) : f[k] = E(k, f[k - 1])
  <2>1. ASSUME NEW k \in 0..(uLen - n + 1) PROVE f[k] = IF k = 0 THEN [un |-> un, quot |-> Zeros] ELSE E(k, f[k - 1])
    BY <1>7
  <2>2. 0 \in 0..(uLen - n + 1) /\ \A k \in 1..(uLen - n + 1) : k \in 0..(uLen - n + 1) /\ k # 0
    BY <1>2
  <2> QED
    BY <2>1, <2>2, Zenon
<1>9. \A k \in 0..(uLen - n + 1) : f[k] \in T
  <2>1. f[0] \in T
    BY <1>2, <1>8
  <2>2. ASSUME NEW k \in 1..(uLen - n + 1), f[k - 1] \in T PROVE f[k] \in T
    BY <1>1, <1>8, <2>2
  <2> QED
    BY <1>2, <2>1, <2>2, RoundsIn
<1> QED
  BY <1>8, <1>9 DEF f, T, E

\* The n + 1 limbs from limb j on, as the upper part of a number.
LEMMA PartOf ==
  ASSUME NEW x \in Longs, NEW j \in Nat, NEW n \in Nat, j + n <= 2 * Limbs
  PROVE  /\ Number(x, j + (n + 1), LimbBits) = Number(x, j, LimbBits) + 2^(LimbBits * j) * Part(x, j, n)
         /\ Number(x, j + n, LimbBits) = Number(x, j, LimbBits) + 2^(LimbBits * j) * Number(Above(x, j, n), n, LimbBits)
         /\ Number(x, j, LimbBits) \in 0..(2^(LimbBits * j) - 1) /\ Part(x, j, n) \in Int
         /\ Number(Above(x, j, n), n, LimbBits) \in Int
<1> DEFINE w == LimbBits
           a == Above(x, j, n + 1)
<1>1. w \in Nat /\ Limbs \in Nat /\ Limb \in Nat /\ n + 1 \in Nat /\ j + (n + 1) \in Nat /\ j + n \in Nat /\ Digits(w) = 0..(Limb - 1)
  BY LimbFacts
<1>2. HasDigits(x, j + (n + 1), w)
  BY <1>1 DEF HasDigits, Longs
<1>3. HasDigits(x, j, w) /\ HasDigits(x, j + n, w)
  <2>1. j <= j + (n + 1) /\ j + n <= j + (n + 1)
    OBVIOUS
  <2> QED
    BY <1>1, <1>2, <2>1, Fewer
<1>4. HasInts(x, j + (n + 1)) /\ HasInts(x, j + n)
  BY <1>1, <1>2, <1>3, DigitsInts
<1>5. Number(x, j + (n + 1), w) = Number(x, j, w) + 2^(w * j) * Number(a, n + 1, w) /\ Number(a, n + 1, w) \in Int
  BY <1>1, <1>4, NumberSplit, SMTT(30)
<1>6. Number(x, j + n, w) = Number(x, j, w) + 2^(w * j) * Number(Above(x, j, n), n, w) /\ Number(Above(x, j, n), n, w) \in Int
  BY <1>1, <1>4, NumberSplit, SMTT(30)
<1>7. \A i \in 0..n : a[i] = x[j + i]
  BY <1>1 DEF Above
<1>8. \A i \in 0..(n - 1) : a[i] = Above(x, j, n)[i] /\ Above(x, j, n)[i] = x[j + i]
  BY <1>1, <1>7 DEF Above
<1>9. \A i \in 0..n : x[j + i] \in Int
  BY <1>1 DEF Longs
<1> HIDE DEF a
<1>10. HasInts(a, n + 1) /\ HasInts(Above(x, j, n), n)
  <2>1. \A i \in 0..((n + 1) - 1) : a[i] \in Int
    BY <1>1, <1>7, <1>9
  <2>2. \A i \in 0..(n - 1) : Above(x, j, n)[i] \in Int
    <3>1. ASSUME NEW i \in 0..(n - 1) PROVE Above(x, j, n)[i] \in Int
      <4>1. i \in 0..n
        OBVIOUS
      <4> QED
        BY <1>8, <1>9, <4>1
    <3> QED
      BY <3>1
  <2> QED
    BY <2>1, <2>2 DEF HasInts
<1>11. Number(a, n + 1, w) = Part(x, j, n)
  <2>1. Number(a, n + 1, w) = Number(a, n, w) + a[n] * 2^(w * n)
    BY <1>1, <1>10, NumberIs
  <2>2. a[n] = x[j + n]
    BY <1>7
  <2>3. Number(a, n, w) = Number(Above(x, j, n), n, w)
    <3>1. \A i \in 0..(n - 1) : a[i] = Above(x, j, n)[i]
      BY <1>8
    <3> QED
      BY <1>1, <1>10, <3>1, NumberSame
  <2> QED
    BY <2>1, <2>2, <2>3 DEF Part
<1>12. Number(x, j, w) \in 0..(2^(w * j) - 1)
  BY <1>1, <1>3, NumberBounds
<1> QED
  BY <1>5, <1>6, <1>11, <1>12

\* Two numbers with the same digits.
SameDigits(x, y, n) == HasInts(x, n) /\ \A k \in 0..(n - 1) : y[k] = x[k]

\* The same digits are the same number.
LEMMA NumberAgain ==
  ASSUME NEW n \in Nat, NEW w \in Nat, NEW x, NEW y, SameDigits(x, y, n)
  PROVE  Number(y, n, w) = Number(x, n, w)
<1>1. HasInts(x, n) /\ \A k \in 0..(n - 1) : y[k] = x[k]
  BY DEF SameDigits
<1> QED
  BY <1>1, NumberSame

\* What a state of the division says: what was divided so far, and what is left.
Halfway(s, N, j, dn, n) ==
  /\ s.un \in Longs /\ s.quot \in Doubles
  /\ \A i \in 0..(j - 1) : s.quot[i] = 0
  /\ N = Number(s.quot, 2 * Limbs, LimbBits) * Number(dn, n, LimbBits) + Number(s.un, j + n, LimbBits)
  /\ Number(s.un, j + n, LimbBits) < Number(dn, n, LimbBits) * 2^(LimbBits * j)

\* A round goes on to the next limb.
LEMMA HalfwayOn ==
  ASSUME NEW s, NEW N \in Int, NEW j \in Nat, NEW n \in Nat, NEW dn, n >= 2, j + n <= 2 * Limbs,
         HasDigits(dn, n, LimbBits), Limb <= 2 * dn[n - 1], Halfway(s, N, j + 1, dn, n)
  PROVE  Halfway(limbsRound(s, j, dn, n), N, j, dn, n)
<1> DEFINE w == LimbBits
           T == 2 * Limbs
           r == limbsRound(s, j, dn, n)
<1>1. w \in Nat /\ T \in Nat /\ Limb \in Nat /\ Limb >= 2 /\ 2^w = Limb /\ (j + 1) + n = j + (n + 1) /\ j \in 0..(T - 1) /\ (j + 1) - 1 = j /\ Limbs \in Nat
  BY LimbFacts
<1>2. /\ s.un \in Longs /\ s.quot \in Doubles
      /\ \A i \in 0..j : s.quot[i] = 0
      /\ N = Number(s.quot, T, w) * Number(dn, n, w) + Number(s.un, j + (n + 1), w)
      /\ Number(s.un, j + (n + 1), w) < Number(dn, n, w) * 2^(w * (j + 1))
  BY <1>1 DEF Halfway
<1>3. Window(s.un, j, dn, n)
  BY <1>1, <1>2 DEF Window
<1>4. HasInts(s.quot, T)
  BY <1>1, <1>2 DEF HasInts, Doubles
<1>5. PICK b \in Nat \ {0}, P \in Int, X \in Int, D \in Int, Q \in Int :
        /\ b = 2^(w * j) /\ P = Part(s.un, j, n) /\ X = Number(s.un, j, w) /\ D = Number(dn, n, w) /\ Q = Number(s.quot, T, w)
        /\ X \in 0..(b - 1) /\ Number(s.un, j + (n + 1), w) = X + b * P /\ 2^(w * (j + 1)) = b * Limb
  <2>1. (2^(w * j)) \in Nat \ {0} /\ Part(s.un, j, n) \in Int /\ Number(s.un, j, w) \in Int /\ Number(dn, n, w) \in Int /\ Number(s.quot, T, w) \in Int /\ Number(s.un, j, w) \in 0..((2^(w * j)) - 1) /\ Number(s.un, j + (n + 1), w) = Number(s.un, j, w) + (2^(w * j)) * Part(s.un, j, n) /\ 2^(w * (j + 1)) = (2^(w * j)) * Limb
    <3>1. /\ Number(s.un, j + (n + 1), w) = Number(s.un, j, w) + 2^(w * j) * Part(s.un, j, n)
          /\ Number(s.un, j, w) \in 0..(2^(w * j) - 1) /\ Part(s.un, j, n) \in Int
      BY <1>2, PartOf
    <3>2. 2^(w * j) \in Nat \ {0} /\ 2^(w * (j + 1)) = 2^(w * j) * 2^w
      BY <1>1, Weight
    <3>3. Number(dn, n, w) \in Int
      <4>1. HasInts(dn, n)
        BY <1>1, DigitsInts
      <4> QED
        BY <1>1, <4>1, NumberTyped
    <3>4. Number(s.quot, T, w) \in Int
      BY <1>1, <1>4, NumberTyped
    <3> QED
      BY <1>1, <3>1, <3>2, <3>3, <3>4
  <2> QED
    BY <2>1, Zenon
<1>6. P < D * Limb
  <2>1. X + b * P < D * (b * Limb)
    BY <1>2, <1>5
  <2>2. b * P = P * b /\ D * (b * Limb) = (D * Limb) * b
    BY <1>1
  <2>3. PICK C \in Int, E \in Int, F \in Int : C = D * Limb /\ E = P * b /\ F = C * b
    BY <1>1
  <2>4. P * b < C * b
    BY <1>5, <2>1, <2>2, <2>3
  <2>5. P < C
    BY <2>4, TimesCancel
  <2> QED
    BY <2>3, <2>5
<1>7. PICK q : RoundOf(s, r, j, dn, n, q)
  BY <1>3, <1>5, <1>6, LimbsRoundExact
<1> HIDE DEF r
<1>8. /\ q \in 0..(Limb - 1) /\ r.un \in Longs /\ r.quot = [s.quot EXCEPT ![j] = q]
      /\ \A k \in 0..(j - 1) : r.un[k] = s.un[k]
      /\ Number(Above(r.un, j, n), n, w) = P - q * D
      /\ Number(Above(r.un, j, n), n, w) < D
  BY <1>5, <1>7 DEF RoundOf
<1>9. r.quot \in Doubles /\ r.quot[j] = q /\ \A i \in 0..(T - 1) : i # j => r.quot[i] = s.quot[i]
  BY <1>1, <1>2, <1>8 DEF Doubles
<1>10. \A i \in 0..(j - 1) : r.quot[i] = 0
  BY <1>1, <1>2, <1>9
<1>11. Number(r.quot, T, w) = Q + q * b
  <2>1. Changed(s.quot, r.quot, T, j, q)
    <3>1. q \in Int
      BY <1>1, <1>8
    <3> QED
      BY <1>1, <1>4, <1>9, <3>1 DEF Changed
  <2>2. Number(r.quot, T, w) = Number(s.quot, T, w) + (q - s.quot[j]) * 2^(w * j)
    BY <1>1, <2>1, NumberChanged
  <2>3. s.quot[j] = 0 /\ q - 0 = q
    BY <1>1, <1>2, <1>8
  <2> QED
    BY <1>5, <2>2, <2>3
<1>12. Number(r.un, j, w) = X
  <2>1. HasInts(s.un, j)
    BY <1>1, <1>2 DEF HasInts, Longs
  <2>2. PICK x, y : x = r.un /\ y = s.un
    OBVIOUS
  <2>3. \A k \in 0..(j - 1) : x[k] = y[k]
    BY <1>8, <2>2
  <2>4. HasInts(y, j)
    BY <2>1, <2>2
  <2>5. Number(x, j, w) = Number(y, j, w)
    <3>1. SameDigits(y, x, j)
      BY <2>3, <2>4 DEF SameDigits
    <3> QED
      BY <1>1, <3>1, NumberAgain
  <2> QED
    BY <1>5, <2>2, <2>5
<1>13. PICK R \in Int :
        /\ R = Number(Above(r.un, j, n), n, w)
        /\ R = P - q * D /\ R < D /\ Number(r.un, j + n, w) = X + b * R
  <2>1. Number(Above(r.un, j, n), n, w) \in Int /\ Number(Above(r.un, j, n), n, w) = P - q * D /\ Number(Above(r.un, j, n), n, w) < D /\ Number(r.un, j + n, w) = X + b * Number(Above(r.un, j, n), n, w)
    <3>1. /\ Number(r.un, j + n, w) = Number(r.un, j, w) + 2^(w * j) * Number(Above(r.un, j, n), n, w)
          /\ Number(Above(r.un, j, n), n, w) \in Int
      BY <1>8, PartOf
    <3> QED
      BY <1>5, <1>8, <1>12, <3>1
  <2> QED
    BY <2>1, Zenon
<1>14. PICK qq \in Int : qq = q
  BY <1>1, <1>8
<1>15. N = (Q + qq * b) * D + (X + b * R)
  <2>1. N = Q * D + (X + b * P)
    BY <1>2, <1>5
  <2>2. (Q + qq * b) * D = Q * D + (qq * b) * D
    OBVIOUS
  <2>3. b * (P - qq * D) = b * P - (qq * b) * D
    OBVIOUS
  <2>4. R = P - qq * D
    BY <1>13, <1>14
  <2>5. PICK A \in Int, C \in Int, E \in Int, F \in Int : A = Q * D /\ C = (qq * b) * D /\ E = b * P /\ F = b * R
    OBVIOUS
  <2>6. F = E - C
    BY <2>3, <2>4, <2>5
  <2> QED
    BY <2>1, <2>2, <2>5, <2>6
<1>16. X + b * R < D * b
  <2>1. R <= D - 1
    BY <1>13
  <2>2. b * R <= b * (D - 1)
    <3>1. D - 1 \in Int
      OBVIOUS
    <3> QED
      BY <2>1, <3>1, TimesLess
  <2>3. b * (D - 1) = D * b - b
    OBVIOUS
  <2>4. PICK A \in Int, C \in Int : A = b * R /\ C = D * b
    OBVIOUS
  <2> QED
    BY <1>5, <2>2, <2>3, <2>4
<1>17. N = Number(r.quot, T, w) * Number(dn, n, w) + Number(r.un, j + n, w)
  BY <1>5, <1>11, <1>13, <1>14, <1>15
<1>18. Number(r.un, j + n, w) < Number(dn, n, w) * 2^(w * j)
  BY <1>5, <1>13, <1>16
<1>19. Halfway(r, N, j, dn, n)
  BY <1>8, <1>9, <1>10, <1>17, <1>18 DEF Halfway
<1> QED
  BY <1>19 DEF r

\* Limb by limb from the highest, the quotient of a number by several limbs.
LEMMA LimbsRoundsExact ==
  ASSUME NEW un \in Longs, NEW n \in 2..Limbs, NEW uLen \in n..(2 * Limbs), NEW dn, HasDigits(dn, n, LimbBits),
         Limb <= 2 * dn[n - 1],
         Number(un, uLen + 1, LimbBits) < Number(dn, n, LimbBits) * 2^(LimbBits * (uLen - n + 1))
  PROVE  LET f == limbsRounds(un, uLen, dn, n)[uLen - n + 1]
         IN  /\ f.un \in Longs /\ f.quot \in Doubles
             /\ Number(f.quot, 2 * Limbs, LimbBits) * Number(dn, n, LimbBits) + Number(f.un, n, LimbBits)
                  = Number(un, uLen + 1, LimbBits)
             /\ Number(f.un, n, LimbBits) < Number(dn, n, LimbBits)
<1> DEFINE w == LimbBits
           T == 2 * Limbs
           g == limbsRounds(un, uLen, dn, n)
           N == Number(un, uLen + 1, w)
<1>1. PICK K \in Nat : K = uLen - n + 1 /\ K + n = uLen + 1
  <2>1. uLen - n + 1 \in Nat
    BY LimbFacts
  <2> QED
    BY <2>1
<1>2. /\ g[0] = [un |-> un, quot |-> Zeros]
      /\ \A k \in 1..K : g[k] = limbsRound(g[k - 1], K - k, dn, n)
  BY <1>1, LimbsRoundsAre
<1>3. n \in Nat /\ w \in Nat /\ T \in Nat /\ n >= 2 /\ K + n <= T + 1 /\ Limb \in Nat /\ Limbs \in Nat /\ Limb >= 2
  BY <1>1, LimbFacts
<1> HIDE DEF g
<1>4. HasInts(un, uLen + 1) /\ HasInts(dn, n) /\ uLen + 1 \in Nat
  <2>1. HasInts(un, uLen + 1)
    BY <1>1, <1>3 DEF HasInts, Longs
  <2> QED
    BY <1>1, <1>3, <2>1, DigitsInts
<1>5. N \in Int /\ Number(dn, n, w) \in Int
  BY <1>3, <1>4, NumberTyped
<1> DEFINE I == {k \in 0..K : Halfway(g[k], N, K - k, dn, n)}
<1>6. 0 \in I
  <2>1. g[0].un = un /\ g[0].quot = Zeros /\ K - 0 = K
    BY <1>2
  <2>2. Zeros \in Doubles /\ \A i \in 0..(T - 1) : Zeros[i] = 0
    BY <1>3 DEF Zeros, Doubles
  <2>3. Number(Zeros, T, w) = 0
    BY <1>3, <2>2, NumberZeros
  <2>4. \A i \in 0..(K - 1) : Zeros[i] = 0
    BY <1>3, <2>2
  <2>5. PICK D \in Int : D = Number(dn, n, w)
    BY <1>5
  <2>6. 0 * D + N = N
    BY <1>5
  <2>7. N = Number(Zeros, T, w) * Number(dn, n, w) + Number(un, K + n, w)
    BY <1>1, <2>3, <2>5, <2>6
  <2>8. Number(un, K + n, w) < Number(dn, n, w) * 2^(w * K)
    BY <1>1
  <2> HIDE DEF N
  <2>9. Halfway(g[0], N, K - 0, dn, n)
    BY <2>1, <2>2, <2>4, <2>7, <2>8 DEF Halfway
  <2>10. 0 \in 0..K
    OBVIOUS
  <2> QED
    BY <2>9, <2>10
<1> HIDE DEF N
<1>7. ASSUME NEW k \in 0..(K - 1), k \in I PROVE k + 1 \in I
  <2>1. PICK j \in Nat : j = K - (k + 1) /\ K - k = j + 1 /\ j + n <= T /\ k + 1 \in 1..K /\ (k + 1) - 1 = k /\ k + 1 \in 0..K
    <3>1. K - (k + 1) \in Nat
      OBVIOUS
    <3>2. PICK j \in Nat : j = K - (k + 1)
      BY <3>1
    <3> QED
      BY <1>3, <3>2
  <2>2. Halfway(g[k], N, j + 1, dn, n)
    BY <1>7, <2>1
  <2>3. g[k + 1] = limbsRound(g[k], j, dn, n)
    BY <1>2, <2>1
  <2>4. Halfway(g[k + 1], N, j, dn, n)
    BY <1>3, <1>5, <2>1, <2>2, <2>3, HalfwayOn
  <2> QED
    BY <2>1, <2>4
<1>8. Halfway(g[K], N, K - K, dn, n)
  <2>1. K \in 0..K
    OBVIOUS
  <2> HIDE DEF I
  <2>2. K \in I
    BY <1>6, <1>7, <2>1, Climb
  <2> QED
    BY <2>2 DEF I
<1>9. K - K = 0 /\ 0 + n = n /\ 2^(w * 0) = 1
  BY <1>3, Weight
<1>10. /\ g[K].un \in Longs /\ g[K].quot \in Doubles
       /\ N = Number(g[K].quot, T, w) * Number(dn, n, w) + Number(g[K].un, n, w)
       /\ Number(g[K].un, n, w) < Number(dn, n, w) * 1
  BY <1>8, <1>9 DEF Halfway
<1>11. Number(dn, n, w) * 1 = Number(dn, n, w)
  BY <1>5
<1> QED
  BY <1>1, <1>10, <1>11 DEF g, N

-----------------------------------------------------------------------------
\* The zeros above do not count.
LEMMA Shortened ==
  ASSUME NEW n \in Nat, NEW m \in Nat, m <= n, NEW x, HasDigits(x, n, LimbBits), \A i \in m..(n - 1) : x[i] = 0
  PROVE  HasDigits(x, m, LimbBits) /\ Number(x, n, LimbBits) = Number(x, m, LimbBits)
<1>1. LimbBits \in Nat
  BY LimbFacts
<1>2. HasDigits(x, m, LimbBits)
  BY <1>1, Fewer
<1>3. HasDigits(Padded(x, m, n), n, LimbBits) /\ Number(Padded(x, m, n), n, LimbBits) = Number(x, m, LimbBits)
  BY <1>2, PaddedDigits
<1>4. SameDigits(x, Padded(x, m, n), n)
  <2>1. HasInts(x, n)
    BY <1>1, DigitsInts
  <2>2. ASSUME NEW k \in 0..(n - 1) PROVE Padded(x, m, n)[k] = x[k]
    <3>1. CASE k \in 0..(m - 1)
      BY <3>1 DEF Padded
    <3>2. CASE k \notin 0..(m - 1)
      <4>1. k \in m..(n - 1)
        BY <3>2
      <4> QED
        BY <3>2, <4>1 DEF Padded
    <3> QED
      BY <3>1, <3>2
  <2> QED
    BY <2>1, <2>2 DEF SameDigits
<1>5. Number(Padded(x, m, n), n, LimbBits) = Number(x, n, LimbBits)
  BY <1>1, <1>4, NumberAgain
<1> QED
  BY <1>2, <1>3, <1>5

\* A digit that is not zero bounds the number from below.
LEMMA AtLeast ==
  ASSUME NEW m \in Nat, NEW x, HasDigits(x, m + 1, LimbBits), NEW d \in Nat, d <= x[m]
  PROVE  d * 2^(LimbBits * m) <= Number(x, m + 1, LimbBits)
<1>1. LimbBits \in Nat /\ m + 1 \in Nat /\ m <= m + 1
  BY LimbFacts
<1>2. HasInts(x, m + 1) /\ HasDigits(x, m, LimbBits)
  BY <1>1, DigitsInts, Fewer
<1>3. Number(x, m + 1, LimbBits) = Number(x, m, LimbBits) + x[m] * 2^(LimbBits * m)
  BY <1>1, <1>2, NumberIs
<1>4. PICK b \in Nat \ {0}, N \in Int, h \in Int :
        /\ b = 2^(LimbBits * m) /\ N = Number(x, m, LimbBits) /\ h = x[m]
        /\ N >= 0
  <2>1. (2^(LimbBits * m)) \in Nat \ {0} /\ Number(x, m, LimbBits) \in Int /\ x[m] \in Int /\ Number(x, m, LimbBits) >= 0
    <3>1. 2^(LimbBits * m) \in Nat \ {0}
      BY <1>1, Weight
    <3>2. Number(x, m, LimbBits) \in 0..(2^(LimbBits * m) - 1)
      BY <1>1, <1>2, NumberBounds
    <3>3. x[m] \in Int
      BY <1>1, <1>2 DEF HasInts
    <3> QED
      BY <3>1, <3>2, <3>3
  <2> QED
    BY <2>1, Zenon
<1>5. d * b <= h * b
  <2>1. d \in Int /\ d <= h
    BY <1>4
  <2> QED
    BY <2>1, TimesLess
<1>6. PICK A \in Int, B \in Int : A = d * b /\ B = h * b
  OBVIOUS
<1> QED
  BY <1>3, <1>4, <1>5, <1>6

\* The divisor, shifted so that its highest bit is set.
LEMMA DivisorIs ==
  ASSUME NEW n \in 1..Limbs, NEW d, HasDigits(d, n, LimbBits), d[n - 1] # 0
  PROVE  LET s == LeadingZeros64(d[n - 1])
             dn == Normalized(d, n, s, Limbs)
         IN  /\ Shift(s, 2^s, 2^(LimbBits - s))
             /\ HasDigits(dn, n, LimbBits) /\ Limb <= 2 * dn[n - 1]
             /\ Number(dn, n, LimbBits) = Number(d, n, LimbBits) * 2^s
<1> DEFINE w == LimbBits
           s == LeadingZeros64(d[n - 1])
           dn == Normalized(d, n, s, Limbs)
<1>1. w \in Nat /\ Limbs \in Nat /\ Limb \in Nat \ {0} /\ Limb >= 2 /\ Digits(w) = 0..(Limb - 1) /\ n \in Nat /\ n - 1 \in Nat /\ n <= Limbs /\ n <= n /\ (n - 1) + 1 = n /\ n # 0
  BY LimbFacts
<1>2. d[n - 1] \in 1..(Limb - 1)
  <2>1. d[n - 1] \in Digits(w)
    BY <1>1 DEF HasDigits
  <2> QED
    BY <1>1, <2>1
<1>3. s \in 0..(w - 1) /\ Limb <= 2 * (d[n - 1] * 2^s) /\ d[n - 1] * 2^s < Limb
  BY <1>2, LeadingZerosOf
<1> HIDE DEF s
<1>4. Shift(s, 2^s, 2^(w - s))
  BY <1>3, ShiftIs
<1>5. PICK t, e : t = 2^s /\ Shift(s, t, e)
  BY <1>4
<1>6. t \in Nat \ {0}
  BY <1>5 DEF Shift
<1>7. PICK h \in Nat : h = d[n - 1] * t /\ h < Limb /\ Limb <= 2 * h
  <2>1. d[n - 1] * t \in Nat
    BY <1>2, <1>6
  <2> QED
    BY <1>3, <1>5, <2>1
<1>8. h % Limb = h /\ h \div Limb = 0
  <2>1. h \in Int /\ 0 <= h /\ h < Limb
    BY <1>7
  <2> QED
    BY <1>1, <2>1, DivSmall
<1>9. HasDigits(dn, Limbs, w) /\ Normal(d, dn, n, Limbs, n, t)
  BY <1>1, <1>5, NormalizedIs
<1>10. Padded(d, n, Limbs)[n - 1] = d[n - 1]
  BY <1>1 DEF Padded
<1>11. HasDigits(dn, n, w)
  BY <1>1, <1>9, Fewer
<1>12. Number(dn, n, w) = Number(d, n, w) * t
  <2>1. Number(dn, n, w) + 0 * 2^(w * n) = Number(d, n, w) * t
    <3>1. PICK c \in 0..(t - 1) : c = (Padded(d, n, Limbs)[n - 1] * t) \div Limb /\ Number(dn, n, w) + c * 2^(w * n) = Number(d, n, w) * t
      BY <1>1, <1>9 DEF Normal
    <3>2. c = 0
      BY <1>7, <1>8, <1>10, <3>1
    <3> QED
      BY <3>1, <3>2
  <2>2. Number(dn, n, w) \in Int
    <3>1. HasInts(dn, n)
      BY <1>1, <1>11, DigitsInts
    <3> QED
      BY <1>1, <3>1, NumberTyped
  <2>3. PICK N \in Int, b \in Int : N = Number(dn, n, w) /\ b = 2^(w * n)
    <3>1. 2^(w * n) \in Int
      BY <1>1, Weight
    <3> QED
      BY <2>2, <3>1, Zenon
  <2>4. N + 0 * b = N
    OBVIOUS
  <2> QED
    BY <2>1, <2>3, <2>4
<1>13. Limb <= 2 * dn[n - 1]
  <2> DEFINE At(i) == IF i \in 0..(n - 1) THEN d[i] * 2^s ELSE 0
  <2>1. dn[n - 1] = (At(n - 1) % Limb) + At(n - 1 - 1) \div Limb
    BY <1>1 DEF Normalized
  <2>2. At(n - 1) = h
    BY <1>1, <1>5, <1>7
  <2>3. At(n - 1 - 1) \in Nat
    <3>1. CASE n - 1 - 1 \in 0..(n - 1)
      <4>1. d[n - 1 - 1] \in Nat
        BY <1>1, <3>1 DEF HasDigits
      <4>2. d[n - 1 - 1] * t \in Nat
        BY <1>6, <4>1
      <4> QED
        BY <1>5, <3>1, <4>2
    <3>2. CASE n - 1 - 1 \notin 0..(n - 1)
      BY <3>2
    <3> QED
      BY <3>1, <3>2
  <2> HIDE DEF At
  <2>4. PICK a \in Nat : a = At(n - 1 - 1)
    BY <2>3
  <2>5. a \div Limb \in Nat
    BY <1>1
  <2>6. PICK k \in Nat : k = a \div Limb
    BY <2>5
  <2>7. dn[n - 1] = h + k
    BY <1>8, <2>1, <2>2, <2>4, <2>6
  <2> QED
    BY <1>1, <1>7, <2>7, SMTT(30)
<1> QED
  BY <1>4, <1>5, <1>11, <1>12, <1>13 DEF s

\* The dividend, shifted as much, takes one limb more.
LEMMA DividendIs ==
  ASSUME NEW n \in 0..(2 * Limbs), NEW u, HasDigits(u, n, LimbBits), NEW s, NEW t, NEW e, Shift(s, t, e)
  PROVE  LET un == Normalized(u, n, s, 2 * Limbs + 1)
         IN  /\ un \in Longs /\ HasDigits(un, n + 1, LimbBits) /\ un[n] < t
             /\ Number(un, n + 1, LimbBits) = Number(u, n, LimbBits) * t
<1> DEFINE w == LimbBits
           T == 2 * Limbs + 1
           un == Normalized(u, n, s, T)
<1>1. w \in Nat /\ T \in Nat /\ T - 1 = 2 * Limbs /\ Limb \in Nat \ {0} /\ Digits(w) = 0..(Limb - 1) /\ n \in Nat /\ n <= T /\ n + 1 <= T /\ n + 1 \in Nat /\ n <= n + 1 /\ n <= n /\ (n + 1) - 1 = n /\ n + 1 # 0
  BY LimbFacts
<1>2. t \in Nat \ {0}
  BY DEF Shift
<1> HIDE DEF T
<1>3. HasDigits(un, T, w) /\ Normal(u, un, n, T, n, t)
  BY <1>1, NormalizedIs
<1>4. Normal(u, un, n, T, n + 1, t)
  BY <1>1, NormalizedIs
<1>5. un \in Longs
  <2>1. un = [i \in 0..(T - 1) |-> un[i]]
    BY DEF Normalized
  <2>2. \A i \in 0..(T - 1) : un[i] \in 0..(Limb - 1)
    BY <1>1, <1>3 DEF HasDigits
  <2> HIDE DEF un
  <2> QED
    BY <1>1, <2>1, <2>2 DEF Longs, un
<1>6. HasDigits(un, n + 1, w)
  BY <1>1, <1>3, Fewer
<1> HIDE DEF un
<1>7. HasInts(un, n + 1)
  BY <1>1, <1>6, DigitsInts
<1>8. Number(un, n + 1, w) = Number(u, n, w) * t
  <2>1. PICK c \in 0..(t - 1) : c = (Padded(u, n, T)[n] * t) \div Limb /\ Number(un, n + 1, w) + c * 2^(w * (n + 1)) = Number(u, n, w) * t
    BY <1>1, <1>4 DEF Normal
  <2>2. Padded(u, n, T)[n] = 0
    BY <1>1 DEF Padded
  <2>3. c = 0
    <3>1. PICK o \in Int : o = 0
      OBVIOUS
    <3>2. o * t = o /\ o \div Limb = 0
      BY <1>1, <1>2, <3>1, DivSmall
    <3> QED
      BY <2>1, <2>2, <3>1, <3>2
  <2>4. PICK N \in Int, b \in Int :
          /\ N = Number(un, n + 1, w) /\ b = 2^(w * (n + 1))
    <3>1. (Number(un, n + 1, w)) \in Int /\ (2^(w * (n + 1))) \in Int
      BY <1>1, <1>7, NumberTyped, Weight
    <3> QED
      BY <3>1, Zenon
  <2>5. N + 0 * b = N
    OBVIOUS
  <2> QED
    BY <2>1, <2>3, <2>4, <2>5
<1>9. un[n] < t
  <2>1. PICK c \in 0..(t - 1) : Number(un, n, w) + c * 2^(w * n) = Number(u, n, w) * t
    BY <1>3 DEF Normal
  <2>2. Number(un, n + 1, w) = Number(un, n, w) + un[n] * 2^(w * n) /\ Number(un, n, w) \in Int
    BY <1>1, <1>7, NumberIs
  <2>3. PICK N \in Int, b \in Nat \ {0}, x \in Int :
          /\ N = Number(un, n, w) /\ b = 2^(w * n) /\ x = un[n]
    <3>1. Number(un, n, w) \in Int /\ (2^(w * n)) \in Nat \ {0} /\ un[n] \in Int
      <4>1. un[n] \in Int
        BY <1>1, <1>7 DEF HasInts
      <4>2. 2^(w * n) \in Nat \ {0}
        BY <1>1, Weight
      <4> QED
        BY <2>2, <4>1, <4>2
    <3> QED
      BY <3>1, Zenon
  <2>4. N + c * b = N + x * b
    BY <1>8, <2>1, <2>2, <2>3
  <2>5. PICK A \in Int, B \in Int : A = c * b /\ B = x * b
    BY <1>2
  <2>6. A = B
    BY <2>4, <2>5
  <2>7. ~(c < x)
    <3>1. ASSUME c < x PROVE FALSE
      <4>1. c + 1 <= x /\ c + 1 \in Int
        BY <1>2, <3>1
      <4>2. (c + 1) * b <= x * b
        BY <4>1, TimesLess
      <4>3. (c + 1) * b = c * b + b
        BY <1>2
      <4> QED
        BY <2>5, <2>6, <4>2, <4>3
    <3> QED
      BY <3>1
  <2> QED
    BY <1>2, <2>3, <2>7
<1> QED
  BY <1>5, <1>6, <1>8, <1>9 DEF un, T

\* What a division must give.
Quotient(N, V, res) ==
  /\ res.quot \in Doubles /\ res.rem \in Word
  /\ Number(res.quot, 2 * Limbs, LimbBits) * V + Value(res.rem) = N
  /\ Value(res.rem) < V

\* A multiple of t that is the sum of multiples and r.
LEMMA Descale ==
  ASSUME NEW t \in Nat \ {0}, NEW N \in Int, NEW V \in Int, NEW Q \in Int, NEW r \in Nat,
         Q * (V * t) + r = N * t, r < V * t
  PROVE  /\ r = t * (N - Q * V) /\ N - Q * V \in Nat /\ N - Q * V < V
         /\ Q * V + (N - Q * V) = N
<1>1. PICK A \in Int : A = Q * V
  OBVIOUS
<1>2. Q * (V * t) = A * t
  BY <1>1
<1>3. t * (N - A) = N * t - A * t /\ t * (N - A) = (N - A) * t
  OBVIOUS
<1>4. PICK X \in Int, Y \in Int, Z \in Int : X = A * t /\ Y = N * t /\ Z = V * t
  OBVIOUS
<1>5. r = Y - X
  BY <1>2, <1>4
<1>6. r = (N - A) * t
  BY <1>3, <1>4, <1>5
<1>7. PICK M \in Int : M = N - A
  OBVIOUS
<1>8. M >= 0
  <2>1. ASSUME M <= -1 PROVE FALSE
    <3>1. M * t <= -t
      BY <2>1
    <3> QED
      BY <1>6, <1>7, <3>1
  <2> QED
    BY <2>1
<1>9. M < V
  <2>1. M * t < V * t
    BY <1>6, <1>7
  <2> QED
    BY <2>1, TimesCancel
<1> QED
  BY <1>1, <1>3, <1>6, <1>7, <1>8, <1>9

\* A number of one digit.
LEMMA OneDigit ==
  ASSUME NEW x, HasInts(x, 1)
  PROVE  Number(x, 1, LimbBits) = x[0] /\ x[0] \in Int
<1>1. LimbBits \in Nat
  BY LimbFacts
<1>2. PICK o \in Nat : o = 0 /\ o + 1 = 1
  OBVIOUS
<1>3. Number(x, o + 1, LimbBits) = Number(x, o, LimbBits) + x[o] * 2^(LimbBits * o)
  BY <1>1, <1>2, NumberIs
<1>4. Number(x, 0, LimbBits) = 0 /\ 2^(LimbBits * 0) = 1
  BY <1>1, NumberZero, Weight
<1>5. PICK y \in Int : y = x[0]
  BY DEF HasInts
<1>6. 0 + y * 1 = y
  OBVIOUS
<1> QED
  BY <1>2, <1>3, <1>4, <1>5, <1>6

\* A division by one limb.
LEMMA ByLimbExact ==
  ASSUME NEW m \in 0..(2 * Limbs), NEW u, HasDigits(u, m, LimbBits),
         NEW d, HasDigits(d, 1, LimbBits), d[0] # 0
  PROVE  LET s == LeadingZeros64(d[0])
         IN  Quotient(Number(u, m, LimbBits), Number(d, 1, LimbBits),
                      divideByLimb(Normalized(u, m, s, 2 * Limbs + 1), m, Normalized(d, 1, s, Limbs)[0], s))
<1> DEFINE w == LimbBits
           T == 2 * Limbs
           s == LeadingZeros64(d[0])
           un == Normalized(u, m, s, 2 * Limbs + 1)
           dn == Normalized(d, 1, s, Limbs)
           f == limbRounds(un, m, dn[0])[m]
           res == divideByLimb(un, m, dn[0], s)
<1>1. w \in Nat /\ T \in Nat /\ Limbs \in Nat /\ Limb \in Nat /\ Limb >= 2 /\ 1 \in 1..Limbs /\ 1 - 1 = 0 /\ m \in Nat /\ Digits(w) = 0..(Limb - 1) /\ 0 \in 0..(Limbs - 1)
  BY LimbFacts
<1>2. Shift(s, 2^s, 2^(w - s)) /\ HasDigits(dn, 1, w) /\ Limb <= 2 * dn[0] /\ Number(dn, 1, w) = Number(d, 1, w) * 2^s
  <2>1. PICK one \in 1..Limbs : one = 1 /\ one - 1 = 0
    BY <1>1
  <2>2. LET r == LeadingZeros64(d[one - 1])
            dd == Normalized(d, one, r, Limbs)
        IN  /\ Shift(r, 2^r, 2^(LimbBits - r))
            /\ HasDigits(dd, one, LimbBits) /\ Limb <= 2 * dd[one - 1]
            /\ Number(dd, one, LimbBits) = Number(d, one, LimbBits) * 2^r
    BY <2>1, DivisorIs
  <2> QED
    BY <2>1, <2>2
<1> HIDE DEF s
<1>3. PICK t, e : t = 2^s /\ Shift(s, t, e)
  BY <1>2
<1>4. t \in Nat \ {0}
  BY <1>3 DEF Shift
<1>5. un \in Longs /\ HasDigits(un, m + 1, w) /\ un[m] < t /\ Number(un, m + 1, w) = Number(u, m, w) * t
  BY <1>3, DividendIs
<1> HIDE DEF un, dn
<1>6. HasInts(d, 1) /\ HasInts(dn, 1) /\ HasInts(u, m)
  <2>1. 1 \in Nat
    OBVIOUS
  <2> QED
    BY <1>1, <1>2, <2>1, DigitsInts
<1>7. PICK V \in Nat, N \in Int, D \in Int :
        /\ V = Number(d, 1, w) /\ N = Number(u, m, w) /\ D = dn[0]
        /\ V # 0 /\ D = V * t /\ D \in 0..(Limb - 1)
  <2>1. Number(d, 1, w) \in Nat /\ Number(u, m, w) \in Int /\ dn[0] \in Int /\ Number(d, 1, w) # 0 /\ dn[0] = Number(d, 1, w) * t /\ dn[0] \in 0..(Limb - 1)
    <3>1. Number(d, 1, w) = d[0] /\ d[0] \in Int
      BY <1>6, OneDigit
    <3>2. Number(dn, 1, w) = dn[0] /\ dn[0] \in Int
      BY <1>6, OneDigit
    <3>3. d[0] \in 0..(Limb - 1) /\ dn[0] \in 0..(Limb - 1)
      BY <1>1, <1>2 DEF HasDigits
    <3>4. Number(u, m, w) \in Int
      BY <1>1, <1>6, NumberTyped
    <3> QED
      BY <1>1, <1>2, <1>3, <3>1, <3>2, <3>3, <3>4
  <2> QED
    BY <2>1, Zenon
<1>8. un[m] < D
  <2>1. un[m] \in Int
    <3>1. un[m] \in Digits(w)
      BY <1>1, <1>5 DEF HasDigits
    <3> QED
      BY <1>1, <3>1
  <2>2. t <= V * t
    <3>1. 1 <= V /\ 1 \in Int
      BY <1>7
    <3>2. 1 * t <= V * t
      BY <1>4, <3>1, TimesLess
    <3> QED
      BY <1>4, <3>2
  <2>3. V * t \in Int
    BY <1>4
  <2> QED
    BY <1>4, <1>5, <1>7, <2>1, <2>2, <2>3
<1>9. f.r \in 0..(D - 1) /\ f.quot \in Doubles /\ Number(f.quot, T, w) * D + f.r = Number(un, m + 1, w)
  <2>1. LET g == limbRounds(un, m, D)[m]
        IN  /\ g.r \in 0..(D - 1) /\ g.quot \in Doubles
            /\ Number(g.quot, 2 * Limbs, LimbBits) * D + g.r = Number(un, m + 1, LimbBits)
    BY <1>2, <1>5, <1>7, <1>8, LimbRoundsExact
  <2> QED
    BY <1>7, <2>1
<1>10. res = [quot |-> f.quot, rem |-> [Zero EXCEPT ![0] = f.r \div t]]
  BY <1>3 DEF divideByLimb
<1> HIDE DEF f, res
<1>11. PICK Q \in Int, r \in Nat :
        /\ Q = Number(f.quot, T, w) /\ r = f.r
        /\ Q * (V * t) + r = N * t /\ r < V * t
  <2>1. Number(f.quot, T, w) \in Int /\ f.r \in Nat /\ Number(f.quot, T, w) * (V * t) + f.r = N * t /\ f.r < V * t
    <3>1. HasInts(f.quot, T)
      BY <1>1, <1>9, SMTT(30) DEF HasInts, Doubles
    <3>2. Number(f.quot, T, w) \in Int
      BY <1>1, <3>1, NumberTyped
    <3> QED
      BY <1>1, <1>5, <1>7, <1>9, <3>2, SMTT(30)
  <2> QED
    BY <2>1, Zenon
<1>12. r = t * (N - Q * V) /\ N - Q * V \in Nat /\ N - Q * V < V /\ Q * V + (N - Q * V) = N
  BY <1>4, <1>11, Descale
<1>13. PICK M \in Nat : M = N - Q * V /\ r = t * M /\ M < V /\ Q * V + M = N
  BY <1>12
<1>14. r \div t = M
  <2>1. PICK o \in Int : o = 0
    OBVIOUS
  <2>2. Division(r, t, M, o)
    BY <1>4, <1>13, <2>1 DEF Division
  <2> QED
    BY <2>2, Divides
<1>15. V \in 0..(Limb - 1)
  <2>1. Number(d, 1, w) = d[0]
    BY <1>6, OneDigit
  <2>2. d[0] \in 0..(Limb - 1)
    BY <1>1 DEF HasDigits
  <2> QED
    BY <1>7, <2>1, <2>2
<1> DEFINE z == [Zero EXCEPT ![0] = M]
<1>16. z \in Word /\ z[0] = M /\ \A i \in 0..(Limbs - 1) : i # 0 => z[i] = Zero[i]
  BY <1>1, <1>13, <1>15 DEF Zero, Word, Index
<1> HIDE DEF z
<1>17. Value(z) = M
  <2>1. \A i \in Index \ {0} : z[i] = 0
    BY <1>16 DEF Zero, Index
  <2> QED
    BY <1>16, <2>1, NarrowValue
<1>18. res.quot = f.quot /\ res.rem = z
  BY <1>10, <1>11, <1>14 DEF z
<1>19. Quotient(N, V, res)
  BY <1>9, <1>11, <1>13, <1>16, <1>17, <1>18 DEF Quotient
<1> QED
  BY <1>7, <1>19 DEF res, un, dn, s

\* y is x shifted to the right, t times as small.
ShiftsBack(x, y, n, t, e) ==
  \A i \in 0..(n - 1) : y[i] = x[i] \div t + (IF i = n - 1 THEN 0 ELSE ((x[i + 1] * e) % Limb))

\* The remainder, shifted back.
LEMMA ShiftedBack ==
  ASSUME NEW n \in Nat, NEW x, HasDigits(x, n, LimbBits), NEW s, NEW t, NEW e, Shift(s, t, e), NEW y,
         ShiftsBack(x, y, n, t, e), NEW M \in Nat, Number(x, n, LimbBits) = t * M
  PROVE  HasDigits(y, n, LimbBits) /\ Number(y, n, LimbBits) = M
<1> DEFINE w == LimbBits
           p == Padded(x, n, n + 1)
<1>1. w \in Nat /\ n + 1 \in Nat /\ n <= n + 1 /\ Limb \in Nat \ {0} /\ (n + 1) - 1 = n /\ n \in 0..n
  BY LimbFacts
<1>2. t \in Nat \ {0} /\ e \in Nat \ {0} /\ t * e = Limb
  BY DEF Shift
<1>3. HasDigits(p, n + 1, w)
  BY <1>1, PaddedDigits
<1>4. \A i \in 0..(n - 1) : p[i] = x[i]
  BY <1>1 DEF Padded
<1>5. p[n] = 0
  BY <1>1 DEF Padded
<1> HIDE DEF p
<1>6. PICK o \in Int : o = 0 /\ o * e = o /\ o % Limb = 0 /\ o % t = 0
  <2>1. PICK o \in Int : o = 0
    OBVIOUS
  <2>2. o % Limb = 0 /\ o % t = 0
    BY <1>1, <1>2, <2>1, DivSmall
  <2>3. o * e = o
    BY <1>2, <2>1
  <2> QED
    BY <2>1, <2>2, <2>3
<1>7. ASSUME NEW k \in 0..(n - 1) PROVE y[k] = p[k] \div t + ((p[k + 1] * e) % Limb)
  <2>1. CASE k = n - 1
    <3>1. k + 1 = n
      BY <2>1
    <3>2. (p[k + 1] * e) % Limb = 0
      BY <1>5, <1>6, <3>1
    <3> QED
      BY <1>4, <2>1, <3>2 DEF ShiftsBack
  <2>2. CASE k # n - 1
    <3>1. k + 1 \in 0..(n - 1)
      BY <2>2
    <3> QED
      BY <1>4, <2>2, <3>1 DEF ShiftsBack
  <2> QED
    BY <2>1, <2>2
<1>8. Downs(p, y, n, t, e)
  BY <1>3, <1>7 DEF Downs
<1>9. HasDigits(y, n, w) /\ Downed(p, y, n, t)
  BY <1>2, <1>8, ShiftDown
<1>10. PICK d \in 0..(t - 1) : Number(p, n, w) + (p[n] % t) * 2^(w * n) = t * Number(y, n, w) + d
  BY <1>9 DEF Downed
<1>11. Number(p, n, w) = t * M
  <2>1. SameDigits(x, p, n)
    <3>1. HasInts(x, n)
      BY <1>1, DigitsInts
    <3> QED
      BY <1>4, <3>1 DEF SameDigits
  <2> QED
    BY <1>1, <2>1, NumberAgain
<1>12. PICK Y \in Int, b \in Int :
        /\ Y = Number(y, n, w) /\ b = 2^(w * n)
  <2>1. Number(y, n, w) \in Int /\ (2^(w * n)) \in Int
    <3>1. HasInts(y, n)
      BY <1>1, <1>9, DigitsInts
    <3> QED
      BY <1>1, <3>1, NumberTyped, Weight
  <2> QED
    BY <2>1, Zenon
<1>13. t * M + 0 * b = t * Y + d
  BY <1>5, <1>6, <1>10, <1>11, <1>12
<1>14. 0 * b = 0 /\ t * M \in Int /\ t * Y \in Int
  BY <1>2
<1>15. d + (Y - M) * t = 0
  <2>1. (Y - M) * t = t * Y - t * M
    BY <1>2
  <2> QED
    BY <1>2, <1>13, <1>14, <2>1
<1>16. Y - M = 0
  <2>1. PICK o2 \in 0..(t - 1) : o2 = 0
    BY <1>2
  <2>2. PICK K \in Int : K = Y - M
    OBVIOUS
  <2>3. d + K * t = o2
    BY <1>15, <2>1, <2>2
  <2>4. K = 0
    BY <1>2, <2>3, OnlyLower
  <2> QED
    BY <2>2, <2>4
<1> QED
  BY <1>9, <1>12, <1>16

\* A division by several limbs.
LEMMA ByLimbsExact ==
  ASSUME NEW n \in 2..Limbs, NEW m \in n..(2 * Limbs), NEW u, HasDigits(u, m, LimbBits),
         NEW d, HasDigits(d, n, LimbBits), d[n - 1] # 0
  PROVE  LET s == LeadingZeros64(d[n - 1])
         IN  Quotient(Number(u, m, LimbBits), Number(d, n, LimbBits),
                      divideByLimbs(Normalized(u, m, s, 2 * Limbs + 1), m, Normalized(d, n, s, Limbs), n, s))
<1> DEFINE w == LimbBits
           T == 2 * Limbs
           s == LeadingZeros64(d[n - 1])
           un == Normalized(u, m, s, 2 * Limbs + 1)
           dn == Normalized(d, n, s, Limbs)
           f == limbsRounds(un, m, dn, n)[m - n + 1]
           res == divideByLimbs(un, m, dn, n, s)
<1>1. w \in Nat /\ T \in Nat /\ Limbs \in Nat /\ Limb \in Nat /\ Limb >= 2 /\ n \in 1..Limbs /\ m \in Nat /\ m \in 0..T /\ n \in Nat /\ Digits(w) = 0..(Limb - 1) /\ n - 1 \in Nat /\ (n - 1) + 1 = n /\ n <= Limbs
  BY LimbFacts
<1>2. Shift(s, 2^s, 2^(w - s)) /\ HasDigits(dn, n, w) /\ Limb <= 2 * dn[n - 1] /\ Number(dn, n, w) = Number(d, n, w) * 2^s
  BY <1>1, DivisorIs
<1> HIDE DEF s
<1>3. PICK t, e : t = 2^s /\ e = 2^(w - s) /\ Shift(s, t, e)
  BY <1>2
<1>4. t \in Nat \ {0}
  BY <1>3 DEF Shift
<1>5. un \in Longs /\ Number(un, m + 1, w) = Number(u, m, w) * t
  BY <1>1, <1>3, DividendIs
<1> HIDE DEF un, dn
<1>6. HasInts(d, n) /\ HasInts(u, m)
  BY <1>1, DigitsInts
<1>7. PICK V \in Int, N \in Int, b \in Nat \ {0}, h \in Nat \ {0}, g \in Nat \ {0} :
        /\ V = Number(d, n, w) /\ N = Number(u, m, w) /\ b = 2^(w * m) /\ h = 2^(w * (n - 1)) /\ g = 2^(w * (m - n + 1))
        /\ N < b /\ h <= V /\ h * g = b
  <2>1. Number(d, n, w) \in Int /\ Number(u, m, w) \in Int /\ (2^(w * m)) \in Nat \ {0} /\ (2^(w * (n - 1))) \in Nat \ {0} /\ (2^(w * (m - n + 1))) \in Nat \ {0} /\ Number(u, m, w) < (2^(w * m)) /\ (2^(w * (n - 1))) <= Number(d, n, w) /\ (2^(w * (n - 1))) * (2^(w * (m - n + 1))) = (2^(w * m))
    <3>1. Number(d, n, w) \in Int
      BY <1>1, <1>6, NumberTyped
    <3>2. Number(u, m, w) \in 0..(2^(w * m) - 1)
      BY <1>1, NumberBounds
    <3>3. m - n + 1 \in Nat /\ w * (n - 1) \in Nat /\ w * (m - n + 1) \in Nat /\ w * (n - 1) + w * (m - n + 1) = w * m
      <4>1. PICK k \in Nat : k = m - n + 1
        BY <1>1
      <4>2. PICK i \in Nat : i = n - 1 /\ i + k = m
        BY <1>1, <4>1
      <4>3. w * i \in Nat /\ w * k \in Nat /\ w * i + w * k = w * (i + k)
        BY <1>1
      <4> QED
        BY <4>1, <4>2, <4>3
    <3>4. 2^(w * m) \in Nat \ {0} /\ 2^(w * (n - 1)) \in Nat \ {0} /\ 2^(w * (m - n + 1)) \in Nat \ {0}
      <4>1. w * m \in Nat
        BY <1>1
      <4> QED
        BY <3>3, <4>1, PowerNat
    <3>5. 2^(w * (n - 1)) * 2^(w * (m - n + 1)) = 2^(w * m)
      <4>1. PICK i \in Nat, k \in Nat : i = w * (n - 1) /\ k = w * (m - n + 1) /\ i + k = w * m
        BY <3>3
      <4>2. 2^(i + k) = 2^i * 2^k
        BY PowerAdd
      <4> QED
        BY <4>1, <4>2
    <3>6. 2^(w * (n - 1)) <= Number(d, n, w)
      <4>1. PICK k \in Nat : k = n - 1 /\ k + 1 = n
        BY <1>1
      <4>2. HasDigits(d, k + 1, w)
        BY <4>1
      <4>3. d[k] \in 0..(Limb - 1) /\ d[k] # 0
        BY <1>1, <4>1 DEF HasDigits
      <4>4. PICK one \in Nat : one = 1 /\ one <= d[k]
        BY <1>1, <4>3
      <4>5. one * 2^(w * k) <= Number(d, k + 1, w)
        BY <4>2, <4>4, AtLeast
      <4>6. one * 2^(w * k) = 2^(w * k)
        <5>1. 2^(w * k) \in Int
          BY <3>4, <4>1
        <5> QED
          BY <4>4, <5>1
      <4> QED
        BY <4>1, <4>5, <4>6
    <3> QED
      BY <1>1, <3>1, <3>2, <3>4, <3>5, <3>6
  <2> QED
    BY <2>1, Zenon
<1>8. PICK D \in Int : D = Number(dn, n, w) /\ D = V * t
  <2>1. V * t \in Int
    BY <1>4
  <2> QED
    BY <1>2, <1>3, <1>7, <2>1
<1>9. Number(un, m + 1, w) < Number(dn, n, w) * 2^(w * (m - n + 1))
  <2>1. N * t < b * t
    <3>1. (N + 1) * t <= b * t /\ (N + 1) * t = N * t + t
      <4>1. N + 1 \in Int /\ N + 1 <= b
        BY <1>7
      <4> QED
        BY <1>4, <4>1, TimesLess
    <3>2. PICK A \in Int, B \in Int : A = N * t /\ B = b * t
      BY <1>4
    <3> QED
      BY <1>4, <3>1, <3>2
  <2>2. b * t = (h * t) * g
    <3>1. (h * t) * g = (h * g) * t
      BY <1>4
    <3> QED
      BY <1>7, <3>1
  <2>3. h * t <= V * t
    BY <1>4, <1>7, TimesLess
  <2>4. PICK A \in Int, B \in Int : A = h * t /\ B = V * t
    BY <1>4
  <2>5. A * g <= B * g
    BY <2>3, <2>4, TimesLess
  <2>6. PICK X \in Int, Y \in Int, Z \in Int : X = A * g /\ Y = B * g /\ Z = N * t
    BY <1>4
  <2>7. Z < Y
    BY <2>1, <2>2, <2>4, <2>5, <2>6
  <2> QED
    BY <1>5, <1>7, <1>8, <2>4, <2>6, <2>7
<1>10. /\ f.un \in Longs /\ f.quot \in Doubles
       /\ Number(f.quot, T, w) * Number(dn, n, w) + Number(f.un, n, w) = Number(un, m + 1, w)
       /\ Number(f.un, n, w) < Number(dn, n, w)
  BY <1>2, <1>5, <1>9, LimbsRoundsExact
<1> DEFINE Back(x, i) == x[i] \div 2^s + (IF i = n - 1 THEN 0 ELSE ((x[i + 1] * 2^(w - s)) % Limb))
<1>11. res = [quot |-> f.quot, rem |-> [i \in Index |-> IF i < n THEN Back(f.un, i) ELSE 0]]
  BY DEF divideByLimbs
<1> HIDE DEF f, res
<1>12. HasDigits(f.un, n, w)
  BY <1>1, <1>10 DEF HasDigits, Longs
<1>13. PICK Q \in Int, r \in Nat :
        /\ Q = Number(f.quot, T, w) /\ r = Number(f.un, n, w)
        /\ Q * (V * t) + r = N * t /\ r < V * t
  <2>1. Number(f.quot, T, w) \in Int /\ Number(f.un, n, w) \in Nat /\ Number(f.quot, T, w) * (V * t) + Number(f.un, n, w) = N * t /\ Number(f.un, n, w) < V * t
    <3>1. HasInts(f.quot, T)
      BY <1>1, <1>10, SMTT(30) DEF HasInts, Doubles
    <3>2. Number(f.quot, T, w) \in Int
      BY <1>1, <3>1, NumberTyped
    <3>3. Number(f.un, n, w) \in 0..(2^(w * n) - 1) /\ 2^(w * n) \in Nat
      BY <1>1, <1>12, NumberBounds, Weight
    <3> QED
      BY <1>5, <1>7, <1>8, <1>10, <3>2, <3>3
  <2> QED
    BY <2>1, Zenon
<1>14. r = t * (N - Q * V) /\ N - Q * V \in Nat /\ N - Q * V < V /\ Q * V + (N - Q * V) = N
  BY <1>4, <1>13, Descale
<1>15. PICK M \in Nat : M = N - Q * V /\ r = t * M /\ M < V /\ Q * V + M = N
  BY <1>14
<1> DEFINE y == [i \in 0..(n - 1) |-> Back(f.un, i)]
<1>16. ShiftsBack(f.un, y, n, t, e)
  BY <1>3 DEF ShiftsBack
<1>17. res.rem = Padded(y, n, Limbs) /\ res.quot = f.quot
  <2>1. res.quot = f.quot /\ res.rem = [i \in Index |-> IF i < n THEN Back(f.un, i) ELSE 0]
    BY <1>11
  <2> HIDE DEF Back
  <2>2. Padded(y, n, Limbs) = [i \in Index |-> IF i < n THEN Back(f.un, i) ELSE 0]
    <3>1. \A i \in Index : (i \in 0..(n - 1) <=> i < n) /\ (i < n => y[i] = Back(f.un, i))
      BY <1>1 DEF Index
    <3> HIDE DEF y
    <3> QED
      BY <3>1 DEF Padded, Index
  <2> QED
    BY <2>1, <2>2
<1> HIDE DEF y, Back
<1>18. HasDigits(y, n, w) /\ Number(y, n, w) = M
  <2>1. PICK x : x = f.un
    OBVIOUS
  <2>2. Number(x, n, w) = t * M /\ HasDigits(x, n, w) /\ ShiftsBack(x, y, n, t, e)
    BY <1>12, <1>13, <1>15, <1>16, <2>1
  <2> QED
    BY <1>1, <1>3, <2>2, ShiftedBack
<1>19. HasDigits(Padded(y, n, Limbs), Limbs, w) /\ Number(Padded(y, n, Limbs), Limbs, w) = M
  BY <1>1, <1>18, PaddedDigits
<1>20. Padded(y, n, Limbs) \in Word
  <2>1. Padded(y, n, Limbs) = [i \in Index |-> Padded(y, n, Limbs)[i]]
    BY DEF Padded, Index
  <2>2. \A i \in Index : Padded(y, n, Limbs)[i] \in 0..(Limb - 1)
    BY <1>1, <1>19 DEF HasDigits, Index
  <2> QED
    BY <2>1, <2>2, IsWord
<1>21. Quotient(N, V, res)
  BY <1>10, <1>13, <1>15, <1>17, <1>19, <1>20 DEF Quotient, Value
<1> QED
  BY <1>7, <1>21 DEF res, un, dn, s

-----------------------------------------------------------------------------
\* The quotient and the remainder of a number of twice as many limbs by a word.
LEMMA DivisionExact ==
  ASSUME NEW u \in Doubles, NEW d \in Word, Value(d) # 0
  PROVE  Quotient(Number(u, 2 * Limbs, LimbBits), Value(d), udivrem(u, d))
<1> DEFINE w == LimbBits
           T == 2 * Limbs
           m == Length(u, T)
           n == Length(d, Limbs)
           s == LeadingZeros64(d[n - 1])
           un == Normalized(u, m, s, T + 1)
           dn == Normalized(d, n, s, Limbs)
           res == udivrem(u, d)
<1>1. w \in Nat /\ T \in Nat /\ Limbs \in Nat /\ Limbs >= 2 /\ Limb \in Nat /\ Limb >= 2 /\ Digits(w) = 0..(Limb - 1)
  BY LimbFacts
<1>2. m \in 0..T /\ (m = 0 \/ u[m - 1] # 0) /\ \A i \in m..(T - 1) : u[i] = 0
  BY <1>1, LengthOf
<1>3. n \in 0..Limbs /\ (n = 0 \/ d[n - 1] # 0) /\ \A i \in n..(Limbs - 1) : d[i] = 0
  BY <1>1, LengthOf
<1>4. res = IF n = 0 \/ m = 0 THEN [quot |-> Zeros, rem |-> Zero]
            ELSE IF m < n THEN [quot |-> Zeros, rem |-> Low(u)]
            ELSE IF n = 1 THEN divideByLimb(un, m, dn[0], s) ELSE divideByLimbs(un, m, dn, n, s)
  BY DEF udivrem
<1> HIDE DEF m, n, res
<1>5. HasDigits(u, T, w)
  BY <1>1 DEF Doubles, HasDigits
<1>6. HasDigits(d, Limbs, w)
  BY WordDigits
<1>7. HasDigits(u, m, w) /\ Number(u, T, w) = Number(u, m, w)
  <2>1. m \in Nat /\ m <= T
    BY <1>1, <1>2
  <2> QED
    BY <1>1, <1>2, <1>5, <2>1, Shortened
<1>8. HasDigits(d, n, w) /\ Value(d) = Number(d, n, w)
  <2>1. n \in Nat /\ n <= Limbs
    BY <1>1, <1>3
  <2>2. HasDigits(d, n, w) /\ Number(d, Limbs, w) = Number(d, n, w)
    BY <1>1, <1>3, <1>6, <2>1, Shortened
  <2> QED
    BY <2>2 DEF Value
<1>9. n # 0
  <2>1. ASSUME n = 0 PROVE FALSE
    <3>1. Number(d, 0, w) = 0
      BY <1>1, NumberZero
    <3> QED
      BY <1>8, <2>1, <3>1
  <2> QED
    BY <2>1
<1>10. n \in 1..Limbs /\ d[n - 1] # 0 /\ n \in Nat /\ m \in Nat
  BY <1>1, <1>2, <1>3, <1>9
<1>11. Value(d) \in Nat
  BY WordDigits, LimbFacts
<1>12. Zeros \in Doubles /\ Number(Zeros, T, w) = 0
  <2>1. Zeros \in Doubles /\ \A i \in 0..(T - 1) : Zeros[i] = 0
    BY <1>1 DEF Zeros, Doubles
  <2> QED
    BY <1>1, <2>1, NumberZeros
<1>13. ASSUME NEW z \in Word, res = [quot |-> Zeros, rem |-> z], Value(z) = Number(u, T, w), Value(z) < Value(d)
       PROVE  Quotient(Number(u, T, w), Value(d), res)
  <2>1. PICK V \in Int, N \in Int : V = Value(d) /\ N = Value(z)
    BY <1>1, <1>11, <1>13, WordDigits, LimbFacts
  <2>2. 0 * V + N = N
    OBVIOUS
  <2>3. res.quot = Zeros /\ res.rem = z
    BY <1>13
  <2> QED
    BY <1>12, <1>13, <2>1, <2>2, <2>3 DEF Quotient
<1>14. CASE m = 0
  <2>1. res = [quot |-> Zeros, rem |-> Zero]
    BY <1>4, <1>14
  <2>2. Number(u, m, w) = 0
    BY <1>1, <1>14, NumberZero
  <2>3. Zero \in Word /\ Value(Zero) = 0
    BY ZeroValue
  <2>4. Value(Zero) < Value(d) /\ Value(Zero) = Number(u, T, w)
    BY <1>7, <1>11, <2>2, <2>3
  <2> QED
    BY <1>13, <2>1, <2>3, <2>4 DEF res
<1>15. CASE m # 0 /\ m < n
  <2>1. res = [quot |-> Zeros, rem |-> Low(u)]
    BY <1>4, <1>9, <1>15
  <2>2. PICK N \in Nat, V \in Int, M \in Nat \ {0}, b \in Nat \ {0}, h \in Nat \ {0} :
          /\ N = Number(u, T, w) /\ V = Value(d) /\ M = Modulus /\ b = 2^(w * m) /\ h = 2^(w * (n - 1))
          /\ N < b /\ b <= h /\ h <= V /\ V < M
    <3>1. Number(u, T, w) \in Nat /\ Value(d) \in Int /\ Modulus \in Nat \ {0} /\ (2^(w * m)) \in Nat \ {0} /\ (2^(w * (n - 1))) \in Nat \ {0} /\ Number(u, T, w) < (2^(w * m)) /\ (2^(w * m)) <= (2^(w * (n - 1))) /\ (2^(w * (n - 1))) <= Value(d) /\ Value(d) < Modulus
      <4>1. n - 1 \in Nat /\ m <= n - 1
        BY <1>10, <1>15
      <4>2. w * m \in Nat /\ w * (n - 1) \in Nat /\ w * m <= w * (n - 1)
        <5>1. PICK i \in Nat : i = n - 1 /\ m <= i
          BY <4>1
        <5>2. m \in Int /\ i \in Int
          BY <1>10
        <5>3. w * m <= w * i
          BY <1>1, <5>1, <5>2, TimesLess
        <5> QED
          BY <1>1, <1>10, <5>1, <5>3
      <4>3. 2^(w * m) \in Nat \ {0} /\ 2^(w * (n - 1)) \in Nat \ {0} /\ 2^(w * m) <= 2^(w * (n - 1))
        BY <4>2, PowerNat, PowerGrows
      <4>4. Number(u, m, w) \in 0..(2^(w * m) - 1)
        BY <1>1, <1>7, <1>10, NumberBounds
      <4>5. 2^(w * (n - 1)) <= Value(d)
        <5>1. PICK k \in Nat : k = n - 1 /\ k + 1 = n
          BY <1>10
        <5>2. HasDigits(d, k + 1, w)
          BY <1>8, <5>1
        <5>3. d[k] \in 0..(Limb - 1) /\ d[k] # 0
          BY <1>1, <1>8, <1>10, <5>1 DEF HasDigits
        <5>4. PICK one \in Nat : one = 1 /\ one <= d[k]
          BY <1>1, <5>3
        <5>5. one * 2^(w * k) <= Number(d, k + 1, w)
          BY <5>2, <5>4, AtLeast
        <5>6. one * 2^(w * k) = 2^(w * k)
          <6>1. 2^(w * k) \in Int
            BY <4>3, <5>1
          <6> QED
            BY <5>4, <6>1
        <5> QED
          BY <1>8, <5>1, <5>5, <5>6
      <4>6. Value(d) \in 0..(Modulus - 1) /\ Modulus \in Nat \ {0}
        BY WordDigits, LimbFacts
      <4> QED
        BY <1>7, <4>3, <4>4, <4>5, <4>6
    <3> QED
      BY <3>1, Zenon
  <2>3. Low(u) \in Word /\ Value(Low(u)) = Number(u, T, w) % Modulus
    BY LowValue
  <2>4. N % M = N
    <3>1. N \in Int /\ 0 <= N /\ N < M
      BY <2>2
    <3> QED
      BY <3>1, DivSmall
  <2>5. Value(Low(u)) = Number(u, T, w) /\ Value(Low(u)) < Value(d)
    BY <2>2, <2>3, <2>4
  <2> QED
    BY <1>13, <2>1, <2>3, <2>5 DEF res
<1>16. CASE m # 0 /\ ~(m < n)
  <2>1. res = IF n = 1 THEN divideByLimb(un, m, dn[0], s) ELSE divideByLimbs(un, m, dn, n, s)
    BY <1>4, <1>9, <1>16
  <2>2. CASE n = 1
    <3>1. HasDigits(d, 1, w) /\ d[0] # 0 /\ n - 1 = 0
      BY <1>8, <1>10, <2>2
    <3>2. Quotient(Number(u, m, w), Number(d, 1, w), divideByLimb(Normalized(u, m, LeadingZeros64(d[0]), T + 1), m, Normalized(d, 1, LeadingZeros64(d[0]), Limbs)[0], LeadingZeros64(d[0])))
      BY <1>2, <1>7, <3>1, ByLimbExact
    <3> QED
      BY <1>7, <1>8, <2>1, <2>2, <3>1, <3>2 DEF res
  <2>3. CASE n # 1
    <3>1. n \in 2..Limbs /\ m \in n..T
      BY <1>1, <1>2, <1>10, <1>16, <2>3
    <3>2. Quotient(Number(u, m, w), Number(d, n, w), divideByLimbs(un, m, dn, n, s))
      BY <1>7, <1>8, <1>10, <3>1, ByLimbsExact
    <3> QED
      BY <1>7, <1>8, <2>1, <2>3, <3>2 DEF res
  <2> QED
    BY <2>2, <2>3
<1> QED
  BY <1>14, <1>15, <1>16 DEF res

-----------------------------------------------------------------------------
\* What a quotient and a remainder are on numbers.
LEMMA QuotientIs ==
  ASSUME NEW N \in Nat, NEW V \in Nat \ {0}, NEW res, Quotient(N, V, res)
  PROVE  /\ Number(res.quot, 2 * Limbs, LimbBits) = N \div V /\ res.quot \in Doubles
         /\ Value(res.rem) = N % V /\ res.rem \in Word
<1>1. /\ res.quot \in Doubles /\ res.rem \in Word
      /\ Number(res.quot, 2 * Limbs, LimbBits) * V + Value(res.rem) = N
      /\ Value(res.rem) < V
  BY Zenon DEF Quotient
<1>2. Value(res.rem) \in Nat
  BY <1>1, WordDigits, LimbFacts
<1>3. Number(res.quot, 2 * Limbs, LimbBits) \in Nat
  BY <1>1, LowValue
<1>4. PICK q \in Int, r \in Int : q = Number(res.quot, 2 * Limbs, LimbBits) /\ r = Value(res.rem) /\ 0 <= r /\ r < V /\ q * V + r = N
  BY <1>1, <1>2, <1>3
<1>5. q * V = V * q
  OBVIOUS
<1>6. Division(N, V, q, r)
  BY <1>4, <1>5 DEF Division
<1>7. N \div V = q /\ N % V = r
  BY <1>6, Divides
<1> QED
  BY <1>1, <1>4, <1>7

\* A word among 2 * Limbs limbs is the same number.
LEMMA WideValue ==
  ASSUME NEW a \in Word
  PROVE  Wide(a) \in Doubles /\ Number(Wide(a), 2 * Limbs, LimbBits) = Value(a)
<1>1. Limbs \in Nat /\ Limbs >= 2 /\ 2 * Limbs \in Nat /\ Limbs <= 2 * Limbs /\ LimbBits \in Nat /\ Limb \in Nat /\ Limb >= 2
  BY LimbFacts
<1>2. HasDigits(a, Limbs, LimbBits) /\ \A i \in Index : a[i] \in 0..(Limb - 1)
  BY WordDigits
<1>3. Wide(a) = Padded(a, Limbs, 2 * Limbs)
  <2>1. \A k \in 0..(2 * Limbs - 1) : k < Limbs <=> k \in 0..(Limbs - 1)
    BY <1>1
  <2> QED
    BY <2>1 DEF Wide, Padded
<1>4. Wide(a) \in Doubles
  <2>1. \A k \in 0..(2 * Limbs - 1) : (IF k < Limbs THEN a[k] ELSE 0) \in 0..(Limb - 1)
    BY <1>1, <1>2 DEF Index
  <2> QED
    BY <2>1 DEF Wide, Doubles
<1>5. PICK n \in Nat : n = 2 * Limbs /\ Limbs <= n
  BY <1>1
<1>6. Number(Padded(a, Limbs, n), n, LimbBits) = Number(a, Limbs, LimbBits)
  BY <1>1, <1>2, <1>5, PaddedDigits
<1> QED
  BY <1>3, <1>4, <1>5, <1>6 DEF Value

\* What divmod256 leaves.
LEMMA DivModExact ==
  ASSUME NEW a \in Word, NEW d \in Word, Value(d) # 0
  PROVE  /\ divmod256(a, d).quot \in Word /\ Value(divmod256(a, d).quot) = Value(a) \div Value(d)
         /\ divmod256(a, d).rem \in Word /\ Value(divmod256(a, d).rem) = Value(a) % Value(d)
<1>1. Wide(a) \in Doubles /\ Number(Wide(a), 2 * Limbs, LimbBits) = Value(a)
  BY WideValue
<1>2. Quotient(Value(a), Value(d), udivrem(Wide(a), d))
  BY <1>1, DivisionExact
<1>3. Value(a) \in Nat /\ Value(d) \in Nat \ {0} /\ Value(a) < Modulus /\ Modulus \in Nat \ {0}
  BY WordDigits, LimbFacts
<1>4. PICK res : res = udivrem(Wide(a), d)
  OBVIOUS
<1>5. /\ Number(res.quot, 2 * Limbs, LimbBits) = Value(a) \div Value(d) /\ res.quot \in Doubles
      /\ Value(res.rem) = Value(a) % Value(d) /\ res.rem \in Word
  BY <1>2, <1>3, <1>4, QuotientIs
<1>6. Low(res.quot) \in Word /\ Value(Low(res.quot)) = (Value(a) \div Value(d)) % Modulus
  BY <1>5, LowValue
<1>7. (Value(a) \div Value(d)) % Modulus = Value(a) \div Value(d)
  <2>1. PICK A \in Nat, D \in Nat \ {0}, M \in Nat \ {0} : A = Value(a) /\ D = Value(d) /\ M = Modulus /\ A < M
    BY <1>3
  <2>2. PICK q \in Int, r \in Int : q = A \div D /\ r = A % D /\ A = D * q + r /\ 0 <= r /\ r < D
    <3>1. A \in Int
      OBVIOUS
    <3> QED
      BY <3>1, DivPick, Zenon
  <2>3. 0 <= q /\ q <= A
    BY <2>2
  <2>4. q \in Int /\ 0 <= q /\ q < M
    BY <2>1, <2>3
  <2>5. q % M = q
    BY <2>4, DivSmall
  <2> QED
    BY <2>1, <2>2, <2>5
<1>8. divmod256(a, d) = [quot |-> Low(res.quot), rem |-> res.rem]
  BY <1>4 DEF divmod256
<1> QED
  BY <1>5, <1>6, <1>7, <1>8

\* DIV and MOD.
THEOREM DivExact ==
  ASSUME NEW a \in Word, NEW b \in Word
  PROVE  /\ Div256(a, b) \in Word
         /\ Value(Div256(a, b)) = IF Value(b) = 0 THEN 0 ELSE Value(a) \div Value(b)
         /\ Mod256(a, b) \in Word
         /\ Value(Mod256(a, b)) = IF Value(b) = 0 THEN 0 ELSE Value(a) % Value(b)
<1>1. IsZero(b) <=> Value(b) = 0
  BY ZeroValue
<1>2. Zero \in Word /\ Value(Zero) = 0
  BY ZeroValue
<1>3. CASE Value(b) = 0
  BY <1>1, <1>2, <1>3 DEF Div256, Mod256
<1>4. CASE Value(b) # 0
  BY <1>1, <1>4, DivModExact DEF Div256, Mod256
<1> QED
  BY <1>3, <1>4

\* The absolute value and the sign of a word read as a signed number.
LEMMA AbsExact ==
  ASSUME NEW x \in Word
  PROVE  /\ abs256(x) \in Word /\ Value(abs256(x)) = Abs(Signed(Value(x)))
         /\ Sign(Signed(Value(x))) = IF isNeg(x) THEN -1 ELSE 1
         /\ Value(abs256(x)) = 0 <=> Value(x) = 0
<1>1. isNeg(x) <=> Value(x) >= Modulus \div 2
  BY NegativeExact
<1>2. neg256(x) \in Word /\ Value(neg256(x)) = (-Value(x)) % Modulus
  BY NegExact
<1>3. PICK V \in Nat, M \in Nat \ {0}, h \in Nat \ {0} :
        /\ V = Value(x) /\ M = Modulus /\ h = Modulus \div 2
        /\ V < M /\ M = 2 * h
  <2>1. Value(x) \in Nat /\ Modulus \in Nat \ {0} /\ (Modulus \div 2) \in Nat \ {0} /\ Value(x) < Modulus /\ Modulus = 2 * (Modulus \div 2)
      BY WordDigits, LimbFacts, NegativeExact
  <2> QED
    BY <2>1, Zenon
<1>4. CASE isNeg(x)
  <2>1. V >= h
    BY <1>1, <1>3, <1>4
  <2>2. Signed(Value(x)) = V - M /\ Abs(V - M) = M - V /\ Sign(V - M) = -1
    BY <1>3, <2>1 DEF Signed, Abs, Sign
  <2>3. (-V) % M = M - V
    <3>1. PICK q \in Int, r \in Int, y \in Int : q = -1 /\ r = M - V /\ y = -V
      OBVIOUS
    <3>2. Division(y, M, q, r)
      BY <1>3, <2>1, <3>1 DEF Division
    <3>3. y % M = r
      BY <3>2, Divides
    <3> QED
      BY <3>1, <3>3
  <2>4. abs256(x) = neg256(x)
    BY <1>4 DEF abs256
  <2>5. Value(abs256(x)) = M - V
    BY <1>2, <1>3, <2>3, <2>4
  <2>6. Value(abs256(x)) = 0 <=> Value(x) = 0
    BY <1>3, <2>1, <2>5
  <2> QED
    BY <1>2, <1>4, <2>2, <2>4, <2>5, <2>6
<1>5. CASE ~isNeg(x)
  <2>1. V < h
    BY <1>1, <1>3, <1>5
  <2>2. Signed(Value(x)) = V /\ Abs(V) = V /\ Sign(V) = 1
    BY <1>3, <2>1 DEF Signed, Abs, Sign
  <2>3. abs256(x) = x
    BY <1>5 DEF abs256
  <2> QED
    BY <1>3, <1>5, <2>2, <2>3
<1> QED
  BY <1>4, <1>5

\* A word, and its negative.
LEMMA Negated ==
  ASSUME NEW q \in Word
  PROVE  (1 * Value(q)) % Modulus = Value(q) /\ ((-1) * Value(q)) % Modulus = Value(neg256(q)) /\ neg256(q) \in Word
<1>1. neg256(q) \in Word /\ Value(neg256(q)) = (-Value(q)) % Modulus
  BY NegExact
<1>2. PICK V \in Nat, M \in Nat \ {0} :
        /\ V = Value(q) /\ M = Modulus
        /\ V < M
  <2>1. Value(q) \in Nat /\ Modulus \in Nat \ {0} /\ Value(q) < Modulus
      BY WordDigits, LimbFacts
  <2> QED
    BY <2>1, Zenon
<1>3. V % M = V
  <2>1. V \in Int /\ 0 <= V /\ V < M
    BY <1>2
  <2> QED
    BY <2>1, DivSmall
<1>4. 1 * V = V /\ (-1) * V = -V
  OBVIOUS
<1> QED
  BY <1>1, <1>2, <1>3, <1>4

\* SDIV and SMOD: the quotient is rounded to zero, and the remainder has the sign of the
\* dividend.
THEOREM SignedDivExact ==
  ASSUME NEW a \in Word, NEW b \in Word
  PROVE  /\ SDiv256(a, b) \in Word
         /\ Value(SDiv256(a, b)) =
              IF Value(b) = 0 THEN 0
              ELSE (Sign(Signed(Value(a))) * Sign(Signed(Value(b)))
                      * (Abs(Signed(Value(a))) \div Abs(Signed(Value(b))))) % Modulus
         /\ SMod256(a, b) \in Word
         /\ Value(SMod256(a, b)) =
              IF Value(b) = 0 THEN 0
              ELSE (Sign(Signed(Value(a))) * (Abs(Signed(Value(a))) % Abs(Signed(Value(b))))) % Modulus
<1>1. IsZero(b) <=> Value(b) = 0
  BY ZeroValue
<1>2. Zero \in Word /\ Value(Zero) = 0
  BY ZeroValue
<1>3. CASE Value(b) = 0
  BY <1>1, <1>2, <1>3 DEF SDiv256, SMod256
<1>4. CASE Value(b) # 0
  <2>1. /\ abs256(a) \in Word /\ Value(abs256(a)) = Abs(Signed(Value(a)))
        /\ Sign(Signed(Value(a))) = IF isNeg(a) THEN -1 ELSE 1
    BY AbsExact
  <2>2. /\ abs256(b) \in Word /\ Value(abs256(b)) = Abs(Signed(Value(b)))
        /\ Sign(Signed(Value(b))) = IF isNeg(b) THEN -1 ELSE 1
        /\ Value(abs256(b)) # 0
    BY <1>4, AbsExact
  <2>3. PICK q \in Word, r \in Word :
          /\ q = divmod256(abs256(a), abs256(b)).quot /\ Value(q) = Abs(Signed(Value(a))) \div Abs(Signed(Value(b)))
          /\ r = divmod256(abs256(a), abs256(b)).rem /\ Value(r) = Abs(Signed(Value(a))) % Abs(Signed(Value(b)))
    <3>1. LET q == divmod256(abs256(a), abs256(b)).quot
              r == divmod256(abs256(a), abs256(b)).rem
          IN  /\ q \in Word /\ Value(q) = Abs(Signed(Value(a))) \div Abs(Signed(Value(b)))
              /\ r \in Word /\ Value(r) = Abs(Signed(Value(a))) % Abs(Signed(Value(b)))
      BY <2>1, <2>2, DivModExact
    <3> QED
      BY <3>1, Zenon
  <2>4. ~IsZero(b)
    BY <1>1, <1>4
  <2>5. SDiv256(a, b) = (IF isNeg(a) # isNeg(b) THEN neg256(q) ELSE q) /\ SMod256(a, b) = (IF isNeg(a) THEN neg256(r) ELSE r)
    BY <2>3, <2>4 DEF SDiv256, SMod256
  <2>6. /\ (1 * Value(q)) % Modulus = Value(q) /\ ((-1) * Value(q)) % Modulus = Value(neg256(q)) /\ neg256(q) \in Word
        /\ (1 * Value(r)) % Modulus = Value(r) /\ ((-1) * Value(r)) % Modulus = Value(neg256(r)) /\ neg256(r) \in Word
    BY Negated
  <2>7. Value(q) \in Int
    BY WordDigits, LimbFacts
  <2>8. /\ 1 * 1 * Value(q) = 1 * Value(q) /\ (-1) * 1 * Value(q) = (-1) * Value(q)
        /\ 1 * (-1) * Value(q) = (-1) * Value(q) /\ (-1) * (-1) * Value(q) = 1 * Value(q)
    BY <2>7
  <2>9. isNeg(a) \in BOOLEAN /\ isNeg(b) \in BOOLEAN
    BY DEF isNeg
  <2>10. Value(SDiv256(a, b)) = (Sign(Signed(Value(a))) * Sign(Signed(Value(b))) * Value(q)) % Modulus /\ SDiv256(a, b) \in Word
    <3>1. CASE isNeg(a) /\ isNeg(b)
      BY <2>1, <2>2, <2>5, <2>6, <2>8, <3>1
    <3>2. CASE isNeg(a) /\ ~isNeg(b)
      BY <2>1, <2>2, <2>5, <2>6, <2>8, <3>2
    <3>3. CASE ~isNeg(a) /\ isNeg(b)
      BY <2>1, <2>2, <2>5, <2>6, <2>8, <3>3
    <3>4. CASE ~isNeg(a) /\ ~isNeg(b)
      <4>1. Sign(Signed(Value(a))) = 1 /\ Sign(Signed(Value(b))) = 1 /\ SDiv256(a, b) = q
        <5>1. isNeg(a) = FALSE /\ isNeg(b) = FALSE
          BY <2>9, <3>4
        <5> QED
          BY <2>1, <2>2, <2>5, <5>1
      <4>2. Value(q) = (1 * 1 * Value(q)) % Modulus
        BY <2>6, <2>8
      <4> QED
        BY <4>1, <4>2, Zenon
    <3> QED
      BY <3>1, <3>2, <3>3, <3>4
  <2>11. Value(SMod256(a, b)) = (Sign(Signed(Value(a))) * Value(r)) % Modulus /\ SMod256(a, b) \in Word
    <3>1. CASE isNeg(a)
      <4>1. Sign(Signed(Value(a))) = -1 /\ SMod256(a, b) = neg256(r)
        BY <2>1, <2>5, <3>1
      <4>2. Value(neg256(r)) = ((-1) * Value(r)) % Modulus /\ neg256(r) \in Word
        BY <2>6
      <4> QED
        BY <4>1, <4>2
    <3>2. CASE ~isNeg(a)
      <4>1. Sign(Signed(Value(a))) = 1 /\ SMod256(a, b) = r
        BY <2>1, <2>5, <3>2
      <4>2. Value(r) = (1 * Value(r)) % Modulus /\ r \in Word
        BY <2>6
      <4> QED
        BY <4>1, <4>2, Zenon
    <3> QED
      BY <3>1, <3>2
  <2> QED
    BY <1>4, <2>3, <2>10, <2>11
<1> QED
  BY <1>3, <1>4

\* ADDMOD and MULMOD: the sum and the product are not reduced before the division.
THEOREM ModularExact ==
  ASSUME NEW a \in Word, NEW b \in Word, NEW m \in Word
  PROVE  /\ AddMod256(a, b, m) \in Word
         /\ Value(AddMod256(a, b, m)) = IF Value(m) = 0 THEN 0 ELSE (Value(a) + Value(b)) % Value(m)
         /\ MulMod256(a, b, m) \in Word
         /\ Value(MulMod256(a, b, m)) = IF Value(m) = 0 THEN 0 ELSE (Value(a) * Value(b)) % Value(m)
<1>1. IsZero(m) <=> Value(m) = 0
  BY ZeroValue
<1>2. Zero \in Word /\ Value(Zero) = 0
  BY ZeroValue
<1>3. CASE Value(m) = 0
  BY <1>1, <1>2, <1>3 DEF AddMod256, MulMod256
<1>4. CASE Value(m) # 0
  <2>1. Value(a) \in Nat /\ Value(b) \in Nat /\ Value(m) \in Nat \ {0} /\ Modulus \in Nat \ {0}
    BY <1>4, WordDigits, LimbFacts
  <2>2. ASSUME NEW u \in Doubles, NEW N \in Nat, N = Number(u, 2 * Limbs, LimbBits)
        PROVE  udivrem(u, m).rem \in Word /\ Value(udivrem(u, m).rem) = N % Value(m)
    <3>1. PICK res : res = udivrem(u, m)
      OBVIOUS
    <3>2. Quotient(N, Value(m), res)
      BY <1>4, <2>2, <3>1, DivisionExact
    <3> QED
      BY <2>1, <3>1, <3>2, QuotientIs
  <2>3. PICK both : both = addCarry(a, b)
    OBVIOUS
  <2>4. both.sum \in Word /\ both.carry \in 0..1 /\ Value(both.sum) + both.carry * Modulus = Value(a) + Value(b)
    BY <2>3, AddCarryExact
  <2>5. PICK s \in Word, c \in 0..1 : s = both.sum /\ c = both.carry
    BY <2>4
  <2>6. Limbs \in Nat /\ Limbs >= 2 /\ 2 * Limbs \in Nat /\ LimbBits \in Nat /\ Limb \in Nat /\ Limb >= 2 /\ Modulus = 2^(LimbBits * Limbs)
    BY LimbFacts
  <2>7. PICK x \in Doubles : x = Wide(s) /\ Number(x, 2 * Limbs, LimbBits) = Value(s) /\ x[Limbs] = 0
    <3>1. Wide(s) \in Doubles /\ Number(Wide(s), 2 * Limbs, LimbBits) = Value(s)
      BY WideValue
    <3>2. Limbs \in 0..(2 * Limbs - 1) /\ ~(Limbs < Limbs)
      BY <2>6
    <3>3. Wide(s)[Limbs] = 0
      BY <3>2 DEF Wide
    <3> QED
      BY <3>1, <3>3
  <2>8. PICK y : y = [x EXCEPT ![Limbs] = c]
    OBVIOUS
  <2>9. y \in Doubles
    BY <2>6, <2>8 DEF Doubles
  <2>10. PICK n \in Nat : n = 2 * Limbs
    BY <2>6
  <2>11. Changed(x, y, n, Limbs, c)
    BY <2>6, <2>8, <2>10 DEF Changed, HasInts, Doubles
  <2>12. Number(y, n, LimbBits) = Number(x, n, LimbBits) + (c - x[Limbs]) * 2^(LimbBits * Limbs)
    BY <2>6, <2>11, NumberChanged
  <2>13. Number(y, 2 * Limbs, LimbBits) = Value(a) + Value(b)
    <3>1. c - x[Limbs] = c
      BY <2>7
    <3> QED
      BY <2>4, <2>5, <2>6, <2>7, <2>10, <2>12, <3>1
  <2>14. AddMod256(a, b, m) = udivrem(y, m).rem
    BY <1>1, <1>4, <2>3, <2>5, <2>7, <2>8 DEF AddMod256
  <2>15. PICK N \in Nat : N = Value(a) + Value(b)
    BY <2>1
  <2>16. AddMod256(a, b, m) \in Word /\ Value(AddMod256(a, b, m)) = (Value(a) + Value(b)) % Value(m)
    BY <2>2, <2>9, <2>13, <2>14, <2>15
  <2>17. MulMod256(a, b, m) = udivrem(mul512(a, b), m).rem
    BY <1>1, <1>4 DEF MulMod256
  <2>18. PICK P \in Nat : P = Value(a) * Value(b)
    BY <2>1
  <2>19. PICK p \in Doubles : p = mul512(a, b) /\ Number(p, 2 * Limbs, LimbBits) = P
    BY <2>18, Mul512Exact
  <2>20. MulMod256(a, b, m) \in Word /\ Value(MulMod256(a, b, m)) = (Value(a) * Value(b)) % Value(m)
    BY <2>2, <2>17, <2>18, <2>19
  <2> QED
    BY <1>4, <2>16, <2>20
<1> QED
  BY <1>3, <1>4
=============================================================================
