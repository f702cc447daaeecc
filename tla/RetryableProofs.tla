--------------------------- MODULE RetryableProofs ---------------------------
(***************************************************************************)
(* For every width of a limb and every set of submissions and redemptions: *)
(* the checked operations of a quote are exact or fail, so that a ticket's *)
(* deposit covers its cost in unbounded integers, and every submission     *)
(* produces at most one transaction.                                       *)
(***************************************************************************)
EXTENDS Retryable, TLAPS

-----------------------------------------------------------------------------
\* A quotient and its remainder.
LEMMA DivMod ==
  ASSUME NEW a \in Nat, NEW d \in Nat \ {0}
  PROVE  /\ a \div d \in Nat /\ a % d \in 0..(d - 1)
         /\ a = d * (a \div d) + (a % d)
OBVIOUS

\* There is no other.
LEMMA DivUnique ==
  ASSUME NEW d \in Nat \ {0}, NEW q \in Nat, NEW r \in 0..(d - 1),
         NEW p \in Nat, NEW s \in 0..(d - 1), d * q + r = d * p + s
  PROVE  q = p
<1>1. ASSUME NEW x \in Nat, NEW y \in Nat, x < y PROVE d * x + d <= d * y
  <2>1. PICK z \in Nat : y = x + 1 + z
    <3>1. y - x - 1 \in Nat /\ y = x + 1 + (y - x - 1)
      BY <1>1
    <3> QED
      BY <3>1
  <2>2. d * y = d * x + d + d * z /\ d * z \in Nat
    BY <2>1
  <2> QED
    BY <2>2
<1>2. d * q \in Nat /\ d * p \in Nat
  OBVIOUS
<1>3. ~(q < p)
  <2>1. q < p => d * q + d <= d * p
    BY <1>1
  <2> QED
    BY <1>2, <2>1
<1>4. ~(p < q)
  <2>1. p < q => d * p + d <= d * q
    BY <1>1
  <2> QED
    BY <1>2, <2>1
<1> QED
  BY <1>3, <1>4

\* Dividing twice.
LEMMA DivDiv ==
  ASSUME NEW a \in Nat, NEW d \in Nat \ {0}, NEW e \in Nat \ {0}
  PROVE  a \div (d * e) = (a \div d) \div e
<1> DEFINE u == a \div d
           v == a % d
           w == u \div e
           z == u % e
<1>1. u \in Nat /\ v \in 0..(d - 1) /\ a = d * u + v
  BY DivMod
<1> HIDE DEF u, v
<1>2. w \in Nat /\ z \in 0..(e - 1) /\ u = e * w + z
  BY <1>1, DivMod
<1> HIDE DEF w, z
<1>3. d * e \in Nat \ {0}
  OBVIOUS
<1>4. a = (d * e) * w + (d * z + v)
  BY <1>1, <1>2
<1>5. d * z + v \in 0..(d * e - 1)
  <2>1. d * (e - 1 - z) \in Nat
    BY <1>2
  <2>2. d * (e - 1 - z) = d * e - d - d * z
    BY <1>2
  <2>3. d * z \in Nat /\ d * e \in Nat
    BY <1>2
  <2> QED
    BY <1>1, <2>1, <2>2, <2>3
<1>6. /\ a \div (d * e) \in Nat /\ a % (d * e) \in 0..(d * e - 1)
      /\ a = (d * e) * (a \div (d * e)) + (a % (d * e))
  BY <1>3, DivMod
<1>7. a \div (d * e) = w
  <2> DEFINE m == d * e
             q == a \div m
             r == a % m
             s == d * z + v
  <2>1. m \in Nat \ {0} /\ q \in Nat /\ r \in 0..(m - 1) /\ s \in 0..(m - 1) /\ m * q + r = m * w + s
    BY <1>3, <1>4, <1>5, <1>6
  <2> HIDE DEF m, q, r, s
  <2>2. q = w
    BY <1>2, <2>1, DivUnique
  <2> QED
    BY <2>2 DEF q, m
<1> QED
  BY <1>7 DEF u, w

\* Any sum of two words is a word, or wraps once.
LEMMA ModOnce ==
  ASSUME NEW d \in Nat \ {0}, NEW a \in Nat, a < d + d
  PROVE  a % d = IF a < d THEN a ELSE a - d
OBVIOUS

\* The constants of a word.
LEMMA Widths ==
  /\ B \in Nat \ {0, 1} /\ B * B \in Nat \ {0} /\ B * B * B \in Nat \ {0} /\ Word \in Nat \ {0}
  /\ Word = B * (B * B * B)
<1>1. B \in Nat \ {0, 1}
  BY RetryableAssumption
<1>2. B * B \in Nat \ {0}
  BY <1>1
<1> DEFINE B2 == B * B
<1>3. B2 * B \in Nat \ {0}
  <2> HIDE DEF B2
  <2> QED
    BY <1>1, <1>2 DEF B2
<1> DEFINE B3 == B * B * B
<1>4. B3 \in Nat \ {0}
  BY <1>3
<1> HIDE DEF B3
<1>5. B3 * B \in Nat \ {0} /\ B3 * B = B * B3
  BY <1>1, <1>4
<1> QED
  BY <1>1, <1>2, <1>4, <1>5 DEF Word, B3

\* A word is the sum of its limbs.
LEMMA LimbsOfWord ==
  ASSUME NEW x \in Words
  PROVE  /\ \A i \in 1..4 : Limb(x, i) \in Gas
         /\ x = Limb(x, 1) + B * Limb(x, 2) + B * B * Limb(x, 3) + B * B * B * Limb(x, 4)
<1> DEFINE q1 == x \div B
           q2 == x \div (B * B)
           q3 == x \div (B * B * B)
<1>0. /\ B \in Nat \ {0, 1} /\ B * B \in Nat \ {0} /\ B * B * B \in Nat \ {0} /\ x \in Nat
      /\ x < B * (B * B * B)
  BY Widths DEF Words
<1>1. /\ Limb(x, 1) = x % B /\ Limb(x, 2) = q1 % B /\ Limb(x, 3) = q2 % B /\ Limb(x, 4) = q3 % B
  <2>1. x \div 1 = x
    BY <1>0
  <2> QED
    BY <2>1 DEF Limb
<1>2. q1 \in Nat /\ x = B * q1 + (x % B) /\ x % B \in Gas
  BY <1>0, DivMod DEF Gas
<1>3. q2 = q1 \div B
  <2>1. B \in Nat \ {0}
    BY <1>0
  <2> QED
    BY <1>0, <2>1, DivDiv, Zenon
<1>4. q3 = q2 \div B
  <2> DEFINE B2 == B * B
  <2>1. B2 \in Nat \ {0} /\ B \in Nat \ {0}
    BY <1>0
  <2> HIDE DEF B2
  <2>2. x \div (B2 * B) = (x \div B2) \div B
    BY <1>0, <2>1, DivDiv, Zenon
  <2> QED
    BY <2>2 DEF B2
<1> HIDE DEF q1
<1>5. q2 \in Nat /\ q1 = B * q2 + (q1 % B) /\ q1 % B \in Gas
  BY <1>0, <1>2, <1>3, DivMod DEF Gas
<1> HIDE DEF q2
<1>6. q3 \in Nat /\ q2 = B * q3 + (q2 % B) /\ q2 % B \in Gas
  BY <1>0, <1>4, <1>5, DivMod DEF Gas
<1>7. q3 < B
  <2> DEFINE B3 == B * B * B
  <2>1. B3 \in Nat \ {0} /\ x < B * B3 /\ q3 = x \div B3
    BY <1>0
  <2> HIDE DEF B3, q3
  <2>2. x = B3 * q3 + (x % B3) /\ x % B3 \in Nat
    BY <1>0, <2>1, DivMod
  <2>3. SUFFICES ASSUME q3 >= B PROVE FALSE
    BY <1>0, <1>6
  <2>4. B3 * q3 = B * B3 + B3 * (q3 - B) /\ B3 * (q3 - B) \in Nat
    BY <1>0, <1>6, <2>1, <2>3
  <2> QED
    BY <1>0, <2>1, <2>2, <2>4
<1> HIDE DEF q3
<1>8. q3 % B = q3
  BY <1>0, <1>6, <1>7
<1>9. \A i \in 1..4 : Limb(x, i) \in Gas
  <2>1. q3 % B \in Gas
    BY <1>0, <1>6, <1>7, <1>8 DEF Gas
  <2> HIDE DEF Limb
  <2> QED
    BY <1>1, <1>2, <1>5, <1>6, <2>1
<1>10. x = Limb(x, 1) + B * Limb(x, 2) + B * B * Limb(x, 3) + B * B * B * Limb(x, 4)
  <2> DEFINE r0 == x % B
             r1 == q1 % B
             r2 == q2 % B
  <2>1. /\ r0 \in Int /\ r1 \in Int /\ r2 \in Int /\ q1 \in Int /\ q2 \in Int /\ q3 \in Int /\ B \in Int
        /\ x = B * q1 + r0 /\ q1 = B * q2 + r1 /\ q2 = B * q3 + r2
    BY <1>0, <1>2, <1>5, <1>6 DEF Gas
  <2>2. x = r0 + B * r1 + B * B * r2 + B * B * B * q3
    <3> HIDE DEF r0, r1, r2
    <3> QED
      BY <2>1
  <2> QED
    BY <1>1, <1>8, <2>2
<1> QED
  BY <1>9, <1>10

\* One limb of the product: its two parts and the carry make up what comes in.
LEMMA LimbProduct ==
  ASSUME NEW y \in Nat, NEW c \in Nat
  PROVE  LET hi == y \div B
             lo == y % B
             sum == (lo + c) % B
             next == hi + ((lo + c) \div B) IN
         /\ sum \in Gas /\ next \in Nat
         /\ y + c = sum + B * next
<1> DEFINE hi == y \div B
           lo == y % B
           up == (lo + c) \div B
           sum == (lo + c) % B
<1>0. B \in Nat \ {0}
  BY Widths
<1>1. hi \in Nat /\ lo \in Nat /\ y = B * hi + lo
  BY <1>0, DivMod
<1> HIDE DEF hi, lo
<1>2. lo + c \in Nat
  BY <1>1
<1>3. up \in Nat /\ sum \in Gas /\ lo + c = B * up + sum
  BY <1>0, <1>2, DivMod DEF Gas
<1> HIDE DEF up, sum
<1>4. hi + up \in Nat /\ sum \in Nat
  BY <1>0, <1>1, <1>3 DEF Gas
<1>5. B * (hi + up) = B * hi + B * up
  BY <1>0, <1>1, <1>3
<1>6. B * hi \in Nat /\ B * up \in Nat
  BY <1>0, <1>1, <1>3
<1>7. y + c = sum + B * (hi + up)
  BY <1>1, <1>3, <1>4, <1>5, <1>6
<1> QED
  BY <1>3, <1>4, <1>7 DEF hi, lo, up, sum

\* The carries cancel out.
LEMMA CarriesCancel ==
  ASSUME NEW b \in Int, NEW s1 \in Int, NEW s2 \in Int, NEW s3 \in Int, NEW s4 \in Int,
         NEW c1 \in Int, NEW c2 \in Int, NEW c3 \in Int,
         NEW p1 \in Int, NEW p2 \in Int, NEW p3 \in Int, NEW p4 \in Int,
         p1 = s1 + b * c1, p2 + c1 = s2 + b * c2, p3 + c2 = s3 + b * c3, p4 + c3 = s4
  PROVE  p1 + b * p2 + b * b * p3 + b * b * b * p4 = s1 + b * s2 + b * b * s3 + b * b * b * s4
<1>1. p3 + b * p4 = s3 + b * s4 - c2
  <2>1. b * p4 = b * s4 - b * c3
    OBVIOUS
  <2> QED
    BY <2>1
<1>2. p2 + b * (p3 + b * p4) = s2 + b * (s3 + b * s4) - c1
  <2>1. b * (p3 + b * p4) = b * (s3 + b * s4) - b * c2
    BY <1>1
  <2> QED
    BY <2>1
<1>3. p1 + b * (p2 + b * (p3 + b * p4)) = s1 + b * (s2 + b * (s3 + b * s4))
  <2>1. b * (p2 + b * (p3 + b * p4)) = b * (s2 + b * (s3 + b * s4)) - b * c1
    BY <1>2
  <2> QED
    BY <2>1
<1>4. ASSUME NEW y1 \in Int, NEW y2 \in Int, NEW y3 \in Int, NEW y4 \in Int
      PROVE  y1 + b * (y2 + b * (y3 + b * y4)) = y1 + b * y2 + b * b * y3 + b * b * b * y4
  OBVIOUS
<1> QED
  BY <1>3, <1>4

\* One more limb below a number.
LEMMA LimbBelow ==
  ASSUME NEW m \in Nat \ {0}, NEW t \in 0..(m - 1), NEW b \in Nat \ {0}, NEW s \in 0..(b - 1)
  PROVE  s + b * t \in 0..(b * m - 1)
<1>1. b * m = b * t + b * (m - 1 - t) + b /\ b * (m - 1 - t) \in Nat /\ b * t \in Nat
  OBVIOUS
<1> QED
  BY <1>1

\* Four limbs make a word.
LEMMA LimbsMakeWord ==
  ASSUME NEW s1 \in Gas, NEW s2 \in Gas, NEW s3 \in Gas, NEW s4 \in Gas
  PROVE  s1 + B * s2 + B * B * s3 + B * B * B * s4 \in Words
<1>1. B \in Nat \ {0} /\ B * B \in Nat \ {0} /\ B * B * B \in Nat \ {0}
  BY Widths
<1> DEFINE t3 == s3 + B * s4
           t2 == s2 + B * t3
           t1 == s1 + B * t2
<1>2. t3 \in 0..(B * B - 1)
  BY <1>1, LimbBelow DEF Gas
<1> HIDE DEF t3
<1>3. t2 \in 0..(B * (B * B) - 1)
  <2> DEFINE m == B * B
  <2>1. m \in Nat \ {0} /\ t3 \in 0..(m - 1)
    BY <1>1, <1>2
  <2> HIDE DEF m
  <2>2. t2 \in 0..(B * m - 1)
    BY <1>1, <2>1, LimbBelow DEF Gas
  <2> QED
    BY <2>2 DEF m
<1> HIDE DEF t2
<1>4. t1 \in 0..(B * (B * (B * B)) - 1)
  <2> DEFINE m == B * (B * B)
  <2>1. m \in Nat \ {0} /\ t2 \in 0..(m - 1)
    BY <1>1, <1>3
  <2> HIDE DEF m
  <2>2. t1 \in 0..(B * m - 1)
    BY <1>1, <2>1, LimbBelow DEF Gas
  <2> QED
    BY <2>2 DEF m
<1>5. s1 \in Int /\ s2 \in Int /\ s3 \in Int /\ s4 \in Int /\ B \in Int
  BY <1>1 DEF Gas
<1>6. B * (B * (B * B)) = Word
  BY <1>5 DEF Word
<1>7. t1 = s1 + B * s2 + B * B * s3 + B * B * B * s4
  BY <1>5 DEF t2, t3
<1> QED
  BY <1>4, <1>6, <1>7 DEF Words

\* mulU256U64Checked is exact, or fails.
LEMMA MulExact ==
  ASSUME NEW x \in Words, NEW n \in Gas, mulU256U64Checked(x, n) # Err
  PROVE  mulU256U64Checked(x, n) = x * n /\ x * n \in Words
<1> DEFINE hi(i) == (Limb(x, i) * n) \div B
           lo(i) == (Limb(x, i) * n) % B
           sum(i, carry) == (lo(i) + carry) % B
           next(i, carry) == hi(i) + ((lo(i) + carry) \div B)
           c1 == next(1, 0)
           c2 == next(2, c1)
           c3 == next(3, c2)
           c4 == next(4, c3)
           s1 == sum(1, 0)
           s2 == sum(2, c1)
           s3 == sum(3, c2)
           s4 == sum(4, c3)
           p(i) == Limb(x, i) * n
<1>1. /\ c4 = 0
      /\ mulU256U64Checked(x, n) = s1 + B * s2 + B * B * s3 + B * B * B * s4
  BY DEF mulU256U64Checked
<1>2. /\ \A i \in 1..4 : Limb(x, i) \in Nat
      /\ n \in Nat /\ B \in Nat /\ x \in Nat
      /\ x = Limb(x, 1) + B * Limb(x, 2) + B * B * Limb(x, 3) + B * B * B * Limb(x, 4)
  <2>1. B \in Nat /\ x \in Nat
    BY Widths DEF Words
  <2>2. \A g \in Gas : g \in Nat
    BY <2>1 DEF Gas
  <2> HIDE DEF Gas
  <2> QED
    BY <2>1, <2>2, LimbsOfWord
<1>3. \A i \in 1..4 : p(i) \in Nat
  BY <1>2
<1> HIDE DEF Limb
<1>4. ASSUME NEW i \in 1..4, NEW c \in Nat
      PROVE  sum(i, c) \in Gas /\ next(i, c) \in Nat /\ p(i) + c = sum(i, c) + B * next(i, c)
  <2>1. p(i) \in Nat
    BY <1>3
  <2> QED
    BY <2>1, LimbProduct
<1> HIDE DEF sum, next, hi, lo
<1>5. s1 \in Gas /\ c1 \in Nat /\ p(1) = s1 + B * c1
  <2>1. s1 \in Gas /\ c1 \in Nat /\ p(1) + 0 = s1 + B * c1
    BY <1>4
  <2>2. p(1) + 0 = p(1)
    BY <1>3
  <2> QED
    BY <2>1, <2>2
<1> HIDE DEF s1, c1
<1>6. s2 \in Gas /\ c2 \in Nat /\ p(2) + c1 = s2 + B * c2
  BY <1>4, <1>5
<1> HIDE DEF s2, c2
<1>7. s3 \in Gas /\ c3 \in Nat /\ p(3) + c2 = s3 + B * c3
  BY <1>4, <1>6
<1> HIDE DEF s3, c3
<1>8. s4 \in Gas /\ c4 \in Nat /\ p(4) + c3 = s4 + B * c4
  BY <1>4, <1>7
<1> HIDE DEF s4, c4
<1>9. p(1) + B * p(2) + B * B * p(3) + B * B * B * p(4) = x * n
  <2> DEFINE x1 == Limb(x, 1)
             x2 == Limb(x, 2)
             x3 == Limb(x, 3)
             x4 == Limb(x, 4)
  <2>1. /\ x1 \in Int /\ x2 \in Int /\ x3 \in Int /\ x4 \in Int /\ n \in Int /\ B \in Int
        /\ x = x1 + B * x2 + B * B * x3 + B * B * B * x4
    BY <1>2
  <2> HIDE DEF x1, x2, x3, x4
  <2>2. x1 * n + B * (x2 * n) + B * B * (x3 * n) + B * B * B * (x4 * n) = x * n
    BY <2>1
  <2> QED
    BY <2>2 DEF x1, x2, x3, x4
<1>10. s1 + B * s2 + B * B * s3 + B * B * B * s4 = x * n
  <2> DEFINE p1 == p(1)
             p2 == p(2)
             p3 == p(3)
             p4 == p(4)
  <2>1. /\ p1 \in Int /\ p2 \in Int /\ p3 \in Int /\ p4 \in Int /\ B \in Int
        /\ c1 \in Int /\ c2 \in Int /\ c3 \in Int
    BY <1>2, <1>3, <1>5, <1>6, <1>7
  <2>2. s1 \in Int /\ s2 \in Int /\ s3 \in Int /\ s4 \in Int
    BY <1>2, <1>5, <1>6, <1>7, <1>8 DEF Gas
  <2>3. p4 + c3 = s4
    BY <1>1, <1>2, <1>8, <2>1, <2>2
  <2>4. p1 + B * p2 + B * B * p3 + B * B * B * p4 = x * n
    BY <1>9
  <2>5. p1 = s1 + B * c1 /\ p2 + c1 = s2 + B * c2 /\ p3 + c2 = s3 + B * c3
    BY <1>5, <1>6, <1>7
  <2> HIDE DEF p1, p2, p3, p4
  <2>6. p1 + B * p2 + B * B * p3 + B * B * B * p4 = s1 + B * s2 + B * B * s3 + B * B * B * s4
    BY <2>1, <2>2, <2>3, <2>5, CarriesCancel
  <2> QED
    BY <2>4, <2>6, Zenon
<1>11. s1 + B * s2 + B * B * s3 + B * B * B * s4 \in Words
  BY <1>5, <1>6, <1>7, <1>8, LimbsMakeWord, Zenon
<1> QED
  BY <1>1, <1>10, <1>11, Zenon

\* addU256Checked is exact, or fails.
LEMMA AddExact ==
  ASSUME NEW x \in Words, NEW y \in Words, addU256Checked(x, y) # Err
  PROVE  addU256Checked(x, y) = x + y /\ x + y \in Words
<1> DEFINE a == x + y
<1>1. Word \in Nat \ {0} /\ x \in Nat /\ y \in Nat /\ x < Word /\ y < Word
  BY Widths DEF Words
<1>2. addU256Checked(x, y) = a % Word /\ ~(y # 0 /\ a % Word < x)
  BY DEF addU256Checked
<1> HIDE DEF Word
<1>3. a \in Nat /\ a < Word + Word /\ a = x + y
  BY <1>1
<1> HIDE DEF a
<1>4. a % Word = IF a < Word THEN a ELSE a - Word
  BY <1>1, <1>3, ModOnce, Zenon
<1>5. a < Word
  BY <1>1, <1>2, <1>3, <1>4
<1>6. a % Word = a
  BY <1>4, <1>5
<1>7. a \in Words
  BY <1>1, <1>3, <1>5 DEF Words
<1> QED
  BY <1>2, <1>3, <1>6, <1>7

\* So is the gas of a submission.
LEMMA SubmissionGasExact ==
  ASSUME NEW d \in Gas, submissionGas(d) # Err
  PROVE  submissionGas(d) = Overhead + PerByte * d /\ submissionGas(d) \in Gas
<1>1. B \in Nat \ {0} /\ Overhead \in Nat /\ PerByte \in Nat /\ d \in Nat
  BY Widths, RetryableAssumption DEF Gas
<1>2. PerByte * d \in Nat
  BY <1>1
<1> DEFINE m == PerByte * d
           n == SafeMulGas(PerByte, d)
<1> HIDE DEF m
<1>3. n # Err /\ submissionGas(d) = SafeAddGas(Overhead, n)
  BY DEF submissionGas
<1>4. n = m
  BY <1>3 DEF SafeMulGas, m
<1>5. submissionGas(d) = Overhead + m /\ ~(Overhead + m >= B)
  BY <1>3, <1>4 DEF SafeAddGas
<1>6. m \in Nat
  BY <1>2 DEF m
<1>7. Overhead + m \in Gas
  BY <1>1, <1>5, <1>6 DEF Gas
<1> QED
  BY <1>5, <1>7 DEF m

\* What a quote that does not fail promises of a submission.
Covered(p) ==
  LET subGas == Overhead + PerByte * p.call.dataLen IN
  /\ p.baseFee * subGas <= p.maxSubmission
  /\ p.baseFee * subGas + p.maxFee * p.call.gasLimit + p.call.value <= p.deposit
  /\ subGas <= p.provided

\* quoteRetryable: every check is made on the exact value.
LEMMA QuoteCovers ==
  ASSUME NEW p \in ParamFields, quoteRetryable(p) # Err
  PROVE  Covered(p) /\ quoteRetryable(p) \in Gas /\ quoteRetryable(p) <= p.provided
<1> DEFINE subGas == submissionGas(p.call.dataLen)
           subFee == mulU256U64Checked(p.baseFee, subGas)
           exec == mulU256U64Checked(p.maxFee, p.call.gasLimit)
           fees == addU256Checked(subFee, exec)
           total == addU256Checked(fees, p.call.value)
<1>1. /\ p.call.dataLen \in Gas /\ p.call.gasLimit \in Gas /\ p.provided \in Gas
      /\ p.baseFee \in Words /\ p.maxFee \in Words /\ p.call.value \in Words
      /\ p.maxSubmission \in Words /\ p.deposit \in Words
  BY DEF ParamFields
<1>2. /\ subGas # Err /\ subFee # Err /\ subFee <= p.maxSubmission /\ exec # Err /\ fees # Err
      /\ total # Err /\ p.deposit >= total /\ SafeSubGas(p.provided, subGas) # Err
      /\ quoteRetryable(p) = subGas
  BY DEF quoteRetryable
<1>3. subGas = Overhead + PerByte * p.call.dataLen /\ subGas \in Gas
  BY <1>1, <1>2, SubmissionGasExact
<1> HIDE DEF subGas
<1>4. subFee = p.baseFee * subGas /\ subFee \in Words
  BY <1>1, <1>2, <1>3, MulExact
<1> HIDE DEF subFee
<1>5. exec = p.maxFee * p.call.gasLimit /\ exec \in Words
  BY <1>1, <1>2, MulExact
<1> HIDE DEF exec
<1>6. fees = subFee + exec /\ fees \in Words
  BY <1>2, <1>4, <1>5, AddExact
<1> HIDE DEF fees
<1>7. total = fees + p.call.value
  BY <1>1, <1>2, <1>6, AddExact
<1> HIDE DEF total
<1>8. subGas <= p.provided
  <2>1. subGas \in Int /\ p.provided \in Int
    BY <1>1, <1>3, Widths DEF Gas
  <2> QED
    BY <1>2, <2>1 DEF SafeSubGas
<1>9. total <= p.deposit
  <2>1. total \in Int /\ p.deposit \in Int
    BY <1>1, <1>6, <1>7, Widths DEF Words
  <2> QED
    BY <1>2, <2>1
<1>10. subFee + exec + p.call.value <= p.deposit
  BY <1>6, <1>7, <1>9
<1> QED
  BY <1>2, <1>3, <1>4, <1>5, <1>8, <1>10 DEF Covered

-----------------------------------------------------------------------------
Tickets == [params : Params, subGas : Gas, gasLimit : Gas, maxFee : Words,
            status : {"Created", "AutoRedeemed", "ManualRedeemed"}]

TypeInv ==
  /\ tickets \in [ID -> Tickets \cup {NoTicket}]
  /\ created \in [ID -> Nat] /\ emitted \in [ID -> Nat]

\* A ticket that can be redeemed is of a submission that produced nothing yet.
Unspent ==
  \A id \in ID : emitted[id] <= created[id] /\ (Redeemable(id) => emitted[id] < created[id])

Sound == \A id \in ID : tickets[id] # NoTicket => Covered(tickets[id].params)

IInv == TypeInv /\ Unspent /\ Sound

\* Create: the quote covers the new ticket, and it counts as one submission.
LEMMA CreateKeepsInv ==
  ASSUME IInv, NEW p \in Params, Create(p)
  PROVE  IInv'
<1> DEFINE id == ticketID(p)
           left == SafeSubGas(p.provided, quoteRetryable(p))
           auto == p.call.gasLimit # 0 /\ left >= p.call.gasLimit
           t == [params |-> p, subGas |-> quoteRetryable(p), gasLimit |-> p.call.gasLimit,
                 maxFee |-> p.maxFee, status |-> IF auto THEN "AutoRedeemed" ELSE "Created"]
<1>1. /\ id \in ID /\ p \in ParamFields
  BY RetryableAssumption DEF ID
<1>2. /\ quoteRetryable(p) # Err /\ tickets' = [tickets EXCEPT ![id] = t]
      /\ created' = [created EXCEPT ![id] = created[id] + 1]
      /\ IF auto THEN emitted' = [emitted EXCEPT ![id] = emitted[id] + 1] ELSE emitted' = emitted
  BY DEF Create, Emit
<1>3. Covered(p) /\ quoteRetryable(p) \in Gas
  BY <1>1, <1>2, QuoteCovers
<1> HIDE DEF left
<1>4. t \in Tickets /\ t.params = p /\ (t.status = "Created" <=> ~auto)
  <2>1. p.call.gasLimit \in Gas /\ p.maxFee \in Words
    BY <1>1 DEF ParamFields
  <2> HIDE DEF auto
  <2> QED
    BY <1>3, <2>1 DEF Tickets
<1> HIDE DEF t, auto
<1>5. TypeInv'
  BY <1>1, <1>2, <1>4 DEF IInv, TypeInv
<1>6. /\ tickets'[id] = t /\ created'[id] = created[id] + 1
      /\ emitted'[id] = IF auto THEN emitted[id] + 1 ELSE emitted[id]
      /\ \A i \in ID \ {id} : tickets'[i] = tickets[i] /\ created'[i] = created[i] /\ emitted'[i] = emitted[i]
  BY <1>1, <1>2 DEF IInv, TypeInv
<1>7. Unspent'
  <2>1. created[id] \in Nat /\ emitted[id] \in Nat /\ emitted[id] <= created[id]
    BY <1>1 DEF IInv, TypeInv, Unspent
  <2>2. emitted'[id] <= created'[id] /\ (t.status = "Created" => emitted'[id] < created'[id])
    BY <1>4, <1>6, <2>1
  <2>3. \A i \in ID \ {id} : /\ emitted'[i] <= created'[i]
                             /\ Redeemable(i)' => emitted'[i] < created'[i]
    BY <1>6 DEF IInv, Unspent, Redeemable
  <2> QED
    BY <1>1, <1>6, <2>2, <2>3 DEF Unspent, Redeemable
<1>8. Sound'
  BY <1>1, <1>3, <1>4, <1>6 DEF IInv, Sound
<1> QED
  BY <1>5, <1>7, <1>8 DEF IInv

\* A redemption, automatic or by hand, ends the ticket.
LEMMA RedeemKeepsInv ==
  ASSUME IInv, NEW id \in ID, NEW t \in Tickets, Redeemable(id),
         t.params = tickets[id].params, t.status # "Created",
         tickets' = [tickets EXCEPT ![id] = t], Emit(id), UNCHANGED created
  PROVE  IInv'
<1>1. /\ tickets[id] # NoTicket /\ emitted' = [emitted EXCEPT ![id] = emitted[id] + 1]
  BY DEF Redeemable, Emit
<1>2. TypeInv'
  BY <1>1 DEF IInv, TypeInv
<1>3. /\ tickets'[id] = t /\ emitted'[id] = emitted[id] + 1
      /\ \A i \in ID \ {id} : tickets'[i] = tickets[i] /\ emitted'[i] = emitted[i]
  BY <1>1 DEF IInv, TypeInv
<1>4. Unspent'
  <2>1. created[id] \in Nat /\ emitted[id] \in Nat /\ emitted[id] < created[id]
    BY DEF IInv, TypeInv, Unspent
  <2> QED
    BY <1>3, <2>1 DEF IInv, Unspent, Redeemable
<1>5. Sound'
  BY <1>1, <1>3 DEF IInv, Sound
<1> QED
  BY <1>2, <1>4, <1>5 DEF IInv

\* The invariant of the tickets.
THEOREM Invariance == Spec => []IInv
<1>1. Init => IInv
  BY DEF Init, IInv, TypeInv, Unspent, Sound, Redeemable
<1>2. IInv /\ [Next]_vars => IInv'
  <2> SUFFICES ASSUME IInv, [Next]_vars PROVE IInv'
    OBVIOUS
  <2>1. CASE UNCHANGED vars
    BY <2>1 DEF vars, IInv, TypeInv, Unspent, Sound, Redeemable
  <2>2. ASSUME NEW p \in Params, Create(p) PROVE IInv'
    BY <2>2, CreateKeepsInv
  <2>3. ASSUME NEW id \in ID, AutoRedeem(id) PROVE IInv'
    <3> DEFINE t == [tickets[id] EXCEPT !.status = "AutoRedeemed"]
    <3>1. Redeemable(id) /\ Emit(id) /\ UNCHANGED created /\ tickets' = [tickets EXCEPT ![id] = t]
      BY <2>3 DEF AutoRedeem
    <3>2. tickets[id] \in Tickets
      BY <3>1 DEF Redeemable, IInv, TypeInv
    <3>3. t \in Tickets /\ t.params = tickets[id].params /\ t.status # "Created"
      BY <3>2 DEF Tickets
    <3> HIDE DEF t
    <3> QED
      BY <3>1, <3>3, RedeemKeepsInv
  <2>4. ASSUME NEW id \in ID, NEW r \in Redeems, ManualRedeem(id, r) PROVE IInv'
    <3> DEFINE t == [tickets[id] EXCEPT !.gasLimit = r.gasLimit, !.maxFee = r.maxFee,
                                        !.status = "ManualRedeemed"]
    <3>1. Redeemable(id) /\ Emit(id) /\ UNCHANGED created /\ tickets' = [tickets EXCEPT ![id] = t]
      BY <2>4 DEF ManualRedeem
    <3>2. tickets[id] \in Tickets /\ r.gasLimit \in Gas /\ r.maxFee \in Words
      BY <3>1, RetryableAssumption DEF Redeemable, IInv, TypeInv
    <3>3. t \in Tickets /\ t.params = tickets[id].params /\ t.status # "Created"
      BY <3>2 DEF Tickets
    <3> HIDE DEF t
    <3> QED
      BY <3>1, <3>3, RedeemKeepsInv
  <2> QED
    BY <2>1, <2>2, <2>3, <2>4 DEF Next
<1> QED
  BY <1>1, <1>2, PTL DEF Spec

\* quoteRetryable's 64- and 256-bit arithmetic is exact or fails, for limbs of any
\* width: the deposit of every ticket covers its cost in unbounded integers, and
\* its fee and its gas the submission.
THEOREM QuotesExact == Spec => []QuoteIsExact
<1>1. IInv => QuoteIsExact
  BY DEF IInv, Sound, Covered, QuoteIsExact
<1> QED
  BY <1>1, Invariance, PTL

\* CreateRetryable, AutoRedeem and ManualRedeem: a submission produces at most one
\* transaction, although an ID may be submitted again before and after.
THEOREM RedeemedOnce == Spec => []OncePerSubmission
<1>1. IInv => OncePerSubmission
  BY DEF IInv, Unspent, OncePerSubmission
<1> QED
  BY <1>1, Invariance, PTL
=============================================================================
