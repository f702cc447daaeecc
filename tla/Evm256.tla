------------------------------- MODULE Evm256 -------------------------------
(***************************************************************************)
(* pkg/evm256: words of Limbs limbs of LimbBits bits, the least            *)
(* significant first, with the carries, borrows and estimated quotients of *)
(* the code.  A limb is a number below Limb; bits.Add64, bits.Sub64 and    *)
(* bits.Mul64 are arithmetic modulo Limb with what they carry.             *)
(*                                                                         *)
(* A loop is the function of its states: at k, the state after k rounds.   *)
(***************************************************************************)
EXTENDS Integers

CONSTANTS
  Limbs,             \* 4
  LimbBits,          \* 64
  ByteBits           \* 8

ASSUME LimbAssumption ==
  /\ Limbs \in Nat \ {0, 1} /\ LimbBits \in Nat \ {0} /\ ByteBits \in Nat \ {0}
  /\ LimbBits % ByteBits = 0
  /\ Limbs * LimbBits < 2^LimbBits

Limb == 2^LimbBits
Byte == 2^ByteBits
WordBits == Limbs * LimbBits
LimbBytes == LimbBits \div ByteBits
WordBytes == Limbs * LimbBytes
Index == 0..(Limbs - 1)
Word == [Index -> 0..(Limb - 1)]

\* Digits of w bits, the least significant first: the digit k of v, and the number
\* that n of them make.
Digit(v, k, w) == (v \div 2^(w * k)) % 2^w
Number(x, n, w) ==
  LET sum[k \in 0..n] == IF k = 0 THEN 0 ELSE sum[k - 1] + x[k - 1] * 2^(w * (k - 1)) IN sum[n]

\* The ones among the n bits of v, and back.
Bits(v, n) == {k \in 0..(n - 1) : Digit(v, k, 1) = 1}
FromBits(ones, n) == Number([k \in 0..(n - 1) |-> IF k \in ones THEN 1 ELSE 0], n, 1)
Xor(a, b) == (a \ b) \cup (b \ a)

-----------------------------------------------------------------------------
Zero == [i \in Index |-> 0]

\* FromU64; in the scaled model a gas amount may take several limbs.
FromU64(v) == [i \in Index |-> Digit(v, i, LimbBits)]

\* WordBytes bytes, the most significant first.
FromBytesBE(bytes) ==
  [i \in Index |->
     Number([k \in 0..(LimbBytes - 1) |-> bytes[WordBytes - (i * LimbBytes + k)]], LimbBytes, ByteBits)]
BytesBE(z) ==
  [p \in 1..WordBytes |->
     Digit(z[(WordBytes - p) \div LimbBytes], (WordBytes - p) % LimbBytes, ByteBits)]

IsZero(z) == \A i \in Index : z[i] = 0
Eq(a, b) == \A i \in Index : a[i] = b[i]
isNeg(z) == z[Limbs - 1] >= Limb \div 2

\* Cmp(a, b) < 0: the highest limb in which they differ decides.
Lt256(a, b) == \E i \in Index : a[i] < b[i] /\ \A k \in (i + 1)..(Limbs - 1) : a[k] = b[k]
Gt256(a, b) == Lt256(b, a)
Slt256(a, b) == IF isNeg(a) # isNeg(b) THEN isNeg(a) ELSE Lt256(a, b)
Sgt256(a, b) == IF isNeg(a) # isNeg(b) THEN isNeg(b) ELSE Gt256(a, b)

-----------------------------------------------------------------------------
\* What the limbs below i carry, and borrow.
carries(a, b) ==
  LET carry[i \in 0..Limbs] == IF i = 0 THEN 0 ELSE (a[i - 1] + b[i - 1] + carry[i - 1]) \div Limb
  IN  carry
borrows(a, b) ==
  LET borrow[i \in 0..Limbs] ==
        IF i = 0 THEN 0 ELSE IF a[i - 1] < b[i - 1] + borrow[i - 1] THEN 1 ELSE 0
  IN  borrow

addCarry(a, b) ==
  LET carry == carries(a, b)
  IN  [sum |-> [i \in Index |-> (a[i] + b[i] + carry[i]) % Limb], carry |-> carry[Limbs]]

Add256(a, b) == addCarry(a, b).sum
Sub256(a, b) == LET borrow == borrows(a, b) IN [i \in Index |-> (a[i] - b[i] - borrow[i]) % Limb]

\* The product's 2 * Limbs limbs, row by row: x times b is added to p from limb i on.
Zeros == [k \in 0..(2 * Limbs - 1) |-> 0]

rowSum(p, i, x, b, j, carry) == p[i + j] + ((x * b[j]) % Limb) + carry
rowCarries(p, i, x, b) ==
  LET carry[j \in 0..Limbs] ==
        IF j = 0 THEN 0
        ELSE ((x * b[j - 1]) \div Limb + rowSum(p, i, x, b, j - 1, carry[j - 1]) \div Limb) % Limb
  IN  carry
mulRow(p, i, x, b) ==
  LET carry == rowCarries(p, i, x, b)
  IN  [k \in 0..(2 * Limbs - 1) |->
         IF k - i \in Index THEN rowSum(p, i, x, b, k - i, carry[k - i]) % Limb
         ELSE IF k = i + Limbs THEN carry[Limbs] ELSE p[k]]
mulRows(a, b) ==
  LET rows[i \in 0..Limbs] == IF i = 0 THEN Zeros ELSE mulRow(rows[i - 1], i - 1, a[i - 1], b)
  IN  rows
mul512(a, b) == mulRows(a, b)[Limbs]

Low(p) == [i \in Index |-> p[i]]
Mul256(a, b) == Low(mul512(a, b))

-----------------------------------------------------------------------------
\* Division, of numbers of limbs by a divisor of several limbs: the divisor is
\* shifted until its highest bit is set, every limb of the quotient is estimated
\* from the highest limbs, by means of a reciprocal, and corrected.

\* How many of the n digits of x count.
Length(x, n) ==
  CHOOSE k \in 0..n : (k = 0 \/ x[k - 1] # 0) /\ \A i \in k..(n - 1) : x[i] = 0

LeadingZeros64(x) == CHOOSE s \in 0..(LimbBits - 1) : 2^(LimbBits - 1) <= x * 2^s /\ x * 2^s < Limb

\* x shifted to the left, with a limb more, zeros above it, n limbs in all.
Normalized(x, len, shift, n) ==
  LET At(i) == IF i \in 0..(len - 1) THEN x[i] * 2^shift ELSE 0
  IN  [i \in 0..(n - 1) |-> (At(i) % Limb) + At(i - 1) \div Limb]

reciprocal2by1(d) == ((Limb - 1 - d) * Limb + Limb - 1) \div d

udivrem2by1(uh, ul, d, reciprocal) ==
  LET low == ((reciprocal * uh) % Limb) + ul
      qh == ((reciprocal * uh) \div Limb + uh + low \div Limb + 1) % Limb
      Lower(q, r) == IF r > low % Limb THEN [quot |-> (q - 1) % Limb, rem |-> (r + d) % Limb]
                     ELSE [quot |-> q, rem |-> r]
      Raise(e) == IF e.rem >= d THEN [quot |-> (e.quot + 1) % Limb, rem |-> e.rem - d] ELSE e
  IN  Raise(Lower(qh, (ul - qh * d) % Limb))

\* un with the limbs of v, which has n, from limb j on.
Placed(un, j, n, v) == [k \in 0..(2 * Limbs) |-> IF k - j \in 0..(n - 1) THEN v[k - j] ELSE un[k]]

\* un minus m times the divisor at limb j, and what it borrows.
subMulDiff(un, j, dn, m, i, borrow) == un[j + i] - borrow - ((dn[i] * m) % Limb)
subMulBorrows(un, j, dn, n, m) ==
  LET borrow[i \in 0..n] ==
        IF i = 0 THEN 0
        ELSE (dn[i - 1] * m) \div Limb - subMulDiff(un, j, dn, m, i - 1, borrow[i - 1]) \div Limb
  IN  borrow
subMulToUn(un, j, dn, n, m) ==
  LET borrow == subMulBorrows(un, j, dn, n, m)
  IN  [un |-> Placed(un, j, n, [i \in 0..(n - 1) |-> subMulDiff(un, j, dn, m, i, borrow[i]) % Limb]),
       carry |-> borrow[n]]

addToUnCarries(un, j, dn, n) ==
  LET carry[i \in 0..n] == IF i = 0 THEN 0 ELSE (un[j + i - 1] + dn[i - 1] + carry[i - 1]) \div Limb
  IN  carry
addToUn(un, j, dn, n) ==
  LET carry == addToUnCarries(un, j, dn, n)
  IN  [un |-> Placed(un, j, n, [i \in 0..(n - 1) |-> (un[j + i] + dn[i] + carry[i]) % Limb]),
       carry |-> carry[n]]

\* The estimate, which the second limbs may lower by one.
qhat(u2, u1, u0, dh, dl, reciprocal) ==
  LET Lower(est) == IF est.quot * dl > est.rem * Limb + u0 THEN est.quot - 1 ELSE est.quot
  IN  IF u2 >= dh THEN Limb - 1 ELSE Lower(udivrem2by1(u2, u1, dh, reciprocal))

\* Mutant of Correct: an estimate that is too large stays.
CorrectNever(acc, j, dn, n, u2, est) ==
  LET sub == subMulToUn(acc.un, j, dn, n, est)
  IN  [un |-> [sub.un EXCEPT ![j + n] = (u2 - sub.carry) % Limb], quot |-> [acc.quot EXCEPT ![j] = est]]

\* One limb of the quotient: when too much was subtracted, it is added back once.
Correct(acc, j, dn, n, u2, est) ==
  LET Top(un, limb, q) == [un |-> [un EXCEPT ![j + n] = limb % Limb], quot |-> [acc.quot EXCEPT ![j] = q]]
      Back(add, carry) == Top(add.un, u2 - carry + add.carry, est - 1)
      Checked(sub) == IF u2 < sub.carry THEN Back(addToUn(sub.un, j, dn, n), sub.carry)
                      ELSE Top(sub.un, u2 - sub.carry, est)
  IN  Checked(subMulToUn(acc.un, j, dn, n, est))

\* By a divisor of one limb, and of more; un and the divisor are shifted, and the
\* quotient's limbs come from the highest down.
limbRounds(un, uLen, d) ==
  LET Noted(acc, j, step) == [r |-> step.rem, quot |-> [acc.quot EXCEPT ![j] = step.quot]]
      Round(acc, j) == Noted(acc, j, udivrem2by1(acc.r, un[j], d, reciprocal2by1(d)))
      rounds[k \in 0..uLen] ==
        IF k = 0 THEN [r |-> un[uLen], quot |-> Zeros] ELSE Round(rounds[k - 1], uLen - k)
  IN  rounds
divideByLimb(un, uLen, d, shift) ==
  LET Answer(acc) == [quot |-> acc.quot, rem |-> [Zero EXCEPT ![0] = acc.r \div 2^shift]]
  IN  Answer(limbRounds(un, uLen, d)[uLen])

limbsRound(acc, j, dn, dLen) ==
  Correct(acc, j, dn, dLen, acc.un[j + dLen],
          qhat(acc.un[j + dLen], acc.un[j + dLen - 1], acc.un[j + dLen - 2],
               dn[dLen - 1], dn[dLen - 2], reciprocal2by1(dn[dLen - 1])))
limbsRounds(un, uLen, dn, dLen) ==
  LET rounds[k \in 0..(uLen - dLen + 1)] ==
        IF k = 0 THEN [un |-> un, quot |-> Zeros]
        ELSE limbsRound(rounds[k - 1], uLen - dLen + 1 - k, dn, dLen)
  IN  rounds
divideByLimbs(un, uLen, dn, dLen, shift) ==
  LET Back(x, i) == x[i] \div 2^shift + (IF i = dLen - 1 THEN 0 ELSE ((x[i + 1] * 2^(LimbBits - shift)) % Limb))
      Answer(acc) == [quot |-> acc.quot,
                      rem |-> [i \in Index |-> IF i < dLen THEN Back(acc.un, i) ELSE 0]]
  IN  Answer(limbsRounds(un, uLen, dn, dLen)[uLen - dLen + 1])

\* u has 2 * Limbs limbs, d is a word.
udivrem(u, d) ==
  LET Divided(un, uLen, dn, dLen, shift) ==
        IF dLen = 1 THEN divideByLimb(un, uLen, dn[0], shift) ELSE divideByLimbs(un, uLen, dn, dLen, shift)
      Shifted(uLen, dLen, shift) ==
        Divided(Normalized(u, uLen, shift, 2 * Limbs + 1), uLen, Normalized(d, dLen, shift, Limbs), dLen, shift)
      Measured(uLen, dLen) ==
        IF dLen = 0 \/ uLen = 0 THEN [quot |-> Zeros, rem |-> Zero]
        ELSE IF uLen < dLen THEN [quot |-> Zeros, rem |-> Low(u)]
        ELSE Shifted(uLen, dLen, LeadingZeros64(d[dLen - 1]))
  IN  Measured(Length(u, 2 * Limbs), Length(d, Limbs))

Wide(n) == [k \in 0..(2 * Limbs - 1) |-> IF k < Limbs THEN n[k] ELSE 0]
divmod256(n, d) ==
  LET Halved(both) == [quot |-> Low(both.quot), rem |-> both.rem] IN Halved(udivrem(Wide(n), d))

Div256(a, b) == IF IsZero(b) THEN Zero ELSE divmod256(a, b).quot
Mod256(a, b) == IF IsZero(b) THEN Zero ELSE divmod256(a, b).rem

neg256(x) == Add256([i \in Index |-> Limb - 1 - x[i]], FromU64(1))
abs256(x) == IF isNeg(x) THEN neg256(x) ELSE x

SDiv256(a, b) ==
  LET Negated(q) == IF isNeg(a) # isNeg(b) THEN neg256(q) ELSE q
  IN  IF IsZero(b) THEN Zero ELSE Negated(divmod256(abs256(a), abs256(b)).quot)
SMod256(a, b) ==
  LET Negated(r) == IF isNeg(a) THEN neg256(r) ELSE r
  IN  IF IsZero(b) THEN Zero ELSE Negated(divmod256(abs256(a), abs256(b)).rem)

AddMod256(a, b, m) ==
  LET both == addCarry(a, b)
  IN  IF IsZero(m) THEN Zero ELSE udivrem([Wide(both.sum) EXCEPT ![Limbs] = both.carry], m).rem
MulMod256(a, b, m) == IF IsZero(m) THEN Zero ELSE udivrem(mul512(a, b), m).rem

\* Square and multiply, over the exponent's bits from the lowest to the highest.
Bit(z, k) == Digit(z[k \div LimbBits], k % LimbBits, 1)
squares(base, exp) ==
  LET Square(acc, k) ==
        [r |-> IF Bit(exp, k) = 1 THEN Mul256(acc.r, acc.b) ELSE acc.r, b |-> Mul256(acc.b, acc.b)]
      rounds[k \in 0..WordBits] ==
        IF k = 0 THEN [r |-> FromU64(1), b |-> base] ELSE Square(rounds[k - 1], k - 1)
  IN  rounds
Exp256(base, exp) ==
  squares(base, exp)[Length([k \in 0..(WordBits - 1) |-> Bit(exp, k)], WordBits)].r

-----------------------------------------------------------------------------
And256(a, b) == [i \in Index |-> FromBits(Bits(a[i], LimbBits) \cap Bits(b[i], LimbBits), LimbBits)]
Or256(a, b) == [i \in Index |-> FromBits(Bits(a[i], LimbBits) \cup Bits(b[i], LimbBits), LimbBits)]
Xor256(a, b) == [i \in Index |-> FromBits(Xor(Bits(a[i], LimbBits), Bits(b[i], LimbBits)), LimbBits)]
Not256(a) == [i \in Index |-> Limb - 1 - a[i]]

\* The byte i, counted from the most significant one.
Byte256(i, x) ==
  IF i < WordBytes
  THEN FromU64(Digit(x[(WordBytes - 1 - i) \div LimbBytes], (WordBytes - 1 - i) % LimbBytes, ByteBits))
  ELSE Zero

\* Byte b's highest bit is the sign.
SignExtend256(b, x) ==
  LET t == b * ByteBits + ByteBits - 1
      wi == t \div LimbBits
      keep == 2^((t % LimbBits) + 1)
      negative == Bit(x, t) = 1
  IN  IF b >= WordBytes - 1 THEN x
      ELSE [i \in Index |->
              IF i < wi THEN x[i]
              ELSE IF i = wi THEN (x[i] % keep) + (IF negative THEN Limb - keep ELSE 0)
              ELSE IF negative THEN Limb - 1 ELSE 0]

shiftGE256(shift) == (\E i \in Index \ {0} : shift[i] # 0) \/ shift[0] >= WordBits

\* Limb i of v, or fill outside.
LimbAt(v, i, fill) == IF i \in Index THEN v[i] ELSE fill

Shl256(shift, val) ==
  LET wsh == shift[0] \div LimbBits
      bsh == shift[0] % LimbBits
  IN  IF shiftGE256(shift) THEN Zero
      ELSE [i \in Index |-> ((LimbAt(val, i - wsh, 0) * 2^bsh) % Limb)
                              + LimbAt(val, i - wsh - 1, 0) \div 2^(LimbBits - bsh)]

ShiftRight(shift, val, fill) ==
  LET wsh == shift[0] \div LimbBits
      bsh == shift[0] % LimbBits
  IN  IF shiftGE256(shift) THEN [i \in Index |-> fill]
      ELSE [i \in Index |-> LimbAt(val, i + wsh, fill) \div 2^bsh
                              + ((LimbAt(val, i + wsh + 1, fill) * 2^(LimbBits - bsh)) % Limb)]
Shr256(shift, val) == ShiftRight(shift, val, 0)
Sar256(shift, val) == ShiftRight(shift, val, IF isNeg(val) THEN Limb - 1 ELSE 0)

-----------------------------------------------------------------------------
\* What the words mean.
Value(z) == Number(z, Limbs, LimbBits)
Modulus == 2^WordBits
Signed(n) == IF n >= Modulus \div 2 THEN n - Modulus ELSE n
Abs(n) == IF n < 0 THEN -n ELSE n
Sign(n) == IF n < 0 THEN -1 ELSE 1
Bool(b) == IF b THEN 1 ELSE 0
Power(x, n) == LET p[k \in 0..n] == IF k = 0 THEN 1 ELSE (x * p[k - 1]) % Modulus IN p[n]

\* The operations on numbers: a was on top of the stack, then b, then c.
Meaning(op, a, b, c) ==
  CASE op = "ADD" -> (a + b) % Modulus
    [] op = "MUL" -> (a * b) % Modulus
    [] op = "SUB" -> (a - b) % Modulus
    [] op = "DIV" -> IF b = 0 THEN 0 ELSE a \div b
    [] op = "MOD" -> IF b = 0 THEN 0 ELSE a % b
    [] op = "SDIV" ->
         IF b = 0 THEN 0
         ELSE (Sign(Signed(a)) * Sign(Signed(b)) * (Abs(Signed(a)) \div Abs(Signed(b)))) % Modulus
    [] op = "SMOD" ->
         IF b = 0 THEN 0 ELSE (Sign(Signed(a)) * (Abs(Signed(a)) % Abs(Signed(b)))) % Modulus
    [] op = "ADDMOD" -> IF c = 0 THEN 0 ELSE (a + b) % c
    [] op = "MULMOD" -> IF c = 0 THEN 0 ELSE (a * b) % c
    [] op = "EXP" -> Power(a, b)
    [] op = "SIGNEXTEND" ->
         IF a >= WordBytes - 1 THEN b
         ELSE LET range == 2^(ByteBits * (a + 1))
                  low == b % range
              IN  (IF low >= range \div 2 THEN low - range ELSE low) % Modulus
    [] op = "LT" -> Bool(a < b)
    [] op = "GT" -> Bool(a > b)
    [] op = "SLT" -> Bool(Signed(a) < Signed(b))
    [] op = "SGT" -> Bool(Signed(a) > Signed(b))
    [] op = "EQ" -> Bool(a = b)
    [] op = "ISZERO" -> Bool(a = 0)
    [] op = "AND" -> FromBits(Bits(a, WordBits) \cap Bits(b, WordBits), WordBits)
    [] op = "OR" -> FromBits(Bits(a, WordBits) \cup Bits(b, WordBits), WordBits)
    [] op = "XOR" -> FromBits(Xor(Bits(a, WordBits), Bits(b, WordBits)), WordBits)
    [] op = "NOT" -> Modulus - 1 - a
    [] op = "BYTE" -> IF a >= WordBytes THEN 0 ELSE Digit(b, WordBytes - 1 - a, ByteBits)
    [] op = "SHL" -> IF a >= WordBits THEN 0 ELSE (b * 2^a) % Modulus
    [] op = "SHR" -> IF a >= WordBits THEN 0 ELSE b \div 2^a
    [] op = "SAR" -> (Signed(b) \div 2^(IF a >= WordBits THEN WordBits ELSE a)) % Modulus
=============================================================================
