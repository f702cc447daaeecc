--------------------------- MODULE OneStepProofs ---------------------------
(***************************************************************************)
(* Steps and their witnesses, for every code, request and size of words.   *)
(*                                                                         *)
(* OneStepInvariant: frames are sound whatever runs, a replay that goes on *)
(* is at an instruction, and the witness is that of the last step.  From   *)
(* it follow FramesSound and, with CalculateExact, ArithmeticSound.        *)
(*                                                                         *)
(* WitnessesSound and ContractSound compare three ways to do a step: the   *)
(* step itself (Step...), the replay of its witness, and the contract      *)
(* (Sol...).  For each supported instruction a lemma ...Verdict says what  *)
(* the step came to (Ends or Fails) and which claims of a result the       *)
(* replay and the contract accept: exactly those of one result, each under *)
(* a condition that does not depend on the claim.  ...Settled draws the    *)
(* conclusions.                                                            *)
(***************************************************************************)
EXTENDS OneStep, WordProofs

-----------------------------------------------------------------------------
\* A truth value as a word.
LEMMA BoolValue ==
  ASSUME NEW v \in 0..1
  PROVE  FromU64(v) \in Word /\ Value(FromU64(v)) = v
<1>1. PICK M \in Nat \ {0} :
        /\ M = Modulus
        /\ M >= 2
  <2>1. Modulus \in Nat \ {0} /\ Modulus >= 2
      <3>1. Zero \in Word /\ Modulus \in Nat \ {0}
        BY ZeroValue, LimbFacts
      <3>2. Modulus = 2 * (Modulus \div 2) /\ Modulus \div 2 \in Nat \ {0}
        BY <3>1, NegativeExact
      <3> QED
        BY <3>1, <3>2
  <2> QED
    BY <2>1, Zenon
<1>2. v \in Int /\ 0 <= v /\ v < M
  BY <1>1
<1>3. v % M = v
  BY <1>2, DivSmall
<1>4. FromU64(v) \in Word /\ Value(FromU64(v)) = v % Modulus
  BY <1>2, FromU64Value
<1> QED
  BY <1>1, <1>3, <1>4

\* A word as a number, or a bound that no larger number passes.
LEMMA Clamped ==
  ASSUME NEW a \in Word, NEW m \in Nat, m < Limb
  PROVE  /\ u256AsU64(a, m) \in Nat
         /\ u256AsU64(a, m) = Value(a) \/ (u256AsU64(a, m) = m /\ Value(a) >= m)
<1>1. /\ a[0] \in 0..(Limb - 1)
      /\ FitsU64(a) => Value(a) = a[0]
      /\ ~FitsU64(a) => Value(a) >= Limb
  BY NarrowValue DEF FitsU64
<1>2. Limb \in Nat /\ Value(a) \in Nat
  BY LimbFacts, WordDigits
<1> QED
  BY <1>1, <1>2 DEF u256AsU64

\* Every instruction calculates what it means on numbers.
THEOREM CalculateExact ==
  ASSUME NEW op \in Unary \cup Binary \cup Ternary, NEW a \in Word, NEW b \in Word, NEW c \in Word
  PROVE  /\ Calculate(op, a, b, c) \in Word
         /\ Value(Calculate(op, a, b, c)) = Meaning(op, Value(a), Value(b), Value(c))
<1> DEFINE Exact(o) == /\ Calculate(o, a, b, c) \in Word
                       /\ Value(Calculate(o, a, b, c)) = Meaning(o, Value(a), Value(b), Value(c))
<1>1. PICK x \in Nat, y \in Nat, z \in Nat : x = Value(a) /\ y = Value(b) /\ z = Value(c)
  <2>1. Value(a) \in Nat /\ Value(b) \in Nat /\ Value(c) \in Nat
    BY WordDigits, LimbFacts
  <2> QED
    BY <2>1
<1>2. Exact("ADD")
  <2>1. Add256(a, b) \in Word /\ Value(Add256(a, b)) = (x + y) % Modulus
    BY <1>1, AddExact
  <2>2. Calculate("ADD", a, b, c) = Add256(a, b) /\ Meaning("ADD", x, y, z) = (x + y) % Modulus
    BY Zenon DEF Calculate, Meaning, Extended
  <2> QED
    BY <1>1, <2>1, <2>2
<1>3. Exact("MUL")
  <2>1. Mul256(a, b) \in Word /\ Value(Mul256(a, b)) = (x * y) % Modulus
    BY <1>1, MulExact
  <2>2. Calculate("MUL", a, b, c) = Mul256(a, b) /\ Meaning("MUL", x, y, z) = (x * y) % Modulus
    BY Zenon DEF Calculate, Meaning, Extended
  <2> QED
    BY <1>1, <2>1, <2>2
<1>4. Exact("SUB")
  <2>1. Sub256(a, b) \in Word /\ Value(Sub256(a, b)) = (x - y) % Modulus
    BY <1>1, SubExact
  <2>2. Calculate("SUB", a, b, c) = Sub256(a, b) /\ Meaning("SUB", x, y, z) = (x - y) % Modulus
    BY Zenon DEF Calculate, Meaning, Extended
  <2> QED
    BY <1>1, <2>1, <2>2
<1>5. Exact("DIV")
  <2>1. Div256(a, b) \in Word /\ Value(Div256(a, b)) = (IF y = 0 THEN 0 ELSE x \div y)
    BY <1>1, DivExact
  <2>2. Calculate("DIV", a, b, c) = Div256(a, b) /\ Meaning("DIV", x, y, z) = (IF y = 0 THEN 0 ELSE x \div y)
    BY Zenon DEF Calculate, Meaning, Extended
  <2> QED
    BY <1>1, <2>1, <2>2
<1>6. Exact("SDIV")
  <2>1. SDiv256(a, b) \in Word /\ Value(SDiv256(a, b)) = (IF y = 0 THEN 0 ELSE (Sign(Signed(x)) * Sign(Signed(y)) * (Abs(Signed(x)) \div Abs(Signed(y)))) % Modulus)
    BY <1>1, SignedDivExact
  <2>2. Calculate("SDIV", a, b, c) = SDiv256(a, b) /\ Meaning("SDIV", x, y, z) = (IF y = 0 THEN 0 ELSE (Sign(Signed(x)) * Sign(Signed(y)) * (Abs(Signed(x)) \div Abs(Signed(y)))) % Modulus)
    BY Zenon DEF Calculate, Meaning, Extended
  <2> QED
    BY <1>1, <2>1, <2>2
<1>7. Exact("MOD")
  <2>1. Mod256(a, b) \in Word /\ Value(Mod256(a, b)) = (IF y = 0 THEN 0 ELSE x % y)
    BY <1>1, DivExact
  <2>2. Calculate("MOD", a, b, c) = Mod256(a, b) /\ Meaning("MOD", x, y, z) = (IF y = 0 THEN 0 ELSE x % y)
    BY Zenon DEF Calculate, Meaning, Extended
  <2> QED
    BY <1>1, <2>1, <2>2
<1>8. Exact("SMOD")
  <2>1. SMod256(a, b) \in Word /\ Value(SMod256(a, b)) = (IF y = 0 THEN 0 ELSE (Sign(Signed(x)) * (Abs(Signed(x)) % Abs(Signed(y)))) % Modulus)
    BY <1>1, SignedDivExact
  <2>2. Calculate("SMOD", a, b, c) = SMod256(a, b) /\ Meaning("SMOD", x, y, z) = (IF y = 0 THEN 0 ELSE (Sign(Signed(x)) * (Abs(Signed(x)) % Abs(Signed(y)))) % Modulus)
    BY Zenon DEF Calculate, Meaning, Extended
  <2> QED
    BY <1>1, <2>1, <2>2
<1>9. Exact("ADDMOD")
  <2>1. AddMod256(a, b, c) \in Word /\ Value(AddMod256(a, b, c)) = (IF z = 0 THEN 0 ELSE (x + y) % z)
    BY <1>1, ModularExact
  <2>2. Calculate("ADDMOD", a, b, c) = AddMod256(a, b, c) /\ Meaning("ADDMOD", x, y, z) = (IF z = 0 THEN 0 ELSE (x + y) % z)
    BY Zenon DEF Calculate, Meaning, Extended
  <2> QED
    BY <1>1, <2>1, <2>2
<1>10. Exact("MULMOD")
  <2>1. MulMod256(a, b, c) \in Word /\ Value(MulMod256(a, b, c)) = (IF z = 0 THEN 0 ELSE (x * y) % z)
    BY <1>1, ModularExact
  <2>2. Calculate("MULMOD", a, b, c) = MulMod256(a, b, c) /\ Meaning("MULMOD", x, y, z) = (IF z = 0 THEN 0 ELSE (x * y) % z)
    BY Zenon DEF Calculate, Meaning, Extended
  <2> QED
    BY <1>1, <2>1, <2>2
<1>11. Exact("EXP")
  <2>1. Exp256(a, b) \in Word /\ Value(Exp256(a, b)) = Power(x, y)
    BY <1>1, ExpExact
  <2>2. Calculate("EXP", a, b, c) = Exp256(a, b) /\ Meaning("EXP", x, y, z) = Power(x, y)
    BY Zenon DEF Calculate, Meaning, Extended
  <2> QED
    BY <1>1, <2>1, <2>2
<1>12. Exact("SIGNEXTEND")
  <2>1. SignExtend256(u256AsU64(a, WordBytes - 1), b) \in Word /\ Value(SignExtend256(u256AsU64(a, WordBytes - 1), b)) = Extended(x, y)
    <3>1. PICK m \in Nat : m = WordBytes - 1 /\ m < Limb
      BY ByteFacts, LimbFacts
    <3>2. PICK t \in Nat : t = u256AsU64(a, m) /\ (t = x \/ (t = m /\ x >= m))
      BY <1>1, <3>1, Clamped
    <3>3. SignExtend256(t, b) \in Word /\ Value(SignExtend256(t, b)) = Extended(t, y)
      BY <1>1, SignExact
    <3>4. Extended(t, y) = Extended(x, y)
      <4>1. CASE t = x
        BY <4>1
      <4>2. CASE t = m /\ x >= m
        BY <3>1, <4>2 DEF Extended
      <4> QED
        BY <3>2, <4>1, <4>2
    <3> QED
      BY <3>1, <3>2, <3>3, <3>4
  <2>2. Calculate("SIGNEXTEND", a, b, c) = SignExtend256(u256AsU64(a, WordBytes - 1), b) /\ Meaning("SIGNEXTEND", x, y, z) = Extended(x, y)
    BY Zenon DEF Calculate, Meaning, Extended
  <2> QED
    BY <1>1, <2>1, <2>2
<1>13. Exact("LT")
  <2>1. Lt256(a, b) <=> x < y
    BY <1>1, CompareExact
  <2>2. Bool(x < y) \in 0..1 /\ FromU64(Bool(Lt256(a, b))) = FromU64(Bool(x < y))
    BY <2>1 DEF Bool
  <2>3. FromU64(Bool(x < y)) \in Word /\ Value(FromU64(Bool(x < y))) = Bool(x < y)
    BY <2>2, BoolValue
  <2>4. Calculate("LT", a, b, c) = FromU64(Bool(Lt256(a, b))) /\ Meaning("LT", x, y, z) = Bool(x < y)
    BY Zenon DEF Calculate, Meaning, Extended
  <2> QED
    BY <1>1, <2>2, <2>3, <2>4
<1>14. Exact("GT")
  <2>1. Gt256(a, b) <=> x > y
    BY <1>1, CompareExact DEF Gt256
  <2>2. Bool(x > y) \in 0..1 /\ FromU64(Bool(Gt256(a, b))) = FromU64(Bool(x > y))
    BY <2>1 DEF Bool
  <2>3. FromU64(Bool(x > y)) \in Word /\ Value(FromU64(Bool(x > y))) = Bool(x > y)
    BY <2>2, BoolValue
  <2>4. Calculate("GT", a, b, c) = FromU64(Bool(Gt256(a, b))) /\ Meaning("GT", x, y, z) = Bool(x > y)
    BY Zenon DEF Calculate, Meaning, Extended
  <2> QED
    BY <1>1, <2>2, <2>3, <2>4
<1>15. Exact("SLT")
  <2>1. Slt256(a, b) <=> Signed(x) < Signed(y)
    BY <1>1, SignedLess
  <2>2. Bool(Signed(x) < Signed(y)) \in 0..1 /\ FromU64(Bool(Slt256(a, b))) = FromU64(Bool(Signed(x) < Signed(y)))
    BY <2>1 DEF Bool
  <2>3. FromU64(Bool(Signed(x) < Signed(y))) \in Word /\ Value(FromU64(Bool(Signed(x) < Signed(y)))) = Bool(Signed(x) < Signed(y))
    BY <2>2, BoolValue
  <2>4. Calculate("SLT", a, b, c) = FromU64(Bool(Slt256(a, b))) /\ Meaning("SLT", x, y, z) = Bool(Signed(x) < Signed(y))
    BY Zenon DEF Calculate, Meaning, Extended
  <2> QED
    BY <1>1, <2>2, <2>3, <2>4
<1>16. Exact("SGT")
  <2>1. Sgt256(a, b) <=> Signed(x) > Signed(y)
    BY <1>1, SignedGreater
  <2>2. Bool(Signed(x) > Signed(y)) \in 0..1 /\ FromU64(Bool(Sgt256(a, b))) = FromU64(Bool(Signed(x) > Signed(y)))
    BY <2>1 DEF Bool
  <2>3. FromU64(Bool(Signed(x) > Signed(y))) \in Word /\ Value(FromU64(Bool(Signed(x) > Signed(y)))) = Bool(Signed(x) > Signed(y))
    BY <2>2, BoolValue
  <2>4. Calculate("SGT", a, b, c) = FromU64(Bool(Sgt256(a, b))) /\ Meaning("SGT", x, y, z) = Bool(Signed(x) > Signed(y))
    BY Zenon DEF Calculate, Meaning, Extended
  <2> QED
    BY <1>1, <2>2, <2>3, <2>4
<1>17. Exact("EQ")
  <2>1. Eq(a, b) <=> x = y
    BY <1>1, CompareExact
  <2>2. Bool(x = y) \in 0..1 /\ FromU64(Bool(Eq(a, b))) = FromU64(Bool(x = y))
    BY <2>1 DEF Bool
  <2>3. FromU64(Bool(x = y)) \in Word /\ Value(FromU64(Bool(x = y))) = Bool(x = y)
    BY <2>2, BoolValue
  <2>4. Calculate("EQ", a, b, c) = FromU64(Bool(Eq(a, b))) /\ Meaning("EQ", x, y, z) = Bool(x = y)
    BY Zenon DEF Calculate, Meaning, Extended
  <2> QED
    BY <1>1, <2>2, <2>3, <2>4
<1>18. Exact("ISZERO")
  <2>1. IsZero(a) <=> x = 0
    BY <1>1, ZeroValue
  <2>2. Bool(x = 0) \in 0..1 /\ FromU64(Bool(IsZero(a))) = FromU64(Bool(x = 0))
    BY <2>1 DEF Bool
  <2>3. FromU64(Bool(x = 0)) \in Word /\ Value(FromU64(Bool(x = 0))) = Bool(x = 0)
    BY <2>2, BoolValue
  <2>4. Calculate("ISZERO", a, b, c) = FromU64(Bool(IsZero(a))) /\ Meaning("ISZERO", x, y, z) = Bool(x = 0)
    BY Zenon DEF Calculate, Meaning, Extended
  <2> QED
    BY <1>1, <2>2, <2>3, <2>4
<1>19. Exact("AND")
  <2>1. And256(a, b) \in Word /\ Value(And256(a, b)) = FromBits(Bits(x, WordBits) \cap Bits(y, WordBits), WordBits)
    BY <1>1, BitwiseExact
  <2>2. Calculate("AND", a, b, c) = And256(a, b) /\ Meaning("AND", x, y, z) = FromBits(Bits(x, WordBits) \cap Bits(y, WordBits), WordBits)
    BY Zenon DEF Calculate, Meaning, Extended
  <2> QED
    BY <1>1, <2>1, <2>2
<1>20. Exact("OR")
  <2>1. Or256(a, b) \in Word /\ Value(Or256(a, b)) = FromBits(Bits(x, WordBits) \cup Bits(y, WordBits), WordBits)
    BY <1>1, BitwiseExact
  <2>2. Calculate("OR", a, b, c) = Or256(a, b) /\ Meaning("OR", x, y, z) = FromBits(Bits(x, WordBits) \cup Bits(y, WordBits), WordBits)
    BY Zenon DEF Calculate, Meaning, Extended
  <2> QED
    BY <1>1, <2>1, <2>2
<1>21. Exact("XOR")
  <2>1. Xor256(a, b) \in Word /\ Value(Xor256(a, b)) = FromBits(Xor(Bits(x, WordBits), Bits(y, WordBits)), WordBits)
    BY <1>1, BitwiseExact
  <2>2. Calculate("XOR", a, b, c) = Xor256(a, b) /\ Meaning("XOR", x, y, z) = FromBits(Xor(Bits(x, WordBits), Bits(y, WordBits)), WordBits)
    BY Zenon DEF Calculate, Meaning, Extended
  <2> QED
    BY <1>1, <2>1, <2>2
<1>22. Exact("NOT")
  <2>1. Not256(a) \in Word /\ Value(Not256(a)) = Modulus - 1 - x
    BY <1>1, NotExact
  <2>2. Calculate("NOT", a, b, c) = Not256(a) /\ Meaning("NOT", x, y, z) = Modulus - 1 - x
    BY Zenon DEF Calculate, Meaning, Extended
  <2> QED
    BY <1>1, <2>1, <2>2
<1>23. Exact("BYTE")
  <2>1. Byte256(u256AsU64(a, WordBytes), b) \in Word /\ Value(Byte256(u256AsU64(a, WordBytes), b)) = (IF x >= WordBytes THEN 0 ELSE Digit(y, WordBytes - 1 - x, ByteBits))
    <3>1. PICK m \in Nat : m = WordBytes /\ m < Limb
      BY ByteFacts, LimbFacts
    <3>2. PICK t \in Nat : t = u256AsU64(a, m) /\ (t = x \/ (t = m /\ x >= m))
      BY <1>1, <3>1, Clamped
    <3>3. Byte256(t, b) \in Word /\ Value(Byte256(t, b)) = IF t >= WordBytes THEN 0 ELSE Digit(y, WordBytes - 1 - t, ByteBits)
      BY <1>1, ByteExact
    <3> QED
      BY <3>1, <3>2, <3>3
  <2>2. Calculate("BYTE", a, b, c) = Byte256(u256AsU64(a, WordBytes), b) /\ Meaning("BYTE", x, y, z) = (IF x >= WordBytes THEN 0 ELSE Digit(y, WordBytes - 1 - x, ByteBits))
    BY Zenon DEF Calculate, Meaning, Extended
  <2> QED
    BY <1>1, <2>1, <2>2
<1>24. Exact("SHL")
  <2>1. Shl256(a, b) \in Word /\ Value(Shl256(a, b)) = (IF x >= WordBits THEN 0 ELSE (y * 2^x) % Modulus)
    BY <1>1, ShlExact
  <2>2. Calculate("SHL", a, b, c) = Shl256(a, b) /\ Meaning("SHL", x, y, z) = (IF x >= WordBits THEN 0 ELSE (y * 2^x) % Modulus)
    BY Zenon DEF Calculate, Meaning, Extended
  <2> QED
    BY <1>1, <2>1, <2>2
<1>25. Exact("SHR")
  <2>1. Shr256(a, b) \in Word /\ Value(Shr256(a, b)) = (IF x >= WordBits THEN 0 ELSE y \div 2^x)
    BY <1>1, ShrExact
  <2>2. Calculate("SHR", a, b, c) = Shr256(a, b) /\ Meaning("SHR", x, y, z) = (IF x >= WordBits THEN 0 ELSE y \div 2^x)
    BY Zenon DEF Calculate, Meaning, Extended
  <2> QED
    BY <1>1, <2>1, <2>2
<1>26. Exact("SAR")
  <2>1. Sar256(a, b) \in Word /\ Value(Sar256(a, b)) = (Signed(y) \div 2^(IF x >= WordBits THEN WordBits ELSE x)) % Modulus
    BY <1>1, SarExact
  <2>2. Calculate("SAR", a, b, c) = Sar256(a, b) /\ Meaning("SAR", x, y, z) = (Signed(y) \div 2^(IF x >= WordBits THEN WordBits ELSE x)) % Modulus
    BY Zenon DEF Calculate, Meaning, Extended
  <2> QED
    BY <1>1, <2>1, <2>2
<1> QED
  <2>1. op \in {"ADD", "MUL", "SUB", "DIV", "SDIV", "MOD", "SMOD", "ADDMOD", "MULMOD", "EXP", "SIGNEXTEND", "LT", "GT", "SLT", "SGT", "EQ", "ISZERO", "AND", "OR", "XOR", "NOT", "BYTE", "SHL", "SHR", "SAR"}
    BY DEF Unary, Binary, Ternary
  <2> HIDE DEF Exact
  <2>2. Exact(op)
    BY <1>2, <1>3, <1>4, <1>5, <1>6, <1>7, <1>8, <1>9, <1>10, <1>11, <1>12, <1>13, <1>14, <1>15, <1>16, <1>17, <1>18, <1>19, <1>20, <1>21, <1>22, <1>23, <1>24, <1>25, <1>26, <2>1, Zenon
  <2> QED
    BY <2>2 DEF Exact

-----------------------------------------------------------------------------
\* Frames.  A stack's uppermost n items are replaced by those of t.
Replacing(s, n, t, r) ==
  /\ Len(r) = Len(s) - n + Len(t)
  /\ \A i \in 1..(Len(s) - n) : r[i] = s[i]
  /\ \A i \in 1..Len(t) : r[Len(s) - n + i] = t[i]

\* The items below stay, those of t follow them.
LEMMA Replaced ==
  ASSUME NEW S, NEW s \in Seq(S), NEW n \in 0..Len(s), NEW t \in Seq(S)
  PROVE  SubSeq(s, 1, Len(s) - n) \o t \in Seq(S) /\ Replacing(s, n, t, SubSeq(s, 1, Len(s) - n) \o t)
<1>1. PICK r \in Seq(S) : r = SubSeq(s, 1, Len(s) - n) /\ Len(r) = Len(s) - n /\ \A i \in 1..(Len(s) - n) : r[i] = s[i]
  <2>1. PICK m \in Nat : m = Len(s) - n /\ m <= Len(s)
    <3>1. Len(s) - n \in Nat /\ Len(s) - n <= Len(s)
      OBVIOUS
    <3> QED
      BY <3>1
  <2>2. \A i \in 1..m : s[i] \in S
    BY <2>1, ElementOfSeq
  <2>3. /\ SubSeq(s, 1, m) \in Seq(S)
        /\ Len(SubSeq(s, 1, m)) = IF 1 <= m THEN m - 1 + 1 ELSE 0
        /\ \A i \in 1..(m - 1 + 1) : SubSeq(s, 1, m)[i] = s[1 + i - 1]
    BY <2>2, SubSeqProperties
  <2>4. Len(SubSeq(s, 1, m)) = m
    BY <2>3
  <2>5. ASSUME NEW i \in 1..m PROVE SubSeq(s, 1, m)[i] = s[i]
    <3>1. i \in 1..(m - 1 + 1) /\ 1 + i - 1 = i
      OBVIOUS
    <3> QED
      BY <2>3, <3>1
  <2> QED
    BY <2>1, <2>3, <2>4, <2>5
<1>2. /\ r \o t \in Seq(S)
      /\ Len(r \o t) = Len(r) + Len(t)
      /\ \A i \in 1..(Len(r) + Len(t)) : (r \o t)[i] = IF i <= Len(r) THEN r[i] ELSE t[i - Len(r)]
  BY ConcatProperties
<1>3. PICK c \in Seq(S), m \in Nat, l \in Nat :
        /\ c = r \o t /\ m = Len(s) - n /\ l = Len(t)
        /\ m = Len(r) /\ Len(c) = m + l
  <2>1. r \o t \in Seq(S) /\ (Len(s) - n) \in Nat /\ Len(t) \in Nat /\ (Len(s) - n) = Len(r) /\ Len((r \o t)) = (Len(s) - n) + Len(t)
      <3>1. Len(s) - n \in Nat /\ Len(t) \in Nat /\ Len(s) - n = Len(r)
        BY <1>1
      <3> QED
        BY <1>2, <3>1
  <2> QED
    BY <2>1, Zenon
<1>4. \A i \in 1..(m + l) : c[i] = IF i <= m THEN r[i] ELSE t[i - m]
  BY <1>2, <1>3, Zenon
<1>5. ASSUME NEW i \in 1..m PROVE c[i] = s[i]
  <2>1. i \in 1..(m + l) /\ i <= m
    OBVIOUS
  <2> QED
    BY <1>1, <1>3, <1>4, <2>1
<1>6. ASSUME NEW i \in 1..l PROVE c[m + i] = t[i]
  <2>1. m + i \in 1..(m + l) /\ ~(m + i <= m) /\ m + i - m = i
    OBVIOUS
  <2> QED
    BY <1>4, <2>1
<1>7. Replacing(s, n, t, c)
  BY <1>3, <1>5, <1>6 DEF Replacing
<1> QED
  BY <1>1, <1>3, <1>7

\* A frame's fields.
Slots == UNION {[keys -> Word] : keys \in SUBSET Word}
Memories == [0..(memMax - 1) -> 0..(Byte - 1)]
Statuses == {"running", "success", "revert"} \cup Exceptional
Frames ==
  [stack : Seq(Word), pc : Nat, gas : Nat, refund : Nat, status : Statuses, memory : Memories,
   memSize : 0..memMax, retOff : Nat, retSize : Nat, db : [on : BOOLEAN, slots : Slots]]

\* A stack within its limit, and a memory of whole words that is blank behind its size.
Sound(f) ==
  /\ f \in Frames /\ Len(f.stack) <= stackMax
  /\ f.memSize % WordBytes = 0 /\ \A i \in f.memSize..(memMax - 1) : f.memory[i] = 0

\* f and g have the same memory and storage; and are at the same place, too.
Alike(f, g) == g.memory = f.memory /\ g.memSize = f.memSize /\ g.db = f.db
Kept(f, g) == Alike(f, g) /\ g.status = f.status /\ g.gas = f.gas /\ g.pc = f.pc

\* g is f after an exceptional halt.
Stopped(f, st, g) ==
  /\ Sound(g) /\ Alike(f, g) /\ g.status = st /\ g.gas = 0 /\ g.pc = f.pc /\ g.stack = f.stack /\ g.refund = f.refund

\* haltEx takes the gas and sets the status; the rest of the frame stays.
LEMMA HaltedAs ==
  ASSUME NEW f, Sound(f), NEW st \in Statuses
  PROVE  Stopped(f, st, haltEx(f, st))
BY DEF Sound, Frames, haltEx, Alike, Stopped

\* The same for the ways to halt that there are.
LEMMA Halted ==
  ASSUME NEW f, Sound(f)
  PROVE  /\ Stopped(f, "oog", haltEx(f, "oog")) /\ Stopped(f, "underflow", haltEx(f, "underflow"))
         /\ Stopped(f, "overflow", haltEx(f, "overflow")) /\ Stopped(f, "invalid", haltEx(f, "invalid"))
         /\ Stopped(f, "jumpdest", haltEx(f, "jumpdest"))
<1>1. Stopped(f, "oog", haltEx(f, "oog"))
  <2>1. PICK st \in Statuses : st = "oog"
    BY DEF Statuses, Exceptional
  <2> QED
    BY <2>1, HaltedAs
<1>2. Stopped(f, "underflow", haltEx(f, "underflow"))
  <2>1. PICK st \in Statuses : st = "underflow"
    BY DEF Statuses, Exceptional
  <2> QED
    BY <2>1, HaltedAs
<1>3. Stopped(f, "overflow", haltEx(f, "overflow"))
  <2>1. PICK st \in Statuses : st = "overflow"
    BY DEF Statuses, Exceptional
  <2> QED
    BY <2>1, HaltedAs
<1>4. Stopped(f, "invalid", haltEx(f, "invalid"))
  <2>1. PICK st \in Statuses : st = "invalid"
    BY DEF Statuses, Exceptional
  <2> QED
    BY <2>1, HaltedAs
<1>5. Stopped(f, "jumpdest", haltEx(f, "jumpdest"))
  <2>1. PICK st \in Statuses : st = "jumpdest"
    BY DEF Statuses, Exceptional
  <2> QED
    BY <2>1, HaltedAs
<1> QED
  BY <1>1, <1>2, <1>3, <1>4, <1>5

\* Put replaces the uppermost items of a frame that has room for them.
LEMMA Putting ==
  ASSUME NEW f, Sound(f), NEW n \in 0..Len(f.stack), NEW items \in Seq(Word), Len(f.stack) - n + Len(items) <= stackMax
  PROVE  /\ Sound(Put(f, n, items)) /\ Kept(f, Put(f, n, items))
         /\ Replacing(f.stack, n, items, Put(f, n, items).stack)
<1>1. f.stack \in Seq(Word)
  BY DEF Sound, Frames
<1>2. PICK s \in Seq(Word) :
        s = SubSeq(f.stack, 1, Len(f.stack) - n) \o items /\ Replacing(f.stack, n, items, s)
  <2>1. /\ SubSeq(f.stack, 1, Len(f.stack) - n) \o items \in Seq(Word)
        /\ Replacing(f.stack, n, items, SubSeq(f.stack, 1, Len(f.stack) - n) \o items)
    <3>1. PICK s \in Seq(Word) : s = f.stack
      BY <1>1
    <3>2. n \in 0..Len(s)
      BY <3>1
    <3>3. SubSeq(s, 1, Len(s) - n) \o items \in Seq(Word) /\ Replacing(s, n, items, SubSeq(s, 1, Len(s) - n) \o items)
      BY <3>2, Replaced
    <3> QED
      BY <3>1, <3>3
  <2> QED
    BY <2>1, Zenon
<1>3. Put(f, n, items) = [f EXCEPT !.stack = s]
  BY <1>2 DEF Put
<1>4. /\ [f EXCEPT !.stack = s].stack = s
      /\ Kept(f, [f EXCEPT !.stack = s])
      /\ [f EXCEPT !.stack = s] \in Frames
  BY DEF Sound, Frames, Alike, Kept
<1>5. Sound([f EXCEPT !.stack = s])
  BY <1>2, <1>4 DEF Sound, Alike, Kept, Replacing
<1> QED
  BY <1>2, <1>3, <1>4, <1>5

\* The uppermost n items are dropped, and replaced by one.
LEMMA Dropped ==
  ASSUME NEW f, Sound(f), NEW n \in 0..Len(f.stack)
  PROVE  /\ Sound(Put(f, n, <<>>)) /\ Kept(f, Put(f, n, <<>>))
         /\ Len(Put(f, n, <<>>).stack) = Len(f.stack) - n
<1>1. f.stack \in Seq(Word) /\ Len(f.stack) \in Nat /\ Len(f.stack) <= stackMax /\ stackMax \in Nat
  BY FrameAssumption DEF Sound, Frames
<1>2. PICK t \in Seq(Word) : t = <<>> /\ Len(t) = 0
  BY EmptySeq
<1>3. Len(f.stack) - n + Len(t) <= stackMax
  BY <1>1, <1>2
<1>4. Sound(Put(f, n, t)) /\ Kept(f, Put(f, n, t)) /\ Replacing(f.stack, n, t, Put(f, n, t).stack)
  BY <1>3, Putting
<1>5. Len(Put(f, n, t).stack) = Len(f.stack) - n + Len(t)
  BY <1>4 DEF Replacing
<1> QED
  BY <1>1, <1>2, <1>4, <1>5

\* One item in the place of n: it is on top.
LEMMA Topped ==
  ASSUME NEW f, Sound(f), NEW n \in 0..Len(f.stack), NEW x \in Word, Len(f.stack) - n < stackMax
  PROVE  /\ Sound(Put(f, n, <<x>>)) /\ Kept(f, Put(f, n, <<x>>))
         /\ Len(Put(f, n, <<x>>).stack) = Len(f.stack) - n + 1
         /\ Top(Put(f, n, <<x>>), 0) = x
<1>1. f.stack \in Seq(Word) /\ Len(f.stack) \in Nat /\ Len(f.stack) <= stackMax /\ stackMax \in Nat
  BY FrameAssumption DEF Sound, Frames
<1>2. PICK t \in Seq(Word) : t = <<x>> /\ Len(t) = 1 /\ t[1] = x
  <2>1. <<x>> \in Seq(Word) /\ Len(<<x>>) = 1 /\ <<x>>[1] = x
    OBVIOUS
  <2> QED
    BY <2>1, Zenon
<1>3. Len(f.stack) - n + Len(t) <= stackMax
  BY <1>1, <1>2
<1>4. Sound(Put(f, n, t)) /\ Kept(f, Put(f, n, t)) /\ Replacing(f.stack, n, t, Put(f, n, t).stack)
  BY <1>3, Putting
<1>5. Len(Put(f, n, t).stack) = Len(f.stack) - n + 1 /\ Put(f, n, t).stack[Len(f.stack) - n + 1] = x
  BY <1>2, <1>4 DEF Replacing
<1> QED
  <2>1. PICK l \in Nat :
          /\ l = Len(f.stack) - n + 1
          /\ l - 0 = l
    <3>1. (Len(f.stack) - n + 1) \in Nat /\ (Len(f.stack) - n + 1) - 0 = (Len(f.stack) - n + 1)
        BY <1>1
    <3> QED
      BY <3>1, Zenon
  <2>2. Top(Put(f, n, t), 0) = x
    BY <1>5, <2>1 DEF Top
  <2> QED
    BY <1>2, <1>4, <1>5, <2>2

\* The other fields.
LEMMA GasSet ==
  ASSUME NEW f, Sound(f), NEW v \in Nat
  PROVE  /\ Sound([f EXCEPT !.gas = v]) /\ Alike(f, [f EXCEPT !.gas = v])
         /\ [f EXCEPT !.gas = v].gas = v /\ [f EXCEPT !.gas = v].pc = f.pc
         /\ [f EXCEPT !.gas = v].status = f.status /\ [f EXCEPT !.gas = v].stack = f.stack
BY DEF Sound, Frames, Alike

\* A frame with another pc is as sound as before,
LEMMA PcSet ==
  ASSUME NEW f, Sound(f), NEW v \in Nat
  PROVE  /\ Sound([f EXCEPT !.pc = v]) /\ Alike(f, [f EXCEPT !.pc = v])
         /\ [f EXCEPT !.pc = v].pc = v /\ [f EXCEPT !.pc = v].gas = f.gas
         /\ [f EXCEPT !.pc = v].status = f.status /\ [f EXCEPT !.pc = v].stack = f.stack
BY DEF Sound, Frames, Alike

\* and one with another status.
LEMMA StatusSet ==
  ASSUME NEW f, Sound(f), NEW st \in Statuses
  PROVE  /\ Sound([f EXCEPT !.status = st]) /\ Alike(f, [f EXCEPT !.status = st])
         /\ [f EXCEPT !.status = st].pc = f.pc /\ [f EXCEPT !.status = st].gas = f.gas
         /\ [f EXCEPT !.status = st].status = st /\ [f EXCEPT !.status = st].stack = f.stack
BY DEF Sound, Frames, Alike

\* The items of a stack.
LEMMA Tops ==
  ASSUME NEW f, Sound(f), NEW i \in Nat, i < Len(f.stack)
  PROVE  Top(f, i) \in Word /\ Len(f.stack) \in Nat /\ Len(f.stack) <= stackMax
<1>1. f.stack \in Seq(Word) /\ Len(f.stack) \in Nat /\ Len(f.stack) <= stackMax
  BY DEF Sound, Frames
<1>2. Len(f.stack) - i \in 1..Len(f.stack)
  BY <1>1
<1>3. f.stack[Len(f.stack) - i] \in Word
  BY <1>1, <1>2, ElementOfSeq
<1> QED
  BY <1>1, <1>3 DEF Top

-----------------------------------------------------------------------------
\* What StepOne does for every instruction.

\* The switch of StepOne, arm by arm: what execute is for each instruction.
LEMMA DoesSTOP ==
  ASSUME NEW n, NEW f, NEW prog
  PROVE  execute("STOP", n, f, prog) = [f EXCEPT !.status = "success"]
BY Zenon DEF execute, Unary, Binary, Ternary

\* JUMPDEST.
LEMMA DoesJUMPDEST ==
  ASSUME NEW n, NEW f, NEW prog
  PROVE  execute("JUMPDEST", n, f, prog) = f
BY Zenon DEF execute, Unary, Binary, Ternary

\* POP.
LEMMA DoesPOP ==
  ASSUME NEW n, NEW f, NEW prog
  PROVE  execute("POP", n, f, prog) = Put(f, 1, <<>>)
BY Zenon DEF execute, Unary, Binary, Ternary

\* MLOAD.
LEMMA DoesMLOAD ==
  ASSUME NEW n, NEW f, NEW prog
  PROVE  execute("MLOAD", n, f, prog) = execMemory("MLOAD", f)
BY Zenon DEF execute, Unary, Binary, Ternary

\* MSTORE.
LEMMA DoesMSTORE ==
  ASSUME NEW n, NEW f, NEW prog
  PROVE  execute("MSTORE", n, f, prog) = execMemory("MSTORE", f)
BY Zenon DEF execute, Unary, Binary, Ternary

\* MSTORE8.
LEMMA DoesMSTORE8 ==
  ASSUME NEW n, NEW f, NEW prog
  PROVE  execute("MSTORE8", n, f, prog) = execMemory("MSTORE8", f)
BY Zenon DEF execute, Unary, Binary, Ternary

\* KECCAK256.
LEMMA DoesKECCAK256 ==
  ASSUME NEW n, NEW f, NEW prog
  PROVE  execute("KECCAK256", n, f, prog) = execMemory("KECCAK256", f)
BY Zenon DEF execute, Unary, Binary, Ternary

\* REVERT.
LEMMA DoesREVERT ==
  ASSUME NEW n, NEW f, NEW prog
  PROVE  execute("REVERT", n, f, prog) = execMemory("REVERT", f)
BY Zenon DEF execute, Unary, Binary, Ternary

\* SLOAD.
LEMMA DoesSLOAD ==
  ASSUME NEW n, NEW f, NEW prog
  PROVE  execute("SLOAD", n, f, prog) = execStorage("SLOAD", f)
BY Zenon DEF execute, Unary, Binary, Ternary

\* SSTORE.
LEMMA DoesSSTORE ==
  ASSUME NEW n, NEW f, NEW prog
  PROVE  execute("SSTORE", n, f, prog) = execStorage("SSTORE", f)
BY Zenon DEF execute, Unary, Binary, Ternary

\* JUMP.
LEMMA DoesJUMP ==
  ASSUME NEW n, NEW f, NEW prog
  PROVE  execute("JUMP", n, f, prog) = (IF JumpTo(f, prog, Top(f, 0)).status = "running" THEN Put(JumpTo(f, prog, Top(f, 0)), 1, <<>>) ELSE JumpTo(f, prog, Top(f, 0)))
BY Zenon DEF execute, Unary, Binary, Ternary

\* JUMPI.
LEMMA DoesJUMPI ==
  ASSUME NEW n, NEW f, NEW prog
  PROVE  execute("JUMPI", n, f, prog) = (IF (IF IsZero(Top(f, 1)) THEN f ELSE JumpTo(f, prog, Top(f, 0))).status = "running" THEN Put(IF IsZero(Top(f, 1)) THEN f ELSE JumpTo(f, prog, Top(f, 0)), 2, <<>>) ELSE (IF IsZero(Top(f, 1)) THEN f ELSE JumpTo(f, prog, Top(f, 0))))
BY Zenon DEF execute, Unary, Binary, Ternary

\* PC.
LEMMA DoesPC ==
  ASSUME NEW n, NEW f, NEW prog
  PROVE  execute("PC", n, f, prog) = WithRoom(f, Put(f, 0, <<FromU64(f.pc - 1)>>))
BY Zenon DEF execute, Unary, Binary, Ternary

\* MSIZE.
LEMMA DoesMSIZE ==
  ASSUME NEW n, NEW f, NEW prog
  PROVE  execute("MSIZE", n, f, prog) = WithRoom(f, Put(f, 0, <<FromU64(f.memSize)>>))
BY Zenon DEF execute, Unary, Binary, Ternary

\* GAS.
LEMMA DoesGAS ==
  ASSUME NEW n, NEW f, NEW prog
  PROVE  execute("GAS", n, f, prog) = WithRoom(f, Put(f, 0, <<FromU64(f.gas)>>))
BY Zenon DEF execute, Unary, Binary, Ternary

\* PUSH0.
LEMMA DoesPUSH0 ==
  ASSUME NEW n, NEW f, NEW prog
  PROVE  execute("PUSH0", n, f, prog) = WithRoom(f, Put(f, 0, <<Zero>>))
BY Zenon DEF execute, Unary, Binary, Ternary

\* PUSH.
LEMMA DoesPUSH ==
  ASSUME NEW n, NEW f, NEW prog
  PROVE  execute("PUSH", n, f, prog) = execPush(f, prog, n)
BY Zenon DEF execute, Unary, Binary, Ternary

\* DUP.
LEMMA DoesDUP ==
  ASSUME NEW n, NEW f, NEW prog
  PROVE  execute("DUP", n, f, prog) = WithRoom(f, Put(f, 0, <<Top(f, n - 1)>>))
BY Zenon DEF execute, Unary, Binary, Ternary

\* SWAP.
LEMMA DoesSWAP ==
  ASSUME NEW n, NEW f, NEW prog
  PROVE  execute("SWAP", n, f, prog) = [f EXCEPT !.stack = [f.stack EXCEPT ![Len(f.stack)] = f.stack[Len(f.stack) - n], ![Len(f.stack) - n] = f.stack[Len(f.stack)]]]
BY Zenon DEF execute, Unary, Binary, Ternary

\* All arithmetic pays for an exponent, and leaves one item.
LEMMA DoesCalculate ==
  ASSUME NEW op \in Unary \cup Binary \cup Ternary, NEW n, NEW f, NEW prog
  PROVE  execute(op, n, f, prog) = Extra(f, (IF op = "EXP" THEN 50 * u256ByteLen(Top(f, 1)) ELSE 0), [Put(f, Takes(op, n), <<Calculate(op, Top(f, 0), Top(f, 1), Top(f, 2))>>) EXCEPT !.gas = f.gas - (IF op = "EXP" THEN 50 * u256ByteLen(Top(f, 1)) ELSE 0)])
<1>1. op \notin {"STOP", "JUMPDEST", "POP", "MLOAD", "MSTORE", "MSTORE8", "KECCAK256", "REVERT", "SLOAD", "SSTORE", "JUMP", "JUMPI", "PC", "MSIZE", "GAS", "PUSH0", "PUSH", "DUP", "SWAP"}
  BY DEF Unary, Binary, Ternary
<1> QED
  BY <1>1, Zenon DEF execute

\* The gas of every instruction.
LEMMA GasOf ==
  ASSUME NEW op
  PROVE  /\ op \in Known => opGas(op) \in Nat
         /\ op \notin Known => opGas(op) = Invalid
         /\ op \in {"STOP", "REVERT"} => opGas(op) = 0
         /\ op = "JUMPDEST" => opGas(op) = 1
         /\ op \in {"POP", "PC", "MSIZE", "GAS", "PUSH0"} => opGas(op) = 2
         /\ op \in {"MUL", "DIV", "SDIV", "MOD", "SMOD", "SIGNEXTEND"} => opGas(op) = 5
         /\ op \in {"ADDMOD", "MULMOD", "JUMP"} => opGas(op) = 8
         /\ op \in {"EXP", "JUMPI"} => opGas(op) = 10
         /\ op = "KECCAK256" => opGas(op) = keccakGas
         /\ op = "SLOAD" => opGas(op) = sloadGas
         /\ op = "SSTORE" => opGas(op) = sstoreGas
         /\ op \in {"ADD", "SUB", "LT", "GT", "SLT", "SGT", "EQ", "ISZERO", "AND", "OR", "XOR", "NOT", "BYTE", "SHL",
                     "SHR", "SAR", "MLOAD", "MSTORE", "MSTORE8", "PUSH", "DUP", "SWAP"} => opGas(op) = 3
<1> DEFINE Free == {"STOP", "REVERT"}
           Base == {"POP", "PC", "MSIZE", "GAS", "PUSH0"}
           PushPart == {"MUL", "DIV", "SDIV", "MOD", "SMOD", "SIGNEXTEND"}
           Mid == {"ADDMOD", "MULMOD", "JUMP"}
           High == {"EXP", "JUMPI"}
           Cheap == {"ADD", "SUB", "LT", "GT", "SLT", "SGT", "EQ", "ISZERO", "AND", "OR", "XOR", "NOT", "BYTE", "SHL",
                     "SHR", "SAR", "MLOAD", "MSTORE", "MSTORE8", "PUSH", "DUP", "SWAP"}
<1>1. opGas(op) = CASE op \in Free -> 0
                    [] op = "JUMPDEST" -> 1
                    [] op \in Base -> 2
                    [] op \in PushPart -> 5
                    [] op \in Mid -> 8
                    [] op \in High -> 10
                    [] op = "KECCAK256" -> keccakGas
                    [] op = "SLOAD" -> sloadGas
                    [] op = "SSTORE" -> sstoreGas
                    [] op \in Cheap -> 3
                    [] OTHER -> Invalid
  BY Zenon DEF opGas
<1>2. op \in Free => op # "JUMPDEST" /\ op \notin Base /\ op \notin PushPart /\ op \notin Mid /\ op \notin High /\ op # "KECCAK256" /\ op # "SLOAD" /\ op # "SSTORE" /\ op \notin Cheap
  OBVIOUS
<1>3. op = "JUMPDEST" => op \notin Free /\ op \notin Base /\ op \notin PushPart /\ op \notin Mid /\ op \notin High /\ op # "KECCAK256" /\ op # "SLOAD" /\ op # "SSTORE" /\ op \notin Cheap
  OBVIOUS
<1>4. op \in Base => op \notin Free /\ op # "JUMPDEST" /\ op \notin PushPart /\ op \notin Mid /\ op \notin High /\ op # "KECCAK256" /\ op # "SLOAD" /\ op # "SSTORE" /\ op \notin Cheap
  OBVIOUS
<1>5. op \in PushPart => op \notin Free /\ op # "JUMPDEST" /\ op \notin Base /\ op \notin Mid /\ op \notin High /\ op # "KECCAK256" /\ op # "SLOAD" /\ op # "SSTORE" /\ op \notin Cheap
  OBVIOUS
<1>6. op \in Mid => op \notin Free /\ op # "JUMPDEST" /\ op \notin Base /\ op \notin PushPart /\ op \notin High /\ op # "KECCAK256" /\ op # "SLOAD" /\ op # "SSTORE" /\ op \notin Cheap
  OBVIOUS
<1>7. op \in High => op \notin Free /\ op # "JUMPDEST" /\ op \notin Base /\ op \notin PushPart /\ op \notin Mid /\ op # "KECCAK256" /\ op # "SLOAD" /\ op # "SSTORE" /\ op \notin Cheap
  OBVIOUS
<1>8. op = "KECCAK256" => op \notin Free /\ op # "JUMPDEST" /\ op \notin Base /\ op \notin PushPart /\ op \notin Mid /\ op \notin High /\ op # "SLOAD" /\ op # "SSTORE" /\ op \notin Cheap
  OBVIOUS
<1>9. op = "SLOAD" => op \notin Free /\ op # "JUMPDEST" /\ op \notin Base /\ op \notin PushPart /\ op \notin Mid /\ op \notin High /\ op # "KECCAK256" /\ op # "SSTORE" /\ op \notin Cheap
  OBVIOUS
<1>10. op = "SSTORE" => op \notin Free /\ op # "JUMPDEST" /\ op \notin Base /\ op \notin PushPart /\ op \notin Mid /\ op \notin High /\ op # "KECCAK256" /\ op # "SLOAD" /\ op \notin Cheap
  OBVIOUS
<1>11. op \in Cheap => op \notin Free /\ op # "JUMPDEST" /\ op \notin Base /\ op \notin PushPart /\ op \notin Mid /\ op \notin High /\ op # "KECCAK256" /\ op # "SLOAD" /\ op # "SSTORE"
  OBVIOUS
<1>12. op \notin Known => op \notin Free /\ op # "JUMPDEST" /\ op \notin Base /\ op \notin PushPart /\ op \notin Mid /\ op \notin High /\ op # "KECCAK256" /\ op # "SLOAD" /\ op # "SSTORE" /\ op \notin Cheap
  BY DEF Known, Unary, Binary, Ternary
<1>13. op \in Known => op \in Free \/ op = "JUMPDEST" \/ op \in Base \/ op \in PushPart \/ op \in Mid \/ op \in High \/ op = "KECCAK256" \/ op = "SLOAD" \/ op = "SSTORE" \/ op \in Cheap
  BY DEF Known, Unary, Binary, Ternary
<1> HIDE DEF Free, Base, PushPart, Mid, High, Cheap
<1>14. op \in Free => opGas(op) = 0
  BY <1>1, <1>2, Zenon
<1>15. op = "JUMPDEST" => opGas(op) = 1
  BY <1>1, <1>3, Zenon
<1>16. op \in Base => opGas(op) = 2
  BY <1>1, <1>4, Zenon
<1>17. op \in PushPart => opGas(op) = 5
  BY <1>1, <1>5, Zenon
<1>18. op \in Mid => opGas(op) = 8
  BY <1>1, <1>6, Zenon
<1>19. op \in High => opGas(op) = 10
  BY <1>1, <1>7, Zenon
<1>20. op = "KECCAK256" => opGas(op) = keccakGas
  BY <1>1, <1>8, Zenon
<1>21. op = "SLOAD" => opGas(op) = sloadGas
  BY <1>1, <1>9, Zenon
<1>22. op = "SSTORE" => opGas(op) = sstoreGas
  BY <1>1, <1>10, Zenon
<1>23. op \in Cheap => opGas(op) = 3
  BY <1>1, <1>11, Zenon
<1>24. op \notin Known => opGas(op) = Invalid
  BY <1>1, <1>12, Zenon
<1>25. op \in Known => opGas(op) \in Nat
  BY <1>13, <1>14, <1>15, <1>16, <1>17, <1>18, <1>19, <1>20, <1>21, <1>22, <1>23, <1>24 DEF keccakGas, sloadGas, sstoreGas
<1> QED
  BY <1>14, <1>15, <1>16, <1>17, <1>18, <1>19, <1>20, <1>21, <1>22, <1>23, <1>24, <1>25 DEF Free, Base, PushPart, Mid, High, Cheap

\* The numbers of items taken.
LEMMA TakesOf ==
  ASSUME NEW op \in Known, NEW n \in Nat
  PROVE  /\ op \in Unary \cup {"POP", "MLOAD", "SLOAD", "JUMP"} => Takes(op, n) = 1
         /\ op \in Binary \cup {"MSTORE", "MSTORE8", "SSTORE", "JUMPI", "KECCAK256", "REVERT"} => Takes(op, n) = 2
         /\ op \in Ternary => Takes(op, n) = 3
         /\ op = "DUP" => Takes(op, n) = n
         /\ op = "SWAP" => Takes(op, n) = n + 1
         /\ op \in {"STOP", "JUMPDEST", "PC", "MSIZE", "GAS", "PUSH0", "PUSH"} => Takes(op, n) = 0
<1> DEFINE A == Unary \cup {"POP", "MLOAD", "SLOAD", "JUMP"}
           B == Binary \cup {"MSTORE", "MSTORE8", "SSTORE", "JUMPI", "KECCAK256", "REVERT"}
           E == {"STOP", "JUMPDEST", "PC", "MSIZE", "GAS", "PUSH0", "PUSH"}
<1>1. ASSUME op \in A PROVE Takes(op, n) = 1
  <2>1. op \notin B /\ op \notin Ternary /\ op # "DUP" /\ op # "SWAP"
    BY <1>1 DEF Unary, Binary, Ternary
  <2> QED
    BY <1>1, <2>1, Zenon DEF Takes
<1>2. ASSUME op \in B PROVE Takes(op, n) = 2
  <2>1. op \notin A /\ op \notin Ternary /\ op # "DUP" /\ op # "SWAP"
    BY <1>2 DEF Unary, Binary, Ternary
  <2> QED
    BY <1>2, <2>1, Zenon DEF Takes
<1>3. ASSUME op \in Ternary PROVE Takes(op, n) = 3
  <2>1. op \notin A /\ op \notin B /\ op # "DUP" /\ op # "SWAP"
    BY <1>3 DEF Unary, Binary, Ternary
  <2> QED
    BY <1>3, <2>1, Zenon DEF Takes
<1>4. ASSUME op = "DUP" PROVE Takes(op, n) = n
  <2>1. op \notin A /\ op \notin B /\ op \notin Ternary /\ op # "SWAP"
    BY <1>4 DEF Unary, Binary, Ternary
  <2> QED
    BY <1>4, <2>1, Zenon DEF Takes
<1>5. ASSUME op = "SWAP" PROVE Takes(op, n) = n + 1
  <2>1. op \notin A /\ op \notin B /\ op \notin Ternary /\ op # "DUP"
    BY <1>5 DEF Unary, Binary, Ternary
  <2> QED
    BY <1>5, <2>1, Zenon DEF Takes
<1>6. ASSUME op \in E PROVE Takes(op, n) = 0
  <2>1. op \notin A /\ op \notin B /\ op \notin Ternary /\ op # "DUP" /\ op # "SWAP"
    BY <1>6 DEF Unary, Binary, Ternary
  <2> QED
    BY <1>6, <2>1, Zenon DEF Takes
<1> QED
  BY <1>1, <1>2, <1>3, <1>4, <1>5, <1>6

-----------------------------------------------------------------------------
\* Memory.  The words that hold size bytes.
LEMMA WordsOf ==
  ASSUME NEW size \in Nat
  PROVE  /\ Words(size) \in Nat /\ size <= Words(size) * WordBytes
         /\ Words(size) * WordBytes < size + WordBytes
         /\ (Words(size) * WordBytes) % WordBytes = 0
         /\ Words(size) * WordBytes \in Nat /\ memGas(Words(size)) \in Nat
<1>1. PICK W \in Nat \ {0} : W = WordBytes
  BY ByteFacts
<1>2. PICK x \in Int : x = size + W - 1 /\ 0 <= x
  OBVIOUS
<1>3. PICK q \in Int, r \in Int : q = x \div W /\ r = x % W /\ x = W * q + r /\ 0 <= r /\ r < W
  BY DivPick, Zenon
<1>4. 0 <= q
  BY <1>2, <1>3
<1>5. PICK P \in Int : P = q * W /\ P = W * q
  OBVIOUS
<1>6. size <= P /\ P < size + W
  BY <1>2, <1>3, <1>5
<1>7. P % W = 0
  <2>1. PICK zero \in Int : zero = 0
    OBVIOUS
  <2>2. Division(P, W, q, zero)
    BY <1>5, <2>1 DEF Division
  <2> QED
    BY <2>1, <2>2, Divides
<1>8. Words(size) = q
  BY <1>1, <1>2, <1>3 DEF Words
<1>9. memGas(q) \in Nat
  <2>1. PICK s \in Int : s = q * q /\ 0 <= s
    BY <1>4
  <2>2. s \div 512 \in Nat
    BY <2>1
  <2> QED
    BY <1>4, <2>1, <2>2 DEF memGas
<1> QED
  BY <1>1, <1>4, <1>5, <1>6, <1>7, <1>8, <1>9

\* The words of whole words.
LEMMA WordsWhole ==
  ASSUME NEW size \in Nat, size % WordBytes = 0
  PROVE  Words(size) * WordBytes = size
<1>1. PICK W \in Nat \ {0} : W = WordBytes
  BY ByteFacts
<1>2. PICK q \in Int, r \in Int : q = size \div W /\ r = size % W /\ size = W * q + r /\ 0 <= r /\ r < W
  <2>1. size \in Int
    OBVIOUS
  <2> QED
    BY <2>1, DivPick, Zenon
<1>3. r = 0 /\ size = W * q
  BY <1>1, <1>2
<1>4. Division(size + W - 1, W, q, W - 1)
  BY <1>3 DEF Division
<1>5. Words(size) = q
  BY <1>1, <1>4, Divides DEF Words
<1> QED
  BY <1>1, <1>3, <1>5

\* g is f after memory for a range is paid for, or out of gas.
Grown(f, g) ==
  /\ Sound(g) /\ g.pc = f.pc /\ g.stack = f.stack /\ g.db = f.db /\ g.memory = f.memory /\ g.refund = f.refund
  /\ g.status \in {"running", "oog"}
Reaches(g, offset, size) == g.status = "running" => size = 0 \/ offset + size <= g.memSize

\* Ends of ranges that chargeMem admits do not wrap: 64 bits hold them.
LEMMA NoWrap ==
  ASSUME NEW offset \in Nat, NEW size \in Nat
  PROVE  /\ (offset + size) % Limb \in Nat
         /\ offset + size <= memMax => (offset + size) % Limb = offset + size
<1>1. memMax \in Nat /\ memMax < Limb /\ Limb \in Nat \ {0}
  BY FrameAssumption, LimbFacts
<1>2. PICK e \in Nat : e = offset + size
  OBVIOUS
<1>3. (e % Limb) \in Nat
  BY <1>1, DivMod
<1>4. ASSUME e <= memMax PROVE (e % Limb) = e
  BY <1>1, <1>4, DivSmall
<1> QED
  BY <1>2, <1>3, <1>4

\* chargeMem leaves a sound frame whose memory reaches the range, or halts.
LEMMA Charging ==
  ASSUME NEW f, Sound(f), f.status = "running", NEW offset \in Nat, NEW size \in Nat
  PROVE  Grown(f, chargeMem(f, offset, size)) /\ Reaches(chargeMem(f, offset, size), offset, size)
<1> DEFINE end == (offset + size) % Limb
           new == Words(end) * WordBytes
           delta == memGas(Words(end)) - memGas(Words(f.memSize))
           g == chargeMem(f, offset, size)
<1>1. f \in Frames /\ f.memSize \in Nat /\ f.memSize <= memMax /\ f.gas \in Nat /\ memMax \in Nat
  BY FrameAssumption DEF Sound, Frames
<1>2. end \in Nat /\ (offset + size <= memMax => end = offset + size)
  BY NoWrap
<1> HIDE DEF end
<1>3. new \in Nat /\ end <= new /\ new % WordBytes = 0 /\ memGas(Words(end)) \in Nat
  BY <1>2, WordsOf
<1>4. memGas(Words(f.memSize)) \in Nat
  BY <1>1, WordsOf
<1>5. delta \in Int
  BY <1>3, <1>4
<1>6. g = IF size = 0 THEN f
          ELSE IF offset >= memMax \/ size > memMax - offset \/ new > memMax THEN haltEx(f, "oog")
          ELSE IF new <= f.memSize THEN f
          ELSE IF delta < 0 \/ f.gas < delta THEN haltEx(f, "oog")
          ELSE [f EXCEPT !.gas = f.gas - delta, !.memSize = new]
  BY DEF chargeMem, end
<1> HIDE DEF g, new, delta
<1>7. CASE g = f
  <2>1. size = 0 \/ (new <= f.memSize /\ offset + size <= memMax)
    <3>1. haltEx(f, "oog").status = "oog" /\ f.status = "running"
      BY <1>1 DEF haltEx, Frames
    <3>2. haltEx(f, "oog") # f
      BY <3>1
    <3>3. PICK h : h = [f EXCEPT !.gas = f.gas - delta, !.memSize = new] /\ h.memSize = new
      <4>1. [f EXCEPT !.gas = f.gas - delta, !.memSize = new].memSize = new
        BY <1>1 DEF Frames
      <4> QED
        BY <4>1, Zenon
    <3>4. CASE g = h
      BY <1>1, <1>3, <1>6, <1>7, <3>2, <3>3, <3>4
    <3>5. CASE g # h
      BY <1>1, <1>6, <1>7, <3>2, <3>3, <3>5
    <3> QED
      BY <3>4, <3>5
  <2>2. Reaches(g, offset, size)
    BY <1>1, <1>2, <1>3, <1>7, <2>1 DEF Reaches
  <2> QED
    BY <1>7, <2>2 DEF Grown, g
<1>8. CASE g = haltEx(f, "oog")
  <2>1. Stopped(f, "oog", g)
    BY <1>8, Halted
  <2> QED
    BY <2>1 DEF Grown, Reaches, Alike, Stopped, g
<1>9. CASE g = [f EXCEPT !.gas = f.gas - delta, !.memSize = new] /\ f.gas - delta \in Nat /\ new <= memMax /\ f.memSize <= new
              /\ offset + size <= memMax
  <2>1. /\ g.gas = f.gas - delta /\ g.memSize = new /\ g.pc = f.pc /\ g.stack = f.stack /\ g.db = f.db /\ g.memory = f.memory
        /\ g.refund = f.refund /\ g.status = f.status
    BY <1>1, <1>9 DEF Frames
  <2>2. new \in 0..memMax
    BY <1>1, <1>3, <1>9
  <2>3. g \in Frames
    BY <1>1, <1>9, <2>2 DEF Frames
  <2>4. \A i \in new..(memMax - 1) : f.memory[i] = 0
    BY <1>1, <1>3, <1>9 DEF Sound
  <2>5. Sound(g)
    BY <1>3, <2>1, <2>3, <2>4 DEF Sound
  <2> QED
    BY <1>2, <1>3, <1>9, <2>1, <2>5 DEF Grown, Reaches, g
<1> QED
  <2>1. g = f \/ g = haltEx(f, "oog") \/ (g = [f EXCEPT !.gas = f.gas - delta, !.memSize = new] /\ f.gas - delta \in Nat /\ new <= memMax /\ f.memSize <= new
          /\ offset + size <= memMax)
    BY <1>1, <1>3, <1>5, <1>6
  <2> QED
    BY <1>7, <1>8, <1>9, <2>1 DEF g

\* The same for a range given by two words.
LEMMA ChargingWords ==
  ASSUME NEW f, Sound(f), f.status = "running", NEW offset \in Word, NEW size \in Word
  PROVE  /\ Grown(f, Charged(f, offset, size)) /\ Reaches(Charged(f, offset, size), offset[0], size[0])
         /\ offset[0] \in Nat /\ size[0] \in Nat
<1>1. offset[0] \in Nat /\ size[0] \in Nat
  BY NarrowValue, LimbFacts
<1>2. CASE FitsU64(offset) /\ FitsU64(size)
  BY <1>1, <1>2, Charging DEF Charged
<1>3. CASE ~(FitsU64(offset) /\ FitsU64(size))
  <2>1. Charged(f, offset, size) = haltEx(f, "oog")
    BY <1>3 DEF Charged
  <2>2. Stopped(f, "oog", haltEx(f, "oog"))
    BY Halted
  <2> QED
    BY <1>1, <2>1, <2>2 DEF Grown, Reaches, Alike, Stopped
<1> QED
  BY <1>2, <1>3

\* A function on 1..n is a sequence.
LEMMA Listed ==
  ASSUME NEW S, NEW n \in Nat, NEW s \in [1..n -> S]
  PROVE  s \in Seq(S) /\ Len(s) = n
<1>1. s \in UNION {[1..m -> S] : m \in Nat}
  OBVIOUS
<1>2. s \in Seq(S)
  BY <1>1, SeqDef, Zenon
<1>3. Len(s) \in Nat /\ DOMAIN s = 1..Len(s)
  BY <1>2, LenProperties
<1>4. 1..Len(s) = 1..n
  BY <1>3
<1>5. PICK l \in Nat : l = Len(s) /\ 1..l = 1..n
  BY <1>3, <1>4
<1>6. l = n
  <2>1. ASSUME l < n PROVE FALSE
    <3>1. n \in 1..n /\ n \notin 1..l
      BY <2>1
    <3> QED
      BY <1>5, <3>1
  <2>2. ASSUME n < l PROVE FALSE
    <3>1. l \in 1..l /\ l \notin 1..n
      BY <2>2
    <3> QED
      BY <1>5, <3>1
  <2> QED
    BY <2>1, <2>2
<1> QED
  BY <1>2, <1>5, <1>6

\* A number of one limb as a word.
LEMMA SmallWord ==
  ASSUME NEW v \in 0..(Limb - 1)
  PROVE  FromU64(v) \in Word /\ FitsU64(FromU64(v)) /\ FromU64(v)[0] = v
<1>1. PICK z : z = [Zero EXCEPT ![0] = v]
  OBVIOUS
<1>2. Limbs \in Nat /\ Limbs >= 2 /\ Limb \in Nat /\ Limb >= 2
  BY LimbFacts
<1>3. 0 \in Index
  BY <1>2 DEF Index
<1>4. z \in Word /\ z[0] = v /\ \A i \in Index \ {0} : z[i] = 0
  BY <1>1, <1>2, <1>3 DEF Zero, Word
<1>5. Value(z) = v
  BY <1>4, NarrowValue
<1>6. FromU64(v) = z
  BY <1>4, <1>5, ValueDigits
<1> QED
  BY <1>4, <1>6 DEF FitsU64

\* Bytes written within the size of the memory.
LEMMA Writing ==
  ASSUME NEW f, Sound(f), NEW offset \in Nat, NEW n \in Nat, NEW bytes \in [1..n -> 0..(Byte - 1)], offset + n <= f.memSize
  PROVE  LET g == Written(f, offset, bytes)
         IN  /\ Sound(g) /\ g.pc = f.pc /\ g.gas = f.gas /\ g.status = f.status /\ g.stack = f.stack
             /\ g.memSize = f.memSize /\ g.db = f.db
<1>1. Len(bytes) = n
  BY Listed
<1>2. PICK mem : mem = [i \in 0..(memMax - 1) |-> IF i - offset \in 0..(n - 1) THEN bytes[i - offset + 1] ELSE f.memory[i]]
  OBVIOUS
<1>3. Written(f, offset, bytes) = [f EXCEPT !.memory = mem]
  BY <1>1, <1>2 DEF Written
<1>4. f \in Frames /\ f.memory \in Memories /\ f.memSize \in 0..memMax /\ memMax \in Nat
  BY FrameAssumption DEF Sound, Frames
<1>5. mem \in Memories
  <2>1. ASSUME NEW i \in 0..(memMax - 1) PROVE (IF i - offset \in 0..(n - 1) THEN bytes[i - offset + 1] ELSE f.memory[i]) \in 0..(Byte - 1)
    <3>1. CASE i - offset \in 0..(n - 1)
      <4>1. i - offset + 1 \in 1..n
        BY <3>1
      <4> QED
        BY <3>1, <4>1
    <3>2. CASE ~(i - offset \in 0..(n - 1))
      BY <1>4, <3>2 DEF Memories
    <3> QED
      BY <3>1, <3>2
  <2> QED
    BY <1>2, <2>1 DEF Memories
<1>6. \A i \in f.memSize..(memMax - 1) : mem[i] = 0
  <2>1. ASSUME NEW i \in f.memSize..(memMax - 1) PROVE mem[i] = 0
    <3>1. i \in 0..(memMax - 1) /\ ~(i - offset \in 0..(n - 1))
      BY <1>4
    <3>2. f.memory[i] = 0
      BY DEF Sound
    <3> QED
      BY <1>2, <3>1, <3>2
  <2> QED
    BY <2>1
<1>7. PICK g : g = [f EXCEPT !.memory = mem]
  OBVIOUS
<1>8. /\ g.memory = mem /\ g.pc = f.pc /\ g.gas = f.gas /\ g.status = f.status /\ g.stack = f.stack
      /\ g.memSize = f.memSize /\ g.db = f.db /\ g \in Frames
  BY <1>4, <1>5, <1>7 DEF Frames
<1>9. Sound(g)
  BY <1>6, <1>8 DEF Sound
<1> QED
  BY <1>3, <1>7, <1>8, <1>9

\* execMemory, arm by arm.
LEMMA WithMLOAD ==
  ASSUME NEW f, NEW g, g = Charged(f, Top(f, 0), FromU64(WordBytes))
  PROVE  execMemory("MLOAD", f) = IF g.status # "running" THEN g ELSE Put(g, 1, <<FromBytesBE(Read(g, Top(f, 0)[0], WordBytes))>>)
BY Zenon DEF execMemory

\* MSTORE.
LEMMA WithMSTORE ==
  ASSUME NEW f, NEW g, g = Charged(f, Top(f, 0), FromU64(WordBytes))
  PROVE  execMemory("MSTORE", f) = IF g.status # "running" THEN g ELSE Put(Written(g, Top(f, 0)[0], BytesBE(Top(f, 1))), 2, <<>>)
BY Zenon DEF execMemory

\* MSTORE8.
LEMMA WithMSTORE8 ==
  ASSUME NEW f, NEW g, g = Charged(f, Top(f, 0), FromU64(1))
  PROVE  execMemory("MSTORE8", f) = IF g.status # "running" THEN g ELSE Put(Written(g, Top(f, 0)[0], <<Top(f, 1)[0] % Byte>>), 2, <<>>)
BY Zenon DEF execMemory

\* KECCAK256.
LEMMA WithKECCAK256 ==
  ASSUME NEW f, NEW g, g = Charged(f, Top(f, 0), Top(f, 1))
  PROVE  execMemory("KECCAK256", f) = IF g.status # "running" THEN g ELSE Extra(g, 6 * Words(Top(f, 1)[0]), [Put(g, 2, <<Keccak256(Read(g, Top(f, 0)[0], Top(f, 1)[0]))>>) EXCEPT !.gas = g.gas - 6 * Words(Top(f, 1)[0])])
BY Zenon DEF execMemory

\* REVERT.
LEMMA WithREVERT ==
  ASSUME NEW f, NEW g, g = Charged(f, Top(f, 0), Top(f, 1))
  PROVE  execMemory("REVERT", f) = IF g.status # "running" THEN g ELSE [Put(g, 2, <<>>) EXCEPT !.status = "revert", !.retOff = Top(f, 0)[0] % (MaxUint32 + 1), !.retSize = Top(f, 1)[0] % (MaxUint32 + 1)]
BY Zenon DEF execMemory

\* Bytes read within the size of the memory.
LEMMA Reading ==
  ASSUME NEW f, Sound(f), NEW offset \in Nat, NEW n \in Nat, n = 0 \/ offset + n <= f.memSize
  PROVE  Read(f, offset, n) \in [1..n -> 0..(Byte - 1)]
<1>1. f.memory \in Memories /\ f.memSize \in 0..memMax /\ memMax \in Nat
  BY FrameAssumption DEF Sound, Frames
<1>2. ASSUME NEW i \in 1..n PROVE f.memory[offset + i - 1] \in 0..(Byte - 1)
  <2>1. offset + i - 1 \in 0..(memMax - 1)
    BY <1>1
  <2> QED
    BY <1>1, <2>1 DEF Memories
<1> QED
  BY <1>2 DEF Read

\* g is a frame that has stopped, or follows f in the code.
Goes(f, g) == Sound(g) /\ (g.status = "running" => g.pc = f.pc)

\* What Keccak256 answers is a word.
Digests == \A n \in Nat : \A bytes \in [1..n -> 0..(Byte - 1)] : Keccak256(bytes) \in Word

\* MLOAD leaves a sound frame.
LEMMA MLoadGoes ==
  ASSUME NEW f, Sound(f), f.status = "running", Len(f.stack) >= 1
  PROVE  Goes(f, execMemory("MLOAD", f))
<1>1. PICK off \in Word : off = Top(f, 0)
  BY Tops
<1>2. WordBytes \in Nat /\ WordBytes >= 2 /\ WordBytes \in 0..(Limb - 1)
  BY ByteFacts, LimbFacts
<1>3. PICK size \in Word : size = FromU64(WordBytes) /\ size[0] = WordBytes
  BY <1>2, SmallWord
<1>4. PICK g : g = Charged(f, off, size)
  OBVIOUS
<1>5. Grown(f, g) /\ Reaches(g, off[0], WordBytes) /\ off[0] \in Nat
  BY <1>3, <1>4, ChargingWords
<1>6. execMemory("MLOAD", f) = IF g.status # "running" THEN g ELSE Put(g, 1, <<FromBytesBE(Read(g, off[0], WordBytes))>>)
  BY <1>1, <1>3, <1>4, WithMLOAD
<1>7. CASE g.status # "running"
  BY <1>5, <1>6, <1>7 DEF Goes, Grown
<1>8. CASE g.status = "running"
  <2>1. Sound(g) /\ g.pc = f.pc /\ g.stack = f.stack /\ off[0] + WordBytes <= g.memSize
    BY <1>2, <1>5, <1>8 DEF Grown, Reaches
  <2>2. Read(g, off[0], WordBytes) \in Bytes
    BY <1>2, <1>5, <2>1, Reading DEF Bytes
  <2>3. PICK x \in Word : x = FromBytesBE(Read(g, off[0], WordBytes))
    BY <2>2, FromBytes
  <2>4. Len(g.stack) \in Nat /\ Len(g.stack) <= stackMax /\ Len(g.stack) >= 1 /\ stackMax \in Nat
    BY <2>1, Tops, FrameAssumption DEF Sound
  <2>5. PICK one \in Nat : one = 1 /\ one \in 0..Len(g.stack) /\ Len(g.stack) - one < stackMax
    BY <2>4
  <2>6. Sound(Put(g, one, <<x>>)) /\ Kept(g, Put(g, one, <<x>>))
    BY <2>1, <2>5, Topped
  <2> QED
    BY <1>6, <1>8, <2>1, <2>3, <2>5, <2>6 DEF Goes, Kept
<1> QED
  BY <1>7, <1>8

\* The sizes of a sound frame are numbers within their bounds.
LEMMA Sizes ==
  ASSUME NEW f, Sound(f)
  PROVE  /\ f.stack \in Seq(Word) /\ Len(f.stack) \in Nat /\ Len(f.stack) <= stackMax /\ stackMax \in Nat \ {0}
         /\ f.gas \in Nat /\ f.pc \in Nat /\ f.memSize \in 0..memMax /\ memMax \in Nat /\ f \in Frames
BY FrameAssumption DEF Sound, Frames

\* MSTORE leaves a sound frame: memory behind its size stays blank.
LEMMA MStoreGoes ==
  ASSUME NEW f, Sound(f), f.status = "running", Len(f.stack) >= 2
  PROVE  Goes(f, execMemory("MSTORE", f))
<1>1. PICK off \in Word, val \in Word : off = Top(f, 0) /\ val = Top(f, 1)
  BY Tops, Sizes
<1>2. WordBytes \in Nat /\ WordBytes >= 2 /\ WordBytes \in 0..(Limb - 1)
  BY ByteFacts, LimbFacts
<1>3. PICK size \in Word : size = FromU64(WordBytes) /\ size[0] = WordBytes
  BY <1>2, SmallWord
<1>4. PICK g : g = Charged(f, off, size)
  OBVIOUS
<1>5. Grown(f, g) /\ Reaches(g, off[0], WordBytes) /\ off[0] \in Nat
  BY <1>3, <1>4, ChargingWords
<1>6. execMemory("MSTORE", f) = IF g.status # "running" THEN g ELSE Put(Written(g, off[0], BytesBE(val)), 2, <<>>)
  BY <1>1, <1>3, <1>4, WithMSTORE
<1>7. CASE g.status # "running"
  BY <1>5, <1>6, <1>7 DEF Goes, Grown
<1>8. CASE g.status = "running"
  <2>1. Sound(g) /\ g.pc = f.pc /\ g.stack = f.stack /\ off[0] + WordBytes <= g.memSize
    BY <1>2, <1>5, <1>8 DEF Grown, Reaches
  <2>2. BytesBE(val) \in [1..WordBytes -> 0..(Byte - 1)]
    BY ByteRead DEF Bytes
  <2>3. PICK h : h = Written(g, off[0], BytesBE(val)) /\ Sound(h) /\ h.pc = g.pc /\ h.stack = g.stack
    BY <1>2, <1>5, <2>1, <2>2, Writing
  <2>4. PICK two \in Nat : two = 2 /\ two \in 0..Len(h.stack)
    BY <2>1, <2>3, Sizes
  <2>5. Sound(Put(h, two, <<>>)) /\ Kept(h, Put(h, two, <<>>))
    BY <2>3, <2>4, Dropped
  <2> QED
    BY <1>6, <1>8, <2>1, <2>3, <2>4, <2>5 DEF Goes, Kept
<1> QED
  BY <1>7, <1>8

\* So does MSTORE8,
LEMMA MStore8Goes ==
  ASSUME NEW f, Sound(f), f.status = "running", Len(f.stack) >= 2
  PROVE  Goes(f, execMemory("MSTORE8", f))
<1>1. PICK off \in Word, val \in Word : off = Top(f, 0) /\ val = Top(f, 1)
  BY Tops, Sizes
<1>2. Byte \in Nat \ {0} /\ Limb \in Nat /\ Limb >= 2 /\ 1 \in 0..(Limb - 1)
  BY ByteFacts, LimbFacts
<1>3. PICK one \in Nat, size \in Word : one = 1 /\ size = FromU64(one) /\ size[0] = one
  BY <1>2, SmallWord
<1>4. PICK g : g = Charged(f, off, size)
  OBVIOUS
<1>5. Grown(f, g) /\ Reaches(g, off[0], one) /\ off[0] \in Nat
  BY <1>3, <1>4, ChargingWords
<1>6. PICK b \in 0..(Byte - 1) : b = val[0] % Byte
  <2>1. val[0] \in Int
    BY NarrowValue, LimbFacts
  <2>2. val[0] % Byte \in 0..(Byte - 1)
    BY <1>2, <2>1, DivMod
  <2> QED
    BY <2>2
<1>7. execMemory("MSTORE8", f) = IF g.status # "running" THEN g ELSE Put(Written(g, off[0], <<b>>), 2, <<>>)
  BY <1>1, <1>3, <1>4, <1>6, WithMSTORE8
<1>8. CASE g.status # "running"
  BY <1>5, <1>7, <1>8 DEF Goes, Grown
<1>9. CASE g.status = "running"
  <2>1. Sound(g) /\ g.pc = f.pc /\ g.stack = f.stack /\ off[0] + one <= g.memSize
    BY <1>3, <1>5, <1>9 DEF Grown, Reaches
  <2>2. PICK bytes \in [1..one -> 0..(Byte - 1)] : bytes = <<b>>
    <3>1. <<b>> \in Seq(0..(Byte - 1)) /\ Len(<<b>>) = one
      BY <1>3
    <3>2. <<b>> \in [1..one -> 0..(Byte - 1)]
      BY <3>1, LenProperties
    <3> QED
      BY <3>2
  <2>3. PICK h : h = Written(g, off[0], <<b>>) /\ Sound(h) /\ h.pc = g.pc /\ h.stack = g.stack
    <3>1. PICK h : h = Written(g, off[0], bytes)
      OBVIOUS
    <3>2. Sound(h) /\ h.pc = g.pc /\ h.stack = g.stack
      BY <1>5, <2>1, <3>1, Writing
    <3> QED
      BY <2>2, <3>1, <3>2
  <2>4. PICK two \in Nat : two = 2 /\ two \in 0..Len(h.stack)
    BY <2>1, <2>3, Sizes
  <2>5. Sound(Put(h, two, <<>>)) /\ Kept(h, Put(h, two, <<>>))
    BY <2>3, <2>4, Dropped
  <2> QED
    BY <1>7, <1>9, <2>1, <2>3, <2>4, <2>5 DEF Goes, Kept
<1> QED
  BY <1>8, <1>9

\* and KECCAK256, if what it answers is a word,
LEMMA KeccakGoes ==
  ASSUME NEW f, Sound(f), f.status = "running", Len(f.stack) >= 2, Digests
  PROVE  Goes(f, execMemory("KECCAK256", f))
<1>1. PICK off \in Word, size \in Word : off = Top(f, 0) /\ size = Top(f, 1)
  BY Tops, Sizes
<1>2. PICK g : g = Charged(f, off, size)
  OBVIOUS
<1>3. Grown(f, g) /\ Reaches(g, off[0], size[0]) /\ off[0] \in Nat /\ size[0] \in Nat
  BY <1>2, ChargingWords
<1>4. PICK hash \in Nat : hash = 6 * Words(size[0])
  <2>1. Words(size[0]) \in Nat
    BY <1>3, WordsOf
  <2> QED
    BY <2>1
<1>5. execMemory("KECCAK256", f) = IF g.status # "running" THEN g
                                   ELSE Extra(g, hash, [Put(g, 2, <<Keccak256(Read(g, off[0], size[0]))>>) EXCEPT !.gas = g.gas - hash])
  BY <1>1, <1>2, <1>4, WithKECCAK256
<1>6. CASE g.status # "running"
  BY <1>3, <1>5, <1>6 DEF Goes, Grown
<1>7. CASE g.status = "running"
  <2>1. Sound(g) /\ g.pc = f.pc /\ g.stack = f.stack /\ (size[0] = 0 \/ off[0] + size[0] <= g.memSize)
    BY <1>3, <1>7 DEF Grown, Reaches
  <2>2. PICK x \in Word : x = Keccak256(Read(g, off[0], size[0]))
    BY <1>3, <2>1, Reading DEF Digests
  <2>3. CASE g.gas < hash
    <3>1. execMemory("KECCAK256", f) = haltEx(g, "oog") /\ Stopped(g, "oog", haltEx(g, "oog"))
      BY <1>5, <1>7, <2>1, <2>3, Halted DEF Extra
    <3> QED
      BY <3>1 DEF Goes, Stopped
  <2>4. CASE ~(g.gas < hash)
    <3>1. g.gas - hash \in Nat
      BY <2>1, <2>4, Sizes
    <3>2. PICK two \in Nat : two = 2 /\ two \in 0..Len(g.stack) /\ Len(g.stack) - two < stackMax
      BY <2>1, Sizes
    <3>3. PICK h : h = Put(g, two, <<x>>) /\ Sound(h) /\ Kept(g, h)
      BY <2>1, <3>2, Topped
    <3>4. Sound([h EXCEPT !.gas = g.gas - hash]) /\ [h EXCEPT !.gas = g.gas - hash].pc = h.pc
      BY <3>1, <3>3, GasSet
    <3>5. execMemory("KECCAK256", f) = [h EXCEPT !.gas = g.gas - hash]
      BY <1>5, <1>7, <2>2, <2>4, <3>2, <3>3 DEF Extra
    <3> QED
      BY <2>1, <3>3, <3>4, <3>5 DEF Goes, Kept
  <2> QED
    BY <2>3, <2>4
<1> QED
  BY <1>6, <1>7

\* and REVERT.
LEMMA RevertGoes ==
  ASSUME NEW f, Sound(f), f.status = "running", Len(f.stack) >= 2
  PROVE  Goes(f, execMemory("REVERT", f))
<1>1. PICK off \in Word, size \in Word : off = Top(f, 0) /\ size = Top(f, 1)
  BY Tops, Sizes
<1>2. PICK g : g = Charged(f, off, size)
  OBVIOUS
<1>3. Grown(f, g) /\ off[0] \in Nat /\ size[0] \in Nat
  BY <1>2, ChargingWords
<1>4. PICK a \in Nat, b \in Nat : a = off[0] % (MaxUint32 + 1) /\ b = size[0] % (MaxUint32 + 1)
  <2>1. MaxUint32 + 1 \in Nat \ {0}
    BY FrameAssumption, LimbFacts
  <2>2. off[0] % (MaxUint32 + 1) \in Nat /\ size[0] % (MaxUint32 + 1) \in Nat
    <3>1. PICK m \in Nat \ {0}, x \in Int, y \in Int : m = MaxUint32 + 1 /\ x = off[0] /\ y = size[0]
      BY <1>3, <2>1
    <3>2. x % m \in 0..(m - 1) /\ y % m \in 0..(m - 1)
      BY DivMod
    <3> QED
      BY <3>1, <3>2
  <2> QED
    BY <2>2
<1>5. execMemory("REVERT", f) = IF g.status # "running" THEN g
                                ELSE [Put(g, 2, <<>>) EXCEPT !.status = "revert", !.retOff = a, !.retSize = b]
  BY <1>1, <1>2, <1>4, WithREVERT
<1>6. CASE g.status # "running"
  BY <1>3, <1>5, <1>6 DEF Goes, Grown
<1>7. CASE g.status = "running"
  <2>1. Sound(g) /\ g.pc = f.pc /\ g.stack = f.stack
    BY <1>3, <1>7 DEF Grown
  <2>2. PICK two \in Nat : two = 2 /\ two \in 0..Len(g.stack)
    BY <2>1, Sizes
  <2>3. PICK h : h = Put(g, two, <<>>) /\ Sound(h)
    BY <2>1, <2>2, Dropped
  <2>4. PICK st \in Statuses : st = "revert"
    BY DEF Statuses
  <2>5. PICK e : e = [h EXCEPT !.status = st, !.retOff = a, !.retSize = b]
    OBVIOUS
  <2>6. e \in Frames /\ e.stack = h.stack /\ e.memSize = h.memSize /\ e.memory = h.memory /\ e.status = st
    BY <2>3, <2>5 DEF Sound, Frames
  <2>7. Sound(e)
    BY <2>3, <2>6 DEF Sound
  <2>8. execMemory("REVERT", f) = e
    BY <1>5, <1>7, <2>2, <2>3, <2>4, <2>5
  <2> QED
    BY <2>4, <2>6, <2>7, <2>8 DEF Goes
<1> QED
  BY <1>6, <1>7

-----------------------------------------------------------------------------
\* The other instructions.  One item is added, unless there is no room.
LEMMA Pushing ==
  ASSUME NEW f, Sound(f), NEW x \in Word
  PROVE  LET g == WithRoom(f, Put(f, 0, <<x>>))
         IN  \/ Len(f.stack) < stackMax /\ g = Put(f, 0, <<x>>) /\ Sound(g) /\ Kept(f, g)
                  /\ Len(g.stack) = Len(f.stack) + 1 /\ Top(g, 0) = x
             \/ Len(f.stack) >= stackMax /\ g = haltEx(f, "overflow") /\ Stopped(f, "overflow", g)
<1>1. Len(f.stack) \in Nat /\ stackMax \in Nat
  BY Sizes
<1>2. CASE Len(f.stack) >= stackMax
  <2>1. WithRoom(f, Put(f, 0, <<x>>)) = haltEx(f, "overflow") /\ Stopped(f, "overflow", haltEx(f, "overflow"))
    BY <1>2, Halted DEF WithRoom
  <2> QED
    BY <1>2, <2>1
<1>3. CASE Len(f.stack) < stackMax
  <2>1. PICK zero \in Nat : zero = 0 /\ zero \in 0..Len(f.stack) /\ Len(f.stack) - zero < stackMax /\ Len(f.stack) - zero + 1 = Len(f.stack) + 1
    BY <1>1, <1>3
  <2>2. PICK h : h = Put(f, zero, <<x>>) /\ Sound(h) /\ Kept(f, h) /\ Len(h.stack) = Len(f.stack) - zero + 1 /\ Top(h, 0) = x
    BY <2>1, Topped
  <2>3. WithRoom(f, Put(f, 0, <<x>>)) = h /\ Put(f, 0, <<x>>) = h
    BY <1>1, <1>3, <2>1, <2>2 DEF WithRoom
  <2> QED
    BY <1>3, <2>1, <2>2, <2>3
<1> QED
  BY <1>1, <1>2, <1>3

\* An instruction that pushes a word leaves a sound frame, or halts on a full stack.
LEMMA PushGoes ==
  ASSUME NEW f, Sound(f), NEW x \in Word
  PROVE  Goes(f, WithRoom(f, Put(f, 0, <<x>>)))
<1>1. PICK g : g = WithRoom(f, Put(f, 0, <<x>>))
  OBVIOUS
<1>2. CASE Len(f.stack) < stackMax /\ Sound(g) /\ Kept(f, g)
  BY <1>1, <1>2 DEF Goes, Kept
<1>3. CASE Stopped(f, "overflow", g)
  BY <1>1, <1>3 DEF Goes, Stopped
<1> QED
  BY <1>1, <1>2, <1>3, Pushing

\* POP leaves a sound frame.
LEMMA DropGoes ==
  ASSUME NEW f, Sound(f), Len(f.stack) >= 1
  PROVE  Goes(f, Put(f, 1, <<>>))
<1>1. PICK one \in Nat : one = 1 /\ one \in 0..Len(f.stack)
  BY Sizes
<1>2. Sound(Put(f, one, <<>>)) /\ Kept(f, Put(f, one, <<>>))
  BY <1>1, Dropped
<1> QED
  BY <1>1, <1>2 DEF Goes, Kept

\* Storage.
LEMMA SlotWord ==
  ASSUME NEW db, db.slots \in Slots, NEW key
  PROVE  Slot(db, key) \in Word
<1>1. PICK keys \in SUBSET Word : db.slots \in [keys -> Word]
  BY DEF Slots
<1> QED
  BY <1>1, ZeroValue DEF Slot

\* Storing a value leaves storage of words, and a nil StateDB stays nil.
LEMMA StoredSlots ==
  ASSUME NEW db \in [on : BOOLEAN, slots : Slots], NEW key \in Word, NEW val \in Word
  PROVE  Stored(db, key, val) \in [on : BOOLEAN, slots : Slots] /\ Stored(db, key, val).on = db.on
<1>1. PICK s \in Slots : s = db.slots
  OBVIOUS
<1>2. PICK keys \in SUBSET Word : s \in [keys -> Word]
  BY DEF Slots
<1>3. Restrict(s, DOMAIN s \ {key}) \in Slots
  <2>1. keys \ {key} \in SUBSET Word
    OBVIOUS
  <2>2. Restrict(s, DOMAIN s \ {key}) \in [(keys \ {key}) -> Word]
    BY <1>2 DEF Restrict
  <2> QED
    BY <2>1, <2>2 DEF Slots
<1>4. [k \in DOMAIN s \cup {key} |-> IF k = key THEN val ELSE s[k]] \in Slots
  <2>1. keys \cup {key} \in SUBSET Word
    OBVIOUS
  <2>2. [k \in DOMAIN s \cup {key} |-> IF k = key THEN val ELSE s[k]] \in [(keys \cup {key}) -> Word]
    BY <1>2
  <2> QED
    BY <2>1, <2>2 DEF Slots
<1>5. PICK t \in Slots : t = IF val = Zero THEN Restrict(s, DOMAIN s \ {key})
                             ELSE [k \in DOMAIN s \cup {key} |-> IF k = key THEN val ELSE s[k]]
  BY <1>3, <1>4
<1>6. Stored(db, key, val) = [db EXCEPT !.slots = t]
  BY <1>1, <1>5 DEF Stored
<1> QED
  BY <1>6

\* SLOAD leaves a sound frame,
LEMMA LoadGoes ==
  ASSUME NEW f, Sound(f), Len(f.stack) >= 1
  PROVE  Goes(f, execStorage("SLOAD", f))
<1>1. PICK x \in Word : x = Slot(f.db, Top(f, 0))
  <2>1. f.db.slots \in Slots
    BY DEF Sound, Frames
  <2> QED
    BY <2>1, SlotWord
<1>2. execStorage("SLOAD", f) = Put(f, 1, <<x>>)
  BY <1>1 DEF execStorage
<1>3. PICK one \in Nat : one = 1 /\ one \in 0..Len(f.stack) /\ Len(f.stack) - one < stackMax
  BY Sizes
<1>4. Sound(Put(f, one, <<x>>)) /\ Kept(f, Put(f, one, <<x>>))
  BY <1>3, Topped
<1> QED
  BY <1>2, <1>3, <1>4 DEF Goes, Kept

\* and so does SSTORE.
LEMMA StoreGoes ==
  ASSUME NEW f, Sound(f), Len(f.stack) >= 2
  PROVE  Goes(f, execStorage("SSTORE", f))
<1>1. PICK key \in Word, val \in Word : key = Top(f, 0) /\ val = Top(f, 1)
  BY Tops, Sizes
<1>2. PICK two \in Nat : two = 2 /\ two \in 0..Len(f.stack)
  BY Sizes
<1>3. PICK h : h = Put(f, two, <<>>) /\ Sound(h) /\ Kept(f, h)
  BY <1>2, Dropped
<1>4. f.db \in [on : BOOLEAN, slots : Slots] /\ f.refund \in Nat
  BY DEF Sound, Frames
<1>5. PICK db \in [on : BOOLEAN, slots : Slots] : db = Stored(f.db, key, val)
  BY <1>4, StoredSlots
<1>6. PICK refund \in Nat : refund = f.refund + (IF Slot(f.db, key) # Zero /\ val = Zero THEN 15000 ELSE 0)
  <2>1. f.refund + 15000 \in Nat /\ f.refund + 0 \in Nat
    BY <1>4
  <2> QED
    BY <2>1
<1>7. execStorage("SSTORE", f) = IF ~f.db.on THEN h ELSE [h EXCEPT !.db = db, !.refund = refund]
  BY <1>1, <1>2, <1>3, <1>5, <1>6 DEF execStorage
<1>8. PICK e : e = [h EXCEPT !.db = db, !.refund = refund]
  OBVIOUS
<1>9. e \in Frames /\ e.stack = h.stack /\ e.memSize = h.memSize /\ e.memory = h.memory /\ e.pc = h.pc
  BY <1>3, <1>8 DEF Sound, Frames
<1>10. Sound(e)
  BY <1>3, <1>9 DEF Sound
<1> QED
  BY <1>3, <1>7, <1>8, <1>9, <1>10 DEF Goes, Kept

-----------------------------------------------------------------------------
\* Arithmetic.  An instruction's result does not depend on items it does not take.
LEMMA CalculateUnary ==
  ASSUME NEW op \in Unary, NEW a, NEW b, NEW c
  PROVE  Calculate(op, a, b, c) = Calculate(op, a, Zero, Zero)
<1>1. Calculate("ISZERO", a, b, c) = Calculate("ISZERO", a, Zero, Zero)
  BY Zenon DEF Calculate
<1>2. Calculate("NOT", a, b, c) = Calculate("NOT", a, Zero, Zero)
  BY Zenon DEF Calculate
<1> QED
  BY <1>1, <1>2, Zenon DEF Unary

\* An instruction that takes two items does not look at a third.
LEMMA CalculateBinary ==
  ASSUME NEW op \in Binary, NEW a, NEW b, NEW c
  PROVE  Calculate(op, a, b, c) = Calculate(op, a, b, Zero)
<1>1. Calculate("ADD", a, b, c) = Calculate("ADD", a, b, Zero)
  BY Zenon DEF Calculate
<1>2. Calculate("MUL", a, b, c) = Calculate("MUL", a, b, Zero)
  BY Zenon DEF Calculate
<1>3. Calculate("SUB", a, b, c) = Calculate("SUB", a, b, Zero)
  BY Zenon DEF Calculate
<1>4. Calculate("DIV", a, b, c) = Calculate("DIV", a, b, Zero)
  BY Zenon DEF Calculate
<1>5. Calculate("SDIV", a, b, c) = Calculate("SDIV", a, b, Zero)
  BY Zenon DEF Calculate
<1>6. Calculate("MOD", a, b, c) = Calculate("MOD", a, b, Zero)
  BY Zenon DEF Calculate
<1>7. Calculate("SMOD", a, b, c) = Calculate("SMOD", a, b, Zero)
  BY Zenon DEF Calculate
<1>8. Calculate("EXP", a, b, c) = Calculate("EXP", a, b, Zero)
  BY Zenon DEF Calculate
<1>9. Calculate("SIGNEXTEND", a, b, c) = Calculate("SIGNEXTEND", a, b, Zero)
  BY Zenon DEF Calculate
<1>10. Calculate("LT", a, b, c) = Calculate("LT", a, b, Zero)
  BY Zenon DEF Calculate
<1>11. Calculate("GT", a, b, c) = Calculate("GT", a, b, Zero)
  BY Zenon DEF Calculate
<1>12. Calculate("SLT", a, b, c) = Calculate("SLT", a, b, Zero)
  BY Zenon DEF Calculate
<1>13. Calculate("SGT", a, b, c) = Calculate("SGT", a, b, Zero)
  BY Zenon DEF Calculate
<1>14. Calculate("EQ", a, b, c) = Calculate("EQ", a, b, Zero)
  BY Zenon DEF Calculate
<1>15. Calculate("AND", a, b, c) = Calculate("AND", a, b, Zero)
  BY Zenon DEF Calculate
<1>16. Calculate("OR", a, b, c) = Calculate("OR", a, b, Zero)
  BY Zenon DEF Calculate
<1>17. Calculate("XOR", a, b, c) = Calculate("XOR", a, b, Zero)
  BY Zenon DEF Calculate
<1>18. Calculate("BYTE", a, b, c) = Calculate("BYTE", a, b, Zero)
  BY Zenon DEF Calculate
<1>19. Calculate("SHL", a, b, c) = Calculate("SHL", a, b, Zero)
  BY Zenon DEF Calculate
<1>20. Calculate("SHR", a, b, c) = Calculate("SHR", a, b, Zero)
  BY Zenon DEF Calculate
<1>21. Calculate("SAR", a, b, c) = Calculate("SAR", a, b, Zero)
  BY Zenon DEF Calculate
<1> QED
  BY <1>1, <1>2, <1>3, <1>4, <1>5, <1>6, <1>7, <1>8, <1>9, <1>10, <1>11, <1>12, <1>13, <1>14, <1>15, <1>16, <1>17, <1>18, <1>19, <1>20, <1>21, Zenon DEF Binary

\* The bytes of an exponent are counted by a number.
LEMMA ExponentGas ==
  ASSUME NEW x
  PROVE  u256ByteLen(x) \in Nat
<1>1. WordBytes \in Nat
  BY ByteFacts
<1>2. PICK d : d = [k \in 0..(WordBytes - 1) |-> BytesBE(x)[WordBytes - k]]
  OBVIOUS
<1>3. Length(d, WordBytes) \in 0..WordBytes
  BY <1>1, LengthOf
<1> QED
  BY <1>1, <1>2, <1>3 DEF u256ByteLen

\* What the items that are taken stand for.
Args(f, op, i) == IF i < Takes(op, 0) THEN Value(Top(f, i)) ELSE 0
Result(f, op) == Calculate(op, Top(f, 0), Top(f, 1), Top(f, 2))

\* What an arithmetic instruction calculates from a stack that has what it takes.
LEMMA Resulting ==
  ASSUME NEW f, Sound(f), NEW op \in Unary \cup Binary \cup Ternary, Len(f.stack) >= Takes(op, 0)
  PROVE  /\ Result(f, op) \in Word
         /\ Value(Result(f, op)) = Meaning(op, Args(f, op, 0), Args(f, op, 1), Args(f, op, 2))
<1>1. PICK zero \in Word : zero = Zero /\ Value(zero) = 0
  BY ZeroValue
<1>2. op \in Known
  BY DEF Known
<1>3. PICK n \in Nat : n = 0
  OBVIOUS
<1>4. /\ op \in Unary => Takes(op, 0) = 1
      /\ op \in Binary => Takes(op, 0) = 2
      /\ op \in Ternary => Takes(op, 0) = 3
  BY <1>2, <1>3, TakesOf
<1>5. Len(f.stack) \in Nat
  BY Sizes
<1>6. CASE op \in Unary
  <2>1. PICK a \in Word : a = Top(f, 0)
    BY <1>4, <1>5, <1>6, Tops
  <2>2. Result(f, op) = Calculate(op, a, zero, zero)
    BY <1>1, <1>6, <2>1, CalculateUnary DEF Result
  <2>3. Args(f, op, 0) = Value(a) /\ Args(f, op, 1) = 0 /\ Args(f, op, 2) = 0
    BY <1>4, <1>6, <2>1 DEF Args
  <2>4. Calculate(op, a, zero, zero) \in Word /\ Value(Calculate(op, a, zero, zero)) = Meaning(op, Value(a), Value(zero), Value(zero))
    BY CalculateExact
  <2> QED
    BY <1>1, <2>2, <2>3, <2>4
<1>7. CASE op \in Binary
  <2>1. PICK a \in Word, b \in Word : a = Top(f, 0) /\ b = Top(f, 1)
    BY <1>4, <1>5, <1>7, Tops
  <2>2. Result(f, op) = Calculate(op, a, b, zero)
    BY <1>1, <1>7, <2>1, CalculateBinary DEF Result
  <2>3. Args(f, op, 0) = Value(a) /\ Args(f, op, 1) = Value(b) /\ Args(f, op, 2) = 0
    BY <1>4, <1>7, <2>1 DEF Args
  <2>4. Calculate(op, a, b, zero) \in Word /\ Value(Calculate(op, a, b, zero)) = Meaning(op, Value(a), Value(b), Value(zero))
    BY CalculateExact
  <2> QED
    BY <1>1, <2>2, <2>3, <2>4
<1>8. CASE op \in Ternary
  <2>1. PICK a \in Word, b \in Word, c \in Word : a = Top(f, 0) /\ b = Top(f, 1) /\ c = Top(f, 2)
    BY <1>4, <1>5, <1>8, Tops
  <2>2. Args(f, op, 0) = Value(a) /\ Args(f, op, 1) = Value(b) /\ Args(f, op, 2) = Value(c)
    BY <1>4, <1>8, <2>1 DEF Args
  <2>3. Calculate(op, a, b, c) \in Word /\ Value(Calculate(op, a, b, c)) = Meaning(op, Value(a), Value(b), Value(c))
    BY CalculateExact
  <2> QED
    BY <2>1, <2>2, <2>3 DEF Result
<1> QED
  BY <1>6, <1>7, <1>8

\* g is f with the result in the place of what was taken, or out of gas.
Calculated(f, op, g) ==
  \/ Stopped(f, "oog", g)
  \/ /\ Sound(g) /\ Alike(f, g) /\ g.status = f.status /\ g.pc = f.pc
     /\ Len(g.stack) = Len(f.stack) - Takes(op, 0) + 1 /\ Top(g, 0) = Result(f, op)

\* It is left on top, unless EXP cannot pay for its exponent.
LEMMA Calculating ==
  ASSUME NEW f, Sound(f), NEW op \in Unary \cup Binary \cup Ternary, NEW n \in Nat, NEW prog,
         Len(f.stack) >= Takes(op, n)
  PROVE  Calculated(f, op, execute(op, n, f, prog)) /\ Takes(op, n) = Takes(op, 0)
<1>1. PICK exp \in Nat : exp = IF op = "EXP" THEN 50 * u256ByteLen(Top(f, 1)) ELSE 0
  <2>1. u256ByteLen(Top(f, 1)) \in Nat
    BY ExponentGas
  <2>2. 50 * u256ByteLen(Top(f, 1)) \in Nat
    BY <2>1
  <2> QED
    BY <2>2
<1>2. PICK t \in 1..3 : t = Takes(op, n) /\ t = Takes(op, 0)
  <2>1. op \in Known
    BY DEF Known
  <2>2. PICK zero \in Nat : zero = 0
    OBVIOUS
  <2>3. /\ op \in Unary => Takes(op, n) = 1 /\ Takes(op, zero) = 1
        /\ op \in Binary => Takes(op, n) = 2 /\ Takes(op, zero) = 2
        /\ op \in Ternary => Takes(op, n) = 3 /\ Takes(op, zero) = 3
    BY <2>1, TakesOf
  <2> QED
    BY <2>2, <2>3
<1>3. PICK x \in Word : x = Result(f, op)
  BY <1>2, Resulting
<1>4. execute(op, n, f, prog) = Extra(f, exp, [Put(f, t, <<x>>) EXCEPT !.gas = f.gas - exp])
  <2>1. x = Calculate(op, Top(f, 0), Top(f, 1), Top(f, 2))
    BY <1>3 DEF Result
  <2>2. execute(op, n, f, prog) = Extra(f, (IF op = "EXP" THEN 50 * u256ByteLen(Top(f, 1)) ELSE 0), [Put(f, Takes(op, n), <<Calculate(op, Top(f, 0), Top(f, 1), Top(f, 2))>>) EXCEPT !.gas = f.gas - (IF op = "EXP" THEN 50 * u256ByteLen(Top(f, 1)) ELSE 0)])
    BY DoesCalculate, Zenon
  <2> QED
    BY <1>1, <1>2, <2>1, <2>2
<1>5. t \in 0..Len(f.stack) /\ Len(f.stack) - t < stackMax /\ f.gas \in Nat
  BY <1>2, Sizes
<1>6. PICK h : h = Put(f, t, <<x>>) /\ Sound(h) /\ Kept(f, h) /\ Len(h.stack) = Len(f.stack) - t + 1 /\ Top(h, 0) = x
  BY <1>5, Topped
<1>7. CASE f.gas < exp
  <2>1. execute(op, n, f, prog) = haltEx(f, "oog") /\ Stopped(f, "oog", haltEx(f, "oog"))
    BY <1>4, <1>7, Halted DEF Extra
  <2> QED
    BY <1>2, <2>1 DEF Calculated
<1>8. CASE ~(f.gas < exp)
  <2>1. PICK gas \in Nat : gas = f.gas - exp
    BY <1>5, <1>8
  <2>2. PICK e : e = [h EXCEPT !.gas = gas]
    OBVIOUS
  <2>3. execute(op, n, f, prog) = e
    BY <1>4, <1>6, <1>8, <2>1, <2>2 DEF Extra
  <2>4. Sound(e) /\ Alike(h, e) /\ e.pc = h.pc /\ e.status = h.status /\ e.stack = h.stack
    BY <1>6, <2>2, GasSet
  <2>5. Top(e, 0) = Top(h, 0)
    BY <2>4 DEF Top
  <2> QED
    BY <1>2, <1>3, <1>6, <2>3, <2>4, <2>5 DEF Calculated, Kept, Alike
<1> QED
  BY <1>7, <1>8

-----------------------------------------------------------------------------
\* Codes.  The instruction at a position, and the one behind it.
LEMMA CodeAt ==
  ASSUME NEW prog \in Seq(Instructions), NEW i \in Nat, i < Len(prog)
  PROVE  /\ prog[i + 1] \in Instructions /\ prog[i + 1].n \in Nat /\ prog[i + 1].byte \in 0..(Byte - 1)
         /\ prog[i + 1].op = "PUSH" => prog[i + 1].n \in 1..WordBytes
         /\ prog[i + 1].op \in {"DUP", "SWAP"} => prog[i + 1].n >= 1
<1>1. i + 1 \in 1..Len(prog)
  OBVIOUS
<1>2. prog[i + 1] \in Instructions
  BY <1>1, ElementOfSeq
<1>3. PICK at \in Instructions : at = prog[i + 1]
  BY <1>2
<1>4. at.n \in Nat /\ at.byte \in 0..(Byte - 1) /\ (at.op = "PUSH" => at.n \in 1..WordBytes) /\ (at.op \in {"DUP", "SWAP"} => at.n >= 1)
  BY DEF Instructions
<1> QED
  BY <1>3, <1>4

\* The next instruction is behind this one.
LEMMA AfterNext ==
  ASSUME NEW prog \in Seq(Instructions), NEW i \in Nat, i < Len(prog)
  PROVE  After(prog, i) \in Nat /\ After(prog, i) > i
BY CodeAt DEF After

\* The positions of the instructions, one after the other.
LEMMA PositionsOf ==
  ASSUME NEW prog \in Seq(Instructions)
  PROVE  /\ Positions(prog)[0] = 0
         /\ \A k \in 1..Len(prog) : Positions(prog)[k] = IF Positions(prog)[k - 1] >= Len(prog) THEN Positions(prog)[k - 1] ELSE After(prog, Positions(prog)[k - 1])
         /\ \A k \in 0..Len(prog) : Positions(prog)[k] \in Nat
<1> DEFINE f == Positions(prog)
           T == Nat
           E(k, y) == IF y >= Len(prog) THEN y ELSE After(prog, y)
           Loop(g) == [k \in 0..Len(prog) |-> IF k = 0 THEN 0 ELSE E(k, g[k - 1])]
           step == [k \in 1..Len(prog) |-> [y \in T |-> E(k, y)]]
<1>1. ASSUME NEW k \in 1..Len(prog), NEW y \in T PROVE E(k, y) \in T
  <2>1. CASE y >= Len(prog)
    BY <2>1 DEF T, E
  <2>2. CASE ~(y >= Len(prog))
    BY <2>2, AfterNext DEF T, E
  <2> QED
    BY <2>1, <2>2
<1>2. 0 \in T /\ Len(prog) \in Nat
    OBVIOUS
<1>3. f = CHOOSE g : g = Loop(g)
  BY DEF Positions
<1> HIDE DEF E, T
<1>4. step \in [1..Len(prog) -> [T -> T]] /\ \A k \in 1..Len(prog), y \in T : step[k][y] = E(k, y)
  BY <1>1
<1> HIDE DEF step, f
<1>5. PICK g : IsLoop(g, T, Len(prog), 0, step)
  BY <1>2, <1>4, Rounds, Zenon
<1>6. g = Loop(g)
  <2>1. ASSUME NEW k \in 0..Len(prog) PROVE g[k] = Loop(g)[k]
    <3>1. CASE k = 0
      BY <1>5, <3>1 DEF IsLoop
    <3>2. CASE k # 0
      <4>1. k \in 1..Len(prog) /\ k - 1 \in 0..Len(prog)
        BY <1>2, <3>2
      <4>2. g[k] = E(k, g[k - 1])
        BY <1>4, <1>5, <4>1 DEF IsLoop
      <4> QED
        BY <3>2, <4>2
    <3> QED
      BY <3>1, <3>2
  <2> QED
    BY <1>5, <2>1 DEF IsLoop
<1>7. f = Loop(f)
  <2> HIDE DEF Loop
  <2> QED
    BY <1>3, <1>6
<1>8. f[0] = 0 /\ \A k \in 1..Len(prog) : f[k] = E(k, f[k - 1])
  <2>1. ASSUME NEW k \in 0..Len(prog) PROVE f[k] = IF k = 0 THEN 0 ELSE E(k, f[k - 1])
    BY <1>7
  <2>2. 0 \in 0..Len(prog) /\ \A k \in 1..Len(prog) : k \in 0..Len(prog) /\ k # 0
    BY <1>2
  <2> QED
    BY <2>1, <2>2, Zenon
<1>9. \A k \in 0..Len(prog) : f[k] \in T
  <2>1. f[0] \in T
    BY <1>2, <1>8
  <2>2. ASSUME NEW k \in 1..Len(prog), f[k - 1] \in T PROVE f[k] \in T
    BY <1>1, <1>8, <2>2
  <2> QED
    BY <1>2, <2>1, <2>2, RoundsIn
<1> QED
  BY <1>8, <1>9 DEF f, T, E


\* After as many instructions as the code has bytes, its end is reached.
LEMMA PositionsEnd ==
  ASSUME NEW prog \in Seq(Instructions)
  PROVE  Positions(prog)[Len(prog)] >= Len(prog)
<1> DEFINE pos == Positions(prog)
           I == {k \in Nat : pos[k] >= k \/ pos[k] >= Len(prog)}
<1>1. PICK N \in Nat : N = Len(prog)
  OBVIOUS
<1>2. pos[0] = 0 /\ (\A k \in 1..N : pos[k] = IF pos[k - 1] >= N THEN pos[k - 1] ELSE After(prog, pos[k - 1])) /\ (\A k \in 0..N : pos[k] \in Nat)
  BY <1>1, PositionsOf
<1> HIDE DEF pos
<1>3. 0 \in I
  BY <1>2
<1>4. ASSUME NEW k \in 0..(N - 1), k \in I PROVE k + 1 \in I
  <2>1. k + 1 \in 1..N /\ (k + 1) - 1 = k /\ k \in 0..N /\ k + 1 \in 0..N
    OBVIOUS
  <2>2. PICK y \in Nat, z \in Nat : y = pos[k] /\ z = pos[k + 1]
    BY <1>2, <2>1
  <2>3. z = IF y >= N THEN y ELSE After(prog, y)
    BY <1>2, <2>1, <2>2
  <2>4. y >= k \/ y >= N
    BY <1>1, <1>4, <2>2
  <2>5. z >= k + 1 \/ z >= N
    <3>1. CASE y >= N
      BY <2>3, <3>1
    <3>2. CASE ~(y >= N)
      <4>1. PICK w \in Nat : w = After(prog, y) /\ w > y
        BY <1>1, <3>2, AfterNext
      <4>2. z = w
        BY <2>3, <3>2, <4>1
      <4> QED
        BY <2>4, <3>2, <4>1, <4>2
    <3> QED
      BY <3>1, <3>2
  <2> QED
    BY <1>1, <2>2, <2>5
<1> HIDE DEF I
<1>5. \A k \in 0..N : k \in I
  BY <1>3, <1>4, Climb
<1>6. N \in I
  BY <1>5
<1> QED
  BY <1>1, <1>2, <1>6 DEF I, pos

\* The first position is a start; behind a start is another.
LEMMA StartsOf ==
  ASSUME NEW prog \in Seq(Instructions)
  PROVE  0 \in Starts(prog) /\ \A p \in Starts(prog) : p \in Nat /\ (p < Len(prog) => After(prog, p) \in Starts(prog))
<1>1. PICK N \in Nat : N = Len(prog)
  OBVIOUS
<1>2. PICK pos : pos = Positions(prog)
  OBVIOUS
<1>3. pos[0] = 0 /\ (\A k \in 1..N : pos[k] = IF pos[k - 1] >= N THEN pos[k - 1] ELSE After(prog, pos[k - 1])) /\ (\A k \in 0..N : pos[k] \in Nat)
  BY <1>1, <1>2, PositionsOf
<1>4. pos[N] >= N
  BY <1>1, <1>2, PositionsEnd
<1>5. Starts(prog) = {pos[k] : k \in 0..N}
  BY <1>1, <1>2 DEF Starts
<1>6. 0 \in Starts(prog)
  BY <1>3, <1>5
<1>7. ASSUME NEW p \in Starts(prog) PROVE p \in Nat /\ (p < N => After(prog, p) \in Starts(prog))
  <2>1. PICK k \in 0..N : p = pos[k]
    BY <1>5
  <2>2. p \in Nat
    BY <1>3, <2>1
  <2>3. ASSUME p < N PROVE After(prog, p) \in Starts(prog)
    <3>1. k # N
      BY <1>4, <2>1, <2>2, <2>3
    <3>2. k + 1 \in 1..N /\ k + 1 \in 0..N /\ (k + 1) - 1 = k
      BY <3>1
    <3>3. pos[k + 1] = After(prog, p)
      BY <1>3, <2>1, <2>2, <2>3, <3>2
    <3> QED
      BY <1>5, <3>2, <3>3
  <2> QED
    BY <2>2, <2>3
<1> QED
  BY <1>1, <1>6, <1>7

-----------------------------------------------------------------------------
\* The word that PUSH pushes.
PushBytes(f, prog, n) ==
  [p \in 1..WordBytes |->
     IF p > WordBytes - n
     THEN IF f.pc + (p - (WordBytes - n)) <= Len(prog) THEN prog[f.pc + (p - (WordBytes - n))].byte ELSE 0
     ELSE 0]

\* execPush by the bytes it takes, zeros behind the end of the code.
LEMMA PushedBytes ==
  ASSUME NEW f, Sound(f), NEW prog \in Seq(Instructions), NEW n \in 1..WordBytes
  PROVE  /\ PushBytes(f, prog, n) \in Bytes /\ FromBytesBE(PushBytes(f, prog, n)) \in Word
         /\ execPush(f, prog, n) = WithRoom(f, [Put(f, 0, <<FromBytesBE(PushBytes(f, prog, n))>>) EXCEPT !.pc = f.pc + n])
<1>1. f.pc \in Nat /\ WordBytes \in Nat /\ Byte \in Nat \ {0}
  BY Sizes, ByteFacts
<1>2. ASSUME NEW p \in 1..WordBytes, p > WordBytes - n, f.pc + (p - (WordBytes - n)) <= Len(prog)
      PROVE  prog[f.pc + (p - (WordBytes - n))].byte \in 0..(Byte - 1)
  <2>1. PICK i \in Nat : i = f.pc + (p - (WordBytes - n)) - 1 /\ i + 1 = f.pc + (p - (WordBytes - n)) /\ i < Len(prog)
    BY <1>1, <1>2, SMTT(30)
  <2>2. prog[i + 1].byte \in 0..(Byte - 1)
    BY <2>1, CodeAt
  <2> QED
    BY <2>1, <2>2
<1>3. 0 \in 0..(Byte - 1)
  BY <1>1
<1>4. PushBytes(f, prog, n) \in Bytes
  BY <1>2, <1>3 DEF PushBytes, Bytes
<1>5. FromBytesBE(PushBytes(f, prog, n)) \in Word
  BY <1>4, FromBytes
<1>6. execPush(f, prog, n) = WithRoom(f, [Put(f, 0, <<FromBytesBE(PushBytes(f, prog, n))>>) EXCEPT !.pc = f.pc + n])
  BY Zenon DEF execPush, PushBytes
<1> QED
  BY <1>4, <1>5, <1>6

\* g is a frame that has stopped, or is behind the n bytes that follow f, or at an
\* instruction.
Arrives(f, n, prog, g) == Sound(g) /\ (g.status = "running" => g.pc = f.pc + n \/ g.pc \in Starts(prog))

\* PUSH goes on behind its bytes.
LEMMA PushLeads ==
  ASSUME NEW f, Sound(f), NEW prog \in Seq(Instructions), NEW n \in 1..WordBytes
  PROVE  Arrives(f, n, prog, execPush(f, prog, n))
<1>1. PICK x \in Word : x = FromBytesBE(PushBytes(f, prog, n))
  BY PushedBytes
<1>2. execPush(f, prog, n) = WithRoom(f, [Put(f, 0, <<x>>) EXCEPT !.pc = f.pc + n])
  BY <1>1, PushedBytes
<1>3. f.pc + n \in Nat /\ Len(f.stack) \in Nat /\ stackMax \in Nat
  BY Sizes, ByteFacts, SMTT(30)
<1>4. CASE Len(f.stack) >= stackMax
  <2>1. execPush(f, prog, n) = haltEx(f, "overflow") /\ Stopped(f, "overflow", haltEx(f, "overflow"))
    BY <1>2, <1>4, Halted DEF WithRoom
  <2> QED
    BY <2>1 DEF Arrives, Stopped
<1>5. CASE Len(f.stack) < stackMax
  <2>1. PICK h : h = Put(f, 0, <<x>>) /\ Sound(h) /\ Kept(f, h)
    <3>1. PICK zero \in Nat : zero = 0 /\ zero \in 0..Len(f.stack) /\ Len(f.stack) - zero < stackMax
      BY <1>3, <1>5
    <3>2. Sound(Put(f, zero, <<x>>)) /\ Kept(f, Put(f, zero, <<x>>))
      BY <3>1, Topped
    <3> QED
      BY <3>1, <3>2
  <2>2. execPush(f, prog, n) = [h EXCEPT !.pc = f.pc + n]
    BY <1>2, <1>3, <1>5, <2>1 DEF WithRoom
  <2>3. Sound([h EXCEPT !.pc = f.pc + n]) /\ [h EXCEPT !.pc = f.pc + n].pc = f.pc + n
    BY <1>3, <2>1, PcSet
  <2> QED
    BY <2>2, <2>3 DEF Arrives
<1> QED
  BY <1>3, <1>4, <1>5

\* SWAP and DUP.
LEMMA SwapGoes ==
  ASSUME NEW f, Sound(f), NEW n \in Nat, Len(f.stack) >= n + 1, NEW g,
         g = [f EXCEPT !.stack = [f.stack EXCEPT ![Len(f.stack)] = f.stack[Len(f.stack) - n], ![Len(f.stack) - n] = f.stack[Len(f.stack)]]]
  PROVE  Goes(f, g)
<1>1. PICK s \in Seq(Word), size \in Nat : s = f.stack /\ size = Len(s) /\ s \in [1..size -> Word]
  <2>1. f.stack \in Seq(Word) /\ Len(f.stack) \in Nat /\ f.stack \in [1..Len(f.stack) -> Word]
    BY Sizes, LenProperties
  <2> QED
    BY <2>1
<1>2. size \in 1..size /\ size - n \in 1..size /\ size <= stackMax
  BY <1>1, Sizes
<1>3. PICK t : t = [s EXCEPT ![size] = s[size - n], ![size - n] = s[size]]
  OBVIOUS
<1>4. t \in [1..size -> Word]
  BY <1>1, <1>2, <1>3
<1>5. t \in Seq(Word) /\ Len(t) = size
  BY <1>4, Listed
<1>6. g = [f EXCEPT !.stack = t]
  BY <1>1, <1>3
<1>7. g \in Frames /\ g.stack = t /\ g.memSize = f.memSize /\ g.memory = f.memory /\ g.pc = f.pc
  BY <1>5, <1>6 DEF Sound, Frames
<1> QED
  BY <1>2, <1>5, <1>7 DEF Goes, Sound

\* A jump is to an instruction, or the frame stops.
LEMMA Jumping ==
  ASSUME NEW f, Sound(f), NEW prog \in Seq(Instructions), NEW dest \in Word
  PROVE  LET g == JumpTo(f, prog, dest)
         IN  \/ Stopped(f, "jumpdest", g)
             \/ /\ Sound(g) /\ g.stack = f.stack /\ g.status = f.status /\ g.pc \in Starts(prog)
                /\ g = [f EXCEPT !.pc = dest[0]]
<1>1. CASE FitsU64(dest) /\ dest[0] <= MaxUint32 /\ jumpdestOK(prog, dest[0])
  <2>1. JumpTo(f, prog, dest) = [f EXCEPT !.pc = dest[0]]
    BY <1>1 DEF JumpTo
  <2>2. dest[0] \in Starts(prog) /\ dest[0] \in Nat
    BY <1>1, StartsOf DEF jumpdestOK
  <2>3. Sound([f EXCEPT !.pc = dest[0]]) /\ [f EXCEPT !.pc = dest[0]].pc = dest[0] /\ [f EXCEPT !.pc = dest[0]].status = f.status /\ [f EXCEPT !.pc = dest[0]].stack = f.stack
    BY <2>2, PcSet
  <2> QED
    BY <2>1, <2>2, <2>3
<1>2. CASE ~(FitsU64(dest) /\ dest[0] <= MaxUint32 /\ jumpdestOK(prog, dest[0]))
  <2>1. JumpTo(f, prog, dest) = haltEx(f, "jumpdest") /\ Stopped(f, "jumpdest", haltEx(f, "jumpdest"))
    BY <1>2, Halted DEF JumpTo
  <2> QED
    BY <2>1
<1> QED
  BY <1>1, <1>2

\* A jump leads to an instruction, or halts.
LEMMA JumpLeads ==
  ASSUME NEW f, Sound(f), f.status = "running", NEW prog \in Seq(Instructions), NEW n \in {1, 2}, Len(f.stack) >= n,
         NEW g, g = f \/ g = JumpTo(f, prog, Top(f, 0)), NEW e, e = IF g.status = "running" THEN Put(g, n, <<>>) ELSE g
  PROVE  Arrives(f, 0, prog, e)
<1>1. PICK dest \in Word : dest = Top(f, 0)
  BY Tops, Sizes
<1>2. f.pc + 0 = f.pc
  BY Sizes
<1>3. Stopped(f, "jumpdest", g) \/ (Sound(g) /\ g.stack = f.stack /\ g.status = f.status /\ (g.pc = f.pc \/ g.pc \in Starts(prog)))
  <2>1. CASE g = f
    BY <2>1
  <2>2. CASE g = JumpTo(f, prog, dest)
    BY <2>2, Jumping
  <2> QED
    BY <1>1, <2>1, <2>2
<1>4. CASE Stopped(f, "jumpdest", g)
  BY <1>4 DEF Stopped, Arrives
<1>5. CASE Sound(g) /\ g.stack = f.stack /\ g.status = f.status /\ (g.pc = f.pc \/ g.pc \in Starts(prog))
  <2>1. n \in 0..Len(g.stack)
    BY <1>5, Sizes
  <2>2. Sound(Put(g, n, <<>>)) /\ Kept(g, Put(g, n, <<>>))
    BY <1>5, <2>1, Dropped
  <2> QED
    BY <1>2, <1>5, <2>2 DEF Arrives, Kept
<1> QED
  BY <1>3, <1>4, <1>5

-----------------------------------------------------------------------------
\* Every instruction leaves a sound frame, that goes on behind it or jumps.
LEMMA GoesLeads ==
  ASSUME NEW f, Sound(f), NEW prog, NEW g, Goes(f, g)
  PROVE  Arrives(f, 0, prog, g)
<1>1. f.pc + 0 = f.pc
  BY Sizes
<1> QED
  BY <1>1 DEF Goes, Arrives

\* Arithmetic leaves a sound frame and goes on.
LEMMA CalculatedGoes ==
  ASSUME NEW f, NEW op, NEW g, Calculated(f, op, g)
  PROVE  Goes(f, g)
BY DEF Calculated, Goes, Stopped

\* Every instruction leaves a sound frame; one that still runs is behind the
\* instruction and its bytes, or at another instruction.
LEMMA Executing ==
  ASSUME NEW f, Sound(f), f.status = "running", f.pc >= 1, NEW prog \in Seq(Instructions), NEW op \in Known, NEW n \in Nat,
         op = "PUSH" => n \in 1..WordBytes, op \in {"DUP", "SWAP"} => n >= 1, Len(f.stack) >= Takes(op, n), Digests
  PROVE  Arrives(f, IF op = "PUSH" THEN n ELSE 0, prog, execute(op, n, f, prog))
<1> DEFINE g == execute(op, n, f, prog)
<1>1. /\ op \in {"POP", "MLOAD", "SLOAD", "JUMP"} => Len(f.stack) >= 1
      /\ op \in {"MSTORE", "MSTORE8", "SSTORE", "JUMPI", "KECCAK256", "REVERT"} => Len(f.stack) >= 2
      /\ op = "DUP" => Len(f.stack) >= n
      /\ op = "SWAP" => Len(f.stack) >= n + 1
  BY TakesOf
<1>2. f.pc \in Nat /\ f.gas \in Nat /\ f.memSize \in Nat /\ Len(f.stack) \in Nat
  BY Sizes
<1>3. ASSUME op # "PUSH", Goes(f, g) PROVE Arrives(f, IF op = "PUSH" THEN n ELSE 0, prog, g)
  BY <1>3, GoesLeads
<1>4. CASE op = "STOP"
  <2>1. PICK st \in Statuses : st = "success"
    BY DEF Statuses
  <2>2. PICK e : e = [f EXCEPT !.status = st] /\ Sound(e) /\ e.status = st
    BY StatusSet
  <2>3. g = e
    BY <1>4, <2>1, <2>2, DoesSTOP
  <2> HIDE DEF g
  <2>4. Goes(f, g)
    BY <2>1, <2>2, <2>3 DEF Goes
  <2> QED
    BY <1>3, <1>4, <2>4 DEF g
<1>5. CASE op = "JUMPDEST"
  <2>1. g = f
    BY <1>5, DoesJUMPDEST
  <2>2. Goes(f, f)
    BY DEF Goes
  <2> QED
    BY <1>3, <1>5, <2>1, <2>2
<1>6. CASE op = "POP"
  <2>1. Goes(f, g)
    BY <1>1, <1>2, <1>6, DoesPOP, DropGoes
  <2> QED
    BY <1>3, <1>6, <2>1
<1>7. CASE op = "MLOAD"
  <2>1. Goes(f, g)
    BY <1>1, <1>2, <1>7, DoesMLOAD, MLoadGoes
  <2> QED
    BY <1>3, <1>7, <2>1
<1>8. CASE op = "MSTORE"
  <2>1. Goes(f, g)
    BY <1>1, <1>2, <1>8, DoesMSTORE, MStoreGoes
  <2> QED
    BY <1>3, <1>8, <2>1
<1>9. CASE op = "MSTORE8"
  <2>1. Goes(f, g)
    BY <1>1, <1>2, <1>9, DoesMSTORE8, MStore8Goes
  <2> QED
    BY <1>3, <1>9, <2>1
<1>10. CASE op = "KECCAK256"
  <2>1. Goes(f, g)
    BY <1>1, <1>2, <1>10, DoesKECCAK256, KeccakGoes
  <2> QED
    BY <1>3, <1>10, <2>1
<1>11. CASE op = "REVERT"
  <2>1. Goes(f, g)
    BY <1>1, <1>2, <1>11, DoesREVERT, RevertGoes
  <2> QED
    BY <1>3, <1>11, <2>1
<1>12. CASE op = "SLOAD"
  <2>1. Goes(f, g)
    BY <1>1, <1>2, <1>12, DoesSLOAD, LoadGoes
  <2> QED
    BY <1>3, <1>12, <2>1
<1>13. CASE op = "SSTORE"
  <2>1. Goes(f, g)
    BY <1>1, <1>2, <1>13, DoesSSTORE, StoreGoes
  <2> QED
    BY <1>3, <1>13, <2>1
<1>14. CASE op = "PC"
  <2>1. PICK x \in Word : x = FromU64(f.pc - 1)
    BY <1>2, FromU64Value
  <2>2. g = WithRoom(f, Put(f, 0, <<x>>))
    BY <1>14, <2>1, DoesPC
  <2>3. Goes(f, g)
    BY <2>2, PushGoes
  <2> QED
    BY <1>3, <1>14, <2>3
<1>15. CASE op = "MSIZE"
  <2>1. PICK x \in Word : x = FromU64(f.memSize)
    BY <1>2, FromU64Value
  <2>2. g = WithRoom(f, Put(f, 0, <<x>>))
    BY <1>15, <2>1, DoesMSIZE
  <2>3. Goes(f, g)
    BY <2>2, PushGoes
  <2> QED
    BY <1>3, <1>15, <2>3
<1>16. CASE op = "GAS"
  <2>1. PICK x \in Word : x = FromU64(f.gas)
    BY <1>2, FromU64Value
  <2>2. g = WithRoom(f, Put(f, 0, <<x>>))
    BY <1>16, <2>1, DoesGAS
  <2>3. Goes(f, g)
    BY <2>2, PushGoes
  <2> QED
    BY <1>3, <1>16, <2>3
<1>17. CASE op = "PUSH0"
  <2>1. PICK x \in Word : x = Zero
    BY ZeroValue
  <2>2. g = WithRoom(f, Put(f, 0, <<x>>))
    BY <1>17, <2>1, DoesPUSH0
  <2>3. Goes(f, g)
    BY <2>2, PushGoes
  <2> QED
    BY <1>3, <1>17, <2>3
<1>18. CASE op = "DUP"
  <2>1. PICK x \in Word : x = Top(f, n - 1)
    BY <1>1, <1>2, <1>18, Tops
  <2>2. g = WithRoom(f, Put(f, 0, <<x>>))
    BY <1>18, <2>1, DoesDUP
  <2>3. Goes(f, g)
    BY <2>2, PushGoes
  <2> QED
    BY <1>3, <1>18, <2>3
<1>19. CASE op = "SWAP"
  <2>1. g = [f EXCEPT !.stack = [f.stack EXCEPT ![Len(f.stack)] = f.stack[Len(f.stack) - n], ![Len(f.stack) - n] = f.stack[Len(f.stack)]]]
    BY <1>19, DoesSWAP
  <2> HIDE DEF g
  <2>2. Goes(f, g)
    BY <1>1, <1>19, <2>1, SwapGoes
  <2> QED
    BY <1>3, <1>19, <2>2 DEF g
<1>20. CASE op = "PUSH"
  BY <1>20, DoesPUSH, PushLeads
<1>21. CASE op = "JUMP"
  <2>1. PICK h : h = JumpTo(f, prog, Top(f, 0))
    OBVIOUS
  <2>2. g = IF h.status = "running" THEN Put(h, 1, <<>>) ELSE h
    BY <1>21, <2>1, DoesJUMP
  <2>3. PICK one \in {1, 2} : one = 1
    OBVIOUS
  <2> HIDE DEF g
  <2>4. Arrives(f, 0, prog, g)
    BY <1>1, <1>21, <2>1, <2>2, <2>3, JumpLeads
  <2> QED
    BY <1>21, <2>4 DEF g
<1>22. CASE op = "JUMPI"
  <2>1. PICK h : h = IF IsZero(Top(f, 1)) THEN f ELSE JumpTo(f, prog, Top(f, 0))
    OBVIOUS
  <2>2. g = IF h.status = "running" THEN Put(h, 2, <<>>) ELSE h
    BY <1>22, <2>1, DoesJUMPI
  <2>3. PICK two \in {1, 2} : two = 2
    OBVIOUS
  <2> HIDE DEF g
  <2>4. Arrives(f, 0, prog, g)
    BY <1>1, <1>22, <2>1, <2>2, <2>3, JumpLeads
  <2> QED
    BY <1>22, <2>4 DEF g
<1>23. CASE op \in Unary \cup Binary \cup Ternary
  <2>1. op # "PUSH"
    BY <1>23 DEF Unary, Binary, Ternary
  <2>2. Calculated(f, op, g)
    BY <1>23, Calculating
  <2>3. Goes(f, g)
    BY <2>2, CalculatedGoes
  <2> QED
    BY <1>3, <2>1, <2>3
<1> QED
  BY <1>4, <1>5, <1>6, <1>7, <1>8, <1>9, <1>10, <1>11, <1>12, <1>13, <1>14, <1>15, <1>16, <1>17, <1>18, <1>19, <1>20, <1>21, <1>22, <1>23, Zenon DEF Known

\* The frame once the gas of an instruction is paid.
Paid(f, prog) == [f EXCEPT !.gas = f.gas - opGas(prog[f.pc + 1].op), !.pc = f.pc + 1]

\* Paying for an instruction and moving on changes gas and pc alone.
LEMMA Paying ==
  ASSUME NEW f, Sound(f), NEW cost \in Nat, f.gas >= cost
  PROVE  LET g == [f EXCEPT !.gas = f.gas - cost, !.pc = f.pc + 1]
         IN  /\ Sound(g) /\ Alike(f, g) /\ g.status = f.status /\ g.stack = f.stack /\ g.refund = f.refund
             /\ g.pc = f.pc + 1 /\ g.gas = f.gas - cost
<1>1. f.gas - cost \in Nat /\ f.pc + 1 \in Nat
  BY Sizes
<1>2. PICK gas \in Nat, pc \in Nat : gas = f.gas - cost /\ pc = f.pc + 1
  BY <1>1
<1>3. PICK g : g = [f EXCEPT !.gas = gas, !.pc = pc]
  OBVIOUS
<1>4. /\ g \in Frames /\ g.status = f.status /\ g.stack = f.stack /\ g.refund = f.refund /\ g.pc = pc /\ g.gas = gas
      /\ g.memory = f.memory /\ g.memSize = f.memSize /\ g.db = f.db
  BY <1>3 DEF Sound, Frames
<1>5. Sound(g) /\ Alike(f, g)
  BY <1>4 DEF Sound, Alike
<1> QED
  BY <1>2, <1>3, <1>4, <1>5

\* StepOne, by the ways it goes.
LEMMA Steps ==
  ASSUME NEW f, Sound(f), f.status = "running", NEW prog \in Seq(Instructions)
  PROVE  LET at == prog[f.pc + 1]
             p == Paid(f, prog)
             g == StepOne(f, prog)
         IN  \/ f.pc >= Len(prog) /\ g = [f EXCEPT !.status = "success"]
             \/ f.pc < Len(prog) /\ at.op \notin Known /\ g = haltEx(f, "invalid")
             \/ f.pc < Len(prog) /\ at.op \in Known /\ f.gas < opGas(at.op) /\ g = haltEx(f, "oog")
             \/ /\ f.pc < Len(prog) /\ at.op \in Known /\ f.gas >= opGas(at.op) /\ Sound(p) /\ Len(p.stack) < Takes(at.op, at.n)
                /\ g = haltEx(p, "underflow")
             \/ /\ f.pc < Len(prog) /\ at.op \in Known /\ f.gas >= opGas(at.op) /\ Sound(p) /\ Len(p.stack) >= Takes(at.op, at.n)
                /\ p.status = "running" /\ p.pc = f.pc + 1 /\ p.stack = f.stack
                /\ g = execute(at.op, at.n, p, prog)
<1>1. f.pc \in Nat /\ f.gas \in Nat /\ Len(f.stack) \in Nat
  BY Sizes
<1>2. PICK at : at = prog[f.pc + 1]
  OBVIOUS
<1>3. PICK cost : cost = opGas(at.op)
  OBVIOUS
<1>4. PICK p : p = [f EXCEPT !.gas = f.gas - cost, !.pc = f.pc + 1]
  OBVIOUS
<1>5. p = Paid(f, prog)
  BY <1>2, <1>3, <1>4 DEF Paid
<1>6. StepOne(f, prog) = IF f.pc >= Len(prog) THEN [f EXCEPT !.status = "success"]
                         ELSE IF cost = Invalid THEN haltEx(f, "invalid")
                         ELSE IF f.gas < cost THEN haltEx(f, "oog")
                         ELSE Requiring(p, Takes(at.op, at.n), execute(at.op, at.n, p, prog))
  BY <1>2, <1>3, <1>4 DEF StepOne
<1>7. CASE f.pc >= Len(prog)
  BY <1>6, <1>7
<1>8. CASE f.pc < Len(prog) /\ at.op \notin Known
  <2>1. cost = Invalid
    BY <1>3, <1>8, GasOf
  <2> QED
    BY <1>1, <1>2, <1>6, <1>8, <2>1
<1>9. CASE f.pc < Len(prog) /\ at.op \in Known
  <2>1. cost \in Nat
    BY <1>3, <1>9, GasOf
  <2>2. cost # Invalid
    BY <2>1 DEF Invalid
  <2>3. CASE f.gas < cost
    BY <1>1, <1>2, <1>3, <1>6, <1>9, <2>2, <2>3
  <2>4. CASE ~(f.gas < cost)
    <3>1. f.gas >= cost
      BY <1>1, <2>1, <2>4
    <3>2. Sound(p) /\ p.status = f.status /\ p.stack = f.stack /\ p.pc = f.pc + 1
      BY <1>4, <2>1, <3>1, Paying
    <3>3. StepOne(f, prog) = Requiring(p, Takes(at.op, at.n), execute(at.op, at.n, p, prog))
      BY <1>1, <1>6, <1>9, <2>2, <2>4
    <3>4. Takes(at.op, at.n) \in Nat
      <4>1. at.n \in Nat
        BY <1>1, <1>2, <1>9, CodeAt
      <4>2. PICK op \in Known, n \in Nat : op = at.op /\ n = at.n
        BY <1>9, <4>1
      <4>3. Takes(op, n) \in Nat
        <5>1. /\ op \in Unary \/ op \in {"POP", "MLOAD", "SLOAD", "JUMP"} => Takes(op, n) = 1
              /\ op \in Binary \/ op \in {"MSTORE", "MSTORE8", "SSTORE", "JUMPI", "KECCAK256", "REVERT"} => Takes(op, n) = 2
              /\ op \in Ternary => Takes(op, n) = 3
              /\ op = "DUP" => Takes(op, n) = n
              /\ op = "SWAP" => Takes(op, n) = n + 1
              /\ op \in {"STOP", "JUMPDEST", "PC", "MSIZE", "GAS", "PUSH0", "PUSH"} => Takes(op, n) = 0
          BY TakesOf
        <5>2. Takes(op, n) \in {0, 1, 2, 3, n, n + 1}
          BY <5>1 DEF Known
        <5> QED
          BY <5>2
      <4> QED
        BY <4>2, <4>3
    <3>5. CASE Len(p.stack) < Takes(at.op, at.n)
      BY <1>2, <1>3, <1>5, <1>9, <3>1, <3>2, <3>3, <3>5 DEF Requiring
    <3>6. CASE ~(Len(p.stack) < Takes(at.op, at.n))
      <4>1. Len(p.stack) >= Takes(at.op, at.n)
        BY <1>1, <3>2, <3>4, <3>6
      <4> QED
        BY <1>2, <1>3, <1>5, <1>9, <3>1, <3>2, <3>3, <3>6, <4>1 DEF Requiring
    <3> QED
      BY <3>5, <3>6
  <2> QED
    BY <2>3, <2>4
<1> QED
  BY <1>1, <1>7, <1>8, <1>9

\* A step leaves a sound frame, and from an instruction leads to one.
LEMMA Stepping ==
  ASSUME NEW f, Sound(f), NEW prog \in Seq(Instructions), Digests
  PROVE  /\ Sound(StepOne(f, prog))
         /\ f.pc \in Starts(prog) /\ StepOne(f, prog).status = "running" => StepOne(f, prog).pc \in Starts(prog)
<1>1. PICK at : at = prog[f.pc + 1]
  OBVIOUS
<1>2. PICK p : p = Paid(f, prog)
  OBVIOUS
<1>3. PICK g : g = StepOne(f, prog)
  OBVIOUS
<1>4. CASE f.status # "running"
  <2>1. g = f
    BY <1>3, <1>4 DEF StepOne
  <2> QED
    BY <1>3, <2>1
<1>5. ASSUME f.status = "running", f.pc >= Len(prog), g = [f EXCEPT !.status = "success"] PROVE Sound(g) /\ g.status # "running"
  <2>1. PICK st \in Statuses : st = "success"
    BY DEF Statuses
  <2>2. Sound([f EXCEPT !.status = st]) /\ [f EXCEPT !.status = st].status = st
    BY StatusSet
  <2> QED
    BY <1>5, <2>1, <2>2
<1>6. ASSUME g = haltEx(f, "invalid") PROVE Sound(g) /\ g.status # "running"
  <2>1. Stopped(f, "invalid", g)
    BY <1>6, Halted
  <2> QED
    BY <2>1 DEF Stopped
<1>7. ASSUME g = haltEx(f, "oog") PROVE Sound(g) /\ g.status # "running"
  <2>1. Stopped(f, "oog", g)
    BY <1>7, Halted
  <2> QED
    BY <2>1 DEF Stopped
<1>8. ASSUME Sound(p), g = haltEx(p, "underflow") PROVE Sound(g) /\ g.status # "running"
  <2>1. Stopped(p, "underflow", g)
    BY <1>8, Halted
  <2> QED
    BY <2>1 DEF Stopped
<1>9. ASSUME f.pc < Len(prog), at.op \in Known, Sound(p), Len(p.stack) >= Takes(at.op, at.n), p.status = "running", p.pc = f.pc + 1,
             g = execute(at.op, at.n, p, prog)
      PROVE  Sound(g) /\ (f.pc \in Starts(prog) /\ g.status = "running" => g.pc \in Starts(prog))
  <2>1. PICK pc \in Nat : pc = f.pc
    BY Sizes
  <2>2. at.n \in Nat /\ (at.op = "PUSH" => at.n \in 1..WordBytes) /\ (at.op \in {"DUP", "SWAP"} => at.n >= 1)
    BY <1>1, <1>9, <2>1, CodeAt
  <2>3. PICK op \in Known, n \in Nat : op = at.op /\ n = at.n
    BY <1>9, <2>2
  <2>4. p.pc >= 1
    BY <1>9, <2>1
  <2>5. Arrives(p, IF op = "PUSH" THEN n ELSE 0, prog, execute(op, n, p, prog))
    BY <1>9, <2>2, <2>3, <2>4, Executing
  <2>6. After(prog, pc) = p.pc + (IF op = "PUSH" THEN n ELSE 0)
    BY <1>1, <1>9, <2>1, <2>3 DEF After
  <2>7. f.pc \in Starts(prog) => After(prog, pc) \in Starts(prog)
    BY <1>9, <2>1, StartsOf
  <2> QED
    BY <1>9, <2>3, <2>5, <2>6, <2>7 DEF Arrives
<1> QED
  <2>1. CASE f.status = "running"
    <3> HIDE DEF Paid
    <3> QED
      BY <1>1, <1>2, <1>3, <1>5, <1>6, <1>7, <1>8, <1>9, <2>1, Steps
  <2> QED
    BY <1>4, <2>1

\* What an arithmetic instruction leaves, from the frame before the step.
LEMMA StepExact ==
  ASSUME NEW f, Sound(f), f.status = "running", NEW prog \in Seq(Instructions), NEW op \in Unary \cup Binary \cup Ternary,
         op = prog[f.pc + 1].op, NEW g, g = StepOne(f, prog), g.status = "running"
  PROVE  /\ f.pc < Len(prog) /\ Len(f.stack) >= Takes(op, 0)
         /\ Value(Top(g, 0)) = Meaning(op, Args(f, op, 0), Args(f, op, 1), Args(f, op, 2))
         /\ Len(g.stack) = Len(f.stack) - Takes(op, 0) + 1
<1>1. PICK at : at = prog[f.pc + 1]
  OBVIOUS
<1>2. PICK p : p = Paid(f, prog)
  OBVIOUS
<1>3. /\ f.pc < Len(prog) /\ Sound(p) /\ Len(p.stack) >= Takes(at.op, at.n) /\ p.stack = f.stack
      /\ g = execute(at.op, at.n, p, prog)
  <2>1. g # [f EXCEPT !.status = "success"]
    BY DEF Sound, Frames
  <2>2. g # haltEx(f, "invalid") /\ g # haltEx(f, "oog")
    BY DEF Sound, Frames, haltEx
  <2>3. Sound(p) => g # haltEx(p, "underflow")
    BY DEF Sound, Frames, haltEx
  <2> QED
    BY <1>1, <1>2, <2>1, <2>2, <2>3, Steps
<1>4. at.n \in Nat
  BY <1>1, <1>3, CodeAt, Sizes
<1>5. Calculated(p, op, g) /\ Takes(op, at.n) = Takes(op, 0)
  BY <1>1, <1>3, <1>4, Calculating
<1>6. Len(g.stack) = Len(p.stack) - Takes(op, 0) + 1 /\ Top(g, 0) = Result(p, op)
  BY <1>5 DEF Calculated, Stopped
<1>7. Value(Result(p, op)) = Meaning(op, Args(p, op, 0), Args(p, op, 1), Args(p, op, 2))
  BY <1>1, <1>3, <1>5, Resulting
<1>8. Args(p, op, 0) = Args(f, op, 0) /\ Args(p, op, 1) = Args(f, op, 1) /\ Args(p, op, 2) = Args(f, op, 2)
  BY <1>3 DEF Args, Top
<1> QED
  BY <1>1, <1>3, <1>5, <1>6, <1>7, <1>8

\* What follows the charge leaves the memory's size, unless it halts.
LEMMA SizeKept ==
  ASSUME NEW c, c \in Frames, NEW n, NEW items, NEW offset, NEW bytes, NEW gas, NEW from, NEW to
  PROVE  /\ Put(c, n, items).memSize = c.memSize
         /\ Put(Written(c, offset, bytes), n, items).memSize = c.memSize
         /\ [Put(c, n, items) EXCEPT !.gas = gas].memSize = c.memSize
         /\ [Put(c, n, items) EXCEPT !.status = "revert", !.retOff = from, !.retSize = to].memSize = c.memSize
<1>1. PICK s : s = SubSeq(c.stack, 1, Len(c.stack) - n) \o items
  OBVIOUS
<1>2. Put(c, n, items) = [c EXCEPT !.stack = s]
  BY <1>1 DEF Put
<1>3. PICK m : Written(c, offset, bytes) = [c EXCEPT !.memory = m]
  BY DEF Written
<1>4. PICK w : w = [c EXCEPT !.memory = m]
  OBVIOUS
<1>5. PICK t : t = SubSeq(w.stack, 1, Len(w.stack) - n) \o items
  OBVIOUS
<1>6. Put(Written(c, offset, bytes), n, items) = [w EXCEPT !.stack = t]
  BY <1>3, <1>4, <1>5 DEF Put
<1>7. [w EXCEPT !.stack = t].memSize = c.memSize
  BY <1>4 DEF Frames
<1>8. [c EXCEPT !.stack = s].memSize = c.memSize
  BY DEF Frames
<1>9. [[c EXCEPT !.stack = s] EXCEPT !.gas = gas].memSize = c.memSize
  BY DEF Frames
<1>10. [[c EXCEPT !.stack = s] EXCEPT !.status = "revert", !.retOff = from, !.retSize = to].memSize = c.memSize
  BY DEF Frames
<1> QED
  BY <1>2, <1>6, <1>7, <1>8, <1>9, <1>10

\* Memory that an instruction used has been paid for: the numbers its ends stand for
\* are those that were charged.
LEMMA Affording ==
  ASSUME NEW f, Sound(f), f.status = "running", NEW op \in MemoryUsers, NEW n \in Nat, Len(f.stack) >= Takes(op, n),
         NEW g, g = execMemory(op, f), g.status \notin Exceptional
  PROVE  RangeUsed(op, f)[2] = 0 \/ RangeUsed(op, f)[1] + RangeUsed(op, f)[2] <= g.memSize
<1>1. op \in Known /\ Len(f.stack) \in Nat
  BY Sizes DEF MemoryUsers, Known
<1>2. Len(f.stack) >= 1 /\ (op # "MLOAD" => Len(f.stack) >= 2)
  BY <1>1, TakesOf DEF MemoryUsers
<1>3. PICK off \in Word : off = Top(f, 0)
  BY <1>1, <1>2, Tops
<1>4. WordBytes \in 0..(Limb - 1) /\ 1 \in 0..(Limb - 1) /\ WordBytes \in Nat
  BY ByteFacts, LimbFacts
<1>5. PICK size \in Word : size = CASE op \in {"MLOAD", "MSTORE"} -> FromU64(WordBytes)
                                    [] op = "MSTORE8" -> FromU64(1)
                                    [] OTHER -> Top(f, 1)
  <2>1. CASE op \in {"MLOAD", "MSTORE"}
    BY <1>4, <2>1, SmallWord
  <2>2. CASE op = "MSTORE8"
    BY <1>4, <2>2, SmallWord
  <2>3. CASE op \in {"KECCAK256", "REVERT"}
    <3>1. Top(f, 1) \in Word
      BY <1>1, <1>2, <2>3, Tops
    <3> QED
      BY <2>3, <3>1
  <2> QED
    BY <2>1, <2>2, <2>3 DEF MemoryUsers
<1>6. RangeUsed(op, f)[1] = Value(off) /\ (FitsU64(size) => RangeUsed(op, f)[2] = size[0])
  <2>1. PICK used : used = CASE op \in {"MLOAD", "MSTORE"} -> WordBytes
                             [] op = "MSTORE8" -> 1
                             [] OTHER -> Value(Top(f, 1))
    OBVIOUS
  <2>2. RangeUsed(op, f)[1] = Value(off) /\ RangeUsed(op, f)[2] = used
    BY <1>3, <2>1 DEF RangeUsed
  <2>3. CASE op \in {"MLOAD", "MSTORE"}
    BY <1>4, <1>5, <2>1, <2>2, <2>3, SmallWord
  <2>4. CASE op = "MSTORE8"
    BY <1>4, <1>5, <2>1, <2>2, <2>4, SmallWord
  <2>5. CASE op \in {"KECCAK256", "REVERT"}
    <3>1. size = Top(f, 1) /\ used = Value(size)
      BY <1>5, <2>1, <2>5
    <3>2. FitsU64(size) => Value(size) = size[0]
      BY NarrowValue DEF FitsU64
    <3> QED
      BY <2>2, <3>1, <3>2
  <2> QED
    BY <2>3, <2>4, <2>5 DEF MemoryUsers
<1>7. PICK c : c = Charged(f, off, size)
  OBVIOUS
<1>8. Grown(f, c) /\ Reaches(c, off[0], size[0]) /\ off[0] \in Nat /\ size[0] \in Nat
  BY <1>7, ChargingWords
<1>9. c \in Frames /\ c.status \in {"running", "oog"}
  BY <1>8 DEF Grown, Sound
<1>10. c.status # "running" => g = c
  <2>1. CASE op \in {"MLOAD", "MSTORE"}
    BY <1>3, <1>5, <1>7, <2>1, WithMLOAD, WithMSTORE
  <2>2. CASE op = "MSTORE8"
    BY <1>3, <1>5, <1>7, <2>2, WithMSTORE8
  <2>3. CASE op = "KECCAK256"
    BY <1>3, <1>5, <1>7, <2>3, WithKECCAK256
  <2>4. CASE op = "REVERT"
    BY <1>3, <1>5, <1>7, <2>4, WithREVERT
  <2> QED
    BY <2>1, <2>2, <2>3, <2>4 DEF MemoryUsers
<1>11. c.status = "running"
  BY <1>9, <1>10 DEF Exceptional
<1>12. g.memSize = c.memSize
  <2>1. CASE op = "MLOAD"
    <3>1. g = Put(c, 1, <<FromBytesBE(Read(c, off[0], WordBytes))>>)
      BY <1>3, <1>5, <1>7, <1>11, <2>1, WithMLOAD
    <3> QED
      BY <1>9, <3>1, SizeKept
  <2>2. CASE op = "MSTORE"
    <3>1. g = Put(Written(c, off[0], BytesBE(Top(f, 1))), 2, <<>>)
      BY <1>3, <1>5, <1>7, <1>11, <2>2, WithMSTORE
    <3> QED
      BY <1>9, <3>1, SizeKept
  <2>3. CASE op = "MSTORE8"
    <3>1. g = Put(Written(c, off[0], <<Top(f, 1)[0] % Byte>>), 2, <<>>)
      BY <1>3, <1>5, <1>7, <1>11, <2>3, WithMSTORE8
    <3> QED
      BY <1>9, <3>1, SizeKept
  <2>4. CASE op = "KECCAK256"
    <3>0. /\ c = Charged(f, Top(f, 0), Top(f, 1))
          /\ g = Extra(c, 6 * Words(Top(f, 1)[0]), [Put(c, 2, <<Keccak256(Read(c, Top(f, 0)[0], Top(f, 1)[0]))>>)
                                                      EXCEPT !.gas = c.gas - 6 * Words(Top(f, 1)[0])])
      BY <1>3, <1>5, <1>7, <1>11, <2>4, WithKECCAK256
    <3>1. PICK items, hash : g = Extra(c, hash, [Put(c, 2, items) EXCEPT !.gas = c.gas - hash])
      BY <3>0, Zenon
    <3>2. haltEx(c, "oog").status = "oog"
      BY <1>9 DEF haltEx, Frames
    <3>3. g = [Put(c, 2, items) EXCEPT !.gas = c.gas - hash]
      BY <3>1, <3>2 DEF Extra, Exceptional
    <3> QED
      BY <1>9, <3>3, SizeKept
  <2>5. CASE op = "REVERT"
    <3>0. g = [Put(c, 2, <<>>) EXCEPT !.status = "revert", !.retOff = Top(f, 0)[0] % (MaxUint32 + 1),
                                      !.retSize = Top(f, 1)[0] % (MaxUint32 + 1)]
      BY <1>3, <1>5, <1>7, <1>11, <2>5, WithREVERT
    <3>1. PICK from, to : g = [Put(c, 2, <<>>) EXCEPT !.status = "revert", !.retOff = from, !.retSize = to]
      BY <3>0, Zenon
    <3> QED
      BY <1>9, <3>1, SizeKept
  <2> QED
    BY <2>1, <2>2, <2>3, <2>4, <2>5 DEF MemoryUsers
<1>13. FitsU64(off) /\ FitsU64(size)
  <2>1. haltEx(f, "oog").status = "oog"
    BY DEF haltEx, Sound, Frames
  <2> QED
    BY <1>7, <1>11, <2>1 DEF Charged
<1>14. Value(off) = off[0]
  BY <1>13, NarrowValue DEF FitsU64
<1> QED
  BY <1>6, <1>8, <1>11, <1>12, <1>13, <1>14 DEF Reaches

\* The same of a step.
LEMMA StepAffords ==
  ASSUME NEW f, Sound(f), f.status = "running", NEW prog \in Seq(Instructions), NEW op \in MemoryUsers,
         op = prog[f.pc + 1].op, NEW g, g = StepOne(f, prog), g.status \notin Exceptional, f.pc < Len(prog)
  PROVE  RangeUsed(op, f)[2] = 0 \/ RangeUsed(op, f)[1] + RangeUsed(op, f)[2] <= g.memSize
<1>1. PICK at : at = prog[f.pc + 1]
  OBVIOUS
<1>2. PICK p : p = Paid(f, prog)
  OBVIOUS
<1>3. op \in Known /\ f.pc \in Nat /\ Len(prog) \in Nat
  BY Sizes DEF MemoryUsers, Known
<1>4. /\ Sound(p) /\ Len(p.stack) >= Takes(at.op, at.n) /\ p.stack = f.stack /\ p.status = "running"
      /\ g = execute(at.op, at.n, p, prog)
  <2>1. g # haltEx(f, "invalid") /\ g # haltEx(f, "oog")
    BY DEF Sound, Frames, haltEx, Exceptional
  <2>2. Sound(p) => g # haltEx(p, "underflow")
    BY DEF Sound, Frames, haltEx, Exceptional
  <2> HIDE DEF Paid
  <2> QED
    BY <1>1, <1>2, <1>3, <2>1, <2>2, Steps
<1>5. PICK n \in Nat : n = at.n
  BY <1>1, <1>3, CodeAt
<1>6. g = execMemory(op, p)
  BY <1>1, <1>4, DoesMLOAD, DoesMSTORE, DoesMSTORE8, DoesKECCAK256, DoesREVERT DEF MemoryUsers
<1>7. RangeUsed(op, p)[2] = 0 \/ RangeUsed(op, p)[1] + RangeUsed(op, p)[2] <= g.memSize
  BY <1>1, <1>4, <1>5, <1>6, Affording
<1>8. RangeUsed(op, p) = RangeUsed(op, f)
  BY <1>4 DEF RangeUsed, Top
<1> QED
  BY <1>7, <1>8

\* An instruction takes a number of items.
LEMMA TakesNat ==
  ASSUME NEW op \in Known, NEW n \in Nat
  PROVE  Takes(op, n) \in Nat
<1>1. /\ op \in Unary \/ op \in {"POP", "MLOAD", "SLOAD", "JUMP"} => Takes(op, n) = 1
      /\ op \in Binary \/ op \in {"MSTORE", "MSTORE8", "SSTORE", "JUMPI", "KECCAK256", "REVERT"} => Takes(op, n) = 2
      /\ op \in Ternary => Takes(op, n) = 3
      /\ op = "DUP" => Takes(op, n) = n
      /\ op = "SWAP" => Takes(op, n) = n + 1
      /\ op \in {"STOP", "JUMPDEST", "PC", "MSIZE", "GAS", "PUSH0", "PUSH"} => Takes(op, n) = 0
  BY TakesOf
<1>2. Takes(op, n) \in {0, 1, 2, 3, n, n + 1}
  BY <1>1 DEF Known
<1> QED
  BY <1>2

\* A frame whose stack is longer than its array.
Overlong(f) == f \in Frames /\ f.status = "running" /\ Len(f.stack) > stackMax

\* What becomes of its memory and its status.
Idles(f, op, g) ==
  /\ g.memory = f.memory /\ g.memSize = f.memSize
  /\ g.status \notin Exceptional => op \in {"STOP", "JUMPDEST", "POP"}

\* Halts leave the memory.
LEMMA HaltIdles ==
  ASSUME NEW f, f \in Frames, NEW st \in Exceptional, NEW op
  PROVE  Idles(f, op, haltEx(f, st))
BY DEF Frames, haltEx, Idles

\* Where there is no room the frame halts.
LEMMA RoomIdles ==
  ASSUME NEW f, f \in Frames, Len(f.stack) >= stackMax, NEW op, NEW then
  PROVE  Idles(f, op, WithRoom(f, then))
<1>1. PICK st \in Exceptional : st = "overflow"
  BY DEF Exceptional
<1>2. WithRoom(f, then) = haltEx(f, st)
  BY <1>1 DEF WithRoom
<1> QED
  BY <1>2, HaltIdles

\* Of such a frame a step that reads nothing beyond the array leaves the memory, and
\* only an instruction that reads nothing at all succeeds.
LEMMA OverlongStep ==
  ASSUME NEW f, Overlong(f), NEW prog \in Seq(Instructions), f.pc < Len(prog), NEW op \in Known \cup Unknown, NEW n \in Nat,
         prog[f.pc + 1].op = op, prog[f.pc + 1].n = n, op \in {"DUP", "SWAP"} => n >= 1, ~IndexesBeyond(f, op, n)
  PROVE  Idles(f, op, StepOne(f, prog))
<1>1. /\ f \in Frames /\ f.status = "running" /\ f.pc \in Nat /\ f.gas \in Nat /\ f.stack \in Seq(Word)
      /\ Len(f.stack) \in Nat /\ Len(f.stack) > stackMax /\ stackMax \in Nat /\ stackMax > 3 /\ Len(prog) \in Nat
  BY FrameAssumption DEF Overlong, Frames
<1>2. PICK cost : cost = opGas(op)
  OBVIOUS
<1>3. PICK p : p = [f EXCEPT !.gas = f.gas - cost, !.pc = f.pc + 1]
  OBVIOUS
<1>4. PICK g : g = StepOne(f, prog)
  OBVIOUS
<1>5. g = IF cost = Invalid THEN haltEx(f, "invalid")
          ELSE IF f.gas < cost THEN haltEx(f, "oog")
          ELSE Requiring(p, Takes(op, n), execute(op, n, p, prog))
  BY <1>1, <1>2, <1>3, <1>4 DEF StepOne
<1>6. PICK oog \in Exceptional, invalid \in Exceptional, underflow \in Exceptional :
        oog = "oog" /\ invalid = "invalid" /\ underflow = "underflow"
  BY DEF Exceptional
<1>7. CASE cost = Invalid \/ f.gas < cost
  <2>1. g = haltEx(f, invalid) \/ g = haltEx(f, oog)
    BY <1>5, <1>6, <1>7
  <2> QED
    BY <1>1, <1>4, <2>1, HaltIdles
<1>8. CASE ~(cost = Invalid \/ f.gas < cost)
  <2>1. op \in Known /\ cost \in Nat /\ f.gas >= cost
    BY <1>1, <1>2, <1>8, GasOf
  <2>2. /\ p \in Frames /\ p.memory = f.memory /\ p.memSize = f.memSize /\ p.stack = f.stack
        /\ p.status = "running" /\ p.gas = f.gas - cost
    <3>1. PICK gas \in Nat, pc \in Nat : gas = f.gas - cost /\ pc = f.pc + 1
      BY <1>1, <2>1
    <3> QED
      BY <1>1, <1>3, <3>1 DEF Frames
  <2>3. ASSUME Idles(p, op, g) PROVE Idles(f, op, g)
    BY <2>2, <2>3 DEF Idles
  <2>4. CASE Len(p.stack) < Takes(op, n)
    <3>1. g = haltEx(p, underflow)
      BY <1>5, <1>6, <1>8, <2>4 DEF Requiring
    <3> QED
      BY <1>4, <2>2, <2>3, <3>1, HaltIdles
  <2>5. CASE ~(Len(p.stack) < Takes(op, n))
    <3>1. g = execute(op, n, p, prog)
      BY <1>5, <1>8, <2>5 DEF Requiring
    <3>2. \/ op \in {"STOP", "JUMPDEST", "POP", "PC", "MSIZE", "GAS", "PUSH0", "PUSH", "DUP"}
          \/ op = "EXP" /\ ~(f.gas - cost >= 50 * u256ByteLen(f.stack[Len(f.stack) - 1]))
      <4>1. f.gas - cost >= 0
        BY <1>1, <2>1
      <4>2. \/ Takes(op, n) \notin 1..Len(f.stack)
            \/ op \in {"POP", "DUP"}
            \/ op = "EXP" /\ ~(f.gas - cost >= 50 * u256ByteLen(f.stack[Len(f.stack) - 1]))
        BY <1>1, <1>2, <1>8, <4>1 DEF IndexesBeyond
      <4>3. CASE Takes(op, n) \notin 1..Len(f.stack)
        <5>1. Takes(op, n) \in Nat
          BY <2>1, TakesNat
        <5>2. Takes(op, n) = 0
          BY <1>1, <2>2, <2>5, <4>3, <5>1
        <5>3. op \notin Unary /\ op \notin Binary /\ op \notin Ternary
          BY <2>1, <5>2, TakesOf
        <5>4. op \notin {"MLOAD", "SLOAD", "JUMP", "MSTORE", "MSTORE8", "SSTORE", "JUMPI", "KECCAK256", "REVERT"}
          BY <2>1, <5>2, TakesOf
        <5>5. op # "SWAP"
          BY <2>1, <5>2, TakesOf
        <5> QED
          BY <2>1, <5>3, <5>4, <5>5 DEF Known
      <4> QED
        BY <4>2, <4>3
    <3>3. CASE op = "STOP"
      <4>1. g = [p EXCEPT !.status = "success"]
        BY <3>1, <3>3, DoesSTOP
      <4>2. g.memory = p.memory /\ g.memSize = p.memSize
        BY <2>2, <4>1 DEF Frames
      <4> QED
        BY <1>4, <2>3, <3>3, <4>2 DEF Idles
    <3>4. CASE op = "JUMPDEST"
      <4>1. g = p
        BY <3>1, <3>4, DoesJUMPDEST
      <4> QED
        BY <1>4, <2>3, <3>4, <4>1 DEF Idles
    <3>5. CASE op = "POP"
      <4>1. g = [p EXCEPT !.stack = SubSeq(p.stack, 1, Len(p.stack) - 1) \o <<>>]
        BY <3>1, <3>5, DoesPOP DEF Put
      <4>2. g.memory = p.memory /\ g.memSize = p.memSize
        BY <2>2, <4>1 DEF Frames
      <4> QED
        BY <1>4, <2>3, <3>5, <4>2 DEF Idles
    <3>6. CASE op \in {"PC", "MSIZE", "GAS", "PUSH0", "PUSH", "DUP"}
      <4>1. Len(p.stack) >= stackMax
        BY <1>1, <2>2
      <4>2. \E then : g = WithRoom(p, then)
        <5>1. CASE op = "PC"
          BY <3>1, <5>1, DoesPC, Zenon
        <5>2. CASE op = "MSIZE"
          BY <3>1, <5>2, DoesMSIZE, Zenon
        <5>3. CASE op = "GAS"
          BY <3>1, <5>3, DoesGAS, Zenon
        <5>4. CASE op = "PUSH0"
          BY <3>1, <5>4, DoesPUSH0, Zenon
        <5>5. CASE op = "PUSH"
          <6>1. g = execPush(p, prog, n)
            BY <3>1, <5>5, DoesPUSH, Zenon
          <6> QED
            BY <6>1, Zenon DEF execPush
        <5>6. CASE op = "DUP"
          BY <3>1, <5>6, DoesDUP, Zenon
        <5> QED
          BY <3>6, <5>1, <5>2, <5>3, <5>4, <5>5, <5>6
      <4> QED
        BY <1>4, <2>2, <2>3, <4>1, <4>2, RoomIdles
    <3>7. CASE op = "EXP" /\ ~(f.gas - cost >= 50 * u256ByteLen(f.stack[Len(f.stack) - 1]))
      <4>1. op \in Unary \cup Binary \cup Ternary
        BY <3>7 DEF Binary
      <4>2. PICK exp \in Nat : exp = 50 * u256ByteLen(Top(p, 1))
        BY ExponentGas
      <4>3. \E then : g = Extra(p, exp, then)
        <5>1. PICK then : then = [Put(p, Takes(op, n), <<Calculate(op, Top(p, 0), Top(p, 1), Top(p, 2))>>)
                                    EXCEPT !.gas = p.gas - (IF op = "EXP" THEN 50 * u256ByteLen(Top(p, 1)) ELSE 0)]
          OBVIOUS
        <5>2. g = Extra(p, (IF op = "EXP" THEN 50 * u256ByteLen(Top(p, 1)) ELSE 0), then)
          BY <3>1, <4>1, <5>1, DoesCalculate
        <5> QED
          BY <3>7, <4>2, <5>2, Zenon
      <4>4. p.gas < exp
        <5>1. Top(p, 1) = f.stack[Len(f.stack) - 1] /\ p.gas \in Nat
          BY <2>2 DEF Top, Frames
        <5> QED
          BY <2>2, <3>7, <4>2, <5>1
      <4>5. g = haltEx(p, oog)
        BY <1>6, <4>3, <4>4 DEF Extra
      <4> QED
        BY <1>4, <2>2, <2>3, <4>5, HaltIdles
    <3> QED
      BY <3>2, <3>3, <3>4, <3>5, <3>6, <3>7
  <2> QED
    BY <2>4, <2>5
<1> QED
  BY <1>7, <1>8

-----------------------------------------------------------------------------
\* The frames and codes that calls set up.
LEMMA NoSlots ==
  /\ <<>> \in Slots
  /\ NoDB \in [on : BOOLEAN, slots : Slots] /\ [NoDB EXCEPT !.on = TRUE] \in [on : BOOLEAN, slots : Slots]
<1>1. PICK s \in Slots : s = <<>>
  <2>1. {} \in SUBSET Word /\ <<>> \in [{} -> Word]
    OBVIOUS
  <2> QED
    BY <2>1 DEF Slots
<1> QED
  BY <1>1 DEF NoDB

\* A new frame is sound.
LEMMA ResetSound ==
  ASSUME NEW gas \in Nat, NEW db \in [on : BOOLEAN, slots : Slots]
  PROVE  LET f == Reset(gas, db)
         IN  /\ Sound(f) /\ f.pc = 0 /\ f.status = "running" /\ f.gas = gas /\ f.memSize = 0 /\ f.stack = <<>>
             /\ f.db = db /\ f.refund = 0 /\ f.retOff = 0 /\ f.retSize = 0
             /\ f.memory = [i \in 0..(memMax - 1) |-> 0]
<1>1. PICK mem \in Memories : mem = [i \in 0..(memMax - 1) |-> 0]
  <2>1. 0 \in 0..(Byte - 1)
    BY ByteFacts
  <2> QED
    BY <2>1 DEF Memories
<1>2. PICK t \in Seq(Word) : t = <<>> /\ Len(t) = 0
  BY EmptySeq
<1>3. PICK st \in Statuses : st = "running"
  BY DEF Statuses
<1>4. PICK f : f = [stack |-> t, pc |-> 0, gas |-> gas, refund |-> 0, status |-> st, memory |-> mem, memSize |-> 0,
                    retOff |-> 0, retSize |-> 0, db |-> db]
  OBVIOUS
<1>5. memMax \in Nat /\ 0 \in 0..memMax /\ WordBytes \in Nat /\ WordBytes >= 2 /\ stackMax \in Nat
  BY FrameAssumption, ByteFacts
<1>6. /\ f \in Frames /\ f.memSize = 0 /\ f.memory = mem /\ f.stack = t /\ f.pc = 0 /\ f.status = st /\ f.gas = gas /\ f.db = db
      /\ f.refund = 0 /\ f.retOff = 0 /\ f.retSize = 0
  BY <1>4, <1>5 DEF Frames
<1>7. 0 % WordBytes = 0
  BY <1>5
<1>8. Sound(f)
  BY <1>1, <1>2, <1>5, <1>6, <1>7 DEF Sound
<1>9. f = Reset(gas, db)
  BY <1>1, <1>2, <1>3, <1>4 DEF Reset
<1>10. /\ f.pc = 0 /\ f.status = "running" /\ f.gas = gas /\ f.memSize = 0 /\ f.stack = <<>>
       /\ f.db = db /\ f.refund = 0 /\ f.retOff = 0 /\ f.retSize = 0
       /\ f.memory = [i \in 0..(memMax - 1) |-> 0]
  BY <1>1, <1>2, <1>3, <1>6
<1> HIDE DEF Reset
<1> QED
  BY <1>8, <1>9, <1>10, Zenon

\* The bytes that VerifyWitness and executeSimulate put into codes are bytes of a code.
LEMMA InstrIn ==
  /\ Instr("STOP", 0) \in Instructions /\ Instr("JUMPDEST", 0) \in Instructions
  /\ \A b \in 0..(Byte - 1) : Data(b) \in Instructions
<1>1. 0 \in 0..(Byte - 1)
  BY ByteFacts
<1>2. "STOP" \in Known \cup Unknown /\ "JUMPDEST" \in Known \cup Unknown /\ "DATA" \in Known \cup Unknown
  BY DEF Known, Unknown
<1>3. Instr("STOP", 0) \in Instructions
  BY <1>1, <1>2 DEF Instr, Instructions
<1>4. Instr("JUMPDEST", 0) \in Instructions
  BY <1>1, <1>2 DEF Instr, Instructions
<1>5. ASSUME NEW b \in 0..(Byte - 1) PROVE Data(b) \in Instructions
  BY <1>2 DEF Data, Instructions
<1> QED
  BY <1>3, <1>4, <1>5

\* executeSimulate runs a code that has the instruction and room for its bytes.
LEMMA SimCodeIn ==
  ASSUME NEW op, NEW n \in Nat, Instr(op, n) \in Instructions, NEW pc \in Nat, NEW stack \in Seq(Word)
  PROVE  SimCode(op, n, pc, stack) \in Seq(Instructions) /\ Len(SimCode(op, n, pc, stack)) = pc + WordBytes + 2
<1>1. PICK N \in Nat : N = pc + WordBytes + 2
  BY ByteFacts
<1>2. PICK first \in Word : first = IF stack = <<>> THEN Zero ELSE stack[1]
  <2>1. CASE stack = <<>>
    BY <2>1, ZeroValue
  <2>2. CASE stack # <<>>
    <3>1. Len(stack) \in Nat \ {0}
      BY <2>2, EmptySeq
    <3>2. 1 \in 1..Len(stack)
      BY <3>1
    <3>3. stack[1] \in Word
      BY <3>2, ElementOfSeq
    <3> QED
      BY <2>2, <3>3
  <2> QED
    BY <2>1, <2>2
<1> DEFINE Pushed(k) == IF n = 1 THEN first[0] % Byte ELSE k % Byte
           At(i) == CASE i = pc + 1 -> Instr(op, n)
                      [] op = "PUSH" /\ i \in (pc + 2)..(pc + 1 + n) -> Data(Pushed(i - pc - 1))
                      [] OTHER -> Instr("STOP", 0)
<1>3. SimCode(op, n, pc, stack) = [i \in 1..N |-> At(i)]
  BY <1>1, <1>2 DEF SimCode
<1>4. ASSUME NEW k \in Int PROVE Pushed(k) \in 0..(Byte - 1)
  <2>1. first[0] \in Int /\ Byte \in Nat \ {0}
    BY NarrowValue, LimbFacts, ByteFacts
  <2>2. first[0] % Byte \in 0..(Byte - 1) /\ k % Byte \in 0..(Byte - 1)
    BY <2>1, DivMod
  <2> QED
    BY <2>2
<1> HIDE DEF Pushed
<1>5. ASSUME NEW i \in 1..N PROVE At(i) \in Instructions
  <2>1. CASE i = pc + 1
    <3>1. ~(op = "PUSH" /\ i \in (pc + 2)..(pc + 1 + n))
      BY <2>1
    <3>2. At(i) = Instr(op, n)
      BY <2>1, <3>1, Zenon
    <3> QED
      BY <3>2
  <2>2. CASE i # pc + 1 /\ op = "PUSH" /\ i \in (pc + 2)..(pc + 1 + n)
    <3>1. At(i) = Data(Pushed(i - pc - 1))
      BY <2>2, Zenon
    <3>2. Pushed(i - pc - 1) \in 0..(Byte - 1)
      <4>1. i - pc - 1 \in Int
        OBVIOUS
      <4> QED
        BY <1>4, <4>1
    <3> QED
      BY <3>1, <3>2, InstrIn
  <2>3. CASE i # pc + 1 /\ ~(op = "PUSH" /\ i \in (pc + 2)..(pc + 1 + n))
    <3>1. At(i) = Instr("STOP", 0)
      BY <2>3, Zenon
    <3> QED
      BY <3>1, InstrIn
  <2> QED
    BY <2>1, <2>2, <2>3
<1> HIDE DEF At
<1>6. [i \in 1..N |-> At(i)] \in [1..N -> Instructions]
  BY <1>5
<1> QED
  BY <1>1, <1>3, <1>6, Listed, SMTT(30)

\* The request's stack, or its first two items, or all but the first backwards, as
\* far as they fit.
LEMMA SimStackIn ==
  ASSUME NEW op, NEW n \in Nat, NEW stack \in Seq(Word), SimEnough(op, n, stack)
  PROVE  SimStack(op, n, stack) \in Seq(Word)
<1> DEFINE A == op \in {"SHL", "SHR"} \/ (op = "SWAP" /\ n = 1)
           B == op = "DUP" /\ n = 1
           C == op = "PUSH" /\ n = 1
           pair == <<stack[2], stack[1]>>
<1>1. Len(stack) \in Nat /\ stackMax \in Nat /\ \A i \in 1..Len(stack) : stack[i] \in Word
  BY FrameAssumption, ElementOfSeq
<1>2. ASSUME Len(stack) >= 2 PROVE pair \in Seq(Word)
  <2>1. stack[1] \in Word /\ stack[2] \in Word
    BY <1>1, <1>2
  <2>2. Len(pair) = 2 /\ pair \in Seq(Word)
    BY <2>1
  <2> QED
    BY <1>1, <1>2, <2>2
<1>3. CASE A
  <2>1. Len(stack) >= 2
    BY <1>3 DEF SimEnough, Plain
  <2>2. ~B /\ ~C
    BY <1>3
  <2>3. SimStack(op, n, stack) = pair
    BY <1>3, <2>2, Zenon DEF SimStack
  <2> QED
    BY <1>2, <2>1, <2>3
<1>4. CASE B
  <2>1. Len(stack) >= 1
    BY <1>4 DEF SimEnough
  <2>2. ~A /\ ~C
    BY <1>4
  <2>3. SimStack(op, n, stack) = IF Len(stack) >= 2 THEN pair ELSE SubSeq(stack, 1, 1)
    BY <1>4, <2>2, Zenon DEF SimStack
  <2>4. SubSeq(stack, 1, 1) \in Seq(Word) /\ Len(SubSeq(stack, 1, 1)) = 1
    <3>1. PICK one \in Int : one = 1
      OBVIOUS
    <3>2. \A i \in one..one : stack[i] \in Word
      BY <1>1, <2>1, <3>1
    <3>3. SubSeq(stack, one, one) \in Seq(Word) /\ Len(SubSeq(stack, one, one)) = IF one <= one THEN one - one + 1 ELSE 0
      BY <3>2, SubSeqProperties
    <3> QED
      BY <3>1, <3>3
  <2> QED
    BY <1>1, <1>2, <2>3, <2>4
<1>5. CASE C
  <2>1. ~A /\ ~B
    BY <1>5
  <2>2. PICK l \in Nat : l = IF Len(stack) = 0 THEN 0 ELSE Len(stack) - 1
    <3>1. (IF Len(stack) = 0 THEN 0 ELSE Len(stack) - 1) \in Nat
      BY <1>1
    <3> QED
      BY <3>1
  <2> DEFINE At(i) == IF Len(stack) - i < stackMax THEN stack[Len(stack) - i + 1] ELSE Zero
  <2>3. SimStack(op, n, stack) = [i \in 1..(Len(stack) - 1) |-> At(i)]
    BY <1>5, <2>1, Zenon DEF SimStack
  <2>4. 1..(Len(stack) - 1) = 1..l
    BY <1>1, <2>2
  <2>5. ASSUME NEW i \in 1..l PROVE At(i) \in Word
    <3>1. Len(stack) - i + 1 \in 1..Len(stack)
      BY <1>1, <2>2
    <3> QED
      BY <1>1, <3>1, ZeroValue
  <2> HIDE DEF At
  <2>6. [i \in 1..l |-> At(i)] \in [1..l -> Word]
    BY <2>5
  <2> QED
    BY <2>3, <2>4, <2>6, Listed
<1>6. CASE ~A /\ ~B /\ ~C
  <2>1. SimStack(op, n, stack) = stack
    BY <1>6, Zenon DEF SimStack
  <2> QED
    BY <2>1
<1> QED
  BY <1>3, <1>4, <1>5, <1>6

-----------------------------------------------------------------------------
\* The inductive invariant.  The second frame of a step is what the step makes of the
\* first, and both are sound, or a request had too many items: then nothing was done
\* to the memory and there is no witness.  A replay that goes on is at an instruction;
\* and a witness is that of the last step, with the root of a trie it may have seen.
Roots == {NoRoot} \cup {RootOf(f.db.slots) : f \in {g \in {before, frame} : g.db.on}}

RequestOverlong ==
  /\ phase = "done" /\ witness = NoWitness /\ Len(before.stack) > stackMax
  /\ frame.memSize = 0 /\ \A i \in 0..(memMax - 1) : frame.memory[i] = 0
  /\ frame.status \notin Exceptional => Instruction.op \in {"STOP", "JUMPDEST", "POP"}

FrameInv ==
  /\ phase \in {"idle", "replaying", "done", "panicked"}
  /\ code \in Seq(Instructions)
  /\ frame = before \/ (before.pc < Len(code) /\ frame = StepOne(before, code))
  /\ (Sound(frame) /\ Sound(before)) \/ RequestOverlong
  /\ phase = "replaying" /\ frame.status = "running" => frame.pc \in Starts(code)

WitnessInv ==
  /\ phase = "idle" => witness = NoWitness
  /\ witness # NoWitness =>
       /\ before.status = "running" /\ before.pc < Len(code) /\ frame = StepOne(before, code)
       /\ \E root \in Roots : witness = CaptureWitness(before, frame, Instruction.op, Instruction.n, root)

\* The invariant holds at first,
LEMMA Initially ==
  Init => FrameInv /\ WitnessInv
<1> SUFFICES ASSUME Init PROVE FrameInv /\ WitnessInv
  OBVIOUS
<1>1. PICK zero \in Nat : zero = 0
  OBVIOUS
<1>2. Sound(Reset(zero, NoDB))
  BY NoSlots, ResetSound
<1>3. Sound(frame) /\ Sound(before) /\ frame = before
  BY <1>1, <1>2 DEF Init
<1>4. code \in Seq(Instructions)
  BY EmptySeq DEF Init
<1> QED
  BY <1>3, <1>4 DEF Init, FrameInv, WitnessInv

\* and CaptureStepWitnesses keeps it,
LEMMA CaptureKeeps ==
  ASSUME FrameInv, NEW prog \in Programs, NEW gas \in Gases, NEW db \in {NoDB, [NoDB EXCEPT !.on = TRUE]}, WitnessInv,
         CaptureStepWitnesses(prog, gas, db)
  PROVE  FrameInv' /\ WitnessInv'
<1>1. PICK amount \in Nat : amount = IF gas = 0 THEN witnessGas ELSE gas
  BY ReplayAssumption
<1>2. db \in [on : BOOLEAN, slots : Slots]
  BY NoSlots
<1>3. PICK f : f = Reset(amount, db)
  OBVIOUS
<1>4. Sound(f) /\ f.pc = 0
  BY <1>2, <1>3, ResetSound
<1>5. frame' = f /\ before' = f /\ code' = prog /\ phase' = "replaying" /\ witness' = NoWitness
  BY <1>1, <1>2, <1>3 DEF CaptureStepWitnesses, WitnessInv
<1>6. prog \in Seq(Instructions)
  BY InputAssumption
<1>7. 0 \in Starts(prog)
  BY <1>6, StartsOf
<1>8. FrameInv'
  BY <1>4, <1>5, <1>6, <1>7 DEF FrameInv
<1>9. WitnessInv'
  BY <1>5 DEF WitnessInv
<1> QED
  BY <1>8, <1>9

\* and its loop,
LEMMA IterateKeeps ==
  ASSUME FrameInv, WitnessInv, Iterate, Digests
  PROVE  FrameInv' /\ WitnessInv'
<1>1. /\ phase = "replaying" /\ frame.status = "running" /\ frame.pc < Len(code) /\ before' = frame
      /\ frame' = StepOne(frame, code) /\ phase' = phase /\ code' = code
  BY DEF Iterate
<1>2. code \in Seq(Instructions) /\ Sound(frame) /\ frame.pc \in Starts(code)
  BY <1>1 DEF FrameInv, RequestOverlong
<1>3. Sound(frame') /\ (frame'.status = "running" => frame'.pc \in Starts(code))
  BY <1>1, <1>2, Stepping
<1>4. FrameInv'
  BY <1>1, <1>2, <1>3 DEF FrameInv
<1>5. \E root \in Roots' : witness' = CaptureWitness(before, frame, Instruction.op, Instruction.n, root)'
  <2>1. PICK root \in {NoRoot} \cup {RootOf(f.db.slots) : f \in {g \in {frame, frame'} : g.db.on}} :
          witness' = CaptureWitness(frame, frame', code[frame.pc + 1].op, code[frame.pc + 1].n, root)
    BY DEF Iterate
  <2>2. root \in Roots'
    BY <1>1, <2>1 DEF Roots
  <2>3. CaptureWitness(frame, frame', code[frame.pc + 1].op, code[frame.pc + 1].n, root)
          = CaptureWitness(before, frame, Instruction.op, Instruction.n, root)'
    BY <1>1 DEF Instruction
  <2> QED
    BY <2>1, <2>2, <2>3
<1>6. WitnessInv'
  BY <1>1, <1>5 DEF WitnessInv
<1> QED
  BY <1>4, <1>6

\* and executeSimulate,
LEMMA SimulateKeeps ==
  ASSUME FrameInv, WitnessInv, NEW req \in Requests, executeSimulate(req), Digests
  PROVE  FrameInv' /\ WitnessInv'
<1>1. /\ Instr(req.op, req.n) \in Instructions /\ req.pc \in Nat /\ req.gas \in Nat
      /\ req.stack \in Seq(Word)
  BY InputAssumption DEF Instr
<1>2. req.n \in Nat
  BY <1>1 DEF Instr, Instructions
<1>3. PICK op \in Known \cup Unknown, n \in Nat, pc \in Nat, stack \in Seq(Word) :
        op = req.op /\ n = req.n /\ pc = req.pc /\ stack = req.stack
  <2>1. req.op \in Known \cup Unknown
    BY <1>1 DEF Instr, Instructions
  <2> QED
    BY <1>1, <1>2, <2>1, Zenon
<1>4. PICK s \in Seq(Word) : s = SimStack(op, n, stack)
  <2>1. SimEnough(op, n, stack)
    BY <1>3 DEF executeSimulate
  <2> QED
    BY <1>1, <1>3, <2>1, SimStackIn
<1>5. PICK c \in Seq(Instructions) : c = SimCode(op, n, pc, stack) /\ Len(c) = pc + WordBytes + 2
  <2>1. Instr(op, n) \in Instructions
    BY <1>1, <1>3, Zenon
  <2> QED
    BY <2>1, SimCodeIn, Zenon
<1>6. PICK gas \in Nat : gas = IF req.gas = 0 THEN 100000 ELSE req.gas
  <2>1. (IF req.gas = 0 THEN 100000 ELSE req.gas) \in Nat
    BY <1>1
  <2> QED
    BY <2>1
<1>7. PICK f : f = Reset(gas, NoDB) /\ Sound(f) /\ f.status = "running"
  <2>1. Sound(Reset(gas, NoDB)) /\ Reset(gas, NoDB).status = "running"
    BY NoSlots, ResetSound
  <2> QED
    BY <2>1
<1>8. PICK pre : pre = [f EXCEPT !.pc = pc, !.stack = s]
  OBVIOUS
<1>9. /\ pre \in Frames /\ pre.status = "running" /\ pre.pc = pc /\ pre.stack = s /\ pre.memSize = f.memSize /\ pre.memory = f.memory
      /\ Len(s) \in Nat /\ stackMax \in Nat
  <2>1. pre \in Frames /\ pre.status = f.status /\ pre.pc = pc /\ pre.stack = s /\ pre.memSize = f.memSize /\ pre.memory = f.memory
    BY <1>7, <1>8 DEF Sound, Frames
  <2>2. Len(s) \in Nat /\ stackMax \in Nat
    BY FrameAssumption
  <2> QED
    BY <1>7, <2>1, <2>2
<1>10. pre = SimFrame(req)
  BY <1>3, <1>4, <1>6, <1>7, <1>8 DEF SimFrame
<1>11. /\ phase' = "done" /\ code' = c /\ before' = pre /\ frame' = StepOne(pre, c) /\ ~IndexesBeyond(pre, op, n)
       /\ witness' = IF frame'.status \in {"running", "success"} THEN CaptureWitness(pre, frame', op, n, NoRoot) ELSE NoWitness
  BY <1>3, <1>5, <1>10 DEF executeSimulate, SimPanics
<1>12. Len(s) <= stackMax => Sound(pre)
  BY <1>7, <1>9 DEF Sound
<1>13. c[pc + 1] = Instr(op, n)
  <2>1. pc + 1 \in 1..(pc + WordBytes + 2) /\ ~(op = "PUSH" /\ pc + 1 \in (pc + 2)..(pc + 1 + n))
    BY ByteFacts
  <2>2. PICK i \in 1..(pc + WordBytes + 2) : i = pc + 1 /\ ~(op = "PUSH" /\ i \in (pc + 2)..(pc + 1 + n))
    BY <2>1
  <2>3. SimCode(op, n, pc, stack)[i] = Instr(op, n)
    BY <2>2, Zenon DEF SimCode
  <2> QED
    BY <1>5, <2>2, <2>3
<1>14. c[pc + 1].op = op /\ c[pc + 1].n = n /\ pc < Len(c)
  BY <1>5, <1>13, ByteFacts, SMTT(30) DEF Instr
<1>15. Instruction' = c[pc + 1]
  BY <1>9, <1>11 DEF Instruction
<1>16. CASE Len(s) <= stackMax
  <2>1. Sound(frame') /\ Sound(pre)
    BY <1>11, <1>12, <1>16, Stepping
  <2>2. FrameInv'
    BY <1>9, <1>11, <1>14, <2>1 DEF FrameInv
  <2>3. NoRoot \in Roots'
    BY DEF Roots
  <2>4. CaptureWitness(pre, frame', op, n, NoRoot) = CaptureWitness(before, frame, Instruction.op, Instruction.n, NoRoot)'
    BY <1>11, <1>14, <1>15
  <2>5. WitnessInv'
    BY <1>9, <1>11, <1>14, <2>3, <2>4 DEF WitnessInv
  <2> QED
    BY <2>2, <2>5
<1>17. CASE ~(Len(s) <= stackMax)
  <2>1. Overlong(pre) /\ Len(pre.stack) > stackMax
    BY <1>9, <1>17 DEF Overlong
  <2>2. op \in {"DUP", "SWAP"} => n >= 1
    BY <1>1, <1>3 DEF Instr, Instructions
  <2>3. Idles(pre, op, frame')
    BY <1>9, <1>11, <1>14, <2>1, <2>2, OverlongStep
  <2>4. witness' = NoWitness
    <3>1. CASE frame'.status \in {"running", "success"}
      <4>1. op \in {"STOP", "JUMPDEST", "POP"}
        BY <2>3, <3>1 DEF Idles, Exceptional
      <4>2. ~opcodeSupported(op, n)
        BY <4>1 DEF opcodeSupported, Plain
      <4> QED
        BY <1>11, <3>1, <4>2 DEF CaptureWitness
    <3> QED
      BY <1>11, <3>1
  <2>5. f.memSize = 0 /\ \A i \in 0..(memMax - 1) : f.memory[i] = 0
    <3>1. Reset(gas, NoDB).memSize = 0 /\ Reset(gas, NoDB).memory = [i \in 0..(memMax - 1) |-> 0]
      BY NoSlots, ResetSound, ZenonT(30)
    <3> QED
      BY <1>7, <3>1
  <2>6. frame'.memSize = 0 /\ \A i \in 0..(memMax - 1) : frame'.memory[i] = 0
    BY <1>9, <2>3, <2>5 DEF Idles
  <2>7. frame'.status \notin Exceptional => Instruction'.op \in {"STOP", "JUMPDEST", "POP"}
    BY <1>14, <1>15, <2>3 DEF Idles
  <2>8. RequestOverlong'
    BY <1>11, <2>1, <2>4, <2>6, <2>7 DEF RequestOverlong
  <2>9. FrameInv'
    BY <1>9, <1>11, <1>14, <2>8 DEF FrameInv
  <2>10. WitnessInv'
    BY <1>11, <2>4 DEF WitnessInv
  <2> QED
    BY <2>9, <2>10
<1> QED
  BY <1>16, <1>17

\* also when it panics,
LEMMA PanicKeeps ==
  ASSUME FrameInv, WitnessInv, NEW req \in Requests, SimulatePanics(req)
  PROVE  FrameInv' /\ WitnessInv'
<1>1. /\ phase = "idle" /\ phase' = "panicked"
      /\ code' = code /\ frame' = frame /\ before' = before /\ witness' = witness
  BY DEF SimulatePanics
<1>2. witness = NoWitness /\ ~RequestOverlong
  BY <1>1 DEF WitnessInv, RequestOverlong
<1>3. FrameInv'
  BY <1>1, <1>2 DEF FrameInv
<1>4. WitnessInv'
  BY <1>1, <1>2 DEF WitnessInv
<1> QED
  BY <1>3, <1>4

\* and so every step.
LEMMA NextKeeps ==
  ASSUME FrameInv, WitnessInv, [Next]_vars, Digests
  PROVE  FrameInv' /\ WitnessInv'
<1>1. CASE UNCHANGED vars
  BY <1>1 DEF vars, FrameInv, RequestOverlong, WitnessInv, Roots, Instruction
<1>2. CASE Next
  BY <1>2, CaptureKeeps, IterateKeeps, SimulateKeeps, PanicKeeps DEF Next
<1> QED
  BY <1>1, <1>2

\* The inductive invariant holds in every state: frames are sound unless a request had
\* too many items, a replay that goes on is at an instruction, and a witness is that
\* of the last step.
THEOREM OneStepInvariant ==
  ASSUME Digests
  PROVE  Spec => [](FrameInv /\ WitnessInv)
<1>1. Init => FrameInv /\ WitnessInv
  BY Initially
<1>2. FrameInv /\ WitnessInv /\ [Next]_vars => (FrameInv /\ WitnessInv)'
  BY NextKeeps
<1> QED
  BY <1>1, <1>2, PTL DEF Spec

\* A frame that runs is at an instruction, never inside the bytes of a PUSH; its
\* memory is whole words, blank where it has not been paid for, and paid for as far
\* as the last step used it; and its stack is within its limit, unless a request was
\* beyond it, and then there is no witness: whatever code is replayed and whatever
\* request simulated.
THEOREM FramesSound ==
  ASSUME Digests
  PROVE  Spec => []FramesStaySound
<1>1. FrameInv => FramesStaySound
  <2> SUFFICES ASSUME FrameInv PROVE FramesStaySound
    OBVIOUS
  <2>1. WordBytes \in Nat \ {0} /\ stackMax \in Nat
    BY ByteFacts, FrameAssumption
  <2>2. phase # "idle" /\ frame.status = "running" => phase \in {"done", "panicked"} \/ frame.pc \in Starts(code)
    BY DEF FrameInv
  <2>3. CASE RequestOverlong
    <3>1. 0 % WordBytes = 0
      BY <2>1
    <3>2. ~(frame.status \notin Exceptional /\ Instruction.op \in MemoryUsers)
      BY <2>3 DEF RequestOverlong, MemoryUsers
    <3> QED
      BY <2>2, <2>3, <3>1, <3>2 DEF FramesStaySound, RequestOverlong
  <2>4. CASE Sound(frame) /\ Sound(before)
    <3>1. frame.memSize % WordBytes = 0 /\ (\A i \in frame.memSize..(memMax - 1) : frame.memory[i] = 0) /\ ~(Len(frame.stack) > stackMax)
      <4>1. Len(frame.stack) \in Nat
        BY <2>4, Sizes
      <4> QED
        BY <2>1, <2>4, <4>1 DEF Sound
    <3>2. ASSUME Stepped, frame.status \notin Exceptional, Instruction.op \in MemoryUsers
          PROVE  \/ RangeUsed(Instruction.op, before)[2] = 0
                 \/ RangeUsed(Instruction.op, before)[1] + RangeUsed(Instruction.op, before)[2] <= frame.memSize
      <4>1. frame = StepOne(before, code) /\ before.pc < Len(code) /\ code \in Seq(Instructions)
        BY <3>2 DEF FrameInv, Stepped
      <4>2. before.status = "running"
        BY <3>2, <4>1 DEF StepOne, Stepped
      <4> QED
        BY <2>4, <3>2, <4>1, <4>2, StepAffords DEF Instruction
    <3> QED
      BY <2>2, <3>1, <3>2 DEF FramesStaySound
  <2> QED
    BY <2>3, <2>4 DEF FrameInv
<1> QED
  BY <1>1, OneStepInvariant, PTL

\* Every arithmetic instruction leaves what it means on numbers, for words of any
\* size.
THEOREM ArithmeticSound ==
  ASSUME Digests
  PROVE  Spec => []ArithmeticExact
<1>1. FrameInv => ArithmeticExact
  <2> SUFFICES ASSUME FrameInv, Stepped, frame.status = "running", Instruction.op \in Unary \cup Binary \cup Ternary
               PROVE  /\ Value(Top(frame, 0)) = Meaning(Instruction.op, Args(before, Instruction.op, 0), Args(before, Instruction.op, 1),
                                                        Args(before, Instruction.op, 2))
                      /\ Len(frame.stack) = Len(before.stack) - Takes(Instruction.op, 0) + 1
    BY DEF ArithmeticExact, Args
  <2>1. Sound(before) /\ frame = StepOne(before, code) /\ code \in Seq(Instructions)
    <3>1. ~RequestOverlong
      BY DEF RequestOverlong, Exceptional, Unary, Binary, Ternary
    <3> QED
      BY <3>1 DEF FrameInv, Stepped
  <2>2. before.status = "running"
    BY <2>1 DEF StepOne, Stepped
  <2> QED
    BY <2>1, <2>2, StepExact DEF Instruction
<1> QED
  BY <1>1, OneStepInvariant, PTL

-----------------------------------------------------------------------------
\* Witnesses.  The window of a stack has its uppermost n items, the deepest first.
Upper(f, n) == [i \in 1..4 |-> IF i <= n THEN Top(f, n - i) ELSE Zero]
Windows == [1..4 -> Word]

\* A window is as large as is asked if the stack has that much.
LEMMA Smallest ==
  ASSUME NEW n \in 0..4, NEW l \in Nat, l >= n
  PROVE  Min({n, 4, l}) = n
<1>1. \A y \in {n, 4, l} : n <= y
  OBVIOUS
<1>2. \A x \in {n, 4, l} : (\A y \in {n, 4, l} : x <= y) => x = n
  OBVIOUS
<1> QED
  BY <1>1, <1>2 DEF Min

\* copyStackWindow is the uppermost n items then.
LEMMA Windowed ==
  ASSUME NEW f, Sound(f), NEW n \in 0..4, Len(f.stack) >= n
  PROVE  copyStackWindow(f, n) = Upper(f, n) /\ Upper(f, n) \in Windows
<1>1. PICK l \in Nat : l = Len(f.stack) /\ l >= n
  BY Sizes
<1>2. copyStackWindow(f, n) = [i \in 1..4 |-> IF i <= n THEN f.stack[l - n + i] ELSE Zero]
  BY <1>1, Smallest DEF copyStackWindow
<1>3. ASSUME NEW i \in 1..4, i <= n PROVE f.stack[l - n + i] = Top(f, n - i) /\ Top(f, n - i) \in Word
  <2>1. n - i \in Nat /\ n - i < Len(f.stack) /\ l - n + i = l - (n - i)
    BY <1>1, <1>3
  <2> QED
    BY <1>1, <2>1, Tops DEF Top
<1>4. Zero \in Word
  BY ZeroValue
<1> QED
  BY <1>2, <1>3, <1>4 DEF Upper, Windows

\* f is at the instruction op of prog, can pay for it, and has what it takes.
Ready(f, prog, op, n) ==
  /\ Sound(f) /\ f.status = "running" /\ prog \in Seq(Instructions) /\ f.pc < Len(prog)
  /\ prog[f.pc + 1].op = op /\ prog[f.pc + 1].n = n
  /\ f.gas >= opGas(op) /\ Len(f.stack) >= Takes(op, n)

\* g has run on, with a window of n items; or f has stopped, after it had paid.
Ends(g, pc, gas, n, out) == g.status = "running" /\ g.pc = pc /\ g.gas = gas /\ copyStackWindow(g, n) = out
Fails(f, g) == g.status \in Exceptional /\ g.gas = 0 /\ g.pc = f.pc + 1 /\ g.stack = f.stack

\* p is f when it has paid; the switch does the rest.
Pays(f, prog, op, n, p) ==
  /\ Sound(p) /\ p.status = "running" /\ p.pc = f.pc + 1 /\ p.gas = f.gas - opGas(op) /\ p.stack = f.stack
  /\ Alike(f, p) /\ opGas(op) \in Nat /\ p.gas \in Nat /\ f.gas \in Nat /\ f.pc \in Nat
  /\ n \in Nat /\ (op = "PUSH" => n \in 1..WordBytes) /\ (op \in {"DUP", "SWAP"} => n >= 1)
  /\ StepOne(f, prog) = execute(op, n, p, prog)

\* A frame that is ready pays, and the switch does the rest.
LEMMA Runs ==
  ASSUME NEW f, NEW prog, NEW op \in Known, NEW n, Ready(f, prog, op, n)
  PROVE  \E p : Pays(f, prog, op, n, p)
<1>1. /\ Sound(f) /\ f.status = "running" /\ prog \in Seq(Instructions) /\ f.pc < Len(prog)
      /\ prog[f.pc + 1].op = op /\ prog[f.pc + 1].n = n /\ f.gas >= opGas(op) /\ Len(f.stack) >= Takes(op, n)
  BY DEF Ready
<1>2. PICK p : p = Paid(f, prog)
  OBVIOUS
<1>3. PICK cost \in Nat : cost = opGas(op)
  BY GasOf
<1>4. /\ Sound(p) /\ Alike(f, p) /\ p.status = f.status /\ p.stack = f.stack /\ p.pc = f.pc + 1 /\ p.gas = f.gas - cost
  BY <1>1, <1>2, <1>3, Paying DEF Paid
<1>5. f.gas \in Nat /\ f.pc \in Nat /\ p.gas \in Nat
  BY <1>1, <1>4, Sizes
<1>6. n \in Nat /\ (op = "PUSH" => n \in 1..WordBytes) /\ (op \in {"DUP", "SWAP"} => n >= 1)
  BY <1>1, <1>5, CodeAt
<1>7. StepOne(f, prog) = execute(op, n, p, prog)
  <2>1. ~(f.pc >= Len(prog)) /\ ~(f.gas < cost) /\ ~(Len(p.stack) < Takes(op, n)) /\ cost # Invalid
    <3>1. Len(f.stack) \in Nat /\ Len(prog) \in Nat
      BY <1>1, Sizes
    <3>2. Takes(op, n) \in Nat
      BY <1>6, TakesNat
    <3>3. cost # Invalid
      BY <1>3 DEF Invalid
    <3> QED
      BY <1>1, <1>3, <1>4, <1>5, <3>1, <3>2, <3>3
  <2>2. StepOne(f, prog) = Requiring(p, Takes(op, n), execute(op, n, p, prog))
    <3>1. p = [f EXCEPT !.gas = f.gas - opGas(prog[f.pc + 1].op), !.pc = f.pc + 1]
      BY <1>2 DEF Paid
    <3> QED
      BY <1>1, <1>3, <2>1, <3>1 DEF StepOne
  <2> QED
    BY <2>1, <2>2 DEF Requiring
<1> QED
  BY <1>1, <1>3, <1>4, <1>5, <1>6, <1>7 DEF Pays

\* It cannot pay.
LEMMA Poor ==
  ASSUME NEW f, NEW prog, Sound(f), f.status = "running", prog \in Seq(Instructions), f.pc < Len(prog),
         prog[f.pc + 1].op \in Known, f.gas < opGas(prog[f.pc + 1].op)
  PROVE  Stopped(f, "oog", StepOne(f, prog))
<1>1. opGas(prog[f.pc + 1].op) # Invalid
  BY GasOf DEF Invalid
<1>2. f.pc \in Nat /\ Len(prog) \in Nat
  BY Sizes
<1>3. StepOne(f, prog) = haltEx(f, "oog")
  BY <1>1, <1>2 DEF StepOne
<1> QED
  BY <1>3, Halted

\* A halt after paying fails the step.
LEMMA StoppedFails ==
  ASSUME NEW f, NEW p, p.pc = f.pc + 1, p.stack = f.stack, NEW st \in Exceptional, NEW g, Stopped(p, st, g)
  PROVE  Fails(f, g)
BY DEF Stopped, Fails

\* Windows of one item, and of none.
One(x) == [i \in 1..4 |-> IF i = 1 THEN x ELSE Zero]
Blank == [i \in 1..4 |-> Zero]

\* The window of the uppermost item,
LEMMA OneWindow ==
  ASSUME NEW g, Sound(g), Len(g.stack) >= 1, NEW x, Top(g, 0) = x
  PROVE  copyStackWindow(g, 1) = One(x) /\ x \in Word /\ One(x) \in Windows
<1>1. PICK one \in 0..4 : one = 1
  OBVIOUS
<1>2. copyStackWindow(g, one) = Upper(g, one) /\ Upper(g, one) \in Windows
  BY <1>1, Windowed
<1>3. Upper(g, one) = One(x)
  <2>1. ASSUME NEW i \in 1..4 PROVE (IF i <= one THEN Top(g, one - i) ELSE Zero) = (IF i = 1 THEN x ELSE Zero)
    <3>1. CASE i = 1
      <4>1. one - i = 0 /\ i <= one
        BY <1>1, <3>1
      <4> QED
        BY <3>1, <4>1
    <3>2. CASE i # 1
      BY <1>1, <3>2
    <3> QED
      BY <3>1, <3>2
  <2> QED
    BY <2>1 DEF Upper, One
<1>4. One(x)[1] = x /\ 1 \in 1..4
  BY DEF One
<1> QED
  BY <1>1, <1>2, <1>3, <1>4 DEF Windows

\* and of none.
LEMMA BlankWindow ==
  ASSUME NEW g, Sound(g)
  PROVE  copyStackWindow(g, 0) = Blank /\ Blank \in Windows
<1>1. PICK none \in 0..4 : none = 0
  OBVIOUS
<1>2. copyStackWindow(g, none) = Upper(g, none) /\ Upper(g, none) \in Windows
  BY <1>1, Windowed, Sizes
<1>3. Upper(g, none) = Blank
  BY <1>1 DEF Upper, Blank
<1> QED
  BY <1>1, <1>2, <1>3

\* How many items the instructions leave, as CaptureWitness counts them.
LEMMA Arities ==
  ASSUME NEW op, NEW n
  PROVE  /\ op \in Plain \cup {"MLOAD", "SLOAD", "PUSH0", "PUSH"} => outArity(op, n) = 1
         /\ op \in {"DUP", "SWAP"} => outArity(op, n) = n + 1
         /\ op \in {"MSTORE", "SSTORE", "JUMP", "JUMPI"} => outArity(op, n) = 0
BY DEF outArity, Plain

\* What the steps of the supported instructions come to.
LEMMA StepPlain ==
  ASSUME NEW f, NEW prog, NEW op \in Plain, NEW n, Ready(f, prog, op, n)
  PROVE  /\ Calculate(op, Top(f, 0), Top(f, 1), Zero) \in Word
         /\ Ends(StepOne(f, prog), f.pc + 1, f.gas - opGas(op), 1, One(Calculate(op, Top(f, 0), Top(f, 1), Zero)))
<1>1. op \in Known /\ op \in Binary /\ op # "EXP"
  BY DEF Plain, Known, Binary
<1>2. PICK p : Pays(f, prog, op, n, p)
  BY <1>1, Runs, Zenon
<1>3. /\ Sound(p) /\ p.status = "running" /\ p.pc = f.pc + 1 /\ p.gas = f.gas - opGas(op) /\ p.stack = f.stack
      /\ p.gas \in Nat /\ n \in Nat /\ StepOne(f, prog) = execute(op, n, p, prog)
  BY <1>2 DEF Pays
<1>4. Takes(op, n) = 2
  BY <1>1, <1>3, TakesOf
<1>5. Len(p.stack) >= 2
  BY <1>3, <1>4 DEF Ready
<1>6. PICK a \in Word, b \in Word : a = Top(p, 0) /\ b = Top(p, 1) /\ a = Top(f, 0) /\ b = Top(f, 1)
  <2>1. Top(p, 0) \in Word /\ Top(p, 1) \in Word
    BY <1>3, <1>5, Tops, Sizes
  <2>2. Top(p, 0) = Top(f, 0) /\ Top(p, 1) = Top(f, 1)
    BY <1>3 DEF Top
  <2> QED
    BY <2>1, <2>2
<1>7. PICK x \in Word : x = Calculate(op, a, b, Zero)
  BY <1>1, ZeroValue, CalculateExact
<1>8. execute(op, n, p, prog) = Extra(p, 0, [Put(p, 2, <<x>>) EXCEPT !.gas = p.gas - 0])
  <2>1. execute(op, n, p, prog) = Extra(p, (IF op = "EXP" THEN 50 * u256ByteLen(Top(p, 1)) ELSE 0), [Put(p, Takes(op, n), <<Calculate(op, Top(p, 0), Top(p, 1), Top(p, 2))>>) EXCEPT !.gas = p.gas - (IF op = "EXP" THEN 50 * u256ByteLen(Top(p, 1)) ELSE 0)])
    BY <1>1, DoesCalculate, Zenon
  <2>2. Calculate(op, Top(p, 0), Top(p, 1), Top(p, 2)) = x
    BY <1>1, <1>6, <1>7, CalculateBinary
  <2> QED
    BY <1>1, <1>4, <2>1, <2>2
<1>9. PICK two \in 0..Len(p.stack) : two = 2 /\ Len(p.stack) - two < stackMax
  BY <1>3, <1>5, Sizes
<1>10. PICK h : h = Put(p, two, <<x>>) /\ Sound(h) /\ Kept(p, h) /\ Len(h.stack) = Len(p.stack) - two + 1 /\ Top(h, 0) = x
  BY <1>3, <1>9, Topped
<1>11. PICK gas \in Nat : gas = p.gas
  BY <1>3
<1>12. PICK e : e = [h EXCEPT !.gas = gas]
  OBVIOUS
<1>13. execute(op, n, p, prog) = e
  BY <1>3, <1>8, <1>9, <1>10, <1>12, <1>11 DEF Extra
<1>14. Sound(e) /\ e.pc = h.pc /\ e.status = h.status /\ e.stack = h.stack /\ e.gas = p.gas
  BY <1>10, <1>12, <1>11, GasSet
<1>15. Top(e, 0) = x /\ Len(e.stack) >= 1
  <2>1. Len(p.stack) \in Nat
    BY <1>3, Sizes
  <2> QED
    BY <1>5, <1>9, <1>10, <1>14, <2>1 DEF Top
<1>16. copyStackWindow(e, 1) = One(x)
  BY <1>14, <1>15, OneWindow
<1>17. Ends(e, f.pc + 1, f.gas - opGas(op), 1, One(x))
  BY <1>3, <1>10, <1>14, <1>16 DEF Ends, Kept
<1> QED
  BY <1>3, <1>6, <1>7, <1>13, <1>17

\* PUSH0 pushes zero, or fails on a full stack.
LEMMA StepPush0 ==
  ASSUME NEW f, NEW prog, NEW op, op = "PUSH0", NEW n, Ready(f, prog, op, n)
  PROVE  LET g == StepOne(f, prog)
         IN  /\ Len(f.stack) < stackMax => Ends(g, f.pc + 1, f.gas - opGas(op), 1, One(Zero))
             /\ ~(Len(f.stack) < stackMax) => Fails(f, g)
<1>1. op \in Known
  BY DEF Known
<1>2. PICK p : Pays(f, prog, op, n, p)
  BY <1>1, Runs, Zenon
<1>3. /\ Sound(p) /\ p.status = "running" /\ p.pc = f.pc + 1 /\ p.gas = f.gas - opGas(op) /\ p.stack = f.stack
      /\ p.gas \in Nat /\ n \in Nat /\ StepOne(f, prog) = execute(op, n, p, prog)
  BY <1>2 DEF Pays
<1>4. PICK x \in Word : x = Zero
  BY ZeroValue
<1>5. PICK g : g = StepOne(f, prog) /\ g = WithRoom(p, Put(p, 0, <<x>>))
  BY <1>3, <1>4, DoesPUSH0
<1>6. \/ Len(p.stack) < stackMax /\ Sound(g) /\ Kept(p, g) /\ Len(g.stack) = Len(p.stack) + 1 /\ Top(g, 0) = x
      \/ Len(p.stack) >= stackMax /\ Stopped(p, "overflow", g)
  BY <1>3, <1>5, Pushing
<1>7. Len(p.stack) \in Nat /\ stackMax \in Nat
  BY <1>3, Sizes
<1>8. CASE Len(p.stack) < stackMax
  <2>1. Sound(g) /\ Kept(p, g) /\ Len(g.stack) >= 1 /\ Top(g, 0) = x
    BY <1>6, <1>7, <1>8
  <2>2. copyStackWindow(g, 1) = One(x)
    BY <2>1, OneWindow
  <2>3. Ends(g, f.pc + 1, f.gas - opGas(op), 1, One(x))
    BY <1>3, <2>1, <2>2 DEF Ends, Kept
  <2> QED
    BY <1>3, <1>4, <1>5, <1>8, <2>3
<1>9. CASE ~(Len(p.stack) < stackMax)
  <2>1. PICK st \in Exceptional : st = "overflow"
    BY DEF Exceptional
  <2>2. Fails(f, g)
    BY <1>3, <1>6, <1>7, <1>9, <2>1, StoppedFails
  <2> QED
    BY <1>3, <1>5, <1>9, <2>2
<1> QED
  BY <1>8, <1>9

\* PUSHn pushes the bytes behind it, or fails.
LEMMA StepPush ==
  ASSUME NEW f, NEW prog, NEW op, op = "PUSH", NEW n, Ready(f, prog, op, n), NEW bytes,
         bytes = [p \in 1..WordBytes |->
                    IF p > WordBytes - n
                    THEN IF f.pc + 1 + (p - (WordBytes - n)) <= Len(prog) THEN prog[f.pc + 1 + (p - (WordBytes - n))].byte ELSE 0
                    ELSE 0]
  PROVE  LET g == StepOne(f, prog)
         IN  /\ bytes \in Bytes /\ FromBytesBE(bytes) \in Word /\ n \in 1..WordBytes
             /\ Len(f.stack) < stackMax => Ends(g, f.pc + 1 + n, f.gas - opGas(op), 1, One(FromBytesBE(bytes))) /\ Top(g, 0) = FromBytesBE(bytes) /\ Len(g.stack) >= 1
             /\ ~(Len(f.stack) < stackMax) => Fails(f, g) /\ g.status = "overflow"
<1>1. op \in Known
  BY DEF Known
<1>2. PICK p : Pays(f, prog, op, n, p)
  BY <1>1, Runs, Zenon
<1>3. /\ Sound(p) /\ p.status = "running" /\ p.pc = f.pc + 1 /\ p.gas = f.gas - opGas(op) /\ p.stack = f.stack
      /\ p.gas \in Nat /\ n \in 1..WordBytes /\ f.pc \in Nat /\ StepOne(f, prog) = execute(op, n, p, prog)
  BY <1>2 DEF Pays
<1>4. prog \in Seq(Instructions)
  BY DEF Ready
<1>5. bytes = PushBytes(p, prog, n)
  BY <1>3 DEF PushBytes
<1>6. PICK x \in Word : x = FromBytesBE(bytes) /\ bytes \in Bytes /\ execPush(p, prog, n) = WithRoom(p, [Put(p, 0, <<x>>) EXCEPT !.pc = p.pc + n])
  <2>1. /\ PushBytes(p, prog, n) \in Bytes /\ FromBytesBE(PushBytes(p, prog, n)) \in Word
        /\ execPush(p, prog, n) = WithRoom(p, [Put(p, 0, <<FromBytesBE(PushBytes(p, prog, n))>>) EXCEPT !.pc = p.pc + n])
    BY <1>3, <1>4, PushedBytes
  <2> QED
    BY <1>5, <2>1, Zenon
<1>7. PICK g : g = StepOne(f, prog) /\ g = WithRoom(p, [Put(p, 0, <<x>>) EXCEPT !.pc = p.pc + n])
  BY <1>3, <1>6, DoesPUSH
<1>8. Len(p.stack) \in Nat /\ stackMax \in Nat /\ WordBytes \in Nat
  BY <1>3, Sizes, ByteFacts
<1>9. CASE Len(p.stack) < stackMax
  <2>1. PICK zero \in 0..Len(p.stack) : zero = 0 /\ Len(p.stack) - zero < stackMax /\ Len(p.stack) - zero + 1 = Len(p.stack) + 1
    BY <1>8, <1>9
  <2>2. PICK h : h = Put(p, zero, <<x>>) /\ Sound(h) /\ Kept(p, h) /\ Len(h.stack) = Len(p.stack) - zero + 1 /\ Top(h, 0) = x
    BY <1>3, <2>1, Topped
  <2>3. PICK pc \in Nat : pc = p.pc + n /\ pc = f.pc + 1 + n
    BY <1>3, <1>8
  <2>4. g = [h EXCEPT !.pc = pc]
    BY <1>7, <1>8, <1>9, <2>1, <2>2, <2>3 DEF WithRoom
  <2>5. Sound(g) /\ g.pc = pc /\ g.gas = h.gas /\ g.status = h.status /\ g.stack = h.stack
    BY <2>2, <2>4, PcSet
  <2>6. Top(g, 0) = x /\ Len(g.stack) >= 1
    BY <1>8, <2>1, <2>2, <2>5 DEF Top
  <2>7. copyStackWindow(g, 1) = One(x)
    BY <2>5, <2>6, OneWindow
  <2>8. Ends(g, f.pc + 1 + n, f.gas - opGas(op), 1, One(x))
    BY <1>3, <2>2, <2>3, <2>5, <2>7 DEF Ends, Kept
  <2> QED
    BY <1>3, <1>6, <1>7, <1>9, <2>6, <2>8
<1>10. CASE ~(Len(p.stack) < stackMax)
  <2>1. PICK st \in Exceptional : st = "overflow"
    BY DEF Exceptional
  <2>2. g = haltEx(p, "overflow")
    BY <1>7, <1>8, <1>10 DEF WithRoom
  <2>3. Stopped(p, "overflow", g)
    BY <1>3, <2>2, Halted
  <2>4. Fails(f, g) /\ g.status = "overflow"
    BY <1>3, <2>1, <2>3, StoppedFails DEF Stopped
  <2> QED
    BY <1>3, <1>6, <1>7, <1>10, <2>4
<1> QED
  BY <1>9, <1>10

\* SLOAD replaces a key by its value.
LEMMA StepLoad ==
  ASSUME NEW f, NEW prog, NEW op, op = "SLOAD", NEW n, Ready(f, prog, op, n)
  PROVE  LET g == StepOne(f, prog)
             x == Slot(f.db, Top(f, 0))
         IN  /\ x \in Word /\ Top(f, 0) \in Word
             /\ Ends(g, f.pc + 1, f.gas - opGas(op), 1, One(x)) /\ Top(g, 0) = x /\ Alike(f, g)
<1>1. op \in Known
  BY DEF Known
<1>2. PICK p : Pays(f, prog, op, n, p)
  BY <1>1, Runs, Zenon
<1>3. /\ Sound(p) /\ p.status = "running" /\ p.pc = f.pc + 1 /\ p.gas = f.gas - opGas(op) /\ p.stack = f.stack
      /\ p.gas \in Nat /\ n \in Nat /\ Alike(f, p) /\ StepOne(f, prog) = execute(op, n, p, prog)
  BY <1>2 DEF Pays
<1>4. Len(p.stack) >= 1
  <2>1. Takes(op, n) = 1
    BY <1>1, <1>3, TakesOf
  <2> QED
    BY <1>3, <2>1 DEF Ready
<1>5. PICK key \in Word : key = Top(p, 0) /\ key = Top(f, 0)
  <2>1. Top(p, 0) \in Word
    BY <1>3, <1>4, Tops, Sizes
  <2> QED
    BY <1>3, <2>1 DEF Top
<1>6. PICK x \in Word : x = Slot(p.db, key) /\ x = Slot(f.db, key)
  <2>1. p.db.slots \in Slots /\ p.db = f.db
    BY <1>3 DEF Sound, Frames, Alike
  <2> QED
    BY <2>1, SlotWord
<1>7. PICK g : g = StepOne(f, prog) /\ g = Put(p, 1, <<x>>)
  BY <1>3, <1>5, <1>6, DoesSLOAD DEF execStorage
<1>8. PICK one \in 0..Len(p.stack) : one = 1 /\ Len(p.stack) - one < stackMax /\ Len(p.stack) - one + 1 = Len(p.stack)
  BY <1>3, <1>4, Sizes
<1>9. Sound(g) /\ Kept(p, g) /\ Len(g.stack) = Len(p.stack) - one + 1 /\ Top(g, 0) = x
  BY <1>3, <1>7, <1>8, Topped
<1>10. copyStackWindow(g, 1) = One(x)
  BY <1>4, <1>8, <1>9, OneWindow
<1>11. Ends(g, f.pc + 1, f.gas - opGas(op), 1, One(x))
  BY <1>3, <1>9, <1>10 DEF Ends, Kept
<1>12. Alike(f, g)
  BY <1>3, <1>9 DEF Kept, Alike
<1> QED
  BY <1>5, <1>6, <1>7, <1>9, <1>11, <1>12

\* SSTORE changes neither gas nor pc,
LEMMA StoreKeeps ==
  ASSUME NEW f, Sound(f), Len(f.stack) >= 2
  PROVE  LET g == execStorage("SSTORE", f) IN Sound(g) /\ g.status = f.status /\ g.pc = f.pc /\ g.gas = f.gas
<1>1. PICK key \in Word, val \in Word : key = Top(f, 0) /\ val = Top(f, 1)
  BY Tops, Sizes
<1>2. PICK two \in Nat : two = 2 /\ two \in 0..Len(f.stack)
  BY Sizes
<1>3. PICK h : h = Put(f, two, <<>>) /\ Sound(h) /\ Kept(f, h)
  BY <1>2, Dropped
<1>4. f.db \in [on : BOOLEAN, slots : Slots] /\ f.refund \in Nat
  BY DEF Sound, Frames
<1>5. PICK db \in [on : BOOLEAN, slots : Slots] : db = Stored(f.db, key, val)
  BY <1>4, StoredSlots
<1>6. PICK refund \in Nat : refund = f.refund + (IF Slot(f.db, key) # Zero /\ val = Zero THEN 15000 ELSE 0)
  <2>1. f.refund + 15000 \in Nat /\ f.refund + 0 \in Nat
    BY <1>4
  <2> QED
    BY <2>1
<1>7. execStorage("SSTORE", f) = IF ~f.db.on THEN h ELSE [h EXCEPT !.db = db, !.refund = refund]
  BY <1>1, <1>2, <1>3, <1>5, <1>6 DEF execStorage
<1>8. PICK e : e = [h EXCEPT !.db = db, !.refund = refund]
  OBVIOUS
<1>9. e \in Frames /\ e.stack = h.stack /\ e.memSize = h.memSize /\ e.memory = h.memory /\ e.pc = h.pc /\ e.gas = h.gas /\ e.status = h.status
  BY <1>3, <1>8 DEF Sound, Frames
<1>10. Sound(e)
  BY <1>3, <1>9 DEF Sound
<1> QED
  BY <1>3, <1>7, <1>8, <1>9, <1>10 DEF Kept

\* and takes its two items.
LEMMA StepStore ==
  ASSUME NEW f, NEW prog, NEW op, op = "SSTORE", NEW n, Ready(f, prog, op, n)
  PROVE  /\ Ends(StepOne(f, prog), f.pc + 1, f.gas - opGas(op), 0, Blank)
         /\ Top(f, 0) \in Word /\ Top(f, 1) \in Word
<1>1. op \in Known
  BY DEF Known
<1>2. PICK p : Pays(f, prog, op, n, p)
  BY <1>1, Runs, Zenon
<1>3. /\ Sound(p) /\ p.status = "running" /\ p.pc = f.pc + 1 /\ p.gas = f.gas - opGas(op) /\ p.stack = f.stack
      /\ p.gas \in Nat /\ n \in Nat /\ StepOne(f, prog) = execute(op, n, p, prog)
  BY <1>2 DEF Pays
<1>4. Len(p.stack) >= 2
  <2>1. Takes(op, n) = 2
    BY <1>1, <1>3, TakesOf
  <2> QED
    BY <1>3, <2>1 DEF Ready
<1>5. PICK key \in Word, val \in Word : key = Top(p, 0) /\ val = Top(p, 1) /\ key = Top(f, 0) /\ val = Top(f, 1)
  <2>1. Top(p, 0) \in Word /\ Top(p, 1) \in Word
    BY <1>3, <1>4, Tops, Sizes
  <2> QED
    BY <1>3, <2>1 DEF Top
<1>6. PICK g : g = StepOne(f, prog) /\ g = execStorage("SSTORE", p)
  BY <1>3, DoesSSTORE
<1>7. Sound(g) /\ g.status = p.status /\ g.pc = p.pc /\ g.gas = p.gas
  BY <1>3, <1>4, <1>6, StoreKeeps
<1>8. copyStackWindow(g, 0) = Blank
  BY <1>7, BlankWindow
<1>9. Ends(g, f.pc + 1, f.gas - opGas(op), 0, Blank)
  BY <1>3, <1>7, <1>8 DEF Ends
<1> QED
  BY <1>5, <1>6, <1>9

\* The windows that DUPn and SWAPn leave.
DupOut(f, n) == [i \in 1..4 |-> IF i <= n THEN Top(f, n - i) ELSE IF i = n + 1 THEN Top(f, n - 1) ELSE Zero]
SwapOut(f, n) ==
  [i \in 1..4 |-> IF i > n + 1 THEN Zero ELSE IF i = 1 THEN Top(f, 0) ELSE IF i = n + 1 THEN Top(f, n) ELSE Top(f, n + 1 - i)]

\* DUPn repeats an item, or fails on a full stack.
LEMMA StepDup ==
  ASSUME NEW f, NEW prog, NEW op, op = "DUP", NEW n, n <= 3, Ready(f, prog, op, n)
  PROVE  LET g == StepOne(f, prog)
         IN  /\ n \in 1..3
             /\ Len(f.stack) < stackMax => Ends(g, f.pc + 1, f.gas - opGas(op), n + 1, DupOut(f, n))
             /\ ~(Len(f.stack) < stackMax) => Fails(f, g)
<1>1. op \in Known
  BY DEF Known
<1>2. PICK p : Pays(f, prog, op, n, p)
  BY <1>1, Runs, Zenon
<1>3. /\ Sound(p) /\ p.status = "running" /\ p.pc = f.pc + 1 /\ p.gas = f.gas - opGas(op) /\ p.stack = f.stack
      /\ p.gas \in Nat /\ n \in Nat /\ n >= 1 /\ StepOne(f, prog) = execute(op, n, p, prog)
  BY <1>2 DEF Pays
<1>4. PICK l \in Nat : l = Len(p.stack) /\ l = Len(f.stack) /\ l >= n /\ stackMax \in Nat /\ l <= stackMax
  <2>1. Takes(op, n) = n
    BY <1>1, <1>3, TakesOf
  <2> QED
    BY <1>3, <2>1, Sizes DEF Ready
<1>5. PICK x \in Word : x = Top(p, n - 1) /\ x = Top(f, n - 1)
  <2>1. PICK d \in Nat : d = n - 1 /\ d < l
    BY <1>3, <1>4
  <2>2. Top(p, d) \in Word
    BY <1>3, <1>4, <2>1, Tops
  <2>3. Top(p, d) = Top(f, d)
    BY <1>3 DEF Top
  <2> QED
    BY <2>1, <2>2, <2>3
<1>6. PICK g : g = StepOne(f, prog) /\ g = WithRoom(p, Put(p, 0, <<x>>))
  BY <1>3, <1>5, DoesDUP
<1>7. CASE l < stackMax
  <2>1. PICK t \in Seq(Word) : t = <<x>> /\ Len(t) = 1 /\ t[1] = x
    <3>1. <<x>> \in Seq(Word) /\ Len(<<x>>) = 1 /\ <<x>>[1] = x
      OBVIOUS
    <3> QED
      BY <3>1, Zenon
  <2>2. PICK zero \in 0..Len(p.stack) : zero = 0 /\ Len(p.stack) - zero + Len(t) <= stackMax
    BY <1>4, <1>7, <2>1
  <2>3. g = Put(p, zero, t)
    BY <1>4, <1>6, <1>7, <2>1, <2>2 DEF WithRoom
  <2>4. Sound(g) /\ Kept(p, g) /\ Replacing(p.stack, zero, t, g.stack)
    BY <1>3, <2>2, <2>3, Putting
  <2>5. Len(g.stack) = l + 1 /\ (\A i \in 1..l : g.stack[i] = f.stack[i]) /\ g.stack[l + 1] = x
    <3>1. /\ Len(g.stack) = l - zero + 1 /\ (\A i \in 1..(l - zero) : g.stack[i] = f.stack[i])
          /\ \A i \in 1..1 : g.stack[l - zero + i] = t[i]
      BY <1>3, <1>4, <2>1, <2>4 DEF Replacing
    <3>2. l - zero = l /\ 1 \in 1..1
      BY <2>2
    <3> QED
      BY <2>1, <3>1, <3>2
  <2>6. PICK k \in 0..4 : k = n + 1 /\ Len(g.stack) >= k
    BY <1>3, <1>4, <2>5, SMTT(30)
  <2>7. copyStackWindow(g, k) = Upper(g, k)
    BY <2>4, <2>6, Windowed
  <2>8. ASSUME NEW i \in 1..4
        PROVE  (IF i <= k THEN Top(g, k - i) ELSE Zero) = IF i <= n THEN Top(f, n - i) ELSE IF i = n + 1 THEN Top(f, n - 1) ELSE Zero
    <3>1. CASE i <= n
      <4>1. i <= k /\ l + 1 - (k - i) = l - (n - i) /\ l - (n - i) \in 1..l
        <5>1. PICK m \in Nat : m = n /\ i <= m /\ m <= l /\ k = m + 1
          BY <1>3, <1>4, <2>6, <3>1
        <5>2. i <= k /\ l + 1 - (k - i) = l - (m - i) /\ l - (m - i) \in 1..l
          BY <5>1
        <5> QED
          BY <5>1, <5>2
      <4>2. Top(g, k - i) = f.stack[l - (n - i)]
        BY <2>5, <4>1 DEF Top
      <4> QED
        BY <1>4, <3>1, <4>1, <4>2 DEF Top
    <3>2. CASE i = n + 1
      <4>1. i <= k /\ ~(i <= n) /\ l + 1 - (k - i) = l + 1
        BY <1>3, <1>4, <2>6, <3>2
      <4>2. Top(g, k - i) = x
        BY <2>5, <4>1 DEF Top
      <4> QED
        BY <1>5, <3>2, <4>1, <4>2
    <3>3. CASE ~(i <= n) /\ i # n + 1
      BY <1>3, <2>6, <3>3
    <3> QED
      BY <3>1, <3>2, <3>3
  <2>9. Upper(g, k) = DupOut(f, n)
    BY <2>8 DEF Upper, DupOut
  <2>10. Ends(g, f.pc + 1, f.gas - opGas(op), n + 1, DupOut(f, n))
    BY <1>3, <2>4, <2>6, <2>7, <2>9 DEF Ends, Kept
  <2> QED
    BY <1>3, <1>4, <1>6, <1>7, <2>10
<1>8. CASE ~(l < stackMax)
  <2>1. PICK st \in Exceptional : st = "overflow"
    BY DEF Exceptional
  <2>2. g = haltEx(p, "overflow")
    BY <1>4, <1>6, <1>8 DEF WithRoom
  <2>3. Stopped(p, "overflow", g)
    BY <1>3, <2>2, Halted
  <2>4. Fails(f, g)
    BY <1>3, <2>1, <2>3, StoppedFails
  <2> QED
    BY <1>3, <1>4, <1>6, <1>8, <2>4
<1> QED
  BY <1>7, <1>8

\* SWAPn exchanges two items.
LEMMA StepSwap ==
  ASSUME NEW f, NEW prog, NEW op, op = "SWAP", NEW n, n <= 3, Ready(f, prog, op, n)
  PROVE  n \in 1..3 /\ Ends(StepOne(f, prog), f.pc + 1, f.gas - opGas(op), n + 1, SwapOut(f, n))
<1>1. op \in Known
  BY DEF Known
<1>2. PICK p : Pays(f, prog, op, n, p)
  BY <1>1, Runs, Zenon
<1>3. /\ Sound(p) /\ p.status = "running" /\ p.pc = f.pc + 1 /\ p.gas = f.gas - opGas(op) /\ p.stack = f.stack
      /\ p.gas \in Nat /\ n \in Nat /\ n >= 1 /\ StepOne(f, prog) = execute(op, n, p, prog)
  BY <1>2 DEF Pays
<1>4. PICK l \in Nat : l = Len(p.stack) /\ l = Len(f.stack) /\ l >= n + 1
  <2>1. Takes(op, n) = n + 1
    BY <1>1, <1>3, TakesOf
  <2> QED
    BY <1>3, <2>1, Sizes DEF Ready
<1>5. PICK s \in [1..l -> Word] : s = f.stack
  <2>1. p.stack \in Seq(Word) /\ p.stack \in [1..Len(p.stack) -> Word]
    BY <1>3, Sizes, LenProperties
  <2> QED
    BY <1>3, <1>4, <2>1
<1>6. PICK g : g = StepOne(f, prog) /\ g = [p EXCEPT !.stack = [p.stack EXCEPT ![Len(p.stack)] = p.stack[Len(p.stack) - n], ![Len(p.stack) - n] = p.stack[Len(p.stack)]]]
  BY <1>3, DoesSWAP
<1>7. Sound(g)
  BY <1>3, <1>4, <1>6, SwapGoes DEF Goes
<1>8. PICK t : t = [s EXCEPT ![l] = s[l - n], ![l - n] = s[l]]
  OBVIOUS
<1>9. g.stack = t /\ g.status = p.status /\ g.pc = p.pc /\ g.gas = p.gas
  <2>1. g = [p EXCEPT !.stack = t]
    BY <1>3, <1>4, <1>5, <1>6, <1>8
  <2> QED
    BY <1>3, <2>1 DEF Sound, Frames
<1>10. l \in 1..l /\ l - n \in 1..l /\ l # l - n
  BY <1>3, <1>4
<1>11. t \in [1..l -> Word] /\ t[l] = s[l - n] /\ t[l - n] = s[l] /\ \A i \in 1..l : i # l /\ i # l - n => t[i] = s[i]
  BY <1>8, <1>10
<1>12. PICK k \in 0..4 : k = n + 1
  BY <1>3
<1>13. Len(g.stack) = l /\ l >= k
  BY <1>4, <1>9, <1>11, <1>12, Listed
<1>14. copyStackWindow(g, k) = Upper(g, k)
  BY <1>7, <1>13, Windowed
<1>15. ASSUME NEW i \in 1..4
       PROVE  (IF i <= k THEN Top(g, k - i) ELSE Zero)
                = IF i > n + 1 THEN Zero ELSE IF i = 1 THEN Top(f, 0) ELSE IF i = n + 1 THEN Top(f, n) ELSE Top(f, n + 1 - i)
  <2>1. CASE i > n + 1
    BY <1>3, <1>12, <2>1
  <2>2. CASE i = 1
    <3>1. i <= k /\ ~(i > n + 1) /\ l - (k - i) = l - n /\ l - 0 = l
      BY <1>3, <1>12, <2>2
    <3>2. Top(g, k - i) = s[l] /\ Top(f, 0) = s[l]
      BY <1>4, <1>5, <1>9, <1>11, <1>13, <3>1 DEF Top
    <3> QED
      BY <2>2, <3>1, <3>2
  <2>3. CASE i = n + 1
    <3>1. i <= k /\ ~(i > n + 1) /\ i # 1 /\ l - (k - i) = l
      BY <1>3, <1>12, <2>3
    <3>2. Top(g, k - i) = s[l - n] /\ Top(f, n) = s[l - n]
      BY <1>4, <1>5, <1>9, <1>11, <1>13, <3>1 DEF Top
    <3> QED
      BY <2>3, <3>1, <3>2
  <2>4. CASE ~(i > n + 1) /\ i # 1 /\ i # n + 1
    <3>1. i <= k /\ l - (k - i) = l - (n + 1 - i) /\ l - (k - i) \in 1..l /\ l - (k - i) # l /\ l - (k - i) # l - n
      BY <1>3, <1>4, <1>12, <2>4
    <3>2. Top(g, k - i) = s[l - (k - i)] /\ Top(f, n + 1 - i) = s[l - (k - i)]
      BY <1>4, <1>5, <1>9, <1>11, <1>13, <3>1 DEF Top
    <3> QED
      BY <2>4, <3>1, <3>2
  <2> QED
    BY <2>1, <2>2, <2>3, <2>4
<1>16. Upper(g, k) = SwapOut(f, n)
  BY <1>15 DEF Upper, SwapOut
<1>17. Ends(g, f.pc + 1, f.gas - opGas(op), n + 1, SwapOut(f, n))
  BY <1>3, <1>9, <1>12, <1>14, <1>16 DEF Ends
<1> QED
  BY <1>3, <1>6, <1>17

\* A jump that does not stop the frame.
JumpOK(prog, dest) == FitsU64(dest) /\ dest[0] <= MaxUint32 /\ jumpdestOK(prog, dest[0])

\* JumpTo goes to a destination that is a JUMPDEST, or halts.
LEMMA Jumped ==
  ASSUME NEW p, Sound(p), p.status = "running", NEW prog \in Seq(Instructions), NEW k \in {1, 2}, Len(p.stack) >= k
  PROVE  LET g == JumpTo(p, prog, Top(p, 0))
             e == IF g.status = "running" THEN Put(g, k, <<>>) ELSE g
         IN  /\ JumpOK(prog, Top(p, 0)) => Ends(e, Top(p, 0)[0], p.gas, 0, Blank)
             /\ ~JumpOK(prog, Top(p, 0)) => Stopped(p, "jumpdest", e)
<1>1. PICK dest \in Word : dest = Top(p, 0)
  BY Tops, Sizes
<1>2. PICK g : g = JumpTo(p, prog, dest)
  OBVIOUS
<1>3. PICK e : e = IF g.status = "running" THEN Put(g, k, <<>>) ELSE g
  OBVIOUS
<1>4. CASE JumpOK(prog, dest)
  <2>1. dest[0] \in Nat
    BY <1>4, StartsOf DEF JumpOK, jumpdestOK
  <2>2. PICK pc \in Nat : pc = dest[0]
    BY <2>1
  <2>3. g = [p EXCEPT !.pc = pc]
    BY <1>2, <1>4, <2>2 DEF JumpOK, JumpTo
  <2>4. Sound(g) /\ g.pc = pc /\ g.gas = p.gas /\ g.status = "running" /\ g.stack = p.stack
    BY <2>3, PcSet
  <2>5. k \in 0..Len(g.stack)
    BY <2>4, Sizes
  <2>6. e = Put(g, k, <<>>)
    BY <1>3, <2>4
  <2>7. Sound(e) /\ Kept(g, e)
    BY <2>4, <2>5, <2>6, Dropped
  <2>8. copyStackWindow(e, 0) = Blank
    BY <2>7, BlankWindow
  <2>9. Ends(e, dest[0], p.gas, 0, Blank)
    BY <2>2, <2>4, <2>7, <2>8 DEF Ends, Kept
  <2> QED
    BY <1>1, <1>2, <1>3, <1>4, <2>9
<1>5. CASE ~JumpOK(prog, dest)
  <2>1. g = haltEx(p, "jumpdest")
    BY <1>2, <1>5 DEF JumpOK, JumpTo
  <2>2. Stopped(p, "jumpdest", g)
    BY <2>1, Halted
  <2>3. e = g
    BY <1>3, <2>2 DEF Stopped
  <2> QED
    BY <1>1, <1>2, <1>3, <1>5, <2>2, <2>3
<1> QED
  BY <1>1, <1>4, <1>5

\* JUMP goes to its destination, or fails.
LEMMA StepJump ==
  ASSUME NEW f, NEW prog, NEW op, op = "JUMP", NEW n, Ready(f, prog, op, n)
  PROVE  LET g == StepOne(f, prog)
         IN  /\ JumpOK(prog, Top(f, 0)) => Ends(g, Top(f, 0)[0], f.gas - opGas(op), 0, Blank)
             /\ ~JumpOK(prog, Top(f, 0)) => Fails(f, g)
<1>1. op \in Known
  BY DEF Known
<1>2. PICK p : Pays(f, prog, op, n, p)
  BY <1>1, Runs, Zenon
<1>3. /\ Sound(p) /\ p.status = "running" /\ p.pc = f.pc + 1 /\ p.gas = f.gas - opGas(op) /\ p.stack = f.stack
      /\ p.gas \in Nat /\ n \in Nat /\ StepOne(f, prog) = execute(op, n, p, prog)
  BY <1>2 DEF Pays
<1>4. prog \in Seq(Instructions) /\ Len(p.stack) >= 1
  <2>1. Takes(op, n) = 1
    BY <1>1, <1>3, TakesOf
  <2> QED
    BY <1>3, <2>1 DEF Ready
<1>5. PICK g : g = JumpTo(p, prog, Top(p, 0))
  OBVIOUS
<1>6. PICK e : e = IF g.status = "running" THEN Put(g, 1, <<>>) ELSE g
  OBVIOUS
<1>7. StepOne(f, prog) = e
  BY <1>3, <1>5, <1>6, DoesJUMP
<1>8. /\ JumpOK(prog, Top(p, 0)) => Ends(e, Top(p, 0)[0], p.gas, 0, Blank)
      /\ ~JumpOK(prog, Top(p, 0)) => Stopped(p, "jumpdest", e)
  <2>1. PICK k \in {1, 2} : k = 1
    OBVIOUS
  <2>2. e = IF g.status = "running" THEN Put(g, k, <<>>) ELSE g
    BY <1>6, <2>1
  <2> QED
    BY <1>3, <1>4, <1>5, <2>1, <2>2, Jumped
<1>9. Top(p, 0) = Top(f, 0)
  BY <1>3 DEF Top
<1>10. PICK st \in Exceptional : st = "jumpdest"
  BY DEF Exceptional
<1>11. ~JumpOK(prog, Top(p, 0)) => Fails(f, e)
  BY <1>3, <1>8, <1>10, StoppedFails
<1> QED
  BY <1>3, <1>7, <1>8, <1>9, <1>11

\* JUMPI goes on for a condition of zero, and else jumps or fails.
LEMMA StepJumpI ==
  ASSUME NEW f, NEW prog, NEW op, op = "JUMPI", NEW n, Ready(f, prog, op, n)
  PROVE  LET g == StepOne(f, prog)
         IN  /\ IsZero(Top(f, 1)) => Ends(g, f.pc + 1, f.gas - opGas(op), 0, Blank)
             /\ ~IsZero(Top(f, 1)) /\ JumpOK(prog, Top(f, 0)) => Ends(g, Top(f, 0)[0], f.gas - opGas(op), 0, Blank)
             /\ ~IsZero(Top(f, 1)) /\ ~JumpOK(prog, Top(f, 0)) => Fails(f, g)
<1>1. op \in Known
  BY DEF Known
<1>2. PICK p : Pays(f, prog, op, n, p)
  BY <1>1, Runs, Zenon
<1>3. /\ Sound(p) /\ p.status = "running" /\ p.pc = f.pc + 1 /\ p.gas = f.gas - opGas(op) /\ p.stack = f.stack
      /\ p.gas \in Nat /\ n \in Nat /\ StepOne(f, prog) = execute(op, n, p, prog)
  BY <1>2 DEF Pays
<1>4. prog \in Seq(Instructions) /\ Len(p.stack) >= 2
  <2>1. Takes(op, n) = 2
    BY <1>1, <1>3, TakesOf
  <2> QED
    BY <1>3, <2>1 DEF Ready
<1>5. PICK g : g = IF IsZero(Top(p, 1)) THEN p ELSE JumpTo(p, prog, Top(p, 0))
  OBVIOUS
<1>6. PICK e : e = IF g.status = "running" THEN Put(g, 2, <<>>) ELSE g
  OBVIOUS
<1>7. StepOne(f, prog) = e
  BY <1>3, <1>5, <1>6, DoesJUMPI
<1>8. Top(p, 0) = Top(f, 0) /\ Top(p, 1) = Top(f, 1)
  BY <1>3 DEF Top
<1>9. PICK k \in {1, 2} : k = 2 /\ k \in 0..Len(p.stack)
  BY <1>3, <1>4, Sizes
<1>10. CASE IsZero(Top(p, 1))
  <2>1. g = p /\ e = Put(p, k, <<>>)
    BY <1>3, <1>5, <1>6, <1>9, <1>10
  <2>2. Sound(e) /\ Kept(p, e)
    BY <1>3, <1>9, <2>1, Dropped
  <2>3. copyStackWindow(e, 0) = Blank
    BY <2>2, BlankWindow
  <2>4. Ends(e, f.pc + 1, f.gas - opGas(op), 0, Blank)
    BY <1>3, <2>2, <2>3 DEF Ends, Kept
  <2> QED
    BY <1>7, <1>8, <1>10, <2>4
<1>11. CASE ~IsZero(Top(p, 1))
  <2>1. g = JumpTo(p, prog, Top(p, 0)) /\ e = IF g.status = "running" THEN Put(g, k, <<>>) ELSE g
    BY <1>5, <1>6, <1>9, <1>11
  <2>2. /\ JumpOK(prog, Top(p, 0)) => Ends(e, Top(p, 0)[0], p.gas, 0, Blank)
        /\ ~JumpOK(prog, Top(p, 0)) => Stopped(p, "jumpdest", e)
    BY <1>3, <1>4, <1>9, <2>1, Jumped
  <2>3. PICK st \in Exceptional : st = "jumpdest"
    BY DEF Exceptional
  <2>4. ~JumpOK(prog, Top(p, 0)) => Fails(f, e)
    BY <1>3, <2>2, <2>3, StoppedFails
  <2> QED
    BY <1>3, <1>7, <1>8, <1>11, <2>2, <2>4
<1> QED
  BY <1>10, <1>11

\* More words cost more.
LEMMA GasGrows ==
  ASSUME NEW a \in Nat, NEW b \in Nat, a < b
  PROVE  memGas(a) \in Nat /\ memGas(b) \in Nat /\ memGas(a) < memGas(b) /\ memGas(0) = 0
<1>1. PICK w \in Nat \ {0} : w = 512
  OBVIOUS
<1>2. PICK s \in Int, t \in Int : s = a * a /\ t = b * b /\ s <= t /\ 0 <= s
  BY SMT
<1>3. PICK q \in Int, r \in Int : q = s \div w /\ r = s % w /\ s = w * q + r /\ 0 <= r /\ r < w
  BY DivPick, Zenon
<1>4. PICK u \in Int, v \in Int : u = t \div w /\ v = t % w /\ t = w * u + v /\ 0 <= v /\ v < w
  BY DivPick, Zenon
<1>5. 0 <= q /\ q <= u
  BY <1>1, <1>2, <1>3, <1>4
<1>6. memGas(a) = 3 * a + q /\ memGas(b) = 3 * b + u
  BY <1>1, <1>2, <1>3, <1>4 DEF memGas
<1>7. memGas(0) = 0
  BY DEF memGas
<1> QED
  BY <1>5, <1>6, <1>7

\* A word of memory at a place, and what is paid for it.
InReach(off) == FitsU64(off) /\ off[0] <= memMax - WordBytes
Grow(f, at) ==
  IF Words(at + WordBytes) * WordBytes <= f.memSize THEN 0 ELSE memGas(Words(at + WordBytes)) - memGas(Words(f.memSize))

\* Where a word ends, in whole words.
LEMMA WordEnd ==
  ASSUME NEW at \in Nat
  PROVE  LET new == Words(at + WordBytes) * WordBytes
         IN  /\ new \in Nat /\ new >= WordBytes /\ Words(at + WordBytes) \in Nat \ {0} /\ at + WordBytes <= new
             /\ Words(new) = Words(at + WordBytes)
             /\ at <= memMax - WordBytes => new <= memMax
<1>1. PICK W \in Nat \ {0} : W = WordBytes /\ W >= 2
  BY ByteFacts
<1>2. PICK size \in Nat : size = at + W
  OBVIOUS
<1>3. PICK q \in Nat : q = Words(size) /\ size <= q * W /\ q * W < size + W
  BY <1>1, WordsOf
<1>4. q # 0
  BY <1>2, <1>3
<1>5. PICK new \in Nat : new = q * W
  OBVIOUS
<1>6. Words(new) = q
  <2>1. Division(new + W - 1, W, q, W - 1)
    <3>1. new = W * q
      BY <1>5
    <3> QED
      BY <3>1 DEF Division
  <2> QED
    BY <1>1, <2>1, Divides DEF Words
<1>7. ASSUME at <= memMax - W PROVE new <= memMax
  <2>1. PICK M \in Nat : M = memMax /\ M % W = 0
    BY <1>1, FrameAssumption
  <2>2. M = Words(M) * W /\ Words(M) \in Nat
    BY <1>1, <2>1, WordsWhole, WordsOf
  <2>3. PICK m \in Nat : m = Words(M) /\ M = m * W
    BY <2>2
  <2>4. q * W < m * W + W
    BY <1>2, <1>3, <1>7, <2>1, <2>3
  <2>5. q < m + 1
    <3>1. ASSUME q >= m + 1 PROVE FALSE
      <4>1. q * W >= (m + 1) * W
        BY <3>1
      <4>2. (m + 1) * W = m * W + W
        OBVIOUS
      <4> QED
        BY <2>4, <4>1, <4>2
    <3> QED
      BY <3>1
  <2>6. q * W <= m * W
    BY <2>5
  <2> QED
    BY <1>5, <2>1, <2>3, <2>6
<1> QED
  BY <1>1, <1>2, <1>3, <1>4, <1>5, <1>6, <1>7

\* What a word of memory costs is not negative, and nothing only where it is within
\* the size; from an empty memory it is the price of its words.
LEMMA Growing ==
  ASSUME NEW f, Sound(f), NEW at \in Nat
  PROVE  LET new == Words(at + WordBytes) * WordBytes
         IN  /\ Grow(f, at) \in Nat
             /\ ~(new <= f.memSize) => Grow(f, at) > 0 /\ new > f.memSize
             /\ f.memSize = 0 => Grow(f, at) = memGas(Words(at + WordBytes))
             /\ f.memSize # 0 => Grow(f, at) < memGas(Words(at + WordBytes))
             /\ memGas(Words(at + WordBytes)) \in Nat
<1>1. PICK W \in Nat \ {0} : W = WordBytes /\ W >= 2
  BY ByteFacts
<1>2. PICK new \in Nat, q \in Nat \ {0} : q = Words(at + WordBytes) /\ new = q * W /\ new >= W
  BY <1>1, WordEnd
<1>3. f.memSize \in Nat /\ f.memSize % WordBytes = 0
  BY Sizes DEF Sound
<1>4. PICK old \in Nat, m \in Nat : old = f.memSize /\ m = Words(old) /\ old = m * W
  <2>1. Words(f.memSize) \in Nat /\ Words(f.memSize) * WordBytes = f.memSize
    BY <1>3, WordsOf, WordsWhole
  <2> QED
    BY <1>1, <1>3, <2>1, Zenon
<1>5. memGas(q) \in Nat /\ memGas(m) \in Nat /\ memGas(0) = 0 /\ 0 < memGas(q)
  <2>1. 0 < q
    BY <1>2
  <2>2. memGas(0) < memGas(q) /\ memGas(q) \in Nat /\ memGas(0) = 0
    BY <2>1, GasGrows
  <2>3. m < m + 1 /\ m + 1 \in Nat
    OBVIOUS
  <2>4. memGas(m) \in Nat
    BY <2>3, GasGrows
  <2> QED
    BY <2>2, <2>4
<1>6. Grow(f, at) = IF new <= old THEN 0 ELSE memGas(q) - memGas(m)
  BY <1>1, <1>2, <1>4 DEF Grow
<1>7. ASSUME ~(new <= old) PROVE memGas(m) < memGas(q)
  <2>1. m < q
    <3>1. ASSUME m >= q PROVE FALSE
      <4>1. m * W >= q * W
        BY <3>1
      <4> QED
        BY <1>2, <1>4, <1>7, <4>1
    <3> QED
      BY <3>1
  <2> QED
    BY <2>1, GasGrows
<1>8. ASSUME old # 0 PROVE memGas(m) > 0
  <2>1. 0 < m
    BY <1>4, <1>8
  <2> QED
    BY <2>1, GasGrows
<1>9. old = 0 => m = 0
  BY <1>4
<1>10. PICK g \in Nat, x \in Nat, y \in Int : g = memGas(q) /\ x = memGas(m) /\ y = Grow(f, at)
  <2>1. memGas(q) \in Nat /\ memGas(m) \in Nat /\ Grow(f, at) \in Int
    BY <1>5, <1>6
  <2> QED
    BY <2>1
<1>11. /\ y \in Nat /\ (~(new <= old) => y > 0 /\ new > old)
       /\ (old = 0 => y = g) /\ (old # 0 => y < g)
  <2>1. y = (IF new <= old THEN 0 ELSE g - x) /\ 0 < g /\ (~(new <= old) => x < g) /\ (old # 0 => x > 0)
    BY <1>5, <1>6, <1>7, <1>8, <1>10
  <2>2. old = 0 => x = 0 /\ ~(new <= old)
    BY <1>1, <1>2, <1>5, <1>9, <1>10
  <2> QED
    BY <2>1, <2>2
<1> QED
  BY <1>1, <1>2, <1>4, <1>10, <1>11

\* Paying for a word of memory.
Bought(p, at, g) ==
  /\ Sound(g) /\ g.status = "running" /\ g.gas = p.gas - Grow(p, at) /\ g.gas \in Nat /\ g.pc = p.pc /\ g.stack = p.stack
  /\ g.memory = p.memory /\ at + WordBytes <= g.memSize
  /\ g.memSize = p.memSize <=> Words(at + WordBytes) * WordBytes <= p.memSize

\* A word of memory in reach is paid for if there is the gas, or the frame halts.
LEMMA Buying ==
  ASSUME NEW p, Sound(p), p.status = "running", NEW off \in Word
  PROVE  LET g == Charged(p, off, FromU64(WordBytes))
         IN  /\ off[0] \in Nat
             /\ InReach(off) /\ p.gas >= Grow(p, off[0]) => Bought(p, off[0], g)
             /\ ~(InReach(off) /\ p.gas >= Grow(p, off[0])) => Stopped(p, "oog", g)
<1>1. PICK W \in Nat \ {0} : W = WordBytes /\ W >= 2 /\ W \in 0..(Limb - 1)
  BY ByteFacts, LimbFacts
<1>2. PICK at \in Nat : at = off[0]
  BY NarrowValue, LimbFacts
<1>3. PICK g : g = Charged(p, off, FromU64(WordBytes))
  OBVIOUS
<1>4. FitsU64(FromU64(WordBytes)) /\ FromU64(WordBytes)[0] = W
  BY <1>1, SmallWord
<1>5. PICK M \in Nat : M = memMax
  BY FrameAssumption
<1>6. p.gas \in Nat /\ p.memSize \in Nat /\ p.memSize <= M /\ p \in Frames
  BY <1>5, Sizes
<1>7. PICK new \in Nat : /\ new = Words(at + WordBytes) * WordBytes /\ at + W <= new /\ (at <= M - W => new <= M)
  BY <1>1, <1>5, WordEnd
<1>8. PICK grow \in Nat : grow = Grow(p, at) /\ (~(new <= p.memSize) => grow > 0)
  BY <1>7, Growing
<1>9. CASE ~FitsU64(off)
  <2>1. g = haltEx(p, "oog")
    BY <1>3, <1>9 DEF Charged
  <2> QED
    BY <1>2, <1>3, <1>9, <2>1, Halted DEF InReach
<1>10. CASE FitsU64(off)
  <2>1. g = chargeMem(p, at, W)
    BY <1>2, <1>3, <1>4, <1>10 DEF Charged
  <2>2. InReach(off) <=> at <= M - W
    BY <1>1, <1>2, <1>5, <1>10 DEF InReach
  <2>3. PICK delta : delta = memGas(Words(at + W)) - memGas(Words(p.memSize))
    OBVIOUS
  <2>4. g = IF at >= M \/ W > M - at \/ new > M THEN haltEx(p, "oog")
            ELSE IF new <= p.memSize THEN p
            ELSE IF delta < 0 \/ p.gas < delta THEN haltEx(p, "oog")
            ELSE [p EXCEPT !.gas = p.gas - delta, !.memSize = new]
    <3>1. W # 0
      OBVIOUS
    <3>2. CASE at >= M \/ W > M - at
      BY <1>5, <2>1, <3>1, <3>2 DEF chargeMem
    <3>3. CASE ~(at >= M \/ W > M - at)
      <4>1. (at + W) % Limb = at + W
        BY <1>5, <3>3, NoWrap
      <4> QED
        BY <1>1, <1>5, <1>7, <2>1, <2>3, <3>1, <3>3, <4>1 DEF chargeMem
    <3> QED
      BY <3>2, <3>3
  <2>5. grow = IF new <= p.memSize THEN 0 ELSE delta
    BY <1>1, <1>7, <1>8, <2>3 DEF Grow
  <2>6. CASE ~(at <= M - W)
    <3>1. g = haltEx(p, "oog")
      BY <2>4, <2>6
    <3> QED
      BY <1>2, <1>3, <2>2, <2>6, <3>1, Halted
  <2>7. CASE at <= M - W /\ new <= p.memSize
    <3>1. ~(at >= M \/ W > M - at \/ new > M)
      BY <1>7, <2>7
    <3>2. g = p
      BY <2>4, <2>7, <3>1
    <3>3. p.gas >= grow /\ p.gas - grow = p.gas /\ at + W <= p.memSize
      BY <1>6, <1>7, <2>5, <2>7
    <3>4. Bought(p, at, g)
      BY <1>1, <1>6, <1>7, <1>8, <2>7, <3>2, <3>3 DEF Bought
    <3> QED
      BY <1>2, <1>3, <1>8, <2>2, <2>7, <3>3, <3>4
  <2>8. CASE at <= M - W /\ ~(new <= p.memSize)
    <3>1. ~(at >= M \/ W > M - at \/ new > M) /\ delta = grow /\ ~(delta < 0)
      BY <1>7, <1>8, <2>5, <2>8
    <3>2. CASE p.gas < grow
      <4>1. g = haltEx(p, "oog") /\ ~(p.gas >= grow)
        BY <1>6, <2>4, <2>8, <3>1, <3>2
      <4> QED
        BY <1>2, <1>3, <1>8, <2>2, <2>8, <4>1, Halted
    <3>3. CASE ~(p.gas < grow)
      <4>1. PICK gas \in Nat : gas = p.gas - grow
        BY <1>6, <3>3
      <4>2. g = [p EXCEPT !.gas = gas, !.memSize = new]
        BY <2>4, <2>8, <3>1, <3>3, <4>1
      <4>3. new \in 0..memMax
        BY <1>5, <1>7, <2>8
      <4>4. /\ g \in Frames /\ g.gas = gas /\ g.memSize = new /\ g.pc = p.pc /\ g.stack = p.stack /\ g.memory = p.memory
            /\ g.status = p.status
        BY <1>6, <4>2, <4>3 DEF Frames
      <4>5. Sound(g)
        <5>1. Grown(p, g)
          BY <1>2, <2>1, Charging
        <5> QED
          BY <5>1 DEF Grown
      <4>6. new # p.memSize
        BY <1>6, <2>8
      <4>7. Bought(p, at, g)
        BY <1>1, <1>7, <1>8, <2>8, <4>1, <4>4, <4>5, <4>6 DEF Bought
      <4>8. p.gas >= grow
        BY <1>6, <3>3
      <4> QED
        BY <1>2, <1>3, <1>8, <2>2, <2>8, <4>7, <4>8
    <3> QED
      BY <3>2, <3>3
  <2> QED
    BY <2>6, <2>7, <2>8
<1> QED
  BY <1>9, <1>10

\* A word that is read within the memory, and one that has been written.
LEMMA WordAt ==
  ASSUME NEW f, Sound(f), NEW at \in Nat, at <= memMax - WordBytes
  PROVE  Read(f, at, WordBytes) \in Bytes
<1>1. f.memory \in Memories /\ memMax \in Nat /\ WordBytes \in Nat
  BY FrameAssumption, ByteFacts DEF Sound, Frames
<1>2. ASSUME NEW i \in 1..WordBytes PROVE f.memory[at + i - 1] \in 0..(Byte - 1)
  <2>1. at + i - 1 \in 0..(memMax - 1)
    BY <1>1
  <2> QED
    BY <1>1, <2>1 DEF Memories
<1> QED
  BY <1>2 DEF Read, Bytes

\* A word that is written is read back, and nothing behind it changes.
LEMMA ReadBack ==
  ASSUME NEW f, Sound(f), NEW at \in Nat, at <= memMax - WordBytes, NEW bytes \in Bytes
  PROVE  /\ Written(f, at, bytes).memory \in Memories
         /\ Read(Written(f, at, bytes), at, WordBytes) = bytes
         /\ \A i \in (at + WordBytes)..(memMax - 1) : Written(f, at, bytes).memory[i] = f.memory[i]
<1>1. PICK W \in Nat, M \in Nat : W = WordBytes /\ M = memMax
  BY FrameAssumption, ByteFacts
<1>2. Len(bytes) = W /\ bytes \in [1..W -> 0..(Byte - 1)]
  BY <1>1, Listed DEF Bytes
<1>3. f \in Frames /\ f.memory \in Memories
  BY DEF Sound, Frames
<1>4. PICK mem : mem = [i \in 0..(M - 1) |-> IF i - at \in 0..(W - 1) THEN bytes[i - at + 1] ELSE f.memory[i]]
  OBVIOUS
<1>5. Written(f, at, bytes).memory = mem
  <2>1. Written(f, at, bytes) = [f EXCEPT !.memory = mem]
    BY <1>1, <1>2, <1>4 DEF Written
  <2> QED
    BY <1>3, <2>1 DEF Frames
<1>6. mem \in Memories
  <2>1. ASSUME NEW i \in 0..(M - 1) PROVE (IF i - at \in 0..(W - 1) THEN bytes[i - at + 1] ELSE f.memory[i]) \in 0..(Byte - 1)
    <3>1. CASE i - at \in 0..(W - 1)
      <4>1. i - at + 1 \in 1..W
        BY <3>1
      <4> QED
        BY <1>2, <3>1, <4>1
    <3>2. CASE ~(i - at \in 0..(W - 1))
      BY <1>1, <1>3, <3>2 DEF Memories
    <3> QED
      BY <3>1, <3>2
  <2> QED
    BY <1>1, <1>4, <2>1 DEF Memories
<1>7. ASSUME NEW i \in 1..W PROVE mem[at + i - 1] = bytes[i]
  <2>1. PICK j \in 0..(M - 1) : j = at + i - 1 /\ j - at \in 0..(W - 1) /\ j - at + 1 = i
    BY <1>1
  <2>2. mem[j] = bytes[j - at + 1]
    BY <1>4, <2>1
  <2> QED
    BY <2>1, <2>2
<1>8. [i \in 1..W |-> mem[at + i - 1]] = bytes
  BY <1>2, <1>7
<1>9. ASSUME NEW i \in (at + W)..(M - 1) PROVE mem[i] = f.memory[i]
  <2>1. i \in 0..(M - 1) /\ ~(i - at \in 0..(W - 1))
    BY <1>1
  <2> QED
    BY <1>4, <2>1
<1> QED
  BY <1>1, <1>5, <1>6, <1>8, <1>9 DEF Read

\* MLOAD reads a word in reach that can be paid for, or fails.
LEMMA StepMLoad ==
  ASSUME NEW f, NEW prog, NEW op, op = "MLOAD", NEW n, Ready(f, prog, op, n), NEW off, off = Top(f, 0)
  PROVE  LET g == StepOne(f, prog)
             ok == InReach(off) /\ f.gas - opGas(op) >= Grow(f, off[0])
         IN  /\ off \in Word /\ off[0] \in Nat /\ Grow(f, off[0]) \in Nat /\ opGas(op) \in Nat /\ f.gas \in Nat
             /\ InReach(off) => Read(f, off[0], WordBytes) \in Bytes
             /\ ok => /\ Ends(g, f.pc + 1, f.gas - opGas(op) - Grow(f, off[0]), 1, One(FromBytesBE(Read(f, off[0], WordBytes))))
                      /\ g.memSize = f.memSize <=> Words(off[0] + WordBytes) * WordBytes <= f.memSize
             /\ ~ok => Fails(f, g)
<1>1. op \in Known
  BY DEF Known
<1>2. PICK p : Pays(f, prog, op, n, p)
  BY <1>1, Runs, Zenon
<1>3. /\ Sound(p) /\ p.status = "running" /\ p.pc = f.pc + 1 /\ p.gas = f.gas - opGas(op) /\ p.stack = f.stack /\ Alike(f, p)
      /\ p.gas \in Nat /\ n \in Nat /\ opGas(op) \in Nat /\ f.gas \in Nat /\ StepOne(f, prog) = execute(op, n, p, prog)
  BY <1>2 DEF Pays
<1>4. Len(p.stack) >= 1 /\ Sound(f)
  <2>1. Takes(op, n) = 1
    BY <1>1, <1>3, TakesOf
  <2> QED
    BY <1>3, <2>1 DEF Ready
<1>5. PICK o \in Word : o = Top(p, 0) /\ o = off
  <2>1. Top(p, 0) \in Word
    BY <1>3, <1>4, Tops, Sizes
  <2> QED
    BY <1>3, <2>1 DEF Top
<1>6. PICK g : g = Charged(p, o, FromU64(WordBytes))
  OBVIOUS
<1>7. PICK e : e = IF g.status # "running" THEN g ELSE Put(g, 1, <<FromBytesBE(Read(g, o[0], WordBytes))>>)
  OBVIOUS
<1>8. StepOne(f, prog) = e
  <2>1. execMemory("MLOAD", p) = e
    BY <1>5, <1>6, <1>7, WithMLOAD
  <2> QED
    BY <1>3, <2>1, DoesMLOAD
<1>9. PICK at \in Nat : at = o[0]
  BY <1>3, Buying
<1>10. PICK grow \in Nat : grow = Grow(p, at) /\ grow = Grow(f, at)
  <2>1. Grow(p, at) \in Nat
    BY <1>3, Growing
  <2>2. Grow(p, at) = Grow(f, at)
    BY <1>3 DEF Grow, Alike
  <2> QED
    BY <2>1, <2>2
<1>11. /\ InReach(o) /\ p.gas >= grow => Bought(p, at, g)
       /\ ~(InReach(o) /\ p.gas >= grow) => Stopped(p, "oog", g)
  BY <1>3, <1>6, <1>9, <1>10, Buying
<1>12. ASSUME InReach(o) PROVE Read(f, at, WordBytes) \in Bytes
  BY <1>4, <1>9, <1>12, WordAt DEF InReach
<1>13. CASE InReach(o) /\ p.gas >= grow
  <2>1. Bought(p, at, g)
    BY <1>11, <1>13
  <2>2. /\ Sound(g) /\ g.status = "running" /\ g.gas = p.gas - grow /\ g.pc = p.pc /\ g.stack = p.stack /\ g.memory = f.memory
        /\ g.memSize = f.memSize <=> Words(at + WordBytes) * WordBytes <= f.memSize
    BY <1>3, <1>10, <2>1 DEF Bought, Alike
  <2>3. Read(g, at, WordBytes) = Read(f, at, WordBytes)
    BY <2>2 DEF Read
  <2>4. PICK x \in Word : x = FromBytesBE(Read(f, at, WordBytes))
    BY <1>12, <1>13, FromBytes
  <2>5. PICK one \in 0..Len(g.stack) : one = 1 /\ Len(g.stack) - one < stackMax /\ Len(g.stack) - one + 1 >= 1
    BY <1>4, <2>2, Sizes
  <2>6. e = Put(g, one, <<x>>)
    BY <1>7, <1>9, <2>2, <2>3, <2>4, <2>5
  <2>7. Sound(e) /\ Kept(g, e) /\ Len(e.stack) = Len(g.stack) - one + 1 /\ Top(e, 0) = x
    BY <2>2, <2>5, <2>6, Topped
  <2>8. copyStackWindow(e, 1) = One(x)
    BY <2>5, <2>7, OneWindow
  <2>9. Ends(e, f.pc + 1, f.gas - opGas(op) - grow, 1, One(x)) /\ e.memSize = g.memSize
    BY <1>3, <2>2, <2>7, <2>8 DEF Ends, Kept, Alike
  <2> QED
    BY <1>3, <1>5, <1>8, <1>9, <1>10, <1>12, <1>13, <2>2, <2>4, <2>9
<1>14. CASE ~(InReach(o) /\ p.gas >= grow)
  <2>1. PICK st \in Exceptional : st = "oog"
    BY DEF Exceptional
  <2>2. Stopped(p, st, g)
    BY <1>11, <1>14, <2>1
  <2>3. e = g
    BY <1>7, <2>1, <2>2 DEF Stopped
  <2>4. Fails(f, e)
    BY <1>3, <2>2, <2>3, StoppedFails
  <2> QED
    BY <1>3, <1>5, <1>8, <1>9, <1>10, <1>12, <1>14, <2>4
<1> QED
  BY <1>13, <1>14

\* MSTORE writes one, or fails.
LEMMA StepMStore ==
  ASSUME NEW f, NEW prog, NEW op, op = "MSTORE", NEW n, Ready(f, prog, op, n), NEW off, off = Top(f, 0)
  PROVE  LET g == StepOne(f, prog)
             ok == InReach(off) /\ f.gas - opGas(op) >= Grow(f, off[0])
         IN  /\ off \in Word /\ off[0] \in Nat /\ Top(f, 1) \in Word /\ Grow(f, off[0]) \in Nat /\ opGas(op) \in Nat /\ f.gas \in Nat
             /\ ok => /\ Ends(g, f.pc + 1, f.gas - opGas(op) - Grow(f, off[0]), 0, Blank)
                      /\ Read(g, off[0], WordBytes) = BytesBE(Top(f, 1))
             /\ ~ok => Fails(f, g)
<1>1. op \in Known
  BY DEF Known
<1>2. PICK p : Pays(f, prog, op, n, p)
  BY <1>1, Runs, Zenon
<1>3. /\ Sound(p) /\ p.status = "running" /\ p.pc = f.pc + 1 /\ p.gas = f.gas - opGas(op) /\ p.stack = f.stack /\ Alike(f, p)
      /\ p.gas \in Nat /\ n \in Nat /\ opGas(op) \in Nat /\ f.gas \in Nat /\ StepOne(f, prog) = execute(op, n, p, prog)
  BY <1>2 DEF Pays
<1>4. Len(p.stack) >= 2 /\ Sound(f)
  <2>1. Takes(op, n) = 2
    BY <1>1, <1>3, TakesOf
  <2> QED
    BY <1>3, <2>1 DEF Ready
<1>5. PICK o \in Word, val \in Word : o = Top(p, 0) /\ o = off /\ val = Top(p, 1) /\ val = Top(f, 1)
  <2>1. Top(p, 0) \in Word /\ Top(p, 1) \in Word
    BY <1>3, <1>4, Tops, Sizes
  <2>2. Top(p, 0) = off /\ Top(p, 1) = Top(f, 1)
    BY <1>3 DEF Top
  <2> QED
    BY <2>1, <2>2
<1>6. PICK g : g = Charged(p, o, FromU64(WordBytes))
  OBVIOUS
<1>7. PICK e : e = IF g.status # "running" THEN g ELSE Put(Written(g, o[0], BytesBE(val)), 2, <<>>)
  OBVIOUS
<1>8. StepOne(f, prog) = e
  <2>1. execMemory("MSTORE", p) = e
    BY <1>5, <1>6, <1>7, WithMSTORE
  <2> QED
    BY <1>3, <2>1, DoesMSTORE
<1>9. PICK at \in Nat : at = o[0]
  BY <1>3, Buying
<1>10. PICK grow \in Nat : grow = Grow(p, at) /\ grow = Grow(f, at)
  <2>1. Grow(p, at) \in Nat
    BY <1>3, Growing
  <2>2. Grow(p, at) = Grow(f, at)
    BY <1>3 DEF Grow, Alike
  <2> QED
    BY <2>1, <2>2
<1>11. /\ InReach(o) /\ p.gas >= grow => Bought(p, at, g)
       /\ ~(InReach(o) /\ p.gas >= grow) => Stopped(p, "oog", g)
  BY <1>3, <1>6, <1>9, <1>10, Buying
<1>12. CASE InReach(o) /\ p.gas >= grow
  <2>1. Bought(p, at, g)
    BY <1>11, <1>12
  <2>2. /\ Sound(g) /\ g.status = "running" /\ g.gas = p.gas - grow /\ g.pc = p.pc /\ g.stack = p.stack
        /\ at + WordBytes <= g.memSize
    BY <1>3, <1>10, <2>1 DEF Bought
  <2>3. BytesBE(val) \in Bytes /\ BytesBE(val) \in [1..WordBytes -> 0..(Byte - 1)] /\ WordBytes \in Nat
    BY ByteRead, ByteFacts DEF Bytes
  <2>4. PICK h : h = Written(g, at, BytesBE(val))
    OBVIOUS
  <2>5. Sound(h) /\ h.pc = g.pc /\ h.gas = g.gas /\ h.status = g.status /\ h.stack = g.stack
    BY <2>2, <2>3, <2>4, Writing
  <2>6. Read(h, at, WordBytes) = BytesBE(val)
    <3>1. at <= memMax - WordBytes
      BY <1>9, <1>12 DEF InReach
    <3> QED
      BY <2>2, <2>3, <2>4, <3>1, ReadBack
  <2>7. PICK two \in 0..Len(h.stack) : two = 2
    BY <1>4, <2>2, <2>5, Sizes
  <2>8. e = Put(h, two, <<>>)
    BY <1>7, <1>9, <2>2, <2>4, <2>7
  <2>9. Sound(e) /\ Kept(h, e)
    BY <2>5, <2>7, <2>8, Dropped
  <2>10. copyStackWindow(e, 0) = Blank
    BY <2>9, BlankWindow
  <2>11. Ends(e, f.pc + 1, f.gas - opGas(op) - grow, 0, Blank)
    BY <1>3, <2>2, <2>5, <2>9, <2>10 DEF Ends, Kept
  <2>12. Read(e, at, WordBytes) = BytesBE(val)
    BY <2>6, <2>9 DEF Read, Kept, Alike
  <2> QED
    BY <1>3, <1>5, <1>8, <1>9, <1>10, <1>12, <2>11, <2>12
<1>13. CASE ~(InReach(o) /\ p.gas >= grow)
  <2>1. PICK st \in Exceptional : st = "oog"
    BY DEF Exceptional
  <2>2. Stopped(p, st, g)
    BY <1>11, <1>13, <2>1
  <2>3. e = g
    BY <1>7, <2>1, <2>2 DEF Stopped
  <2>4. Fails(f, e)
    BY <1>3, <2>2, <2>3, StoppedFails
  <2> QED
    BY <1>3, <1>5, <1>8, <1>9, <1>10, <1>13, <2>4
<1> QED
  BY <1>12, <1>13

-----------------------------------------------------------------------------
\* What a witness of the step from f to g has, for the instruction op and a root.
Shared(w, f, op, n, in, mem, stor, root) ==
  /\ w.pc = f.pc /\ w.op = op /\ w.n = n /\ w.gas = f.gas /\ w.stackIn = in
  /\ w.memOffset = mem.offset /\ w.memData = mem.data /\ w.storageKey = stor.key /\ w.storageVal = stor.val
  /\ w.storageRoot = (IF op \in {"SLOAD", "SSTORE"} /\ root.some THEN root ELSE NoRoot)
  /\ w.storageProof = (IF op \in {"SLOAD", "SSTORE"} /\ root.some THEN <<root.slots>> ELSE <<>>)

\* A witness by its fields.
AsRecord(w) ==
  [pc |-> w.pc, op |-> w.op, n |-> w.n, gas |-> w.gas, stackIn |-> w.stackIn, stackOut |-> w.stackOut,
   memOffset |-> w.memOffset, memData |-> w.memData, storageKey |-> w.storageKey, storageVal |-> w.storageVal,
   storageRoot |-> w.storageRoot, storageProof |-> w.storageProof,
   preStateRoot |-> w.preStateRoot, postStateRoot |-> w.postStateRoot]

Holds(w, f, g, op, n, root) ==
  /\ w = AsRecord(w)
  /\ opcodeSupported(op, n) /\ Len(f.stack) >= Takes(op, n)
  /\ Shared(w, f, op, n, copyStackWindow(f, Takes(op, n)), extractMem(op, f, g), extractStor(op, f, g), root)
  /\ w.stackOut = copyStackWindow(g, outArity(op, n))
  /\ w.preStateRoot = hashState(f.pc, f.gas, w.stackIn, w)
  /\ w.postStateRoot = hashState(g.pc, g.gas, w.stackOut, w)

\* CaptureWitness gives such a witness, unless it gives none.
LEMMA Captured ==
  ASSUME NEW f, Sound(f), NEW g, NEW op, NEW n, n \in Nat, op \in Known, NEW root, NEW w, w = CaptureWitness(f, g, op, n, root), w # NoWitness
  PROVE  Holds(w, f, g, op, n, root)
<1>1. PICK mem, stor, in, out : mem = extractMem(op, f, g) /\ stor = extractStor(op, f, g) /\ in = copyStackWindow(f, Takes(op, n)) /\ out = copyStackWindow(g, outArity(op, n))
  OBVIOUS
<1>2. PICK r, proof : r = (IF op \in {"SLOAD", "SSTORE"} /\ root.some THEN root ELSE NoRoot) /\ proof = (IF op \in {"SLOAD", "SSTORE"} /\ root.some THEN <<root.slots>> ELSE <<>>)
  OBVIOUS
<1>3. PICK e : e = [pc |-> f.pc, op |-> op, n |-> n, gas |-> f.gas, stackIn |-> in, stackOut |-> out,
            memOffset |-> mem.offset, memData |-> mem.data,
            storageKey |-> stor.key, storageVal |-> stor.val,
            storageRoot |-> r,
            storageProof |-> proof,
            preStateRoot |-> <<>>, postStateRoot |-> <<>>]
  OBVIOUS
<1>4. CaptureWitness(f, g, op, n, root) = IF ~opcodeSupported(op, n) \/ Len(f.stack) < Takes(op, n) THEN NoWitness
      ELSE [e EXCEPT !.preStateRoot = hashState(f.pc, f.gas, in, e),
                     !.postStateRoot = hashState(g.pc, g.gas, out, e)]
  BY <1>1, <1>2, <1>3 DEF CaptureWitness, inArity
<1>5. opcodeSupported(op, n) /\ ~(Len(f.stack) < Takes(op, n))
  BY <1>4
<1>6. w = [e EXCEPT !.preStateRoot = hashState(f.pc, f.gas, in, e), !.postStateRoot = hashState(g.pc, g.gas, out, e)]
  BY <1>4, <1>5
<1>7. /\ w.pc = f.pc /\ w.op = op /\ w.n = n /\ w.gas = f.gas /\ w.stackIn = in /\ w.stackOut = out
      /\ w.memOffset = mem.offset /\ w.memData = mem.data /\ w.storageKey = stor.key /\ w.storageVal = stor.val
      /\ w.storageRoot = r /\ w.storageProof = proof
      /\ w.preStateRoot = hashState(f.pc, f.gas, in, e) /\ w.postStateRoot = hashState(g.pc, g.gas, out, e)
  BY <1>3, <1>6
<1>8. hashState(f.pc, f.gas, in, e) = hashState(f.pc, f.gas, in, w) /\ hashState(g.pc, g.gas, out, e) = hashState(g.pc, g.gas, out, w)
  BY <1>3, <1>7 DEF hashState
<1>9. Len(f.stack) >= Takes(op, n)
  <2>1. Takes(op, n) \in Nat /\ Len(f.stack) \in Nat
    BY TakesNat, Sizes
  <2> QED
    BY <1>5, <2>1
<1>10. w = AsRecord(w)
  BY <1>3, <1>6, <1>7 DEF AsRecord
<1> QED
  BY <1>1, <1>2, <1>5, <1>7, <1>8, <1>9, <1>10 DEF Holds, Shared

-----------------------------------------------------------------------------
\* The supported instructions take four items at most.
LEMMA SupportedTakes ==
  ASSUME NEW op, NEW n \in Nat, opcodeSupported(op, n)
  PROVE  /\ op \in Known /\ Takes(op, n) \in 0..4
         /\ op \in Plain \cup {"MSTORE", "SSTORE", "JUMPI"} => Takes(op, n) = 2
         /\ op \in {"MLOAD", "SLOAD", "JUMP"} => Takes(op, n) = 1
         /\ op \in {"PUSH0", "PUSH"} => Takes(op, n) = 0
         /\ op = "DUP" => Takes(op, n) = n /\ n <= 3
         /\ op = "SWAP" => Takes(op, n) = n + 1 /\ n <= 3
         /\ op \in Plain \cup {"MLOAD", "MSTORE", "SLOAD", "SSTORE", "JUMP", "JUMPI", "PUSH0", "PUSH", "DUP", "SWAP"}
<1>1. op \in Plain \cup {"MLOAD", "MSTORE", "SLOAD", "SSTORE", "JUMP", "JUMPI", "PUSH0", "PUSH", "DUP", "SWAP"}
  BY DEF opcodeSupported
<1>2. op \in {"DUP", "SWAP"} => n <= 3
  BY DEF opcodeSupported, Plain
<1>3. op \in Known /\ (op \in Plain => op \in Binary)
  BY <1>1 DEF Known, Plain, Binary
<1>4. /\ op \in Unary \/ op \in {"POP", "MLOAD", "SLOAD", "JUMP"} => Takes(op, n) = 1
      /\ op \in Binary \/ op \in {"MSTORE", "MSTORE8", "SSTORE", "JUMPI", "KECCAK256", "REVERT"} => Takes(op, n) = 2
      /\ op \in Ternary => Takes(op, n) = 3
      /\ op = "DUP" => Takes(op, n) = n
      /\ op = "SWAP" => Takes(op, n) = n + 1
      /\ op \in {"STOP", "JUMPDEST", "PC", "MSIZE", "GAS", "PUSH0", "PUSH"} => Takes(op, n) = 0
  BY <1>3, TakesOf
<1>5. Takes(op, n) \in {0, 1, 2} \/ (op = "DUP" /\ Takes(op, n) = n) \/ (op = "SWAP" /\ Takes(op, n) = n + 1)
  BY <1>1, <1>3, <1>4
<1>6. Takes(op, n) \in 0..4
  BY <1>2, <1>5
<1> QED
  BY <1>1, <1>2, <1>3, <1>4, <1>6

\* The words of a window by their depth.
LEMMA Inputs ==
  ASSUME NEW f, Sound(f), NEW g, NEW op, NEW n \in Nat, NEW root, NEW w, Holds(w, f, g, op, n, root)
  PROVE  /\ w.stackIn = Upper(f, Takes(op, n)) /\ w.stackIn \in Windows
         /\ \A i \in 0..3 : i < Takes(op, n) => /\ In(w, i) = Top(f, i) /\ Top(f, i) \in Word
                                                 /\ w.stackIn[Takes(op, n) - i] = Top(f, i)
<1>1. opcodeSupported(op, n) /\ Len(f.stack) >= Takes(op, n) /\ w.op = op /\ w.n = n /\ w.stackIn = copyStackWindow(f, Takes(op, n))
  BY DEF Holds, Shared
<1>2. PICK k \in 0..4 : k = Takes(op, n) /\ Len(f.stack) >= k
  BY <1>1, SupportedTakes
<1>3. w.stackIn = Upper(f, k) /\ w.stackIn \in Windows
  BY <1>1, <1>2, Windowed
<1>4. ASSUME NEW i \in 0..3, i < k PROVE In(w, i) = Top(f, i) /\ Top(f, i) \in Word /\ w.stackIn[k - i] = Top(f, i)
  <2>1. In(w, i) = w.stackIn[k - i] /\ k - i \in 1..4 /\ k - i <= k /\ k - (k - i) = i
    BY <1>1, <1>2, <1>4 DEF In, inArity
  <2>2. w.stackIn[k - i] = Top(f, i)
    BY <1>3, <2>1 DEF Upper
  <2>3. i \in Nat /\ i < Len(f.stack)
    BY <1>2, <1>4, Sizes
  <2> QED
    BY <2>1, <2>2, <2>3, Tops
<1> QED
  BY <1>2, <1>3, <1>4

\* The frame that a witness is replayed from, before the memory or the storage is set.
Plainly(w) ==
  [Reset(w.gas, [on |-> w.op \in {"SLOAD", "SSTORE"}, slots |-> <<>>])
     EXCEPT !.pc = w.pc, !.stack = SubSeq(w.stackIn, 1, inArity(w.op, w.n))]

\* It is sound, has what the step takes, and stands where the step did.
LEMMA PlainFrame ==
  ASSUME NEW f, Sound(f), NEW g, NEW op, NEW n \in Nat, NEW root, NEW w, Holds(w, f, g, op, n, root), NEW rf, rf = Plainly(w)
  PROVE  /\ Sound(rf) /\ rf.status = "running" /\ rf.pc = f.pc /\ rf.gas = f.gas /\ Len(rf.stack) = Takes(op, n)
         /\ rf.memSize = 0
         /\ \A i \in 0..3 : i < Takes(op, n) => Top(rf, i) = Top(f, i)
<1>1. /\ opcodeSupported(op, n) /\ w.pc = f.pc /\ w.op = op /\ w.n = n /\ w.gas = f.gas
      /\ f.pc \in Nat /\ f.gas \in Nat /\ 4 <= stackMax /\ stackMax \in Nat
  BY Sizes, FrameAssumption DEF Holds, Shared
<1>2. PICK k \in 0..4 : k = Takes(op, n)
  BY <1>1, SupportedTakes
<1>3. PICK in \in Seq(Word) : in = w.stackIn /\ Len(in) = 4
  <2>1. w.stackIn \in [1..4 -> Word]
    BY Inputs DEF Windows
  <2>2. PICK four \in Nat : four = 4
    OBVIOUS
  <2>3. PICK in : in = w.stackIn /\ in \in [1..four -> Word]
    BY <2>1, <2>2
  <2>4. in \in Seq(Word) /\ Len(in) = four
    BY <2>3, Listed
  <2> QED
    BY <2>2, <2>3, <2>4
<1>4. PICK s \in Seq(Word) : s = SubSeq(in, 1, k) /\ Len(s) = k /\ \A i \in 1..k : s[i] = in[i]
  <2>1. PICK one \in Int : one = 1
    OBVIOUS
  <2>2. \A i \in one..k : in[i] \in Word
    BY <1>2, <1>3, <2>1, ElementOfSeq
  <2>3. PICK s : s = SubSeq(in, one, k)
    OBVIOUS
  <2>4. k \in Int
    OBVIOUS
  <2>5. s \in Seq(Word) /\ Len(s) = (IF one <= k THEN k - one + 1 ELSE 0) /\ \A i \in 1..(k - one + 1) : s[i] = in[one + i - 1]
    BY <2>2, <2>3, <2>4, SubSeqProperties
  <2>6. Len(s) = k /\ \A i \in 1..k : s[i] = in[i]
    BY <2>1, <2>5
  <2> QED
    BY <2>1, <2>3, <2>5, <2>6
<1>5. PICK db \in [on : BOOLEAN, slots : Slots] : db = [on |-> op \in {"SLOAD", "SSTORE"}, slots |-> <<>>]
  <2>1. [on |-> op \in {"SLOAD", "SSTORE"}, slots |-> <<>>] \in [on : BOOLEAN, slots : Slots]
    BY NoSlots
  <2> QED
    BY <2>1, Zenon
<1>6. PICK e : e = Reset(f.gas, db) /\ Sound(e) /\ e.status = "running" /\ e.gas = f.gas /\ e.memSize = 0 /\ e.db = db
  BY <1>1, ResetSound
<1>7. rf = [e EXCEPT !.pc = f.pc, !.stack = s]
  BY <1>1, <1>2, <1>3, <1>4, <1>5, <1>6 DEF Plainly, inArity
<1>8. PICK pc \in Nat : pc = f.pc
  BY <1>1
<1>9. e \in Frames /\ rf = [e EXCEPT !.pc = pc, !.stack = s]
  BY <1>6, <1>7, <1>8 DEF Sound
<1>10. /\ rf \in Frames /\ rf.status = e.status /\ rf.pc = f.pc /\ rf.gas = e.gas /\ rf.stack = s /\ rf.memSize = e.memSize
      /\ rf.memory = e.memory /\ rf.db = e.db
  BY <1>8, <1>9 DEF Frames
<1>11. Sound(rf)
  <2>1. Len(s) <= stackMax
    BY <1>1, <1>2, <1>4
  <2> QED
    BY <1>6, <1>10, <2>1 DEF Sound
<1>12. ASSUME NEW i \in 0..3, i < k PROVE Top(rf, i) = Top(f, i)
  <2>1. in[k - i] = Top(f, i)
    BY <1>2, <1>3, <1>12, Inputs
  <2>2. k - i \in 1..k
    BY <1>2, <1>12
  <2> QED
    BY <1>4, <1>10, <2>1, <2>2 DEF Top
<1> QED
  BY <1>2, <1>4, <1>5, <1>6, <1>10, <1>11, <1>12

\* The frame itself.
LEMMA OtherFrame ==
  ASSUME NEW w, w.op \notin {"MLOAD", "SLOAD"}
  PROVE  reconstructFrame(w) = Plainly(w)
BY Zenon DEF reconstructFrame, Plainly

\* A load is replayed with its word in memory and paid for,
LEMMA LoadFrame ==
  ASSUME NEW w, w.op = "MLOAD"
  PROVE  reconstructFrame(w) = [Written(Plainly(w), w.memOffset, w.memData) EXCEPT !.memSize = Words(w.memOffset + WordBytes) * WordBytes]
BY DEF reconstructFrame, Plainly

\* and a load from storage with its value in the slot.
LEMMA SlotFrame ==
  ASSUME NEW w, w.op = "SLOAD"
  PROVE  reconstructFrame(w) = [Plainly(w) EXCEPT !.db = Stored(Plainly(w).db, w.storageKey, w.storageVal)]
BY Zenon DEF reconstructFrame, Plainly

\* A slot has the value that was stored in it.
LEMMA StoredHere ==
  ASSUME NEW db \in [on : BOOLEAN, slots : Slots], NEW key \in Word, NEW val \in Word
  PROVE  Slot(Stored(db, key, val), key) = val
BY DEF Slot, Stored, Restrict

-----------------------------------------------------------------------------
\* In a code without PUSH every position is an instruction's.
LEMMA NoPushes ==
  ASSUME NEW prog \in Seq(Instructions), \A i \in 1..Len(prog) : prog[i].op # "PUSH"
  PROVE  \A k \in 0..Len(prog) : k \in Starts(prog)
<1> DEFINE pos == Positions(prog)
           I == {k \in Nat : pos[k] = k}
<1>1. PICK N \in Nat : N = Len(prog)
  OBVIOUS
<1>2. pos[0] = 0 /\ (\A k \in 1..N : pos[k] = IF pos[k - 1] >= N THEN pos[k - 1] ELSE After(prog, pos[k - 1])) /\ (\A k \in 0..N : pos[k] \in Nat)
  BY <1>1, PositionsOf
<1> HIDE DEF pos
<1>3. 0 \in I
  BY <1>2
<1>4. ASSUME NEW k \in 0..(N - 1), k \in I PROVE k + 1 \in I
  <2>1. k + 1 \in 1..N /\ (k + 1) - 1 = k /\ pos[k] = k /\ ~(k >= N)
    BY <1>4
  <2>2. pos[k + 1] = After(prog, k)
    BY <1>2, <2>1
  <2>3. After(prog, k) = k + 1
    <3>1. prog[k + 1].op # "PUSH"
      BY <1>1, <2>1
    <3> QED
      BY <3>1 DEF After
  <2> QED
    BY <2>2, <2>3
<1> HIDE DEF I
<1>5. \A k \in 0..N : k \in I
  BY <1>3, <1>4, Climb
<1>6. \A k \in 0..N : pos[k] = k
  BY <1>5 DEF I
<1> QED
  BY <1>1, <1>6 DEF Starts, pos

\* What a witness must hold to be replayed as an instruction of a code.
Coded(w) ==
  /\ w.pc \in Nat /\ w.n \in Nat /\ Instr(w.op, w.n) \in Instructions
  /\ w.op = "PUSH" => w.n \in 1..WordBytes /\ w.memData \in Bytes
  /\ IsTaken(w) => In(w, 0)[0] \in Nat

\* The code reaches over a PUSH's bytes and to where a jump leads.
LEMMA CodeEnds ==
  ASSUME NEW w, Coded(w)
  PROVE  /\ npush(w) \in Nat /\ CodeEnd(w) \in Nat /\ w.pc + 1 + npush(w) <= CodeEnd(w)
         /\ IsTaken(w) => In(w, 0)[0] + 1 <= CodeEnd(w) /\ npush(w) = 0
         /\ npush(w) = IF w.op = "PUSH" THEN w.n ELSE 0
<1>1. npush(w) \in Nat /\ npush(w) = IF w.op = "PUSH" THEN w.n ELSE 0
  BY DEF npush, Coded
<1>2. IsTaken(w) => npush(w) = 0
  BY DEF npush, IsTaken
<1>3. PICK next \in Nat : next = w.pc + 1 + npush(w)
  BY <1>1 DEF Coded
<1>4. CASE IsTaken(w)
  <2>1. PICK dest \in Nat : dest = In(w, 0)[0]
    BY <1>4 DEF Coded
  <2>2. CodeEnd(w) = IF dest + 1 > next THEN dest + 1 ELSE next
    BY <1>3, <1>4, <2>1 DEF CodeEnd
  <2>3. CASE dest + 1 > next
    BY <1>1, <1>2, <1>3, <2>1, <2>2, <2>3
  <2>4. CASE ~(dest + 1 > next)
    BY <1>1, <1>2, <1>3, <2>1, <2>2, <2>4
  <2> QED
    BY <2>3, <2>4
<1>5. CASE ~IsTaken(w)
  <2>1. CodeEnd(w) = next
    BY <1>3, <1>5 DEF CodeEnd
  <2> QED
    BY <1>1, <1>3, <1>5, <2>1
<1> QED
  BY <1>4, <1>5

\* The byte of the code at a position.
CodeByte(w, i) ==
  CASE IsTaken(w) /\ In(w, 0)[0] # w.pc /\ i = In(w, 0)[0] + 1 -> Instr("JUMPDEST", 0)
    [] i = w.pc + 1 -> Instr(w.op, w.n)
    [] i \in (w.pc + 2)..(w.pc + 1 + npush(w)) -> Data(w.memData[WordBytes - npush(w) + i - w.pc - 1])
    [] OTHER -> Instr("STOP", 0)

\* The instruction is at its place, a PUSH's bytes behind it, and a JUMPDEST where a
\* jump that is taken leads.
LEMMA CodeBytes ==
  ASSUME NEW w, Coded(w), NEW i \in Nat, i >= 1
  PROVE  /\ CodeByte(w, i) \in Instructions
         /\ i = w.pc + 1 => CodeByte(w, i) = Instr(w.op, w.n)
         /\ i \in (w.pc + 2)..(w.pc + 1 + npush(w)) => CodeByte(w, i) = Data(w.memData[WordBytes - npush(w) + i - w.pc - 1])
         /\ IsTaken(w) => /\ In(w, 0)[0] # w.pc /\ i = In(w, 0)[0] + 1 => CodeByte(w, i) = Instr("JUMPDEST", 0)
                          /\ CodeByte(w, i).op # "PUSH"
<1>1. PICK pc \in Nat, np \in Nat : pc = w.pc /\ np = npush(w) /\ (IsTaken(w) => np = 0) /\ (np # 0 => w.op = "PUSH" /\ np = w.n)
  BY CodeEnds DEF Coded
<1> DEFINE A == IsTaken(w) /\ In(w, 0)[0] # w.pc /\ i = In(w, 0)[0] + 1
           B == i = w.pc + 1
           C == i \in (w.pc + 2)..(w.pc + 1 + npush(w))
<1>2. (A => ~B) /\ (C => ~B)
  <2>1. A => ~B
    BY <1>1 DEF Coded
  <2>2. C => ~B
    BY <1>1
  <2> QED
    BY <2>1, <2>2
<1>3. A => ~C
  BY <1>1
<1>4. C => ~A
  BY <1>3
<1>5. B => ~A /\ ~C
  BY <1>2
<1> HIDE DEF A, B, C
<1>6. CodeByte(w, i) = CASE A -> Instr("JUMPDEST", 0) [] B -> Instr(w.op, w.n) [] C -> Data(w.memData[WordBytes - npush(w) + i - w.pc - 1]) [] OTHER -> Instr("STOP", 0)
  BY DEF CodeByte, A, B, C
<1>7. A => CodeByte(w, i) = Instr("JUMPDEST", 0)
  BY <1>2, <1>3, <1>6, Zenon
<1>8. B => CodeByte(w, i) = Instr(w.op, w.n)
  BY <1>5, <1>6, Zenon
<1>9. C => CodeByte(w, i) = Data(w.memData[WordBytes - npush(w) + i - w.pc - 1])
  BY <1>2, <1>4, <1>6, Zenon
<1>10. ~A /\ ~B /\ ~C => CodeByte(w, i) = Instr("STOP", 0)
  BY <1>6, Zenon
<1>11. C => w.memData[WordBytes - npush(w) + i - w.pc - 1] \in 0..(Byte - 1)
  <2>1. SUFFICES ASSUME C PROVE w.memData[WordBytes - npush(w) + i - w.pc - 1] \in 0..(Byte - 1)
    OBVIOUS
  <2>2. i \in (pc + 2)..(pc + 1 + np) /\ np \in 1..WordBytes /\ w.memData \in Bytes
    BY <1>1, <2>1 DEF C, Coded
  <2>3. WordBytes - np + i - pc - 1 \in 1..WordBytes
    BY <2>2, ByteFacts
  <2> QED
    BY <1>1, <2>2, <2>3 DEF Bytes
<1>12. CodeByte(w, i) \in Instructions
  BY <1>7, <1>8, <1>9, <1>10, <1>11, InstrIn DEF Coded
<1>13. IsTaken(w) => CodeByte(w, i).op # "PUSH"
  <2>1. IsTaken(w) => ~C /\ w.op # "PUSH"
    BY <1>1 DEF C, IsTaken
  <2> QED
    BY <1>7, <1>8, <1>10, <2>1 DEF Instr
<1> QED
  BY <1>7, <1>8, <1>9, <1>12, <1>13 DEF A, B, C

\* The code for a replay.
LEMMA Codes ==
  ASSUME NEW w, Coded(w), Fits(w), ~(IsJump(w) /\ ~Narrow(In(w, 0))), NEW rc, rc = reconstructCode(w)
  PROVE  /\ rc \in Seq(Instructions) /\ w.pc < Len(rc) /\ Len(rc) = CodeEnd(w)
         /\ rc[w.pc + 1] = Instr(w.op, w.n)
         /\ w.op = "PUSH" => \A i \in 1..w.n : rc[w.pc + 1 + i].byte = w.memData[WordBytes - w.n + i] /\ w.pc + 1 + i <= Len(rc)
         /\ IsTaken(w) => (jumpdestOK(rc, In(w, 0)[0]) <=> In(w, 0)[0] # w.pc)
<1>1. PICK end \in Nat : end = CodeEnd(w) /\ w.pc + 1 + npush(w) <= end /\ npush(w) \in Nat /\ w.pc \in Nat
  BY CodeEnds DEF Coded
<1>2. rc = [i \in 1..end |-> CodeByte(w, i)]
  BY <1>1 DEF reconstructCode, CodeByte
<1>3. rc \in [1..end -> Instructions]
  <2>1. \A i \in 1..end : CodeByte(w, i) \in Instructions
    BY CodeBytes
  <2> QED
    BY <1>2, <2>1
<1>4. rc \in Seq(Instructions) /\ Len(rc) = end
  BY <1>3, Listed
<1>5. w.pc < end /\ w.pc + 1 \in 1..end
  BY <1>1
<1>6. rc[w.pc + 1] = Instr(w.op, w.n)
  BY <1>2, <1>5, CodeBytes
<1>7. ASSUME w.op = "PUSH", NEW i \in 1..w.n PROVE rc[w.pc + 1 + i].byte = w.memData[WordBytes - w.n + i] /\ w.pc + 1 + i <= end
  <2>1. npush(w) = w.n /\ w.n \in Nat /\ WordBytes \in Nat
    BY <1>7, CodeEnds, ByteFacts DEF Coded
  <2>2. PICK j \in Nat : j = w.pc + 1 + i /\ j \in 1..end /\ j \in (w.pc + 2)..(w.pc + 1 + npush(w)) /\ j >= 1
    BY <1>1, <2>1
  <2>3. rc[j] = Data(w.memData[WordBytes - npush(w) + j - w.pc - 1])
    BY <1>2, <2>2, CodeBytes
  <2>4. WordBytes - npush(w) + j - w.pc - 1 = WordBytes - w.n + i
    BY <1>1, <2>1, <2>2
  <2> QED
    BY <2>2, <2>3, <2>4 DEF Data
<1>8. ASSUME IsTaken(w) PROVE jumpdestOK(rc, In(w, 0)[0]) <=> In(w, 0)[0] # w.pc
  <2>1. PICK dest \in Nat : dest = In(w, 0)[0] /\ dest + 1 <= end /\ dest + 1 \in 1..end
    BY <1>1, <1>8, CodeEnds DEF Coded
  <2>2. \A i \in 1..end : rc[i].op # "PUSH"
    BY <1>2, <1>8, CodeBytes
  <2>3. dest \in Starts(rc) /\ dest < end
    <3>1. dest \in 0..Len(rc) /\ \A i \in 1..Len(rc) : rc[i].op # "PUSH"
      BY <1>4, <2>1, <2>2
    <3> QED
      BY <1>4, <2>1, <3>1, NoPushes
  <2>4. CASE dest # w.pc
    <3>1. rc[dest + 1] = Instr("JUMPDEST", 0)
      BY <1>2, <1>8, <2>1, <2>4, CodeBytes
    <3> QED
      BY <1>4, <2>1, <2>3, <2>4, <3>1 DEF jumpdestOK, Instr
  <2>5. CASE dest = w.pc
    <3>1. rc[dest + 1].op = w.op /\ w.op # "JUMPDEST"
      BY <1>6, <1>8, <2>5 DEF Instr, IsTaken
    <3> QED
      BY <2>1, <2>5, <3>1 DEF jumpdestOK
  <2> QED
    BY <2>4, <2>5
<1> QED
  BY <1>1, <1>4, <1>5, <1>6, <1>7, <1>8

-----------------------------------------------------------------------------
\* w is the witness of the step that prog makes of f.
Witnessed(w, f, g, prog, op, n, root) ==
  /\ Sound(f) /\ f.status = "running" /\ prog \in Seq(Instructions) /\ f.pc < Len(prog)
  /\ prog[f.pc + 1].op = op /\ prog[f.pc + 1].n = n
  /\ g = StepOne(f, prog) /\ Sound(g) /\ Holds(w, f, g, op, n, root)

\* The memory it shows.
LEMMA MemoryOf ==
  ASSUME NEW op, NEW f, NEW g
  PROVE  LET mem == extractMem(op, f, g)
             off == Top(f, 0)
         IN  /\ op = "MLOAD" /\ InReach(off) => mem.offset = off[0] /\ mem.data = Read(f, off[0], WordBytes)
             /\ op = "MSTORE" /\ InReach(off) => mem.offset = off[0] /\ mem.data = Read(g, off[0], WordBytes)
             /\ op = "PUSH" /\ g.stack # <<>> => mem.offset = 0 /\ mem.data = BytesBE(Top(g, 0))
             /\ ~(op \in {"MLOAD", "MSTORE"} /\ InReach(off)) /\ ~(op = "PUSH" /\ g.stack # <<>>) => mem.offset = 0 /\ mem.data = NoData
<1> DEFINE off == f.stack[Len(f.stack)]
           near == FitsU64(off) /\ off[0] <= memMax - WordBytes
           A == op = "MLOAD" /\ near
           B == op = "MSTORE" /\ near
           C == op = "PUSH" /\ g.stack # <<>>
           mem == extractMem(op, f, g)
<1>1. ~(A /\ B) /\ ~(A /\ C) /\ ~(B /\ C)
  OBVIOUS
<1>2. Len(f.stack) - 0 = Len(f.stack) => Top(f, 0) = off
  BY DEF Top
<1> HIDE DEF A, B, C, near, off
<1>3. mem = CASE A -> [offset |-> off[0], data |-> Read(f, off[0], WordBytes)]
              [] B -> [offset |-> off[0], data |-> Read(g, off[0], WordBytes)]
              [] C -> [offset |-> 0, data |-> BytesBE(Top(g, 0))]
              [] OTHER -> [offset |-> 0, data |-> NoData]
  BY DEF extractMem, A, B, C, near, off
<1> HIDE DEF mem
<1>4. A => mem = [offset |-> off[0], data |-> Read(f, off[0], WordBytes)]
  BY <1>1, <1>3, Zenon
<1>5. B => mem = [offset |-> off[0], data |-> Read(g, off[0], WordBytes)]
  BY <1>1, <1>3, Zenon
<1>6. C => mem = [offset |-> 0, data |-> BytesBE(Top(g, 0))]
  BY <1>1, <1>3, Zenon
<1>7. ~A /\ ~B /\ ~C => mem = [offset |-> 0, data |-> NoData]
  BY <1>3, Zenon
<1> QED
  BY <1>2, <1>4, <1>5, <1>6, <1>7 DEF A, B, C, near, off, mem, InReach

\* What a witness's fields are.
LEMMA WitnessFields ==
  ASSUME NEW w, NEW f, NEW g, NEW prog, NEW op, NEW n, NEW root, Witnessed(w, f, g, prog, op, n, root)
  PROVE  /\ n \in Nat /\ op \in Known /\ opGas(op) \in Nat /\ f.gas \in Nat /\ f.pc \in Nat /\ Len(f.stack) >= Takes(op, n)
         /\ opcodeSupported(op, n) /\ w.pc = f.pc /\ w.op = op /\ w.n = n /\ w.gas = f.gas
         /\ w.stackIn = Upper(f, Takes(op, n)) /\ w.stackIn \in Windows
         /\ w.stackOut = copyStackWindow(g, outArity(op, n))
         /\ w.memOffset = extractMem(op, f, g).offset /\ w.memData = extractMem(op, f, g).data
         /\ w.preStateRoot = hashState(f.pc, f.gas, w.stackIn, w)
         /\ w.postStateRoot = hashState(g.pc, g.gas, w.stackOut, w)
         /\ \A i \in 0..3 : i < Takes(op, n) => /\ In(w, i) = Top(f, i) /\ Top(f, i) \in Word
                                                 /\ w.stackIn[Takes(op, n) - i] = Top(f, i)
<1>1. /\ Sound(f) /\ f.status = "running" /\ prog \in Seq(Instructions) /\ f.pc < Len(prog)
      /\ prog[f.pc + 1].op = op /\ prog[f.pc + 1].n = n /\ Holds(w, f, g, op, n, root)
  BY DEF Witnessed
<1>2. f.pc \in Nat /\ f.gas \in Nat
  BY <1>1, Sizes
<1>3. n \in Nat
  BY <1>1, <1>2, CodeAt
<1>4. op \in Known /\ opGas(op) \in Nat
  BY <1>1, <1>3, SupportedTakes, GasOf DEF Holds
<1>5. /\ w.stackIn = Upper(f, Takes(op, n)) /\ w.stackIn \in Windows
      /\ \A i \in 0..3 : i < Takes(op, n) => /\ In(w, i) = Top(f, i) /\ Top(f, i) \in Word
                                              /\ w.stackIn[Takes(op, n) - i] = Top(f, i)
  BY <1>1, <1>3, Inputs
<1> QED
  BY <1>1, <1>2, <1>3, <1>4, <1>5 DEF Holds, Shared

\* Zeros are bytes.
LEMMA BlankData ==
  NoData \in Bytes
<1>1. 0 \in 0..(Byte - 1)
  BY ByteFacts
<1> QED
  BY <1>1 DEF NoData, Bytes

\* It can be replayed as an instruction of a code.
LEMMA WitnessCoded ==
  ASSUME NEW w, NEW f, NEW g, NEW prog, NEW op, NEW n, NEW root, Witnessed(w, f, g, prog, op, n, root)
  PROVE  Coded(w) /\ (op = "PUSH" => w.memData \in Bytes /\ n \in 1..WordBytes)
<1>1. /\ n \in Nat /\ op \in Known /\ f.pc \in Nat /\ opcodeSupported(op, n) /\ w.pc = f.pc /\ w.op = op /\ w.n = n
      /\ w.memData = extractMem(op, f, g).data
  BY WitnessFields
<1>2. PICK at \in Instructions : at = prog[f.pc + 1] /\ at.op = op /\ at.n = n
  <2>1. prog[f.pc + 1] \in Instructions
    BY <1>1, CodeAt DEF Witnessed
  <2> QED
    BY <2>1 DEF Witnessed
<1>3. Instr(op, n) \in Instructions /\ (op = "PUSH" => n \in 1..WordBytes)
  <2>1. 0 \in 0..(Byte - 1)
    BY ByteFacts
  <2> QED
    BY <1>2, <2>1 DEF Instr, Instructions
<1>4. ASSUME op = "PUSH" PROVE w.memData \in Bytes
  <2>1. CASE g.stack # <<>>
    <3>1. w.memData = BytesBE(Top(g, 0))
      BY <1>1, <1>4, <2>1, MemoryOf
    <3>2. Sound(g) /\ Len(g.stack) \in Nat /\ g.stack \in Seq(Word)
      BY Sizes DEF Witnessed
    <3>3. Len(g.stack) > 0
      BY <2>1, <3>2, EmptySeq
    <3>4. Top(g, 0) \in Word
      BY <3>2, <3>3, Tops
    <3> QED
      BY <3>1, <3>4, ByteRead
  <2>2. CASE g.stack = <<>>
    <3>1. w.memData = NoData
      BY <1>1, <1>4, <2>2, MemoryOf
    <3> QED
      BY <3>1, BlankData
  <2> QED
    BY <2>1, <2>2
<1>5. ASSUME IsTaken(w) PROVE In(w, 0)[0] \in Nat
  <2>1. op \in {"JUMP", "JUMPI"}
    BY <1>1, <1>5 DEF IsTaken
  <2>2. 0 < Takes(op, n) /\ 0 \in 0..3
    BY <1>1, <2>1, SupportedTakes
  <2>3. In(w, 0) \in Word
    BY <2>2, WitnessFields
  <2>4. 0 \in Index /\ Limb \in Nat
    BY LimbFacts DEF Index
  <2> QED
    BY <2>3, <2>4 DEF Word
<1> QED
  BY <1>1, <1>3, <1>4, <1>5 DEF Coded

\* A claim of a result for the step of w, which led to g.
Claim(w, g, v) ==
  /\ v = AsRecord(v)
  /\ v.pc = w.pc /\ v.op = w.op /\ v.n = w.n /\ v.gas = w.gas /\ v.stackIn = w.stackIn
  /\ v.memOffset = w.memOffset /\ v.memData = w.memData /\ v.storageKey = w.storageKey /\ v.storageVal = w.storageVal
  /\ v.storageRoot = w.storageRoot /\ v.storageProof = w.storageProof /\ v.preStateRoot = w.preStateRoot
  /\ \E pc \in {g.pc, g.pc + 1} : /\ \E gas : v.postStateRoot = hashState(pc, gas, v.stackOut, w)
                                  /\ pc # g.pc => v.stackOut = w.stackOut

\* It is replayed as the witness is, and compared with the same result.
LEMMA ClaimSame ==
  ASSUME NEW w, NEW g, NEW v, Claim(w, g, v)
  PROVE  /\ reconstructCode(v) = reconstructCode(w) /\ reconstructFrame(v) = reconstructFrame(w)
         /\ StorageShown(v) <=> StorageShown(w)
         /\ \A i : In(v, i) = In(w, i)
         /\ \A pc, gas, s : hashState(pc, gas, s, v) = hashState(pc, gas, s, w)
         /\ Fits(v) <=> Fits(w)
         /\ IsTaken(v) <=> IsTaken(w)
         /\ WidePush(v) <=> WidePush(w)
<1>1. /\ v.pc = w.pc /\ v.op = w.op /\ v.n = w.n /\ v.gas = w.gas /\ v.stackIn = w.stackIn
      /\ v.memOffset = w.memOffset /\ v.memData = w.memData /\ v.storageKey = w.storageKey /\ v.storageVal = w.storageVal
      /\ v.storageRoot = w.storageRoot /\ v.storageProof = w.storageProof /\ v.preStateRoot = w.preStateRoot
  BY DEF Claim
<1>2. \A i : In(v, i) = In(w, i)
  BY <1>1 DEF In
<1>3. IsTaken(v) <=> IsTaken(w)
  BY <1>1, <1>2 DEF IsTaken
<1>4. IsJump(v) <=> IsJump(w)
  BY <1>1 DEF IsJump
<1>5. npush(v) = npush(w)
  BY <1>1 DEF npush
<1>6. CodeEnd(v) = CodeEnd(w)
  BY <1>1, <1>2, <1>3, <1>5 DEF CodeEnd
<1>7. Fits(v) <=> Fits(w)
  BY <1>6 DEF Fits
<1>8. reconstructCode(v) = reconstructCode(w)
  <2>1. reconstructCode(v) = IF (IsJump(v) /\ ~Narrow(In(v, 0))) \/ ~Fits(v) THEN <<>> ELSE [i \in 1..CodeEnd(v) |-> CodeByte(v, i)]
    BY Zenon DEF reconstructCode, CodeByte
  <2>2. reconstructCode(w) = IF (IsJump(w) /\ ~Narrow(In(w, 0))) \/ ~Fits(w) THEN <<>> ELSE [i \in 1..CodeEnd(w) |-> CodeByte(w, i)]
    BY Zenon DEF reconstructCode, CodeByte
  <2>3. ASSUME NEW i PROVE CodeByte(v, i) = CodeByte(w, i)
    <3>1. /\ CodeByte(v, i) = CASE IsTaken(v) /\ In(v, 0)[0] # v.pc /\ i = In(v, 0)[0] + 1 -> Instr("JUMPDEST", 0)
                               [] i = v.pc + 1 -> Instr(v.op, v.n)
                               [] i \in (v.pc + 2)..(v.pc + 1 + npush(v)) -> Data(v.memData[WordBytes - npush(v) + i - v.pc - 1])
                               [] OTHER -> Instr("STOP", 0)
          /\ CodeByte(w, i) = CASE IsTaken(w) /\ In(w, 0)[0] # w.pc /\ i = In(w, 0)[0] + 1 -> Instr("JUMPDEST", 0)
                               [] i = w.pc + 1 -> Instr(w.op, w.n)
                               [] i \in (w.pc + 2)..(w.pc + 1 + npush(w)) -> Data(w.memData[WordBytes - npush(w) + i - w.pc - 1])
                               [] OTHER -> Instr("STOP", 0)
      BY DEF CodeByte
    <3>2. In(v, 0) = In(w, 0)
      BY <1>2
    <3> QED
      BY <1>1, <1>3, <1>5, <3>1, <3>2
  <2>4. (IsJump(v) /\ ~Narrow(In(v, 0))) <=> (IsJump(w) /\ ~Narrow(In(w, 0)))
    BY <1>2, <1>4
  <2>5. [i \in 1..CodeEnd(v) |-> CodeByte(v, i)] = [i \in 1..CodeEnd(w) |-> CodeByte(w, i)]
    BY <1>6, <2>3
  <2>6. CASE (IsJump(w) /\ ~Narrow(In(w, 0))) \/ ~Fits(w)
    <3>1. (IsJump(v) /\ ~Narrow(In(v, 0))) \/ ~Fits(v)
      BY <1>7, <2>4, <2>6
    <3>2. reconstructCode(v) = <<>>
      BY <2>1, <3>1, Zenon
    <3>3. reconstructCode(w) = <<>>
      BY <2>2, <2>6, Zenon
    <3> QED
      BY <3>2, <3>3
  <2>7. CASE ~((IsJump(w) /\ ~Narrow(In(w, 0))) \/ ~Fits(w))
    <3>1. ~((IsJump(v) /\ ~Narrow(In(v, 0))) \/ ~Fits(v))
      BY <1>7, <2>4, <2>7
    <3>2. reconstructCode(v) = [i \in 1..CodeEnd(v) |-> CodeByte(v, i)]
      BY <2>1, <3>1, Zenon
    <3>3. reconstructCode(w) = [i \in 1..CodeEnd(w) |-> CodeByte(w, i)]
      BY <2>2, <2>7, Zenon
    <3> QED
      BY <2>5, <3>2, <3>3, Zenon
  <2> QED
    BY <2>6, <2>7
<1>9. reconstructFrame(v) = reconstructFrame(w)
  BY <1>1 DEF reconstructFrame
<1>10. StorageShown(v) <=> StorageShown(w)
  BY <1>1 DEF StorageShown, VerifyStorageProof
<1>11. \A pc, gas, s : hashState(pc, gas, s, v) = hashState(pc, gas, s, w)
  BY <1>1 DEF hashState
<1>12. WidePush(v) <=> WidePush(w)
  BY <1>1 DEF WidePush
<1> QED
  BY <1>2, <1>3, <1>7, <1>8, <1>9, <1>10, <1>11, <1>12

-----------------------------------------------------------------------------
\* VerifyWitness, by what the replay comes to.
LEMMA Judging ==
  ASSUME NEW w, NEW f, NEW g, NEW prog, NEW op, NEW n, NEW root, Witnessed(w, f, g, prog, op, n, root),
         NEW v, Claim(w, g, v), NEW rc, rc = reconstructCode(w), NEW h, h = StepOne(reconstructFrame(w), rc)
  PROVE  VerifyWitness(v) <=>
           /\ rc # <<>> /\ (op = "MLOAD" => w.memOffset <= memMax - WordBytes)
           /\ h.status \in {"running", "success"}
           /\ v.stackOut = copyStackWindow(h, outArity(op, n))
           /\ (op = "SSTORE" => In(w, 0) = w.storageKey /\ In(w, 1) = w.storageVal)
           /\ v.postStateRoot = hashState(h.pc, h.gas, v.stackOut, w)
           /\ (op \in {"SLOAD", "SSTORE"} => StorageShown(w))
<1>1. /\ v.pc = w.pc /\ v.op = op /\ v.n = n /\ v.gas = w.gas /\ v.stackIn = w.stackIn /\ v.memOffset = w.memOffset
      /\ v.storageKey = w.storageKey /\ v.storageVal = w.storageVal /\ v.preStateRoot = w.preStateRoot
      /\ opcodeSupported(op, n) /\ w.pc = f.pc /\ w.gas = f.gas /\ w.preStateRoot = hashState(f.pc, f.gas, w.stackIn, w)
  BY WitnessFields DEF Claim
<1>2. /\ reconstructCode(v) = rc /\ reconstructFrame(v) = reconstructFrame(w) /\ (StorageShown(v) <=> StorageShown(w))
      /\ In(v, 0) = In(w, 0) /\ In(v, 1) = In(w, 1)
      /\ \A pc, gas, s : hashState(pc, gas, s, v) = hashState(pc, gas, s, w)
  BY ClaimSame
<1>3. v.preStateRoot = hashState(v.pc, v.gas, v.stackIn, v)
  BY <1>1, <1>2
<1>4. hashState(h.pc, h.gas, v.stackOut, v) = hashState(h.pc, h.gas, v.stackOut, w)
  BY <1>2
<1>5. h = StepOne(reconstructFrame(v), reconstructCode(v))
  BY <1>2
<1>6. VerifyWitness(v) <=>
        /\ opcodeSupported(v.op, v.n) /\ v.preStateRoot = hashState(v.pc, v.gas, v.stackIn, v)
        /\ reconstructCode(v) # <<>> /\ (v.op = "MLOAD" => v.memOffset <= memMax - WordBytes)
        /\ h.status \in {"running", "success"}
        /\ v.stackOut = copyStackWindow(h, outArity(v.op, v.n))
        /\ (v.op = "SSTORE" => In(v, 0) = v.storageKey /\ In(v, 1) = v.storageVal)
        /\ v.postStateRoot = hashState(h.pc, h.gas, v.stackOut, v)
        /\ (v.op \in {"SLOAD", "SSTORE"} => StorageShown(v))
  BY <1>5 DEF VerifyWitness
<1> QED
  BY <1>1, <1>2, <1>3, <1>4, <1>6

\* What the contract answers.
Answered(words) == [i \in 1..4 |-> IF i <= Len(words) THEN words[i] ELSE Zero]
Answer(words, pc, gas, mem) == [ok |-> TRUE, pc |-> pc, gas |-> gas, mem |-> mem, stack |-> Answered(words)]
Asked(w, op) == w.op = op /\ opcodeSupported(w.op, w.n) /\ w.gas - opGas(w.op) >= 0

\* _exec refuses a step that cannot be paid.  What it answers otherwise, instruction
\* by instruction:
LEMMA SolPoor ==
  ASSUME NEW w, ~(w.gas - opGas(w.op) >= 0)
  PROVE  solExec(w) = Refused
BY Zenon DEF solExec

\* arithmetic, on numbers;
LEMMA SolPlain ==
  ASSUME NEW w, NEW op \in Plain, Asked(w, op)
  PROVE  solExec(w) = Answer(<<FromU64(Meaning(w.op, Value(w.stackIn[2]), Value(w.stackIn[1]), 0))>>, w.pc + 1, w.gas - opGas(w.op), w.memData)
<1>1. /\ w.op # "MLOAD" /\ w.op # "MSTORE" /\ w.op # "SLOAD" /\ w.op # "SSTORE" /\ w.op # "JUMP" /\ w.op # "JUMPI"
      /\ w.op \notin {"PUSH0", "PUSH"} /\ w.op # "DUP" /\ w.op # "SWAP" /\ w.op \in Plain
  BY DEF Plain, Asked
<1> QED
  BY <1>1, Zenon DEF solExec, Answer, Answered, Asked

\* JUMP, to a narrow destination;
LEMMA SolJump ==
  ASSUME NEW w, Asked(w, "JUMP")
  PROVE  solExec(w) = IF Narrow(w.stackIn[1]) THEN Answer(<<>>, w.stackIn[1][0], w.gas - opGas(w.op), w.memData) ELSE Refused
<1>1. /\ w.op # "MLOAD" /\ w.op # "MSTORE" /\ w.op # "SLOAD" /\ w.op # "SSTORE" /\ w.op = "JUMP" /\ w.op # "JUMPI"
      /\ w.op \notin {"PUSH0", "PUSH"} /\ w.op # "DUP" /\ w.op # "SWAP" /\ w.op \notin Plain
  BY DEF Plain, Asked
<1> QED
  BY <1>1, Zenon DEF solExec, Answer, Answered, Asked

\* MLOAD, the word shown, at the offset shown;
LEMMA SolMLoad ==
  ASSUME NEW w, Asked(w, "MLOAD")
  PROVE  solExec(w) = IF solChargeMem(w.gas - opGas(w.op), w.memOffset + WordBytes, w.memOffset) >= 0 /\ FromU64(w.memOffset) = w.stackIn[1]
                      THEN Answer(<<FromBytesBE(w.memData)>>, w.pc + 1, solChargeMem(w.gas - opGas(w.op), w.memOffset + WordBytes, w.memOffset), w.memData)
                      ELSE Refused
<1>1. w.op # "MSTORE" /\ w.op # "SLOAD" /\ w.op # "SSTORE" /\ w.op # "JUMP" /\ w.op # "JUMPI" /\ w.op # "DUP" /\ w.op # "SWAP" /\ w.op = "MLOAD" /\ w.op \notin Plain /\ w.op \notin {"PUSH0", "PUSH"}
  BY DEF Plain, Asked
<1> QED
  BY <1>1, Zenon DEF solExec, Answer, Answered, Asked

\* MSTORE, at the offset shown, from an empty memory;
LEMMA SolMStore ==
  ASSUME NEW w, Asked(w, "MSTORE")
  PROVE  solExec(w) = IF solChargeMem(w.gas - opGas(w.op), 0, w.memOffset) >= 0 /\ FromU64(w.memOffset) = w.stackIn[2]
                      THEN Answer(<<>>, w.pc + 1, solChargeMem(w.gas - opGas(w.op), 0, w.memOffset), BytesBE(w.stackIn[1]))
                      ELSE Refused
<1>1. w.op # "MLOAD" /\ w.op # "SLOAD" /\ w.op # "SSTORE" /\ w.op # "JUMP" /\ w.op # "JUMPI" /\ w.op # "DUP" /\ w.op # "SWAP" /\ w.op = "MSTORE" /\ w.op \notin Plain /\ w.op \notin {"PUSH0", "PUSH"}
  BY DEF Plain, Asked
<1> QED
  BY <1>1, Zenon DEF solExec, Answer, Answered, Asked

\* SLOAD, the value shown;
LEMMA SolLoad ==
  ASSUME NEW w, Asked(w, "SLOAD")
  PROVE  solExec(w) = IF StorageShown(w) /\ w.stackIn[1] = w.storageKey
                      THEN Answer(<<w.storageVal>>, w.pc + 1, w.gas - opGas(w.op), w.memData) ELSE Refused
<1>1. w.op # "MLOAD" /\ w.op # "MSTORE" /\ w.op # "SSTORE" /\ w.op # "JUMP" /\ w.op # "JUMPI" /\ w.op # "DUP" /\ w.op # "SWAP" /\ w.op = "SLOAD" /\ w.op \notin Plain /\ w.op \notin {"PUSH0", "PUSH"}
  BY DEF Plain, Asked
<1> QED
  BY <1>1, Zenon DEF solExec, Answer, Answered, Asked

\* SSTORE, of the key and the value shown;
LEMMA SolStore ==
  ASSUME NEW w, Asked(w, "SSTORE")
  PROVE  solExec(w) = IF StorageShown(w) /\ w.stackIn[2] = w.storageKey /\ w.stackIn[1] = w.storageVal
                      THEN Answer(<<>>, w.pc + 1, w.gas - opGas(w.op), w.memData) ELSE Refused
<1>1. w.op # "MLOAD" /\ w.op # "MSTORE" /\ w.op # "SLOAD" /\ w.op # "JUMP" /\ w.op # "JUMPI" /\ w.op # "DUP" /\ w.op # "SWAP" /\ w.op = "SSTORE" /\ w.op \notin Plain /\ w.op \notin {"PUSH0", "PUSH"}
  BY DEF Plain, Asked
<1> QED
  BY <1>1, Zenon DEF solExec, Answer, Answered, Asked

\* JUMPI, which looks at the destination only if it jumps;
LEMMA SolJumpI ==
  ASSUME NEW w, Asked(w, "JUMPI")
  PROVE  solExec(w) = IF IsZero(w.stackIn[1]) THEN Answer(<<>>, w.pc + 1, w.gas - opGas(w.op), w.memData)
                      ELSE IF Narrow(w.stackIn[2]) THEN Answer(<<>>, w.stackIn[2][0], w.gas - opGas(w.op), w.memData) ELSE Refused
<1>1. w.op # "MLOAD" /\ w.op # "MSTORE" /\ w.op # "SLOAD" /\ w.op # "SSTORE" /\ w.op # "JUMP" /\ w.op # "DUP" /\ w.op # "SWAP" /\ w.op = "JUMPI" /\ w.op \notin Plain /\ w.op \notin {"PUSH0", "PUSH"}
  BY DEF Plain, Asked
<1> QED
  BY <1>1, Zenon DEF solExec, Answer, Answered, Asked

\* PUSH0,
LEMMA SolPush0 ==
  ASSUME NEW w, Asked(w, "PUSH0")
  PROVE  solExec(w) = Answer(<<FromBytesBE(w.memData)>>, w.pc + 1 + w.n, w.gas - opGas(w.op), w.memData)
<1>1. w.op # "MLOAD" /\ w.op # "MSTORE" /\ w.op # "SLOAD" /\ w.op # "SSTORE" /\ w.op # "JUMP" /\ w.op # "JUMPI" /\ w.op # "DUP" /\ w.op # "SWAP" /\ w.op = "PUSH0" /\ w.op \notin Plain /\ w.op \in {"PUSH0", "PUSH"}
  BY DEF Plain, Asked
<1> QED
  BY <1>1, Zenon DEF solExec, Answer, Answered, Asked

\* and PUSHn, the word shown;
LEMMA SolPush ==
  ASSUME NEW w, Asked(w, "PUSH")
  PROVE  solExec(w) = Answer(<<FromBytesBE(w.memData)>>, w.pc + 1 + w.n, w.gas - opGas(w.op), w.memData)
<1>1. w.op # "MLOAD" /\ w.op # "MSTORE" /\ w.op # "SLOAD" /\ w.op # "SSTORE" /\ w.op # "JUMP" /\ w.op # "JUMPI" /\ w.op # "DUP" /\ w.op # "SWAP" /\ w.op = "PUSH" /\ w.op \notin Plain /\ w.op \in {"PUSH0", "PUSH"}
  BY DEF Plain, Asked
<1> QED
  BY <1>1, Zenon DEF solExec, Answer, Answered, Asked

\* DUPn,
LEMMA SolDup ==
  ASSUME NEW w, Asked(w, "DUP")
  PROVE  solExec(w) = Answer(Append(SubSeq(w.stackIn, 1, w.n), w.stackIn[1]), w.pc + 1, w.gas - opGas(w.op), w.memData)
<1>1. w.op # "MLOAD" /\ w.op # "MSTORE" /\ w.op # "SLOAD" /\ w.op # "SSTORE" /\ w.op # "JUMP" /\ w.op # "JUMPI" /\ w.op # "SWAP" /\ w.op = "DUP" /\ w.op \notin Plain /\ w.op \notin {"PUSH0", "PUSH"}
  BY DEF Plain, Asked
<1> QED
  BY <1>1, Zenon DEF solExec, Answer, Answered, Asked

\* and SWAPn, on the window that goes in.
LEMMA SolSwap ==
  ASSUME NEW w, Asked(w, "SWAP")
  PROVE  solExec(w) = Answer([SubSeq(w.stackIn, 1, w.n + 1) EXCEPT ![w.n + 1] = w.stackIn[1], ![1] = w.stackIn[w.n + 1]], w.pc + 1, w.gas - opGas(w.op), w.memData)
<1>1. w.op # "MLOAD" /\ w.op # "MSTORE" /\ w.op # "SLOAD" /\ w.op # "SSTORE" /\ w.op # "JUMP" /\ w.op # "JUMPI" /\ w.op # "DUP" /\ w.op = "SWAP" /\ w.op \notin Plain /\ w.op \notin {"PUSH0", "PUSH"}
  BY DEF Plain, Asked
<1> QED
  BY <1>1, Zenon DEF solExec, Answer, Answered, Asked

-----------------------------------------------------------------------------
\* A claim of the result out, pc and gas.
Same(v, w, out, pc, gas) == v.stackOut = out /\ v.postStateRoot = hashState(pc, gas, out, w)

\* The contract accepts a claim of what it answers, and no other,
LEMMA SolAnswered ==
  ASSUME NEW w, NEW f, NEW g, NEW prog, NEW op, NEW n, NEW root, Witnessed(w, f, g, prog, op, n, root),
         NEW v, Claim(w, g, v), NEW words, NEW pc, NEW gas, NEW out, solExec(v) = Answer(words, pc, gas, w.memData),
         out = Answered(words)
  PROVE  executeOneStep(v) <=> Same(v, w, out, pc, gas)
<1>1. /\ v.pc = w.pc /\ v.gas = w.gas /\ v.stackIn = w.stackIn /\ v.memOffset = w.memOffset /\ v.memData = w.memData
      /\ v.storageKey = w.storageKey /\ v.storageVal = w.storageVal /\ v.storageRoot = w.storageRoot /\ v.preStateRoot = w.preStateRoot
      /\ w.pc = f.pc /\ w.gas = f.gas /\ w.preStateRoot = hashState(f.pc, f.gas, w.stackIn, w)
  BY WitnessFields DEF Claim
<1>2. v.preStateRoot = hashState(v.pc, v.gas, v.stackIn, v)
  BY <1>1 DEF hashState
<1>3. PICK o : o = solExec(v) /\ o.ok = TRUE /\ o.pc = pc /\ o.gas = gas /\ o.stack = out /\ o.mem = w.memData
  BY DEF Answer
<1>4. hashState(pc, gas, out, [v EXCEPT !.memData = w.memData]) = hashState(pc, gas, out, w)
  <2>1. PICK x : x = [v EXCEPT !.memData = w.memData]
    OBVIOUS
  <2>2. PICK y : y = AsRecord(v) /\ y = v
    BY DEF Claim
  <2>3. x = [y EXCEPT !.memData = w.memData]
    BY <2>1, <2>2
  <2>4. /\ x.memOffset = v.memOffset /\ x.memData = w.memData /\ x.storageRoot = v.storageRoot
        /\ x.storageKey = v.storageKey /\ x.storageVal = v.storageVal
    BY <2>2, <2>3 DEF AsRecord
  <2> QED
    BY <1>1, <2>1, <2>4 DEF hashState
<1>5. executeOneStep(v) <=> o.stack = v.stackOut /\ v.postStateRoot = hashState(o.pc, o.gas, o.stack, [v EXCEPT !.memData = o.mem])
  BY <1>2, <1>3 DEF executeOneStep
<1> QED
  BY <1>3, <1>4, <1>5 DEF Same

\* and none that it refuses.
LEMMA SolRefused ==
  ASSUME NEW v, solExec(v) = Refused
  PROVE  ~executeOneStep(v)
<1>1. ~solExec(v).ok
  BY DEF Refused
<1> QED
  BY <1>1 DEF executeOneStep

\* A replay that runs, one that stops, and one that is refused.
LEMMA JudgedRunning ==
  ASSUME NEW w, NEW f, NEW g, NEW prog, NEW op, NEW n, NEW root, Witnessed(w, f, g, prog, op, n, root),
         NEW v, Claim(w, g, v), NEW rc, rc = reconstructCode(w), rc # <<>>, NEW h, h = StepOne(reconstructFrame(w), rc),
         NEW pc, NEW gas, NEW k, k = outArity(op, n), NEW out, Ends(h, pc, gas, k, out)
  PROVE  VerifyWitness(v) <=>
           /\ (op = "MLOAD" => w.memOffset <= memMax - WordBytes)
           /\ (op = "SSTORE" => In(w, 0) = w.storageKey /\ In(w, 1) = w.storageVal)
           /\ (op \in {"SLOAD", "SSTORE"} => StorageShown(w))
           /\ Same(v, w, out, pc, gas)
<1>1. h.status = "running" /\ h.pc = pc /\ h.gas = gas /\ copyStackWindow(h, outArity(op, n)) = out
  BY DEF Ends
<1>2. VerifyWitness(v) <=>
           /\ rc # <<>> /\ (op = "MLOAD" => w.memOffset <= memMax - WordBytes)
           /\ h.status \in {"running", "success"}
           /\ v.stackOut = copyStackWindow(h, outArity(op, n))
           /\ (op = "SSTORE" => In(w, 0) = w.storageKey /\ In(w, 1) = w.storageVal)
           /\ v.postStateRoot = hashState(h.pc, h.gas, v.stackOut, w)
           /\ (op \in {"SLOAD", "SSTORE"} => StorageShown(w))
  BY Judging
<1> QED
  BY <1>1, <1>2 DEF Same

\* A replay that halts accepts no claim,
LEMMA JudgedStopped ==
  ASSUME NEW w, NEW f, NEW g, NEW prog, NEW op, NEW n, NEW root, Witnessed(w, f, g, prog, op, n, root),
         NEW v, Claim(w, g, v), NEW h, h = StepOne(reconstructFrame(w), reconstructCode(w)), h.status \in Exceptional
  PROVE  ~VerifyWitness(v)
<1>1. h.status \notin {"running", "success"}
  BY DEF Exceptional
<1> QED
  BY <1>1, Judging

\* and neither does one whose code is refused.
LEMMA JudgedRefused ==
  ASSUME NEW w, NEW f, NEW g, NEW prog, NEW op, NEW n, NEW root, Witnessed(w, f, g, prog, op, n, root),
         NEW v, Claim(w, g, v), ~Fits(w) \/ (IsJump(w) /\ ~Narrow(In(w, 0)))
  PROVE  ~VerifyWitness(v)
<1>1. reconstructCode(w) = <<>>
  BY DEF reconstructCode
<1> QED
  BY <1>1, Judging

\* The replay's frame and code stand where the step did.
LEMMA ReplayReady ==
  ASSUME NEW w, NEW f, NEW g, NEW prog, NEW op, NEW n, NEW root, Witnessed(w, f, g, prog, op, n, root),
         Fits(w), ~(IsJump(w) /\ ~Narrow(In(w, 0))), NEW rf, Sound(rf), rf.status = "running", rf.pc = f.pc, rf.gas = f.gas,
         Len(rf.stack) = Takes(op, n), NEW rc, rc = reconstructCode(w), f.gas >= opGas(op)
  PROVE  Ready(rf, rc, op, n) /\ rc # <<>>
<1>1. /\ n \in Nat /\ op \in Known /\ f.gas \in Nat /\ f.pc \in Nat /\ w.pc = f.pc /\ w.op = op /\ w.n = n
  BY WitnessFields
<1>2. /\ rc \in Seq(Instructions) /\ w.pc < Len(rc) /\ rc[w.pc + 1] = Instr(w.op, w.n)
  BY WitnessCoded, Codes
<1>3. rc # <<>>
  BY <1>1, <1>2, EmptySeq
<1>4. rc[f.pc + 1].op = op /\ rc[f.pc + 1].n = n
  BY <1>1, <1>2 DEF Instr
<1>5. Takes(op, n) \in Nat
  BY <1>1, TakesNat
<1> QED
  BY <1>1, <1>2, <1>3, <1>4, <1>5 DEF Ready

\* It is ready where the step was.
LEMMA StepReady ==
  ASSUME NEW w, NEW f, NEW g, NEW prog, NEW op, NEW n, NEW root, Witnessed(w, f, g, prog, op, n, root), f.gas >= opGas(op)
  PROVE  Ready(f, prog, op, n)
BY WitnessFields DEF Witnessed, Ready

\* For most instructions the replay's frame is the plain one.
LEMMA ReplayPlainly ==
  ASSUME NEW w, NEW f, NEW g, NEW prog, NEW op, NEW n, NEW root, Witnessed(w, f, g, prog, op, n, root),
         op \notin {"MLOAD", "SLOAD"}, Fits(w), ~(IsJump(w) /\ ~Narrow(In(w, 0))), f.gas >= opGas(op),
         NEW rf, rf = reconstructFrame(w), NEW rc, rc = reconstructCode(w)
  PROVE  /\ Ready(rf, rc, op, n) /\ rc # <<>> /\ Sound(rf) /\ rf.pc = f.pc /\ rf.gas = f.gas /\ rf.memSize = 0
         /\ Len(rf.stack) = Takes(op, n)
         /\ \A i \in 0..3 : i < Takes(op, n) => Top(rf, i) = Top(f, i)
<1>1. Sound(f) /\ Holds(w, f, g, op, n, root)
  BY DEF Witnessed
<1>2. w.op = op /\ n \in Nat
  BY WitnessFields
<1>3. rf = Plainly(w)
  BY <1>2, OtherFrame
<1>4. /\ Sound(rf) /\ rf.status = "running" /\ rf.pc = f.pc /\ rf.gas = f.gas /\ Len(rf.stack) = Takes(op, n) /\ rf.memSize = 0
      /\ \A i \in 0..3 : i < Takes(op, n) => Top(rf, i) = Top(f, i)
  BY <1>1, <1>2, <1>3, PlainFrame
<1>5. Ready(rf, rc, op, n) /\ rc # <<>>
  BY <1>4, ReplayReady
<1> QED
  BY <1>4, <1>5

\* What is asked of the contract.
LEMMA SolAsked ==
  ASSUME NEW w, NEW f, NEW g, NEW prog, NEW op, NEW n, NEW root, Witnessed(w, f, g, prog, op, n, root), NEW v, Claim(w, g, v)
  PROVE  /\ f.gas >= opGas(op) => Asked(v, op)
         /\ ~(f.gas >= opGas(op)) => ~executeOneStep(v)
         /\ v.op = op /\ v.n = n /\ v.gas = f.gas /\ v.pc = f.pc /\ v.stackIn = w.stackIn /\ v.memData = w.memData
         /\ v.memOffset = w.memOffset /\ v.storageKey = w.storageKey /\ v.storageVal = w.storageVal
<1>1. /\ v.op = op /\ v.n = n /\ v.gas = f.gas /\ v.pc = f.pc /\ v.stackIn = w.stackIn /\ v.memData = w.memData
      /\ v.memOffset = w.memOffset /\ v.storageKey = w.storageKey /\ v.storageVal = w.storageVal
      /\ opcodeSupported(op, n) /\ f.gas \in Nat /\ opGas(op) \in Nat
  BY WitnessFields DEF Claim
<1>2. f.gas >= opGas(op) => Asked(v, op)
  BY <1>1 DEF Asked
<1>3. ~(f.gas >= opGas(op)) => ~executeOneStep(v)
  <2>1. ~(f.gas >= opGas(op)) => ~(v.gas - opGas(v.op) >= 0)
    BY <1>1
  <2> QED
    BY <2>1, SolPoor, SolRefused
<1> QED
  BY <1>1, <1>2, <1>3

\* A window of one word, and an empty one.
LEMMA OneWord ==
  ASSUME NEW x
  PROVE  One(x) = Answered(<<x>>) /\ Blank = Answered(<<>>)
<1>1. Len(<<x>>) = 1 /\ <<x>>[1] = x /\ Len(<<>>) = 0
  BY EmptySeq
<1>2. ASSUME NEW i \in 1..4 PROVE (IF i = 1 THEN x ELSE Zero) = (IF i <= Len(<<x>>) THEN <<x>>[i] ELSE Zero)
  BY <1>1
<1>3. ASSUME NEW i \in 1..4 PROVE Zero = (IF i <= Len(<<>>) THEN <<>>[i] ELSE Zero)
  BY <1>1
<1> QED
  BY <1>2, <1>3 DEF One, Blank, Answered

-----------------------------------------------------------------------------
\* The verdicts, for a step that could be paid.  Arithmetic.
LEMMA PlainVerdict ==
  ASSUME NEW w, NEW f, NEW g, NEW prog, NEW op, NEW n, NEW root, Witnessed(w, f, g, prog, op, n, root), NEW v, Claim(w, g, v),
         op \in Plain, f.gas >= opGas(op), NEW out, out = One(Calculate(op, Top(f, 0), Top(f, 1), Zero)),
         NEW gas, gas = f.gas - opGas(op)
  PROVE  /\ Ends(g, f.pc + 1, gas, outArity(op, n), out)
         /\ VerifyWitness(v) <=> Fits(w) /\ Same(v, w, out, f.pc + 1, gas)
         /\ executeOneStep(v) <=> Same(v, w, out, f.pc + 1, gas)
<1>1. /\ n \in Nat /\ opcodeSupported(op, n) /\ w.op = op /\ outArity(op, n) = 1 /\ Takes(op, n) = 2 /\ op \in Binary
      /\ g = StepOne(f, prog) /\ op \notin {"MLOAD", "SLOAD", "SSTORE", "JUMP", "JUMPI"}
  <2>1. op \in Binary /\ op \notin {"MLOAD", "SLOAD", "SSTORE", "JUMP", "JUMPI"}
    BY DEF Plain, Binary
  <2>2. n \in Nat /\ opcodeSupported(op, n) /\ w.op = op
    BY WitnessFields
  <2>3. g = StepOne(f, prog)
    BY DEF Witnessed
  <2> QED
    BY <2>1, <2>2, <2>3, Arities, SupportedTakes
<1>2. PICK a \in Word, b \in Word, x \in Word : a = Top(f, 0) /\ b = Top(f, 1) /\ x = Calculate(op, a, b, Zero)
  <2>1. Top(f, 0) \in Word /\ Top(f, 1) \in Word
    BY <1>1, WitnessFields
  <2>2. Calculate(op, Top(f, 0), Top(f, 1), Zero) \in Word
    BY StepReady, StepPlain
  <2> QED
    BY <2>1, <2>2
<1>3. Ends(g, f.pc + 1, gas, 1, out)
  BY <1>1, StepReady, StepPlain
<1>4. VerifyWitness(v) <=> Fits(w) /\ Same(v, w, out, f.pc + 1, gas)
  <2>1. CASE ~Fits(w)
    BY <2>1, JudgedRefused
  <2>2. CASE Fits(w)
    <3>1. PICK rf, rc, h : rf = reconstructFrame(w) /\ rc = reconstructCode(w) /\ h = StepOne(rf, rc)
      OBVIOUS
    <3>2. ~(IsJump(w) /\ ~Narrow(In(w, 0)))
      BY <1>1 DEF IsJump
    <3>3. Ready(rf, rc, op, n) /\ rc # <<>> /\ rf.pc = f.pc /\ rf.gas = f.gas /\ Top(rf, 0) = a /\ Top(rf, 1) = b
      BY <1>1, <1>2, <2>2, <3>1, <3>2, ReplayPlainly
    <3>4. Ends(h, f.pc + 1, gas, 1, out)
      BY <1>2, <3>1, <3>3, StepPlain
    <3>5. PICK k, pc : k = 1 /\ k = outArity(op, n) /\ pc = f.pc + 1 /\ Ends(h, pc, gas, k, out)
      BY <1>1, <3>4
    <3> QED
      BY <1>1, <2>2, <3>1, <3>3, <3>5, JudgedRunning
  <2> QED
    BY <2>1, <2>2
<1>5. executeOneStep(v) <=> Same(v, w, out, f.pc + 1, gas)
  <2>1. Asked(v, op) /\ v.op = op /\ v.gas = f.gas /\ v.pc = f.pc /\ v.stackIn = w.stackIn /\ v.memData = w.memData
    BY SolAsked
  <2>2. w.stackIn[2] = a /\ w.stackIn[1] = b
    BY <1>1, <1>2, WitnessFields
  <2>3. FromU64(Meaning(op, Value(a), Value(b), 0)) = x
    <3>1. Value(x) = Meaning(op, Value(a), Value(b), 0)
      BY <1>1, <1>2, CalculateExact, ZeroValue
    <3> QED
      BY <3>1, ValueDigits
  <2>4. PICK words, pc : words = <<x>> /\ pc = f.pc + 1 /\ solExec(v) = Answer(words, pc, gas, w.memData)
    BY <1>1, <2>1, <2>2, <2>3, SolPlain
  <2>5. out = Answered(words)
    BY <1>2, <2>4, OneWord
  <2> QED
    BY <2>4, <2>5, SolAnswered
<1> QED
  BY <1>1, <1>3, <1>4, <1>5

\* A jump that is taken, and one that is not.
LEMMA JumpVerdict ==
  ASSUME NEW w, NEW f, NEW g, NEW prog, NEW op, NEW n, NEW root, Witnessed(w, f, g, prog, op, n, root), NEW v, Claim(w, g, v),
         op \in {"JUMP", "JUMPI"}, IsTaken(w), f.gas >= opGas(op), NEW dest, dest = Top(f, 0),
         NEW gas, gas = f.gas - opGas(op)
  PROVE  /\ In(w, 0) = dest
         /\ \/ Ends(g, dest[0], gas, outArity(op, n), Blank) /\ Narrow(dest) /\ dest[0] # f.pc
            \/ Fails(f, g)
         /\ VerifyWitness(v) <=> Fits(w) /\ Narrow(dest) /\ dest[0] # f.pc /\ Same(v, w, Blank, dest[0], gas)
         /\ executeOneStep(v) <=> Narrow(dest) /\ Same(v, w, Blank, dest[0], gas)
<1>1. /\ n \in Nat /\ opcodeSupported(op, n) /\ w.op = op /\ w.pc = f.pc /\ f.pc \in Nat
      /\ \A i \in 0..3 : i < Takes(op, n) => /\ In(w, i) = Top(f, i) /\ Top(f, i) \in Word
                                              /\ w.stackIn[Takes(op, n) - i] = Top(f, i)
  BY WitnessFields
<1>2. g = StepOne(f, prog) /\ prog[f.pc + 1].op = op
  BY DEF Witnessed
<1>3. outArity(op, n) = 0 /\ (op = "JUMP" => Takes(op, n) = 1) /\ (op = "JUMPI" => Takes(op, n) = 2)
  BY <1>1, Arities, SupportedTakes
<1>4. /\ In(w, 0) = dest /\ dest \in Word
      /\ op = "JUMP" => w.stackIn[1] = dest
      /\ op = "JUMPI" => w.stackIn[2] = dest /\ w.stackIn[1] = Top(f, 1) /\ ~IsZero(Top(f, 1))
  <2>1. op = "JUMPI" => w.stackIn[1] = Top(f, 1) /\ In(w, 1) = Top(f, 1)
    BY <1>1, <1>3
  <2>2. op = "JUMPI" => ~IsZero(In(w, 1))
    BY <1>1 DEF IsTaken
  <2> QED
    BY <1>1, <1>3, <2>1, <2>2
<1>5. \/ Ends(g, dest[0], gas, outArity(op, n), Blank) /\ Narrow(dest) /\ dest[0] # f.pc
      \/ Fails(f, g)
  <2>1. (JumpOK(prog, dest) => Ends(g, dest[0], gas, 0, Blank)) /\ (~JumpOK(prog, dest) => Fails(f, g))
    <3>1. CASE op = "JUMP"
      BY <1>2, <3>1, StepReady, StepJump
    <3>2. CASE op = "JUMPI"
      BY <1>2, <1>4, <3>2, StepReady, StepJumpI
    <3> QED
      BY <3>1, <3>2
  <2>2. JumpOK(prog, dest) => Narrow(dest) /\ dest[0] # f.pc
    BY <1>2 DEF JumpOK, Narrow, jumpdestOK
  <2> QED
    BY <1>3, <2>1, <2>2
<1>6. VerifyWitness(v) <=> Fits(w) /\ Narrow(dest) /\ dest[0] # f.pc /\ Same(v, w, Blank, dest[0], gas)
  <2>1. CASE ~(Fits(w) /\ Narrow(dest))
    <3>1. ~Fits(w) \/ (IsJump(w) /\ ~Narrow(In(w, 0)))
      BY <1>1, <1>4, <2>1 DEF IsJump
    <3> QED
      BY <2>1, <3>1, JudgedRefused
  <2>2. CASE Fits(w) /\ Narrow(dest)
    <3>1. PICK rf, rc, h : rf = reconstructFrame(w) /\ rc = reconstructCode(w) /\ h = StepOne(rf, rc)
      OBVIOUS
    <3>2. ~(IsJump(w) /\ ~Narrow(In(w, 0)))
      BY <1>4, <2>2
    <3>3. /\ Ready(rf, rc, op, n) /\ rc # <<>> /\ rf.pc = f.pc /\ rf.gas = f.gas
          /\ \A i \in 0..3 : i < Takes(op, n) => Top(rf, i) = Top(f, i)
      BY <2>2, <3>1, <3>2, ReplayPlainly
    <3>4. Top(rf, 0) = dest /\ (op = "JUMPI" => ~IsZero(Top(rf, 1)))
      BY <1>3, <1>4, <3>3
    <3>5. JumpOK(rc, dest) <=> dest[0] # f.pc
      <4>1. jumpdestOK(rc, In(w, 0)[0]) <=> In(w, 0)[0] # w.pc
        BY <2>2, <3>1, <3>2, WitnessCoded, Codes
      <4> QED
        BY <1>1, <1>4, <2>2, <4>1 DEF JumpOK, Narrow
    <3>6. /\ JumpOK(rc, dest) => Ends(h, dest[0], gas, 0, Blank)
          /\ ~JumpOK(rc, dest) => Fails(rf, h)
      <4>1. CASE op = "JUMP"
        BY <3>1, <3>3, <3>4, <4>1, StepJump
      <4>2. CASE op = "JUMPI"
        BY <3>1, <3>3, <3>4, <4>2, StepJumpI
      <4> QED
        BY <4>1, <4>2
    <3>7. CASE dest[0] # f.pc
      <4>1. PICK k, pc, out : k = 0 /\ k = outArity(op, n) /\ pc = dest[0] /\ out = Blank /\ Ends(h, pc, gas, k, out)
        BY <1>3, <3>5, <3>6, <3>7
      <4>2. VerifyWitness(v) <=> /\ (op = "MLOAD" => w.memOffset <= memMax - WordBytes)
           /\ (op = "SSTORE" => In(w, 0) = w.storageKey /\ In(w, 1) = w.storageVal)
           /\ (op \in {"SLOAD", "SSTORE"} => StorageShown(w))
           /\ Same(v, w, out, pc, gas)
        BY <3>1, <3>3, <4>1, JudgedRunning
      <4> QED
        BY <2>2, <3>7, <4>1, <4>2
    <3>8. CASE dest[0] = f.pc
      <4>1. h.status \in Exceptional
        BY <3>5, <3>6, <3>8 DEF Fails
      <4>2. ~VerifyWitness(v)
        BY <3>1, <4>1, JudgedStopped
      <4> QED
        BY <3>8, <4>2
    <3> QED
      BY <3>7, <3>8
  <2> QED
    BY <2>1, <2>2
<1>7. executeOneStep(v) <=> Narrow(dest) /\ Same(v, w, Blank, dest[0], gas)
  <2>1. Asked(v, op) /\ v.op = op /\ v.gas = f.gas /\ v.pc = f.pc /\ v.stackIn = w.stackIn /\ v.memData = w.memData
    BY SolAsked
  <2>2. PICK words, pc, out : words = <<>> /\ pc = dest[0] /\ out = Blank
    OBVIOUS
  <2>3. solExec(v) = IF Narrow(dest) THEN Answer(words, pc, gas, w.memData) ELSE Refused
    <3>1. CASE op = "JUMP"
      BY <1>4, <2>1, <2>2, <3>1, SolJump
    <3>2. CASE op = "JUMPI"
      BY <1>4, <2>1, <2>2, <3>2, SolJumpI
    <3> QED
      BY <3>1, <3>2
  <2>4. out = Answered(words)
    BY <2>2, OneWord
  <2>5. CASE Narrow(dest)
    <3>1. solExec(v) = Answer(words, pc, gas, w.memData)
      BY <2>3, <2>5
    <3>2. executeOneStep(v) <=> Same(v, w, out, pc, gas)
      BY <2>4, <3>1, SolAnswered
    <3> QED
      BY <2>2, <2>5, <3>2
  <2>6. CASE ~Narrow(dest)
    BY <2>3, <2>6, SolRefused
  <2> QED
    BY <2>5, <2>6
<1> QED
  BY <1>4, <1>5, <1>6, <1>7

\* One that is not taken goes on.  The replay wants its destination narrow, the contract
\* does not look at it.
LEMMA NoJumpVerdict ==
  ASSUME NEW w, NEW f, NEW g, NEW prog, NEW op, NEW n, NEW root, Witnessed(w, f, g, prog, op, n, root), NEW v, Claim(w, g, v),
         op = "JUMPI", ~IsTaken(w), f.gas >= opGas(op), NEW gas, gas = f.gas - opGas(op)
  PROVE  /\ Ends(g, f.pc + 1, gas, outArity(op, n), Blank)
         /\ VerifyWitness(v) <=> Fits(w) /\ Narrow(In(w, 0)) /\ Same(v, w, Blank, f.pc + 1, gas)
         /\ executeOneStep(v) <=> Same(v, w, Blank, f.pc + 1, gas)
<1>1. /\ n \in Nat /\ opcodeSupported(op, n) /\ w.op = op
      /\ \A i \in 0..3 : i < Takes(op, n) => /\ In(w, i) = Top(f, i) /\ Top(f, i) \in Word
                                              /\ w.stackIn[Takes(op, n) - i] = Top(f, i)
  BY WitnessFields
<1>2. g = StepOne(f, prog)
  BY DEF Witnessed
<1>3. outArity(op, n) = 0 /\ Takes(op, n) = 2
  BY <1>1, Arities, SupportedTakes
<1>4. w.stackIn[1] = Top(f, 1) /\ IsZero(Top(f, 1))
  <2>1. w.stackIn[1] = Top(f, 1) /\ In(w, 1) = Top(f, 1)
    BY <1>1, <1>3
  <2> QED
    BY <1>1, <2>1 DEF IsTaken
<1>5. Ends(g, f.pc + 1, gas, 0, Blank)
  BY <1>2, <1>4, StepReady, StepJumpI
<1>6. VerifyWitness(v) <=> Fits(w) /\ Narrow(In(w, 0)) /\ Same(v, w, Blank, f.pc + 1, gas)
  <2>1. CASE ~(Fits(w) /\ Narrow(In(w, 0)))
    <3>1. ~Fits(w) \/ (IsJump(w) /\ ~Narrow(In(w, 0)))
      BY <1>1, <2>1 DEF IsJump
    <3> QED
      BY <2>1, <3>1, JudgedRefused
  <2>2. CASE Fits(w) /\ Narrow(In(w, 0))
    <3>1. PICK rf, rc, h : rf = reconstructFrame(w) /\ rc = reconstructCode(w) /\ h = StepOne(rf, rc)
      OBVIOUS
    <3>2. /\ Ready(rf, rc, op, n) /\ rc # <<>> /\ rf.pc = f.pc /\ rf.gas = f.gas
          /\ \A i \in 0..3 : i < Takes(op, n) => Top(rf, i) = Top(f, i)
      BY <2>2, <3>1, ReplayPlainly
    <3>3. IsZero(Top(rf, 1))
      BY <1>3, <1>4, <3>2
    <3>4. Ends(h, f.pc + 1, gas, 0, Blank)
      BY <3>1, <3>2, <3>3, StepJumpI
    <3>5. PICK k, pc, out : k = 0 /\ k = outArity(op, n) /\ pc = f.pc + 1 /\ out = Blank /\ Ends(h, pc, gas, k, out)
      BY <1>3, <3>4
    <3>6. VerifyWitness(v) <=> /\ (op = "MLOAD" => w.memOffset <= memMax - WordBytes)
           /\ (op = "SSTORE" => In(w, 0) = w.storageKey /\ In(w, 1) = w.storageVal)
           /\ (op \in {"SLOAD", "SSTORE"} => StorageShown(w))
           /\ Same(v, w, out, pc, gas)
      BY <3>1, <3>2, <3>5, JudgedRunning
    <3> QED
      BY <2>2, <3>5, <3>6
  <2> QED
    BY <2>1, <2>2
<1>7. executeOneStep(v) <=> Same(v, w, Blank, f.pc + 1, gas)
  <2>1. Asked(v, op) /\ v.op = op /\ v.gas = f.gas /\ v.pc = f.pc /\ v.stackIn = w.stackIn /\ v.memData = w.memData
    BY SolAsked
  <2>2. PICK words, pc, out : words = <<>> /\ pc = f.pc + 1 /\ out = Blank
    OBVIOUS
  <2>3. solExec(v) = Answer(words, pc, gas, w.memData)
    BY <1>4, <2>1, <2>2, SolJumpI
  <2>4. out = Answered(words)
    BY <2>2, OneWord
  <2> QED
    BY <2>2, <2>3, <2>4, SolAnswered
<1> QED
  BY <1>3, <1>5, <1>6, <1>7

\* No bytes are the word zero.
LEMMA BlankWord ==
  FromBytesBE(NoData) = Zero
<1>1. \A k \in 0..(LimbBytes - 1) : \A i \in Index : NoData[WordBytes - (i * LimbBytes + k)] = 0
  BY ByteAt DEF NoData
<1>2. ASSUME NEW i \in Index PROVE Number([k \in 0..(LimbBytes - 1) |-> NoData[WordBytes - (i * LimbBytes + k)]], LimbBytes, ByteBits) = 0
  <2>1. PICK x : x = [k \in 0..(LimbBytes - 1) |-> NoData[WordBytes - (i * LimbBytes + k)]]
    OBVIOUS
  <2>2. \A k \in 0..(LimbBytes - 1) : x[k] = 0
    BY <1>1, <2>1
  <2> QED
    BY <2>1, <2>2, ByteFacts, NumberZeros
<1> QED
  BY <1>2 DEF FromBytesBE, Zero

\* PUSH0.
LEMMA Push0Verdict ==
  ASSUME NEW w, NEW f, NEW g, NEW prog, NEW op, NEW n, NEW root, Witnessed(w, f, g, prog, op, n, root), NEW v, Claim(w, g, v),
         op = "PUSH0", f.gas >= opGas(op), NEW gas, gas = f.gas - opGas(op)
  PROVE  /\ Ends(g, f.pc + 1, gas, outArity(op, n), One(Zero)) \/ Fails(f, g)
         /\ VerifyWitness(v) <=> Fits(w) /\ Same(v, w, One(Zero), f.pc + 1, gas)
         /\ executeOneStep(v) <=> Same(v, w, One(Zero), f.pc + 1, gas)
<1>1. n \in Nat /\ opcodeSupported(op, n) /\ w.op = op /\ f.pc \in Nat /\ w.memData = extractMem(op, f, g).data
  BY WitnessFields
<1>2. g = StepOne(f, prog) /\ prog \in Seq(Instructions) /\ f.pc < Len(prog) /\ prog[f.pc + 1].op = op /\ prog[f.pc + 1].n = n
  BY DEF Witnessed
<1>3. outArity(op, n) = 1 /\ Takes(op, n) = 0
  BY <1>1, Arities, SupportedTakes
<1>4. n = 0
  <2>1. prog[f.pc + 1] \in Instructions
    BY <1>1, <1>2, CodeAt
  <2> QED
    BY <1>2, <2>1 DEF Instructions
<1>5. w.memData = NoData
  BY <1>1, MemoryOf
<1>6. Ends(g, f.pc + 1, gas, 1, One(Zero)) \/ Fails(f, g)
  BY <1>2, StepReady, StepPush0
<1>7. VerifyWitness(v) <=> Fits(w) /\ Same(v, w, One(Zero), f.pc + 1, gas)
  <2>1. CASE ~Fits(w)
    BY <2>1, JudgedRefused
  <2>2. CASE Fits(w)
    <3>1. PICK rf, rc, h : rf = reconstructFrame(w) /\ rc = reconstructCode(w) /\ h = StepOne(rf, rc)
      OBVIOUS
    <3>2. ~(IsJump(w) /\ ~Narrow(In(w, 0)))
      BY <1>1 DEF IsJump
    <3>3. Ready(rf, rc, op, n) /\ rc # <<>> /\ rf.pc = f.pc /\ rf.gas = f.gas /\ Len(rf.stack) = 0
      BY <1>3, <2>2, <3>1, <3>2, ReplayPlainly
    <3>4. Len(rf.stack) < stackMax
      BY <3>3, FrameAssumption
    <3>5. Ends(h, f.pc + 1, gas, 1, One(Zero))
      BY <3>1, <3>3, <3>4, StepPush0
    <3>6. PICK k, pc, out : k = 1 /\ k = outArity(op, n) /\ pc = f.pc + 1 /\ out = One(Zero) /\ Ends(h, pc, gas, k, out)
      BY <1>3, <3>5
    <3>7. VerifyWitness(v) <=> /\ (op = "MLOAD" => w.memOffset <= memMax - WordBytes)
           /\ (op = "SSTORE" => In(w, 0) = w.storageKey /\ In(w, 1) = w.storageVal)
           /\ (op \in {"SLOAD", "SSTORE"} => StorageShown(w))
           /\ Same(v, w, out, pc, gas)
      BY <3>1, <3>3, <3>6, JudgedRunning
    <3> QED
      BY <2>2, <3>6, <3>7
  <2> QED
    BY <2>1, <2>2
<1>8. executeOneStep(v) <=> Same(v, w, One(Zero), f.pc + 1, gas)
  <2>1. Asked(v, op) /\ v.op = op /\ v.n = n /\ v.gas = f.gas /\ v.pc = f.pc /\ v.memData = w.memData
    BY SolAsked
  <2>2. PICK words, pc, out : words = <<Zero>> /\ pc = f.pc + 1 /\ out = One(Zero)
    OBVIOUS
  <2>3. solExec(v) = Answer(words, pc, gas, w.memData)
    <3>1. v.pc + 1 + v.n = pc
      BY <1>1, <1>4, <2>1, <2>2
    <3>2. solExec(v) = Answer(<<FromBytesBE(v.memData)>>, v.pc + 1 + v.n, v.gas - opGas(v.op), v.memData)
      BY <2>1, SolPush0
    <3> QED
      BY <1>5, <2>1, <2>2, <3>1, <3>2, BlankWord
  <2>4. out = Answered(words)
    BY <2>2, OneWord
  <2> QED
    BY <2>2, <2>3, <2>4, SolAnswered
<1> QED
  BY <1>3, <1>6, <1>7, <1>8

\* SLOAD.
LEMMA LoadVerdict ==
  ASSUME NEW w, NEW f, NEW g, NEW prog, NEW op, NEW n, NEW root, Witnessed(w, f, g, prog, op, n, root), NEW v, Claim(w, g, v),
         op = "SLOAD", f.gas >= opGas(op), NEW gas, gas = f.gas - opGas(op)
  PROVE  /\ Ends(g, f.pc + 1, gas, outArity(op, n), One(w.storageVal))
         /\ w.storageKey = Top(f, 0) /\ w.storageVal = Slot(f.db, Top(f, 0)) /\ g.db = f.db
         /\ VerifyWitness(v) <=> Fits(w) /\ StorageShown(w) /\ Same(v, w, One(w.storageVal), f.pc + 1, gas)
         /\ executeOneStep(v) <=> StorageShown(w) /\ Same(v, w, One(w.storageVal), f.pc + 1, gas)
<1>1. /\ n \in Nat /\ opcodeSupported(op, n) /\ w.op = op
      /\ \A i \in 0..3 : i < Takes(op, n) => /\ In(w, i) = Top(f, i) /\ Top(f, i) \in Word
                                              /\ w.stackIn[Takes(op, n) - i] = Top(f, i)
  BY WitnessFields
<1>2. g = StepOne(f, prog) /\ Sound(f) /\ Holds(w, f, g, op, n, root)
  BY DEF Witnessed
<1>3. outArity(op, n) = 1 /\ Takes(op, n) = 1
  BY <1>1, Arities, SupportedTakes
<1>4. PICK key, val : key = Top(f, 0) /\ val = Slot(f.db, key) /\ key \in Word /\ val \in Word
        /\ Ends(g, f.pc + 1, gas, 1, One(val)) /\ Top(g, 0) = val /\ Alike(f, g)
  BY <1>2, StepReady, StepLoad
<1>5. w.storageKey = key /\ w.storageVal = val /\ w.stackIn[1] = key
  <2>1. extractStor(op, f, g) = [key |-> Top(f, 0), val |-> Top(g, 0)]
    BY DEF extractStor
  <2>2. w.storageKey = extractStor(op, f, g).key /\ w.storageVal = extractStor(op, f, g).val
    BY <1>2 DEF Holds, Shared
  <2>3. w.stackIn[1] = Top(f, 0)
    BY <1>1, <1>3
  <2> QED
    BY <1>4, <2>1, <2>2, <2>3
<1>6. VerifyWitness(v) <=> Fits(w) /\ StorageShown(w) /\ Same(v, w, One(val), f.pc + 1, gas)
  <2>1. CASE ~Fits(w)
    BY <2>1, JudgedRefused
  <2>2. CASE Fits(w)
    <3>1. PICK e, rc : e = Plainly(w) /\ rc = reconstructCode(w)
      OBVIOUS
    <3>2. ~(IsJump(w) /\ ~Narrow(In(w, 0)))
      BY <1>1 DEF IsJump
    <3>3. /\ Sound(e) /\ e.status = "running" /\ e.pc = f.pc /\ e.gas = f.gas /\ Len(e.stack) = Takes(op, n)
          /\ \A i \in 0..3 : i < Takes(op, n) => Top(e, i) = Top(f, i)
      BY <1>1, <1>2, <3>1, PlainFrame
    <3>4. PICK old \in [on : BOOLEAN, slots : Slots] : old = e.db
      BY <3>3 DEF Sound, Frames
    <3>5. PICK db \in [on : BOOLEAN, slots : Slots] : db = Stored(old, key, val) /\ Slot(db, key) = val
      <4>1. Stored(old, key, val) \in [on : BOOLEAN, slots : Slots]
        BY <1>4, StoredSlots
      <4>2. Slot(Stored(old, key, val), key) = val
        BY <1>4, StoredHere
      <4> QED
        BY <4>1, <4>2
    <3>6. PICK rf : rf = reconstructFrame(w) /\ rf = [e EXCEPT !.db = db]
      BY <1>1, <1>5, <3>1, <3>4, <3>5, SlotFrame
    <3>7. /\ Sound(rf) /\ rf.status = "running" /\ rf.pc = f.pc /\ rf.gas = f.gas /\ rf.stack = e.stack /\ rf.db = db
      <4>1. /\ rf \in Frames /\ rf.status = e.status /\ rf.pc = e.pc /\ rf.gas = e.gas /\ rf.stack = e.stack /\ rf.db = db
            /\ rf.memSize = e.memSize /\ rf.memory = e.memory
        BY <3>3, <3>5, <3>6 DEF Sound, Frames
      <4> QED
        BY <3>3, <4>1 DEF Sound
    <3>8. Top(rf, 0) = key
      BY <1>3, <1>4, <3>3, <3>7 DEF Top
    <3>9. Ready(rf, rc, op, n) /\ rc # <<>>
      BY <2>2, <3>1, <3>2, <3>3, <3>7, ReplayReady
    <3>10. PICK h : h = StepOne(rf, rc) /\ h = StepOne(reconstructFrame(w), rc)
      BY <3>6
    <3>11. Slot(rf.db, Top(rf, 0)) = val
      BY <3>5, <3>7, <3>8
    <3>12. Ends(StepOne(rf, rc), rf.pc + 1, rf.gas - opGas(op), 1, One(Slot(rf.db, Top(rf, 0))))
      BY <3>9, StepLoad
    <3>13. Ends(h, f.pc + 1, gas, 1, One(val))
      BY <3>7, <3>10, <3>11, <3>12
    <3>14. PICK k, pc, out : k = 1 /\ k = outArity(op, n) /\ pc = f.pc + 1 /\ out = One(val) /\ Ends(h, pc, gas, k, out)
      BY <1>3, <3>13
    <3>15. VerifyWitness(v) <=> /\ (op = "MLOAD" => w.memOffset <= memMax - WordBytes)
           /\ (op = "SSTORE" => In(w, 0) = w.storageKey /\ In(w, 1) = w.storageVal)
           /\ (op \in {"SLOAD", "SSTORE"} => StorageShown(w))
           /\ Same(v, w, out, pc, gas)
      BY <3>1, <3>9, <3>10, <3>14, JudgedRunning
    <3> QED
      BY <2>2, <3>14, <3>15
  <2> QED
    BY <2>1, <2>2
<1>7. executeOneStep(v) <=> StorageShown(w) /\ Same(v, w, One(val), f.pc + 1, gas)
  <2>1. /\ Asked(v, op) /\ v.op = op /\ v.gas = f.gas /\ v.pc = f.pc /\ v.stackIn = w.stackIn /\ v.memData = w.memData
        /\ v.storageKey = key /\ v.storageVal = val
    BY <1>5, SolAsked
  <2>2. PICK words, pc, out : words = <<val>> /\ pc = f.pc + 1 /\ out = One(val)
    OBVIOUS
  <2>3. StorageShown(v) <=> StorageShown(w)
    BY ClaimSame
  <2>4. solExec(v) = IF StorageShown(w) THEN Answer(words, pc, gas, w.memData) ELSE Refused
    <3>1. solExec(v) = IF StorageShown(v) /\ v.stackIn[1] = v.storageKey
                       THEN Answer(<<v.storageVal>>, v.pc + 1, v.gas - opGas(v.op), v.memData) ELSE Refused
      BY <2>1, SolLoad
    <3>2. v.stackIn[1] = v.storageKey
      BY <1>5, <2>1
    <3> QED
      BY <2>1, <2>2, <2>3, <3>1, <3>2
  <2>5. out = Answered(words)
    BY <2>2, OneWord
  <2>6. CASE StorageShown(w)
    BY <2>2, <2>4, <2>5, <2>6, SolAnswered
  <2>7. CASE ~StorageShown(w)
    BY <2>4, <2>7, SolRefused
  <2> QED
    BY <2>6, <2>7
<1> QED
  BY <1>3, <1>4, <1>5, <1>6, <1>7 DEF Alike

-----------------------------------------------------------------------------
\* SSTORE.
LEMMA StoreVerdict ==
  ASSUME NEW w, NEW f, NEW g, NEW prog, NEW op, NEW n, NEW root, Witnessed(w, f, g, prog, op, n, root), NEW v, Claim(w, g, v),
         op = "SSTORE", f.gas >= opGas(op), NEW gas, gas = f.gas - opGas(op)
  PROVE  /\ Ends(g, f.pc + 1, gas, outArity(op, n), Blank)
         /\ VerifyWitness(v) <=> Fits(w) /\ StorageShown(w) /\ Same(v, w, Blank, f.pc + 1, gas)
         /\ executeOneStep(v) <=> StorageShown(w) /\ Same(v, w, Blank, f.pc + 1, gas)
<1>1. /\ n \in Nat /\ opcodeSupported(op, n) /\ w.op = op
      /\ \A i \in 0..3 : i < Takes(op, n) => /\ In(w, i) = Top(f, i) /\ Top(f, i) \in Word
                                              /\ w.stackIn[Takes(op, n) - i] = Top(f, i)
  BY WitnessFields
<1>2. g = StepOne(f, prog) /\ Sound(f) /\ Holds(w, f, g, op, n, root)
  BY DEF Witnessed
<1>3. outArity(op, n) = 0 /\ Takes(op, n) = 2
  BY <1>1, Arities, SupportedTakes
<1>4. Ends(g, f.pc + 1, gas, 0, Blank)
  BY <1>2, StepReady, StepStore
<1>5. w.storageKey = Top(f, 0) /\ w.storageVal = Top(f, 1)
  <2>1. extractStor(op, f, g) = [key |-> Top(f, 0), val |-> Top(f, 1)]
    BY DEF extractStor
  <2>2. w.storageKey = extractStor(op, f, g).key /\ w.storageVal = extractStor(op, f, g).val
    BY <1>2 DEF Holds, Shared
  <2> QED
    BY <2>1, <2>2
<1>6. w.stackIn[2] = Top(f, 0) /\ w.stackIn[1] = Top(f, 1) /\ In(w, 0) = Top(f, 0) /\ In(w, 1) = Top(f, 1)
  BY <1>1, <1>3
<1>7. VerifyWitness(v) <=> Fits(w) /\ StorageShown(w) /\ Same(v, w, Blank, f.pc + 1, gas)
  <2>1. CASE ~Fits(w)
    BY <2>1, JudgedRefused
  <2>2. CASE Fits(w)
    <3>1. PICK rf, rc, h : rf = reconstructFrame(w) /\ rc = reconstructCode(w) /\ h = StepOne(rf, rc)
      OBVIOUS
    <3>2. ~(IsJump(w) /\ ~Narrow(In(w, 0)))
      BY <1>1 DEF IsJump
    <3>3. Ready(rf, rc, op, n) /\ rc # <<>> /\ rf.pc = f.pc /\ rf.gas = f.gas
      BY <2>2, <3>1, <3>2, ReplayPlainly
    <3>4. Ends(h, f.pc + 1, gas, 0, Blank)
      BY <3>1, <3>3, StepStore
    <3>5. PICK k, pc, out : k = 0 /\ k = outArity(op, n) /\ pc = f.pc + 1 /\ out = Blank /\ Ends(h, pc, gas, k, out)
      BY <1>3, <3>4
    <3>6. VerifyWitness(v) <=> /\ (op = "MLOAD" => w.memOffset <= memMax - WordBytes)
           /\ (op = "SSTORE" => In(w, 0) = w.storageKey /\ In(w, 1) = w.storageVal)
           /\ (op \in {"SLOAD", "SSTORE"} => StorageShown(w))
           /\ Same(v, w, out, pc, gas)
      BY <3>1, <3>3, <3>5, JudgedRunning
    <3> QED
      BY <1>5, <1>6, <2>2, <3>5, <3>6
  <2> QED
    BY <2>1, <2>2
<1>8. executeOneStep(v) <=> StorageShown(w) /\ Same(v, w, Blank, f.pc + 1, gas)
  <2>1. /\ Asked(v, op) /\ v.op = op /\ v.gas = f.gas /\ v.pc = f.pc /\ v.stackIn = w.stackIn /\ v.memData = w.memData
        /\ v.storageKey = w.storageKey /\ v.storageVal = w.storageVal
    BY SolAsked
  <2>2. PICK words, pc, out : words = <<>> /\ pc = f.pc + 1 /\ out = Blank
    OBVIOUS
  <2>3. StorageShown(v) <=> StorageShown(w)
    BY ClaimSame
  <2>4. solExec(v) = IF StorageShown(w) THEN Answer(words, pc, gas, w.memData) ELSE Refused
    <3>1. solExec(v) = IF StorageShown(v) /\ v.stackIn[2] = v.storageKey /\ v.stackIn[1] = v.storageVal
                       THEN Answer(<<>>, v.pc + 1, v.gas - opGas(v.op), v.memData) ELSE Refused
      BY <2>1, SolStore
    <3>2. v.stackIn[2] = v.storageKey /\ v.stackIn[1] = v.storageVal
      BY <1>5, <1>6, <2>1
    <3> QED
      BY <2>1, <2>2, <2>3, <3>1, <3>2
  <2>5. out = Answered(words)
    BY <2>2, OneWord
  <2>6. CASE StorageShown(w)
    BY <2>2, <2>4, <2>5, <2>6, SolAnswered
  <2>7. CASE ~StorageShown(w)
    BY <2>4, <2>7, SolRefused
  <2> QED
    BY <2>6, <2>7
<1> QED
  BY <1>3, <1>4, <1>7, <1>8

\* The first items of a window.
LEMMA WindowPart ==
  ASSUME NEW in \in Windows, NEW k \in 0..4, NEW s, s = SubSeq(in, 1, k)
  PROVE  s \in Seq(Word) /\ Len(s) = k /\ \A i \in 1..k : s[i] = in[i]
<1>1. PICK one \in Int : one = 1
  OBVIOUS
<1>2. \A i \in one..k : in[i] \in Word
  BY <1>1 DEF Windows
<1>3. s = SubSeq(in, one, k)
  BY <1>1
<1>4. k \in Int
  OBVIOUS
<1>5. s \in Seq(Word) /\ Len(s) = (IF one <= k THEN k - one + 1 ELSE 0) /\ \A i \in 1..(k - one + 1) : s[i] = in[one + i - 1]
  BY <1>2, <1>3, <1>4, SubSeqProperties
<1>6. Len(s) = k /\ \A i \in 1..k : s[i] = in[i]
  BY <1>1, <1>5
<1> QED
  BY <1>1, <1>3, <1>5, <1>6

\* What the contract makes of a window for DUPn and SWAPn.
LEMMA SolDupWindow ==
  ASSUME NEW f, NEW n \in 1..3, NEW in \in Windows, in = Upper(f, n), NEW words, words = Append(SubSeq(in, 1, n), in[1])
  PROVE  DupOut(f, n) = Answered(words)
<1>1. PICK s \in Seq(Word) : s = SubSeq(in, 1, n) /\ Len(s) = n /\ \A i \in 1..n : s[i] = in[i]
  <2>1. n \in 0..4
    OBVIOUS
  <2>2. PICK s : s = SubSeq(in, 1, n)
    OBVIOUS
  <2>3. s \in Seq(Word) /\ Len(s) = n /\ \A i \in 1..n : s[i] = in[i]
    BY <2>1, <2>2, WindowPart
  <2> QED
    BY <2>2, <2>3
<1>2. in[1] \in Word /\ in[1] = Top(f, n - 1)
  BY DEF Windows, Upper
<1>3. Len(words) = n + 1 /\ (\A i \in 1..n : words[i] = in[i]) /\ words[n + 1] = in[1]
  BY <1>1, <1>2, AppendProperties
<1>4. ASSUME NEW i \in 1..4
      PROVE  (IF i <= n THEN Top(f, n - i) ELSE IF i = n + 1 THEN Top(f, n - 1) ELSE Zero) = (IF i <= Len(words) THEN words[i] ELSE Zero)
  <2>1. CASE i <= n
    <3>1. i \in 1..n /\ i <= Len(words)
      BY <1>3, <2>1
    <3>2. in[i] = Top(f, n - i)
      BY <2>1 DEF Upper
    <3> QED
      BY <1>3, <2>1, <3>1, <3>2
  <2>2. CASE i = n + 1
    BY <1>2, <1>3, <2>2
  <2>3. CASE i > n + 1
    BY <1>3, <2>3
  <2> QED
    BY <2>1, <2>2, <2>3
<1> QED
  BY <1>4 DEF DupOut, Answered

\* The same for SWAPn.
LEMMA SolSwapWindow ==
  ASSUME NEW f, NEW n \in 1..3, NEW in \in Windows, in = Upper(f, n + 1),
         NEW words, words = [SubSeq(in, 1, n + 1) EXCEPT ![n + 1] = in[1], ![1] = in[n + 1]]
  PROVE  SwapOut(f, n) = Answered(words)
<1>1. PICK k \in 1..4 : k = n + 1 /\ k # 1
  OBVIOUS
<1>2. PICK s \in Seq(Word) : s = SubSeq(in, 1, k) /\ Len(s) = k /\ \A i \in 1..k : s[i] = in[i]
  <2>1. k \in 0..4
    OBVIOUS
  <2>2. PICK s : s = SubSeq(in, 1, k)
    OBVIOUS
  <2>3. s \in Seq(Word) /\ Len(s) = k /\ \A i \in 1..k : s[i] = in[i]
    BY <2>1, <2>2, WindowPart
  <2> QED
    BY <2>2, <2>3
<1>3. /\ \A i \in 1..k : in[i] = Top(f, k - i)
      /\ in[1] = Top(f, n) /\ in[k] = Top(f, 0)
  <2>1. \A i \in 1..k : in[i] = Top(f, k - i)
    BY <1>1 DEF Upper
  <2>2. k - 1 = n /\ k - k = 0
    BY <1>1
  <2> QED
    BY <1>1, <2>1, <2>2
<1>4. words = [s EXCEPT ![k] = in[1], ![1] = in[k]] /\ DOMAIN s = 1..k
  BY <1>1, <1>2
<1>5. Len(words) = k /\ \A i \in 1..k : words[i] = (IF i = 1 THEN in[k] ELSE IF i = k THEN in[1] ELSE in[i])
  <2>1. PICK t : t = [i \in 1..k |-> IF i = 1 THEN in[k] ELSE IF i = k THEN in[1] ELSE in[i]]
    OBVIOUS
  <2>2. words = t
    <3>1. s \in [1..k -> Word]
      <4>1. s \in [1..Len(s) -> Word]
        OBVIOUS
      <4> QED
        BY <1>2, <4>1, Zenon
    <3>2. 1 \in 1..k /\ k \in 1..k
      OBVIOUS
    <3>3. words = [i \in 1..k |-> IF i = 1 THEN in[k] ELSE IF i = k THEN in[1] ELSE s[i]]
      BY <1>1, <1>4, <3>1, <3>2
    <3> QED
      BY <1>2, <2>1, <3>3
  <2>3. \A i \in 1..k : in[i] \in Word
    BY DEF Windows
  <2>4. t \in [1..k -> Word]
    BY <1>1, <2>1, <2>3
  <2>5. Len(t) = k
    BY <2>4, Listed
  <2> QED
    BY <2>1, <2>2, <2>5
<1>6. ASSUME NEW i \in 1..4
      PROVE  (IF i > n + 1 THEN Zero ELSE IF i = 1 THEN Top(f, 0) ELSE IF i = n + 1 THEN Top(f, n) ELSE Top(f, n + 1 - i))
               = (IF i <= Len(words) THEN words[i] ELSE Zero)
  <2>1. CASE i <= k
    <3>1. i \in 1..k /\ ~(i > n + 1) /\ i <= Len(words) /\ n + 1 - i = k - i
      BY <1>1, <1>5, <2>1
    <3>2. words[i] = (IF i = 1 THEN in[k] ELSE IF i = k THEN in[1] ELSE in[i]) /\ in[i] = Top(f, n + 1 - i)
      BY <1>3, <1>5, <3>1
    <3>3. CASE i = 1
      BY <1>3, <3>1, <3>2, <3>3
    <3>4. CASE i # 1 /\ i = k
      BY <1>1, <1>3, <3>1, <3>2, <3>4
    <3>5. CASE i # 1 /\ i # k
      BY <1>1, <3>1, <3>2, <3>5
    <3> QED
      BY <3>3, <3>4, <3>5
  <2>2. CASE i > k
    BY <1>1, <1>5, <2>2
  <2> QED
    BY <1>1, <2>1, <2>2
<1> QED
  BY <1>6 DEF SwapOut, Answered

\* DUPn.
LEMMA DupVerdict ==
  ASSUME NEW w, NEW f, NEW g, NEW prog, NEW op, NEW n, NEW root, Witnessed(w, f, g, prog, op, n, root), NEW v, Claim(w, g, v),
         op = "DUP", f.gas >= opGas(op), NEW gas, gas = f.gas - opGas(op)
  PROVE  /\ Ends(g, f.pc + 1, gas, outArity(op, n), DupOut(f, n)) \/ Fails(f, g)
         /\ VerifyWitness(v) <=> Fits(w) /\ Same(v, w, DupOut(f, n), f.pc + 1, gas)
         /\ executeOneStep(v) <=> Same(v, w, DupOut(f, n), f.pc + 1, gas)
<1>1. n \in Nat /\ opcodeSupported(op, n) /\ w.op = op /\ w.stackIn = Upper(f, Takes(op, n)) /\ w.stackIn \in Windows
  BY WitnessFields
<1>2. g = StepOne(f, prog)
  BY DEF Witnessed
<1>3. outArity(op, n) = n + 1 /\ Takes(op, n) = n /\ n <= 3
  BY <1>1, Arities, SupportedTakes
<1>4. n \in 1..3 /\ (Ends(g, f.pc + 1, gas, n + 1, DupOut(f, n)) \/ Fails(f, g))
  BY <1>2, <1>3, StepReady, StepDup
<1>5. VerifyWitness(v) <=> Fits(w) /\ Same(v, w, DupOut(f, n), f.pc + 1, gas)
  <2>1. CASE ~Fits(w)
    BY <2>1, JudgedRefused
  <2>2. CASE Fits(w)
    <3>1. PICK rf, rc, h : rf = reconstructFrame(w) /\ rc = reconstructCode(w) /\ h = StepOne(rf, rc)
      OBVIOUS
    <3>2. ~(IsJump(w) /\ ~Narrow(In(w, 0)))
      BY <1>1 DEF IsJump
    <3>3. /\ Ready(rf, rc, op, n) /\ rc # <<>> /\ rf.pc = f.pc /\ rf.gas = f.gas /\ Len(rf.stack) = n
          /\ \A i \in 0..3 : i < n => Top(rf, i) = Top(f, i)
      BY <1>3, <2>2, <3>1, <3>2, ReplayPlainly
    <3>4. Len(rf.stack) < stackMax
      BY <1>4, <3>3, FrameAssumption
    <3>5. DupOut(rf, n) = DupOut(f, n)
      <4>1. \A i \in 1..4 : i <= n => n - i \in 0..3 /\ n - i < n
        BY <1>4
      <4>2. n - 1 \in 0..3 /\ n - 1 < n
        BY <1>4
      <4> QED
        BY <3>3, <4>1, <4>2 DEF DupOut
    <3>6. Ends(h, f.pc + 1, gas, n + 1, DupOut(f, n))
      BY <1>3, <3>1, <3>3, <3>4, <3>5, StepDup
    <3>7. PICK k, pc, out : k = n + 1 /\ k = outArity(op, n) /\ pc = f.pc + 1 /\ out = DupOut(f, n) /\ Ends(h, pc, gas, k, out)
      BY <1>3, <3>6
    <3>8. VerifyWitness(v) <=> /\ (op = "MLOAD" => w.memOffset <= memMax - WordBytes)
           /\ (op = "SSTORE" => In(w, 0) = w.storageKey /\ In(w, 1) = w.storageVal)
           /\ (op \in {"SLOAD", "SSTORE"} => StorageShown(w))
           /\ Same(v, w, out, pc, gas)
      BY <3>1, <3>3, <3>7, JudgedRunning
    <3> QED
      BY <2>2, <3>7, <3>8
  <2> QED
    BY <2>1, <2>2
<1>6. executeOneStep(v) <=> Same(v, w, DupOut(f, n), f.pc + 1, gas)
  <2>1. Asked(v, op) /\ v.op = op /\ v.n = n /\ v.gas = f.gas /\ v.pc = f.pc /\ v.stackIn = w.stackIn /\ v.memData = w.memData
    BY SolAsked
  <2>2. PICK in \in Windows : in = w.stackIn /\ in = Upper(f, n)
    BY <1>1, <1>3
  <2>3. PICK words, pc, out : words = Append(SubSeq(in, 1, n), in[1]) /\ pc = f.pc + 1 /\ out = DupOut(f, n)
    OBVIOUS
  <2>4. solExec(v) = Answer(words, pc, gas, w.memData)
    BY <2>1, <2>2, <2>3, SolDup
  <2>5. out = Answered(words)
    <3>1. n \in 1..3 /\ in = Upper(f, n) /\ words = Append(SubSeq(in, 1, n), in[1])
      BY <1>4, <2>2, <2>3
    <3>2. DupOut(f, n) = Answered(words)
      BY <3>1, SolDupWindow
    <3> QED
      BY <2>3, <3>2, Zenon
  <2>6. executeOneStep(v) <=> Same(v, w, out, pc, gas)
    BY <2>4, <2>5, SolAnswered
  <2> QED
    BY <2>3, <2>6
<1> QED
  BY <1>3, <1>4, <1>5, <1>6

\* SWAPn.
LEMMA SwapVerdict ==
  ASSUME NEW w, NEW f, NEW g, NEW prog, NEW op, NEW n, NEW root, Witnessed(w, f, g, prog, op, n, root), NEW v, Claim(w, g, v),
         op = "SWAP", f.gas >= opGas(op), NEW gas, gas = f.gas - opGas(op)
  PROVE  /\ Ends(g, f.pc + 1, gas, outArity(op, n), SwapOut(f, n))
         /\ VerifyWitness(v) <=> Fits(w) /\ Same(v, w, SwapOut(f, n), f.pc + 1, gas)
         /\ executeOneStep(v) <=> Same(v, w, SwapOut(f, n), f.pc + 1, gas)
<1>1. n \in Nat /\ opcodeSupported(op, n) /\ w.op = op /\ w.stackIn = Upper(f, Takes(op, n)) /\ w.stackIn \in Windows
  BY WitnessFields
<1>2. g = StepOne(f, prog)
  BY DEF Witnessed
<1>3. outArity(op, n) = n + 1 /\ Takes(op, n) = n + 1 /\ n <= 3
  BY <1>1, Arities, SupportedTakes
<1>4. n \in 1..3 /\ Ends(g, f.pc + 1, gas, n + 1, SwapOut(f, n))
  BY <1>2, <1>3, StepReady, StepSwap
<1>5. VerifyWitness(v) <=> Fits(w) /\ Same(v, w, SwapOut(f, n), f.pc + 1, gas)
  <2>1. CASE ~Fits(w)
    BY <2>1, JudgedRefused
  <2>2. CASE Fits(w)
    <3>1. PICK rf, rc, h : rf = reconstructFrame(w) /\ rc = reconstructCode(w) /\ h = StepOne(rf, rc)
      OBVIOUS
    <3>2. ~(IsJump(w) /\ ~Narrow(In(w, 0)))
      BY <1>1 DEF IsJump
    <3>3. /\ Ready(rf, rc, op, n) /\ rc # <<>> /\ rf.pc = f.pc /\ rf.gas = f.gas
          /\ \A i \in 0..3 : i < n + 1 => Top(rf, i) = Top(f, i)
      BY <1>3, <2>2, <3>1, <3>2, ReplayPlainly
    <3>4. SwapOut(rf, n) = SwapOut(f, n)
      <4>1. \A i \in 1..4 : ~(i > n + 1) => n + 1 - i \in 0..3 /\ n + 1 - i < n + 1
        BY <1>4
      <4>2. 0 < n + 1 /\ n < n + 1 /\ 0 \in 0..3 /\ n \in 0..3
        BY <1>4
      <4> QED
        BY <3>3, <4>1, <4>2 DEF SwapOut
    <3>5. Ends(h, f.pc + 1, gas, n + 1, SwapOut(f, n))
      BY <1>3, <3>1, <3>3, <3>4, StepSwap
    <3>6. PICK k, pc, out : k = n + 1 /\ k = outArity(op, n) /\ pc = f.pc + 1 /\ out = SwapOut(f, n) /\ Ends(h, pc, gas, k, out)
      BY <1>3, <3>5
    <3>7. VerifyWitness(v) <=> /\ (op = "MLOAD" => w.memOffset <= memMax - WordBytes)
           /\ (op = "SSTORE" => In(w, 0) = w.storageKey /\ In(w, 1) = w.storageVal)
           /\ (op \in {"SLOAD", "SSTORE"} => StorageShown(w))
           /\ Same(v, w, out, pc, gas)
      BY <3>1, <3>3, <3>6, JudgedRunning
    <3> QED
      BY <2>2, <3>6, <3>7
  <2> QED
    BY <2>1, <2>2
<1>6. executeOneStep(v) <=> Same(v, w, SwapOut(f, n), f.pc + 1, gas)
  <2>1. Asked(v, op) /\ v.op = op /\ v.n = n /\ v.gas = f.gas /\ v.pc = f.pc /\ v.stackIn = w.stackIn /\ v.memData = w.memData
    BY SolAsked
  <2>2. PICK in \in Windows : in = w.stackIn /\ in = Upper(f, n + 1)
    BY <1>1, <1>3
  <2>3. PICK words, pc, out : words = [SubSeq(in, 1, n + 1) EXCEPT ![n + 1] = in[1], ![1] = in[n + 1]] /\ pc = f.pc + 1 /\ out = SwapOut(f, n)
    OBVIOUS
  <2>4. solExec(v) = Answer(words, pc, gas, w.memData)
    <3>1. solExec(v) = Answer([SubSeq(v.stackIn, 1, v.n + 1) EXCEPT ![v.n + 1] = v.stackIn[1], ![1] = v.stackIn[v.n + 1]], v.pc + 1, v.gas - opGas(v.op), v.memData)
      BY <2>1, SolSwap
    <3>2. [SubSeq(v.stackIn, 1, v.n + 1) EXCEPT ![v.n + 1] = v.stackIn[1], ![1] = v.stackIn[v.n + 1]] = words
      BY <2>1, <2>2, <2>3
    <3> QED
      BY <2>1, <2>3, <3>1, <3>2
  <2>5. out = Answered(words)
    <3>1. n \in 1..3 /\ in = Upper(f, n + 1) /\ words = [SubSeq(in, 1, n + 1) EXCEPT ![n + 1] = in[1], ![1] = in[n + 1]]
      BY <1>4, <2>2, <2>3
    <3>2. SwapOut(f, n) = Answered(words)
      BY <3>1, SolSwapWindow
    <3> QED
      BY <2>3, <3>2, Zenon
  <2>6. executeOneStep(v) <=> Same(v, w, out, pc, gas)
    BY <2>4, <2>5, SolAnswered
  <2> QED
    BY <2>3, <2>6
<1> QED
  BY <1>3, <1>4, <1>5, <1>6

\* The bytes that a PUSH has of the word a witness shows.
PushPart(w, n) == [p \in 1..WordBytes |-> IF p > WordBytes - n THEN w.memData[p] ELSE 0]

\* They are all of the word exactly if it is not wide.
LEMMA LowBytes ==
  ASSUME NEW w, w.memData \in Bytes, w.op = "PUSH", NEW n \in 1..WordBytes, w.n = n
  PROVE  PushPart(w, n) \in Bytes /\ (WidePush(w) <=> PushPart(w, n) # w.memData)
<1>1. WordBytes \in Nat /\ 0 \in 0..(Byte - 1)
  BY ByteFacts
<1>2. PushPart(w, n) \in Bytes
  BY <1>1 DEF PushPart, Bytes
<1>3. WidePush(w) <=> \E i \in 1..(WordBytes - n) : w.memData[i] # 0
  BY DEF WidePush
<1>4. ASSUME NEW i \in 1..(WordBytes - n), w.memData[i] # 0 PROVE PushPart(w, n) # w.memData
  <2>1. i \in 1..WordBytes /\ ~(i > WordBytes - n)
    BY <1>1
  <2>2. PushPart(w, n)[i] = 0
    BY <2>1 DEF PushPart
  <2> QED
    BY <1>4, <2>2
<1>5. ASSUME \A i \in 1..(WordBytes - n) : w.memData[i] = 0 PROVE PushPart(w, n) = w.memData
  <2>1. w.memData = [p \in 1..WordBytes |-> w.memData[p]]
    BY DEF Bytes
  <2>2. ASSUME NEW p \in 1..WordBytes PROVE (IF p > WordBytes - n THEN w.memData[p] ELSE 0) = w.memData[p]
    <3>1. CASE p > WordBytes - n
      BY <3>1
    <3>2. CASE ~(p > WordBytes - n)
      <4>1. p \in 1..(WordBytes - n)
        BY <1>1, <3>2
      <4> QED
        BY <1>5, <3>2, <4>1
    <3> QED
      BY <3>1, <3>2
  <2> QED
    BY <2>1, <2>2 DEF PushPart
<1> QED
  BY <1>2, <1>3, <1>4, <1>5

\* What the replay pushes.
LEMMA ReplayPushed ==
  ASSUME NEW w, NEW f, NEW g, NEW prog, NEW op, NEW n, NEW root, Witnessed(w, f, g, prog, op, n, root), op = "PUSH",
         Fits(w), f.gas >= opGas(op), NEW h, h = StepOne(reconstructFrame(w), reconstructCode(w))
  PROVE  /\ Ends(h, f.pc + 1 + n, f.gas - opGas(op), 1, One(FromBytesBE(PushPart(w, n)))) /\ reconstructCode(w) # <<>>
<1>1. /\ n \in Nat /\ opcodeSupported(op, n) /\ w.op = op /\ w.n = n /\ w.pc = f.pc /\ f.pc \in Nat /\ Takes(op, n) = 0
  BY WitnessFields, SupportedTakes
<1>2. n \in 1..WordBytes /\ WordBytes \in Nat
  BY WitnessCoded, ByteFacts
<1>3. PICK rf, rc : rf = reconstructFrame(w) /\ rc = reconstructCode(w) /\ h = StepOne(rf, rc)
  OBVIOUS
<1>4. ~(IsJump(w) /\ ~Narrow(In(w, 0)))
  BY <1>1 DEF IsJump
<1>5. Ready(rf, rc, op, n) /\ rc # <<>> /\ rf.pc = f.pc /\ rf.gas = f.gas /\ Len(rf.stack) = 0
  BY <1>1, <1>3, <1>4, ReplayPlainly
<1>6. Len(rf.stack) < stackMax
  BY <1>5, FrameAssumption
<1>7. \A i \in 1..n : rc[f.pc + 1 + i].byte = w.memData[WordBytes - n + i] /\ f.pc + 1 + i <= Len(rc)
  BY <1>1, <1>3, <1>4, WitnessCoded, Codes
<1>8. PICK bytes : bytes = [p \in 1..WordBytes |->
                    IF p > WordBytes - n
                    THEN IF rf.pc + 1 + (p - (WordBytes - n)) <= Len(rc) THEN rc[rf.pc + 1 + (p - (WordBytes - n))].byte ELSE 0
                    ELSE 0]
  OBVIOUS
<1>9. bytes = PushPart(w, n)
  <2>1. ASSUME NEW p \in 1..WordBytes, p > WordBytes - n
        PROVE  (IF rf.pc + 1 + (p - (WordBytes - n)) <= Len(rc) THEN rc[rf.pc + 1 + (p - (WordBytes - n))].byte ELSE 0) = w.memData[p]
    <3>1. PICK i \in 1..n : i = p - (WordBytes - n) /\ WordBytes - n + i = p
      BY <1>2, <2>1
    <3>2. rc[f.pc + 1 + i].byte = w.memData[p] /\ f.pc + 1 + i <= Len(rc)
      BY <1>7, <3>1
    <3> QED
      BY <1>5, <3>1, <3>2
  <2> QED
    BY <1>8, <2>1 DEF PushPart
<1>10. Ends(h, rf.pc + 1 + n, rf.gas - opGas(op), 1, One(FromBytesBE(bytes)))
  BY <1>3, <1>5, <1>6, <1>8, StepPush
<1> QED
  BY <1>3, <1>5, <1>9, <1>10

\* What the step has pushed, or found on top.
LEMMA StepPushed ==
  ASSUME NEW w, NEW f, NEW g, NEW prog, NEW op, NEW n, NEW root, Witnessed(w, f, g, prog, op, n, root), op = "PUSH",
         f.gas >= opGas(op)
  PROVE  /\ w.stackOut = One(FromBytesBE(w.memData))
         /\ \/ Ends(g, f.pc + 1 + n, f.gas - opGas(op), 1, One(FromBytesBE(w.memData))) /\ ~WidePush(w)
            \/ Fails(f, g) /\ g.status = "overflow"
<1>1. /\ n \in Nat /\ opcodeSupported(op, n) /\ w.op = op /\ w.n = n /\ f.pc \in Nat /\ w.memData = extractMem(op, f, g).data
      /\ w.stackOut = copyStackWindow(g, outArity(op, n))
  BY WitnessFields
<1>2. n \in 1..WordBytes /\ WordBytes \in Nat
  BY WitnessCoded, ByteFacts
<1>3. g = StepOne(f, prog) /\ Sound(f) /\ Sound(g)
  BY DEF Witnessed
<1>4. outArity(op, n) = 1
  BY Arities
<1>5. PICK bytes : bytes = [p \in 1..WordBytes |->
                    IF p > WordBytes - n
                    THEN IF f.pc + 1 + (p - (WordBytes - n)) <= Len(prog) THEN prog[f.pc + 1 + (p - (WordBytes - n))].byte ELSE 0
                    ELSE 0]
  OBVIOUS
<1>6. /\ bytes \in Bytes
      /\ \/ /\ Ends(g, f.pc + 1 + n, f.gas - opGas(op), 1, One(FromBytesBE(bytes)))
            /\ Top(g, 0) = FromBytesBE(bytes) /\ Len(g.stack) >= 1
         \/ Fails(f, g) /\ g.status = "overflow" /\ ~(Len(f.stack) < stackMax)
  BY <1>3, <1>5, StepReady, StepPush
<1>7. Len(g.stack) >= 1 /\ Len(g.stack) \in Nat /\ g.stack # <<>>
  <2>1. Len(f.stack) \in Nat /\ Len(g.stack) \in Nat /\ stackMax \in Nat /\ stackMax > 3
    BY <1>3, Sizes, FrameAssumption
  <2>2. ~(Len(f.stack) < stackMax) /\ Fails(f, g) => Len(g.stack) >= 1
    BY <2>1 DEF Fails
  <2>3. Len(g.stack) >= 1
    BY <1>6, <2>2
  <2> QED
    BY <2>1, <2>3, EmptySeq
<1>8. PICK x \in Word : x = Top(g, 0) /\ w.memData = BytesBE(x) /\ w.stackOut = One(x)
  <2>1. w.memData = BytesBE(Top(g, 0))
    BY <1>1, <1>7, MemoryOf
  <2>2. Top(g, 0) \in Word
    BY <1>3, <1>7, Tops
  <2>3. w.stackOut = One(Top(g, 0))
    BY <1>1, <1>3, <1>4, <1>7, OneWindow
  <2> QED
    BY <2>1, <2>2, <2>3
<1>9. FromBytesBE(w.memData) = x
  BY <1>8, WordRoundTrip
<1>10. ASSUME Top(g, 0) = FromBytesBE(bytes) PROVE w.memData = bytes /\ ~WidePush(w)
  <2>1. w.memData = bytes
    BY <1>6, <1>8, <1>10, BytesRoundTrip
  <2>2. \A i \in 1..(WordBytes - n) : bytes[i] = 0
    BY <1>2, <1>5
  <2> QED
    BY <1>1, <2>1, <2>2 DEF WidePush
<1> QED
  BY <1>6, <1>8, <1>9, <1>10

\* PUSHn.
LEMMA PushVerdict ==
  ASSUME NEW w, NEW f, NEW g, NEW prog, NEW op, NEW n, NEW root, Witnessed(w, f, g, prog, op, n, root), NEW v, Claim(w, g, v),
         op = "PUSH", f.gas >= opGas(op), NEW gas, gas = f.gas - opGas(op)
  PROVE  /\ VerifyWitness(v) <=> Fits(w) /\ Same(v, w, One(FromBytesBE(PushPart(w, n))), f.pc + 1 + n, gas)
         /\ executeOneStep(v) <=> Same(v, w, One(FromBytesBE(w.memData)), f.pc + 1 + n, gas)
         /\ WidePush(w) <=> PushPart(w, n) # w.memData
         /\ WidePush(w) => w.stackOut # One(FromBytesBE(PushPart(w, n)))
         /\ outArity(op, n) = 1 /\ n \in Nat /\ n >= 1
<1>1. /\ w.op = op /\ w.n = n /\ n \in 1..WordBytes /\ w.memData \in Bytes /\ outArity(op, n) = 1
  BY WitnessFields, WitnessCoded, Arities
<1>2. PushPart(w, n) \in Bytes /\ (WidePush(w) <=> PushPart(w, n) # w.memData)
  BY <1>1, LowBytes
<1>3. ASSUME WidePush(w) PROVE w.stackOut # One(FromBytesBE(PushPart(w, n)))
  <2>1. SUFFICES ASSUME w.stackOut = One(FromBytesBE(PushPart(w, n))) PROVE FALSE
    OBVIOUS
  <2>2. One(FromBytesBE(w.memData)) = One(FromBytesBE(PushPart(w, n)))
    BY <2>1, StepPushed
  <2>3. One(FromBytesBE(w.memData))[1] = FromBytesBE(w.memData) /\ One(FromBytesBE(PushPart(w, n)))[1] = FromBytesBE(PushPart(w, n))
    BY DEF One
  <2>4. FromBytesBE(w.memData) = FromBytesBE(PushPart(w, n))
    BY <2>2, <2>3
  <2>5. w.memData = PushPart(w, n)
    BY <1>1, <1>2, <2>4, BytesRoundTrip
  <2> QED
    BY <1>2, <1>3, <2>5
<1>4. VerifyWitness(v) <=> Fits(w) /\ Same(v, w, One(FromBytesBE(PushPart(w, n))), f.pc + 1 + n, gas)
  <2>1. CASE ~Fits(w)
    BY <2>1, JudgedRefused
  <2>2. CASE Fits(w)
    <3>1. PICK rc, h : rc = reconstructCode(w) /\ h = StepOne(reconstructFrame(w), rc)
      OBVIOUS
    <3>2. rc # <<>> /\ Ends(h, f.pc + 1 + n, gas, 1, One(FromBytesBE(PushPart(w, n))))
      BY <2>2, <3>1, ReplayPushed
    <3>3. PICK k, pc, out : k = 1 /\ k = outArity(op, n) /\ pc = f.pc + 1 + n /\ out = One(FromBytesBE(PushPart(w, n))) /\ Ends(h, pc, gas, k, out)
      BY <1>1, <3>2
    <3>4. VerifyWitness(v) <=> /\ (op = "MLOAD" => w.memOffset <= memMax - WordBytes)
           /\ (op = "SSTORE" => In(w, 0) = w.storageKey /\ In(w, 1) = w.storageVal)
           /\ (op \in {"SLOAD", "SSTORE"} => StorageShown(w))
           /\ Same(v, w, out, pc, gas)
      BY <3>1, <3>2, <3>3, JudgedRunning
    <3> QED
      BY <2>2, <3>3, <3>4
  <2> QED
    BY <2>1, <2>2
<1>5. executeOneStep(v) <=> Same(v, w, One(FromBytesBE(w.memData)), f.pc + 1 + n, gas)
  <2>1. Asked(v, op) /\ v.op = op /\ v.n = n /\ v.gas = f.gas /\ v.pc = f.pc /\ v.memData = w.memData
    BY SolAsked
  <2>2. PICK x, words, pc, out : x = FromBytesBE(w.memData) /\ words = <<x>> /\ pc = f.pc + 1 + n /\ out = One(x)
    OBVIOUS
  <2>3. solExec(v) = Answer(words, pc, gas, w.memData)
    BY <2>1, <2>2, SolPush
  <2>4. out = Answered(words)
    BY <2>2, OneWord
  <2>5. executeOneStep(v) <=> Same(v, w, out, pc, gas)
    BY <2>3, <2>4, SolAnswered
  <2> QED
    BY <2>2, <2>5
<1> QED
  BY <1>1, <1>2, <1>3, <1>4, <1>5

-----------------------------------------------------------------------------
\* An offset that is near is its lowest limb, and zero is near.
LEMMA Offsets ==
  ASSUME NEW off \in Word
  PROVE  /\ off[0] \in Nat
         /\ InReach(off) => FromU64(off[0]) = off
         /\ FromU64(0) = off => InReach(off)
         /\ memMax - WordBytes \in Nat
<1>1. /\ off[0] \in 0..(Limb - 1) /\ Value(off) \in Nat /\ Limb \in Nat /\ Limb >= 2
      /\ FitsU64(off) => Value(off) = off[0]
      /\ ~FitsU64(off) => Value(off) >= Limb
  <2>1. /\ off[0] \in 0..(Limb - 1)
        /\ FitsU64(off) => Value(off) = off[0]
        /\ ~FitsU64(off) => Value(off) >= Limb
    BY NarrowValue, Zenon DEF FitsU64
  <2>2. Value(off) \in 0..(Modulus - 1) /\ Modulus \in Nat \ {0}
    BY WordDigits, LimbFacts, Zenon
  <2>3. Limb \in Nat /\ Limb >= 2
    BY LimbFacts, Zenon
  <2> QED
    BY <2>1, <2>2, <2>3
<1>2. FitsU64(off) => FromU64(off[0]) = off
  BY <1>1, ValueDigits
<1>3. memMax - WordBytes \in Nat
  BY FrameAssumption, ByteFacts, SMTT(30)
<1>4. ASSUME FromU64(0) = off PROVE InReach(off)
  <2>1. PICK z \in Int : z = 0
    OBVIOUS
  <2>2. Value(off) = 0
    <3>1. Value(FromU64(z)) = (z % Modulus)
      BY FromU64Value
    <3> QED
      BY <1>4, <2>1, <3>1, LimbFacts
  <2> QED
    BY <1>1, <1>3, <2>2 DEF InReach
<1> QED
  BY <1>1, <1>2, <1>3, <1>4 DEF InReach

\* What the contract charges: nothing for a load, all words for a store.
LEMMA SolCharges ==
  ASSUME NEW gas \in Int, NEW at \in Nat
  PROVE  /\ solChargeMem(gas, at + WordBytes, at) = gas
         /\ solChargeMem(gas, 0, at) = gas - memGas(Words(at + WordBytes))
<1>1. PICK words \in Nat \ {0} : words = Words(at + WordBytes)
  BY WordEnd
<1>2. memGas(words) \in Nat /\ memGas(0) = 0
  BY GasGrows
<1>3. Words(0) = 0
  BY ByteFacts, SMTT(30) DEF Words
<1>4. words * WordBytes > 0
  BY ByteFacts
<1>5. PICK cost \in Nat : cost = memGas(words)
  BY <1>2
<1>6. solChargeMem(gas, at + WordBytes, at) = gas
  BY <1>1, <1>5 DEF solChargeMem
<1>7. solChargeMem(gas, 0, at) = gas - cost
  <2>1. ~(words * WordBytes <= 0)
    BY <1>4, ByteFacts
  <2>2. solChargeMem(gas, 0, at) = gas - (cost - 0)
    BY <1>1, <1>2, <1>3, <1>5, <2>1 DEF solChargeMem
  <2> QED
    BY <2>2
<1> QED
  BY <1>1, <1>5, <1>6, <1>7

\* The frame that a load is replayed from: the word is there and paid for.
LEMMA ReplayLoaded ==
  ASSUME NEW w, NEW f, NEW g, NEW prog, NEW op, NEW n, NEW root, Witnessed(w, f, g, prog, op, n, root), op = "MLOAD",
         NEW at \in Nat, w.memOffset = at, at <= memMax - WordBytes, w.memData \in Bytes, NEW rf, rf = reconstructFrame(w)
  PROVE  /\ Sound(rf) /\ rf.status = "running" /\ rf.pc = f.pc /\ rf.gas = f.gas /\ Len(rf.stack) = Takes(op, n)
         /\ Top(rf, 0) = Top(f, 0) /\ Read(rf, at, WordBytes) = w.memData /\ Grow(rf, at) = 0
<1>1. n \in Nat /\ w.op = op /\ Takes(op, n) = 1
  BY WitnessFields, SupportedTakes
<1>2. Sound(f) /\ Holds(w, f, g, op, n, root)
  BY DEF Witnessed
<1>3. PICK e : e = Plainly(w)
  OBVIOUS
<1>4. /\ Sound(e) /\ e.status = "running" /\ e.pc = f.pc /\ e.gas = f.gas /\ Len(e.stack) = 1 /\ e.memSize = 0
      /\ Top(e, 0) = Top(f, 0)
  <2>1. /\ Sound(e) /\ e.status = "running" /\ e.pc = f.pc /\ e.gas = f.gas /\ Len(e.stack) = Takes(op, n) /\ e.memSize = 0
        /\ \A i \in 0..3 : i < Takes(op, n) => Top(e, i) = Top(f, i)
    BY <1>1, <1>2, <1>3, PlainFrame
  <2> QED
    BY <1>1, <2>1
<1>5. PICK new : new = Words(at + WordBytes) * WordBytes
  OBVIOUS
<1>6. new \in 0..memMax /\ at + WordBytes <= new /\ new % WordBytes = 0
  <2>1. new \in Nat /\ at + WordBytes <= new /\ new <= memMax /\ Words(at + WordBytes) \in Nat
    BY <1>5, WordEnd
  <2>2. WordBytes \in Nat \ {0}
    BY ByteFacts
  <2>3. ((Words(at + WordBytes) * WordBytes) % WordBytes) = 0
    <3>1. PICK a \in Nat, b \in Nat \ {0} : a = Words(at + WordBytes) /\ b = WordBytes
      BY <2>1, <2>2
    <3>2. ((a * b) % b) = 0
      OBVIOUS
    <3> QED
      BY <3>1, <3>2
  <2> QED
    BY <1>5, <2>1, <2>3, FrameAssumption
<1>7. PICK mem \in Memories : mem = Written(e, at, w.memData).memory
        /\ Read(Written(e, at, w.memData), at, WordBytes) = w.memData
        /\ \A i \in (at + WordBytes)..(memMax - 1) : mem[i] = e.memory[i]
  BY <1>4, ReadBack
<1>8. rf = [e EXCEPT !.memory = mem, !.memSize = new]
  <2>1. rf = [Written(e, at, w.memData) EXCEPT !.memSize = new]
    BY <1>1, <1>3, <1>5, LoadFrame
  <2>2. Written(e, at, w.memData) = [e EXCEPT !.memory = mem]
    BY <1>4, <1>7 DEF Written, Sound, Frames
  <2>3. e = [e EXCEPT !.pc = e.pc] /\ e \in Frames
    BY <1>4 DEF Sound, Frames
  <2> QED
    BY <2>1, <2>2, <2>3 DEF Frames
<1>9. /\ rf \in Frames /\ rf.status = e.status /\ rf.pc = e.pc /\ rf.gas = e.gas /\ rf.stack = e.stack
      /\ rf.memory = mem /\ rf.memSize = new
  BY <1>4, <1>6, <1>7, <1>8 DEF Sound, Frames
<1>10. \A i \in new..(memMax - 1) : mem[i] = 0
  <2>1. \A i \in 0..(memMax - 1) : e.memory[i] = 0
    BY <1>4 DEF Sound
  <2>2. WordBytes \in Nat /\ memMax \in Nat
    BY ByteFacts, FrameAssumption
  <2>3. \A i \in new..(memMax - 1) : i \in (at + WordBytes)..(memMax - 1) /\ i \in 0..(memMax - 1)
    BY <1>6, <2>2
  <2> QED
    BY <1>7, <2>1, <2>3
<1>11. Sound(rf)
  BY <1>4, <1>6, <1>9, <1>10 DEF Sound
<1>12. Top(rf, 0) = Top(f, 0)
  BY <1>4, <1>9 DEF Top
<1>13. Read(rf, at, WordBytes) = w.memData
  BY <1>7, <1>9 DEF Read
<1>14. Grow(rf, at) = 0
  BY <1>5, <1>6, <1>9 DEF Grow
<1> QED
  BY <1>1, <1>4, <1>9, <1>11, <1>12, <1>13, <1>14

\* MLOAD.
LEMMA MLoadVerdict ==
  ASSUME NEW w, NEW f, NEW g, NEW prog, NEW op, NEW n, NEW root, Witnessed(w, f, g, prog, op, n, root), NEW v, Claim(w, g, v),
         op = "MLOAD", f.gas >= opGas(op), NEW gas, gas = f.gas - opGas(op), NEW off, off = Top(f, 0),
         NEW out, out = One(FromBytesBE(w.memData))
  PROVE  /\ \/ /\ Ends(g, f.pc + 1, gas - Grow(f, off[0]), outArity(op, n), out) /\ InReach(off)
               /\ g.memSize = f.memSize <=> Grow(f, off[0]) = 0
            \/ Fails(f, g)
         /\ Grow(f, off[0]) \in Nat
         /\ VerifyWitness(v) <=> Fits(w) /\ InReach(off) /\ Same(v, w, out, f.pc + 1, gas)
         /\ executeOneStep(v) <=> InReach(off) /\ Same(v, w, out, f.pc + 1, gas)
<1>1. /\ n \in Nat /\ opcodeSupported(op, n) /\ w.op = op /\ f.gas \in Nat /\ opGas(op) \in Nat /\ f.pc \in Nat
      /\ w.memOffset = extractMem(op, f, g).offset /\ w.memData = extractMem(op, f, g).data
      /\ \A i \in 0..3 : i < Takes(op, n) => w.stackIn[Takes(op, n) - i] = Top(f, i)
  BY WitnessFields
<1>2. g = StepOne(f, prog) /\ Sound(f)
  BY DEF Witnessed
<1>3. outArity(op, n) = 1 /\ Takes(op, n) = 1
  BY <1>1, Arities, SupportedTakes
<1>4. w.stackIn[1] = off
  BY <1>1, <1>3
<1>5. PICK at : at = off[0]
  OBVIOUS
<1>6. /\ off \in Word /\ at \in Nat /\ Grow(f, at) \in Nat
      /\ InReach(off) => Read(f, at, WordBytes) \in Bytes
      /\ InReach(off) /\ gas >= Grow(f, at) =>
           /\ Ends(g, f.pc + 1, gas - Grow(f, at), 1, One(FromBytesBE(Read(f, at, WordBytes))))
           /\ g.memSize = f.memSize <=> Words(at + WordBytes) * WordBytes <= f.memSize
      /\ ~(InReach(off) /\ gas >= Grow(f, at)) => Fails(f, g)
  BY <1>2, <1>5, StepReady, StepMLoad
<1>7. /\ InReach(off) => FromU64(at) = off /\ at <= memMax - WordBytes
      /\ FromU64(0) = off => InReach(off)
      /\ memMax - WordBytes \in Nat
  BY <1>5, <1>6, Offsets DEF InReach
<1>8. /\ InReach(off) => w.memOffset = at /\ w.memData = Read(f, at, WordBytes)
      /\ ~InReach(off) => w.memOffset = 0 /\ w.memData = NoData
  BY <1>1, <1>5, MemoryOf
<1>9. PICK mo \in Nat : mo = w.memOffset /\ mo <= memMax - WordBytes /\ (InReach(off) => mo = at) /\ (~InReach(off) => mo = 0)
  BY <1>6, <1>7, <1>8
<1>10. w.memData \in Bytes
  BY <1>6, <1>8, BlankData
<1>11. \/ /\ Ends(g, f.pc + 1, gas - Grow(f, at), 1, out) /\ InReach(off)
          /\ g.memSize = f.memSize <=> Grow(f, at) = 0
       \/ Fails(f, g)
  <2>1. Words(at + WordBytes) * WordBytes <= f.memSize <=> Grow(f, at) = 0
    <3>1. ~(Words(at + WordBytes) * WordBytes <= f.memSize) => Grow(f, at) > 0
      BY <1>2, <1>6, Growing
    <3>2. Words(at + WordBytes) * WordBytes <= f.memSize => Grow(f, at) = 0
      BY DEF Grow
    <3> QED
      BY <3>1, <3>2
  <2> QED
    BY <1>6, <1>8, <2>1
<1>12. VerifyWitness(v) <=> Fits(w) /\ InReach(off) /\ Same(v, w, out, f.pc + 1, gas)
  <2>1. CASE ~Fits(w)
    BY <2>1, JudgedRefused
  <2>2. CASE Fits(w)
    <3>1. PICK rf, rc, h : rf = reconstructFrame(w) /\ rc = reconstructCode(w) /\ h = StepOne(rf, rc)
      OBVIOUS
    <3>2. ~(IsJump(w) /\ ~Narrow(In(w, 0)))
      BY <1>1 DEF IsJump
    <3>3. /\ Sound(rf) /\ rf.status = "running" /\ rf.pc = f.pc /\ rf.gas = f.gas /\ Len(rf.stack) = Takes(op, n)
          /\ Top(rf, 0) = off /\ Read(rf, mo, WordBytes) = w.memData /\ Grow(rf, mo) = 0
      BY <1>9, <1>10, <3>1, ReplayLoaded
    <3>4. Ready(rf, rc, op, n) /\ rc # <<>>
      BY <2>2, <3>1, <3>2, <3>3, ReplayReady
    <3>5. /\ InReach(off) /\ gas >= Grow(rf, at) =>
               Ends(h, f.pc + 1, gas - Grow(rf, at), 1, One(FromBytesBE(Read(rf, at, WordBytes))))
          /\ ~(InReach(off) /\ gas >= Grow(rf, at)) => Fails(rf, h)
      BY <1>5, <3>1, <3>3, <3>4, StepMLoad
    <3>6. CASE InReach(off)
      <4>1. gas - 0 = gas /\ gas >= 0
        BY <1>1
      <4>2. mo = at
        BY <1>9, <3>6
      <4>3. Ends(h, f.pc + 1, gas, 1, out)
        BY <3>3, <3>5, <3>6, <4>1, <4>2
      <4>4. PICK k, pc : k = 1 /\ k = outArity(op, n) /\ pc = f.pc + 1 /\ Ends(h, pc, gas, k, out)
        BY <1>3, <4>3
      <4>5. VerifyWitness(v) <=> /\ (op = "MLOAD" => w.memOffset <= memMax - WordBytes)
             /\ (op = "SSTORE" => In(w, 0) = w.storageKey /\ In(w, 1) = w.storageVal)
             /\ (op \in {"SLOAD", "SSTORE"} => StorageShown(w))
             /\ Same(v, w, out, pc, gas)
        BY <3>1, <3>4, <4>4, JudgedRunning
      <4> QED
        BY <1>9, <2>2, <3>6, <4>4, <4>5
    <3>7. CASE ~InReach(off)
      <4>1. h.status \in Exceptional
        BY <3>5, <3>7 DEF Fails
      <4> QED
        BY <3>1, <3>7, <4>1, JudgedStopped
    <3> QED
      BY <3>6, <3>7
  <2> QED
    BY <2>1, <2>2
<1>13. executeOneStep(v) <=> InReach(off) /\ Same(v, w, out, f.pc + 1, gas)
  <2>1. /\ Asked(v, op) /\ v.op = op /\ v.gas = f.gas /\ v.pc = f.pc /\ v.stackIn = w.stackIn /\ v.memData = w.memData
        /\ v.memOffset = mo
    BY <1>9, SolAsked
  <2>2. PICK x, words, pc : x = FromBytesBE(w.memData) /\ words = <<x>> /\ pc = f.pc + 1
    OBVIOUS
  <2>3. gas \in Nat /\ gas \in Int
    BY <1>1
  <2>4. solChargeMem(gas, mo + WordBytes, mo) = gas
    BY <2>3, SolCharges
  <2>5. FromU64(mo) = off <=> InReach(off)
    BY <1>7, <1>9
  <2>6. solExec(v) = IF gas >= 0 /\ FromU64(mo) = off THEN Answer(words, pc, gas, w.memData) ELSE Refused
    <3>1. solExec(v) = IF solChargeMem(v.gas - opGas(v.op), v.memOffset + WordBytes, v.memOffset) >= 0 /\ FromU64(v.memOffset) = v.stackIn[1]
                      THEN Answer(<<FromBytesBE(v.memData)>>, v.pc + 1, solChargeMem(v.gas - opGas(v.op), v.memOffset + WordBytes, v.memOffset), v.memData)
                      ELSE Refused
      BY <2>1, SolMLoad
    <3>2. v.gas - opGas(v.op) = gas
      BY <2>1
    <3> QED
      BY <1>4, <2>1, <2>2, <2>4, <3>1, <3>2
  <2>7. out = Answered(words)
    BY <2>2, OneWord
  <2>8. CASE InReach(off)
    <3>1. solExec(v) = Answer(words, pc, gas, w.memData)
      BY <2>3, <2>5, <2>6, <2>8
    <3>2. executeOneStep(v) <=> Same(v, w, out, pc, gas)
      BY <2>7, <3>1, SolAnswered
    <3> QED
      BY <2>2, <2>8, <3>2
  <2>9. CASE ~InReach(off)
    BY <2>5, <2>6, <2>9, SolRefused
  <2> QED
    BY <2>8, <2>9
<1> QED
  BY <1>3, <1>5, <1>6, <1>11, <1>12, <1>13

\* MSTORE.
LEMMA MStoreVerdict ==
  ASSUME NEW w, NEW f, NEW g, NEW prog, NEW op, NEW n, NEW root, Witnessed(w, f, g, prog, op, n, root), NEW v, Claim(w, g, v),
         op = "MSTORE", f.gas >= opGas(op), NEW gas, gas = f.gas - opGas(op), NEW off, off = Top(f, 0),
         NEW cost, cost = memGas(Words(off[0] + WordBytes)), NEW grow, grow = Grow(f, off[0])
  PROVE  /\ InReach(off) /\ gas >= grow => Ends(g, f.pc + 1, gas - grow, outArity(op, n), Blank)
         /\ ~(InReach(off) /\ gas >= grow) => Fails(f, g)
         /\ cost \in Nat /\ grow \in Nat /\ grow <= cost /\ (grow = cost <=> f.memSize = 0)
         /\ VerifyWitness(v) <=> Fits(w) /\ InReach(off) /\ gas >= cost /\ Same(v, w, Blank, f.pc + 1, gas - cost)
         /\ executeOneStep(v) <=> InReach(off) /\ gas >= cost /\ Same(v, w, Blank, f.pc + 1, gas - cost)
<1>1. /\ n \in Nat /\ opcodeSupported(op, n) /\ w.op = op /\ f.gas \in Nat /\ opGas(op) \in Nat /\ f.pc \in Nat
      /\ w.memOffset = extractMem(op, f, g).offset /\ w.memData = extractMem(op, f, g).data
      /\ \A i \in 0..3 : i < Takes(op, n) => w.stackIn[Takes(op, n) - i] = Top(f, i)
  BY WitnessFields
<1>2. g = StepOne(f, prog) /\ Sound(f)
  BY DEF Witnessed
<1>3. outArity(op, n) = 0 /\ Takes(op, n) = 2
  BY <1>1, Arities, SupportedTakes
<1>4. w.stackIn[2] = off /\ w.stackIn[1] = Top(f, 1)
  BY <1>1, <1>3
<1>5. PICK at : at = off[0]
  OBVIOUS
<1>6. /\ off \in Word /\ at \in Nat /\ grow \in Nat
      /\ InReach(off) /\ gas >= grow =>
           /\ Ends(g, f.pc + 1, gas - grow, 0, Blank)
           /\ Read(g, at, WordBytes) = BytesBE(Top(f, 1))
      /\ ~(InReach(off) /\ gas >= grow) => Fails(f, g)
  BY <1>2, <1>5, StepReady, StepMStore
<1>7. /\ InReach(off) => FromU64(at) = off /\ at <= memMax - WordBytes
      /\ FromU64(0) = off => InReach(off)
  BY <1>5, <1>6, Offsets DEF InReach
<1>8. /\ InReach(off) => w.memOffset = at /\ w.memData = Read(g, at, WordBytes)
      /\ ~InReach(off) => w.memOffset = 0
  BY <1>1, <1>5, MemoryOf
<1>9. PICK mo \in Nat : mo = w.memOffset /\ (InReach(off) => mo = at) /\ (~InReach(off) => mo = 0)
  BY <1>6, <1>8
<1>10. cost \in Nat /\ grow <= cost /\ (grow = cost <=> f.memSize = 0)
  <2>1. /\ f.memSize = 0 => grow = cost
        /\ f.memSize # 0 => grow < cost
        /\ cost \in Nat
    BY <1>2, <1>5, <1>6, Growing
  <2> QED
    BY <1>6, <2>1
<1>11. VerifyWitness(v) <=> Fits(w) /\ InReach(off) /\ gas >= cost /\ Same(v, w, Blank, f.pc + 1, gas - cost)
  <2>1. CASE ~Fits(w)
    BY <2>1, JudgedRefused
  <2>2. CASE Fits(w)
    <3>1. PICK rf, rc, h : rf = reconstructFrame(w) /\ rc = reconstructCode(w) /\ h = StepOne(rf, rc)
      OBVIOUS
    <3>2. ~(IsJump(w) /\ ~Narrow(In(w, 0)))
      BY <1>1 DEF IsJump
    <3>3. /\ Ready(rf, rc, op, n) /\ rc # <<>> /\ Sound(rf) /\ rf.pc = f.pc /\ rf.gas = f.gas /\ rf.memSize = 0
          /\ \A i \in 0..3 : i < 2 => Top(rf, i) = Top(f, i)
      BY <1>3, <2>2, <3>1, <3>2, ReplayPlainly
    <3>4. Top(rf, 0) = off
      BY <3>3
    <3>5. Grow(rf, at) = cost
      BY <1>5, <1>6, <3>3, Growing
    <3>6. /\ InReach(off) /\ gas >= cost => Ends(h, f.pc + 1, gas - cost, 0, Blank)
          /\ ~(InReach(off) /\ gas >= cost) => Fails(rf, h)
      <4>1. /\ InReach(off) /\ rf.gas - opGas(op) >= Grow(rf, off[0]) =>
                 Ends(h, rf.pc + 1, rf.gas - opGas(op) - Grow(rf, off[0]), 0, Blank)
            /\ ~(InReach(off) /\ rf.gas - opGas(op) >= Grow(rf, off[0])) => Fails(rf, h)
        BY <3>1, <3>3, <3>4, StepMStore
      <4> QED
        BY <1>5, <3>3, <3>5, <4>1
    <3>7. CASE InReach(off) /\ gas >= cost
      <4>1. PICK k, pc, left, out : /\ k = 0 /\ k = outArity(op, n) /\ pc = f.pc + 1 /\ left = gas - cost /\ out = Blank
                                    /\ Ends(h, pc, left, k, out)
        BY <1>3, <3>6, <3>7
      <4>2. VerifyWitness(v) <=> /\ (op = "MLOAD" => w.memOffset <= memMax - WordBytes)
             /\ (op = "SSTORE" => In(w, 0) = w.storageKey /\ In(w, 1) = w.storageVal)
             /\ (op \in {"SLOAD", "SSTORE"} => StorageShown(w))
             /\ Same(v, w, out, pc, left)
        BY <3>1, <3>3, <4>1, JudgedRunning
      <4> QED
        BY <2>2, <3>7, <4>1, <4>2
    <3>8. CASE ~(InReach(off) /\ gas >= cost)
      <4>1. h.status \in Exceptional
        BY <3>6, <3>8 DEF Fails
      <4> QED
        BY <3>1, <3>8, <4>1, JudgedStopped
    <3> QED
      BY <3>7, <3>8
  <2> QED
    BY <2>1, <2>2
<1>12. executeOneStep(v) <=> InReach(off) /\ gas >= cost /\ Same(v, w, Blank, f.pc + 1, gas - cost)
  <2>1. /\ Asked(v, op) /\ v.op = op /\ v.gas = f.gas /\ v.pc = f.pc /\ v.stackIn = w.stackIn /\ v.memOffset = mo
    BY <1>9, SolAsked
  <2>2. PICK words, pc, left, out : words = <<>> /\ pc = f.pc + 1 /\ left = gas - memGas(Words(mo + WordBytes)) /\ out = Blank
    OBVIOUS
  <2>3. gas \in Nat /\ gas \in Int
    BY <1>1
  <2>4. solChargeMem(gas, 0, mo) = left
    BY <2>2, <2>3, SolCharges
  <2>5. FromU64(mo) = off <=> InReach(off)
    BY <1>7, <1>9
  <2>6. solExec(v) = IF left >= 0 /\ FromU64(mo) = off THEN Answer(words, pc, left, BytesBE(Top(f, 1))) ELSE Refused
    <3>1. solExec(v) = IF solChargeMem(v.gas - opGas(v.op), 0, v.memOffset) >= 0 /\ FromU64(v.memOffset) = v.stackIn[2]
                      THEN Answer(<<>>, v.pc + 1, solChargeMem(v.gas - opGas(v.op), 0, v.memOffset), BytesBE(v.stackIn[1]))
                      ELSE Refused
      BY <2>1, SolMStore
    <3>2. v.gas - opGas(v.op) = gas
      BY <2>1
    <3> QED
      BY <1>4, <2>1, <2>2, <2>4, <3>1, <3>2
  <2>7. out = Answered(words)
    BY <2>2, OneWord
  <2>8. InReach(off) => left = gas - cost /\ (left >= 0 <=> gas >= cost)
    BY <1>5, <1>9, <1>10, <2>2, <2>3
  <2>9. CASE InReach(off) /\ gas >= cost
    <3>1. w.memData = BytesBE(Top(f, 1))
      BY <1>6, <1>8, <1>10, <2>3, <2>9
    <3>2. solExec(v) = Answer(words, pc, left, w.memData)
      BY <2>5, <2>6, <2>8, <2>9, <3>1
    <3>3. executeOneStep(v) <=> Same(v, w, out, pc, left)
      BY <2>7, <3>2, SolAnswered
    <3> QED
      BY <2>2, <2>8, <2>9, <3>3
  <2>10. CASE ~(InReach(off) /\ gas >= cost)
    <3>1. solExec(v) = Refused
      BY <2>5, <2>6, <2>8, <2>10
    <3> QED
      BY <2>10, <3>1, SolRefused
  <2> QED
    BY <2>9, <2>10
<1> QED
  BY <1>3, <1>6, <1>10, <1>11, <1>12

\* The replay's frame, whatever is put into it, stands where the witness says.
LEMMA ReplayFields ==
  ASSUME NEW w, NEW rf, rf = reconstructFrame(w)
  PROVE  rf.status = "running" /\ rf.pc = w.pc /\ rf.gas = w.gas /\ haltEx(rf, "oog").status = "oog"
<1>1. PICK e : e = Plainly(w)
  OBVIOUS
<1>2. PICK m, s, d : /\ e = [stack |-> s, pc |-> w.pc, gas |-> w.gas, refund |-> 0, status |-> "running",
                              memory |-> m, memSize |-> 0, retOff |-> 0, retSize |-> 0, db |-> d]
  BY <1>1 DEF Plainly, Reset
<1>3. CASE w.op = "MLOAD"
  <2>1. PICK m2, z : /\ rf = [[e EXCEPT !.memory = m2] EXCEPT !.memSize = z]
    BY <1>1, <1>3, LoadFrame DEF Written
  <2> QED
    BY <1>2, <2>1 DEF haltEx
<1>4. CASE w.op = "SLOAD"
  <2>1. PICK d2 : rf = [e EXCEPT !.db = d2]
    BY <1>1, <1>4, SlotFrame
  <2> QED
    BY <1>2, <2>1 DEF haltEx
<1>5. CASE w.op \notin {"MLOAD", "SLOAD"}
  <2>1. rf = e
    BY <1>1, <1>5, OtherFrame
  <2> QED
    BY <1>2, <2>1 DEF haltEx
<1> QED
  BY <1>3, <1>4, <1>5

\* A step that cannot be paid, nobody accepts.
LEMMA PoorVerdict ==
  ASSUME NEW w, NEW f, NEW g, NEW prog, NEW op, NEW n, NEW root, Witnessed(w, f, g, prog, op, n, root), NEW v, Claim(w, g, v),
         ~(f.gas >= opGas(op))
  PROVE  ~VerifyWitness(v) /\ ~executeOneStep(v) /\ g.status = "oog"
<1>1. /\ n \in Nat /\ op \in Known /\ opGas(op) \in Nat /\ f.gas \in Nat /\ f.pc \in Nat
      /\ w.op = op /\ w.n = n /\ w.pc = f.pc /\ w.gas = f.gas /\ f.gas < opGas(op)
  BY WitnessFields
<1>2. g.status = "oog"
  <2>1. /\ Sound(f) /\ f.status = "running" /\ prog \in Seq(Instructions) /\ f.pc < Len(prog)
        /\ prog[f.pc + 1].op = op /\ g = StepOne(f, prog)
    BY DEF Witnessed
  <2>2. Stopped(f, "oog", g)
    BY <1>1, <2>1, Poor
  <2> QED
    BY <2>2 DEF Stopped
<1>3. ~executeOneStep(v)
  BY SolAsked
<1>4. ~VerifyWitness(v)
  <2>1. CASE ~Fits(w) \/ (IsJump(w) /\ ~Narrow(In(w, 0)))
    BY <2>1, JudgedRefused
  <2>2. CASE ~(~Fits(w) \/ (IsJump(w) /\ ~Narrow(In(w, 0))))
    <3>1. PICK rf, rc, h : rf = reconstructFrame(w) /\ rc = reconstructCode(w) /\ h = StepOne(rf, rc)
      OBVIOUS
    <3>2. f.pc < Len(rc) /\ rc[f.pc + 1] = Instr(op, n)
      BY <1>1, <2>2, <3>1, WitnessCoded, Codes
    <3>3. rf.status = "running" /\ rf.pc = f.pc /\ rf.gas = f.gas /\ haltEx(rf, "oog").status = "oog"
      BY <1>1, <3>1, ReplayFields
    <3>4. rc[rf.pc + 1].op = op
      BY <3>2, <3>3 DEF Instr
    <3>5. ~(rf.pc >= Len(rc)) /\ rf.gas < opGas(op) /\ opGas(op) # Invalid
      <4>1. rc \in Seq(Instructions)
        BY <1>1, <2>2, <3>1, WitnessCoded, Codes
      <4> QED
        BY <1>1, <3>2, <3>3, <4>1 DEF Invalid
    <3>6. h = haltEx(rf, "oog")
      BY <3>1, <3>3, <3>4, <3>5 DEF StepOne
    <3>7. h.status \in Exceptional
      BY <3>3, <3>6 DEF Exceptional
    <3> QED
      BY <3>1, <3>7, JudgedStopped
  <2> QED
    BY <2>1, <2>2
<1> QED
  BY <1>2, <1>3, <1>4

-----------------------------------------------------------------------------
\* A witness claims the result of its step.
LEMMA OwnClaim ==
  ASSUME NEW w, NEW f, NEW g, NEW prog, NEW op, NEW n, NEW root, Witnessed(w, f, g, prog, op, n, root)
  PROVE  Claim(w, g, w)
<1>1. w = AsRecord(w) /\ w.postStateRoot = hashState(g.pc, g.gas, w.stackOut, w)
  BY DEF Witnessed, Holds
<1> QED
  BY <1>1 DEF Claim

\* Two claims of the same result are the same.
LEMMA SameUnique ==
  ASSUME NEW w, NEW g, NEW v, Claim(w, g, w), Claim(w, g, v), NEW out, NEW pc, NEW gas,
         Same(w, w, out, pc, gas), Same(v, w, out, pc, gas)
  PROVE  v = w
<1>1. w = AsRecord(w) /\ v = AsRecord(v)
  BY DEF Claim
<1>2. v.stackOut = w.stackOut /\ v.postStateRoot = w.postStateRoot
  BY DEF Same
<1>3. /\ v.pc = w.pc /\ v.op = w.op /\ v.n = w.n /\ v.gas = w.gas /\ v.stackIn = w.stackIn
      /\ v.memOffset = w.memOffset /\ v.memData = w.memData /\ v.storageKey = w.storageKey /\ v.storageVal = w.storageVal
      /\ v.storageRoot = w.storageRoot /\ v.storageProof = w.storageProof /\ v.preStateRoot = w.preStateRoot
  BY DEF Claim
<1>4. AsRecord(v) = AsRecord(w)
  BY <1>2, <1>3 DEF AsRecord
<1> QED
  BY <1>1, <1>4

\* A digest is known by what it is of.
LEMMA HashSame ==
  ASSUME NEW w, NEW pc1, NEW gas1, NEW out1, NEW pc2, NEW gas2, NEW out2
  PROVE  hashState(pc1, gas1, out1, w) = hashState(pc2, gas2, out2, w) <=> pc1 = pc2 /\ gas1 = gas2 /\ out1 = out2
BY DEF hashState

\* What a witness claims, when its step ran on and when it halted.
LEMMA SameEnds ==
  ASSUME NEW w, NEW f, NEW g, NEW prog, NEW op, NEW n, NEW root, Witnessed(w, f, g, prog, op, n, root),
         NEW pc1, NEW gas1, NEW out1, Ends(g, pc1, gas1, outArity(op, n), out1), NEW pc, NEW gas, NEW out
  PROVE  Same(w, w, out, pc, gas) <=> out1 = out /\ pc1 = pc /\ gas1 = gas
<1>1. w.stackOut = out1 /\ w.postStateRoot = hashState(pc1, gas1, out1, w)
  BY WitnessFields DEF Ends
<1> QED
  BY <1>1, HashSame DEF Same

\* The witness of a step that failed claims that no gas is left.
LEMMA SameFails ==
  ASSUME NEW w, NEW f, NEW g, NEW prog, NEW op, NEW n, NEW root, Witnessed(w, f, g, prog, op, n, root),
         Fails(f, g), NEW pc, NEW gas, NEW out, Same(w, w, out, pc, gas)
  PROVE  gas = 0
<1>1. w.postStateRoot = hashState(g.pc, g.gas, w.stackOut, w) /\ g.gas = 0
  BY WitnessFields DEF Fails
<1>2. w.postStateRoot = hashState(pc, gas, out, w)
  BY DEF Same
<1> QED
  BY <1>1, <1>2, HashSame

\* A claim is of the step's place or the one behind it.
LEMMA SamePlace ==
  ASSUME NEW w, NEW g, NEW v, Claim(w, g, v), NEW out, NEW pc, NEW gas, Same(v, w, out, pc, gas)
  PROVE  pc \in {g.pc, g.pc + 1} /\ (pc # g.pc => out = w.stackOut)
<1>1. PICK p \in {g.pc, g.pc + 1} : (\E c : v.postStateRoot = hashState(p, c, v.stackOut, w)) /\ (p # g.pc => v.stackOut = w.stackOut)
  BY Zenon DEF Claim
<1>2. v.stackOut = out /\ v.postStateRoot = hashState(pc, gas, out, w)
  BY DEF Same
<1>3. p = pc
  BY <1>1, <1>2, HashSame
<1> QED
  BY <1>1, <1>2, <1>3

\* Storage: a proof of the root's contents shows exactly the values these have.
Rooted(root) == root = NoRoot \/ root = RootOf(root.slots)

\* A witness with a root verifies exactly if the root's contents have its value, and
\* only loads and stores have one.
LEMMA StorageJudged ==
  ASSUME NEW w, NEW f, NEW g, NEW prog, NEW op, NEW n, NEW root, Witnessed(w, f, g, prog, op, n, root), Rooted(root)
  PROVE  /\ op \in {"SLOAD", "SSTORE"} =>
              (StorageShown(w) <=> (w.storageRoot.some => Slot(w.storageRoot, w.storageKey) = w.storageVal))
         /\ op \notin {"SLOAD", "SSTORE"} => ~w.storageRoot.some
<1>1. /\ w.storageRoot = (IF op \in {"SLOAD", "SSTORE"} /\ root.some THEN root ELSE NoRoot)
      /\ w.storageProof = (IF op \in {"SLOAD", "SSTORE"} /\ root.some THEN <<root.slots>> ELSE <<>>)
  BY DEF Witnessed, Holds, Shared
<1>2. ~NoRoot.some
  BY DEF NoRoot
<1>3. CASE ~(op \in {"SLOAD", "SSTORE"} /\ root.some)
  BY <1>1, <1>2, <1>3 DEF StorageShown
<1>4. CASE op \in {"SLOAD", "SSTORE"} /\ root.some
  <2>1. root = RootOf(root.slots)
    BY <1>2, <1>4 DEF Rooted
  <2>2. w.storageProof[1] = root.slots /\ w.storageProof # <<>> /\ w.storageRoot = root
    BY <1>1, <1>4
  <2>3. RootOf(w.storageProof[1]) = root
    BY <2>1, <2>2
  <2> QED
    BY <1>4, <2>2, <2>3 DEF StorageShown, VerifyStorageProof
<1> QED
  BY <1>3, <1>4

-----------------------------------------------------------------------------
\* Replayable, of the step from f to g.
CanReplay(w, f, g) ==
  /\ Fits(w)
  /\ w.op = "MLOAD" => g.memSize = f.memSize
  /\ w.op = "MSTORE" => f.memSize = 0
  /\ w.op = "JUMPI" => IsTaken(w) \/ Narrow(In(w, 0))
  /\ w.storageRoot.some => Slot(w.storageRoot, w.storageKey) = w.storageVal

\* What is to be shown of a witness and a claim.
Verified(w, f, g, v) ==
  /\ g.status \notin Exceptional => (VerifyWitness(w) <=> CanReplay(w, f, g))
  /\ g.status \in Exceptional /\ VerifyWitness(w) => f.gas = opGas(w.op)
  /\ VerifyWitness(w) /\ VerifyWitness(v) => v = w
Agreed(w, g, v) ==
  /\ VerifyWitness(v) => executeOneStep(v)
  /\ executeOneStep(v) =>
       \/ VerifyWitness(v)
       \/ ~Fits(w)
       \/ w.op = "JUMPI" /\ ~IsTaken(w) /\ ~Narrow(In(w, 0))
       \/ WidePush(w) /\ g.status = "overflow"

\* Most instructions: the replay comes to the result that the step had if it did not
\* halt, and the storage is judged as it is shown.
LEMMA Simply ==
  ASSUME NEW w, NEW f, NEW g, NEW prog, NEW op, NEW n, NEW root, Witnessed(w, f, g, prog, op, n, root), Rooted(root),
         NEW v, Claim(w, g, v), op \notin {"MLOAD", "MSTORE", "JUMPI"}, NEW pc, NEW gas, NEW out, gas = f.gas - opGas(op),
         Ends(g, pc, gas, outArity(op, n), out) \/ Fails(f, g),
         VerifyWitness(w) <=> Fits(w) /\ (op \in {"SLOAD", "SSTORE"} => StorageShown(w)) /\ Same(w, w, out, pc, gas),
         VerifyWitness(v) <=> Fits(w) /\ (op \in {"SLOAD", "SSTORE"} => StorageShown(w)) /\ Same(v, w, out, pc, gas),
         executeOneStep(v) <=> (op \in {"SLOAD", "SSTORE"} => StorageShown(w)) /\ Same(v, w, out, pc, gas)
  PROVE  Verified(w, f, g, v) /\ Agreed(w, g, v)
<1>1. w.op = op /\ f.gas \in Nat /\ opGas(op) \in Nat
  BY WitnessFields
<1>2. Claim(w, g, w)
  BY OwnClaim
<1>3. ASSUME g.status \notin Exceptional PROVE VerifyWitness(w) <=> CanReplay(w, f, g)
  <2>1. Ends(g, pc, gas, outArity(op, n), out)
    BY <1>3 DEF Fails
  <2>2. Same(w, w, out, pc, gas)
    BY <2>1, SameEnds
  <2>3. (op \in {"SLOAD", "SSTORE"} => StorageShown(w)) <=> (w.storageRoot.some => Slot(w.storageRoot, w.storageKey) = w.storageVal)
    BY StorageJudged
  <2> QED
    BY <1>1, <2>2, <2>3 DEF CanReplay
<1>4. ASSUME g.status \in Exceptional, VerifyWitness(w) PROVE f.gas = opGas(w.op)
  <2>1. Fails(f, g)
    BY <1>4 DEF Ends, Exceptional
  <2>2. gas = 0
    BY <1>4, <2>1, SameFails
  <2> QED
    BY <1>1, <2>2
<1>5. VerifyWitness(w) /\ VerifyWitness(v) => v = w
  BY <1>2, SameUnique
<1> QED
  BY <1>3, <1>4, <1>5 DEF Verified, Agreed

\* The instructions, one after the other.  Arithmetic.
LEMMA PlainSettled ==
  ASSUME NEW w, NEW f, NEW g, NEW prog, NEW op, NEW n, NEW root, Witnessed(w, f, g, prog, op, n, root), Rooted(root),
         NEW v, Claim(w, g, v), f.gas >= opGas(op), op \in Plain
  PROVE  Verified(w, f, g, v) /\ Agreed(w, g, v)
<1>1. PICK pc, gas, out : pc = f.pc + 1 /\ gas = f.gas - opGas(op) /\ out = One(Calculate(op, Top(f, 0), Top(f, 1), Zero))
  OBVIOUS
<1>2. Claim(w, g, w)
  BY OwnClaim
<1>3. /\ Ends(g, pc, gas, outArity(op, n), out)
      /\ VerifyWitness(v) <=> Fits(w) /\ Same(v, w, out, pc, gas)
      /\ executeOneStep(v) <=> Same(v, w, out, pc, gas)
  BY <1>1, PlainVerdict
<1>4. VerifyWitness(w) <=> Fits(w) /\ Same(w, w, out, pc, gas)
  BY <1>1, <1>2, PlainVerdict
<1> QED
  BY <1>1, <1>3, <1>4, Simply DEF Plain

\* PUSH0, which pushes unless the stack is full.
LEMMA Push0Settled ==
  ASSUME NEW w, NEW f, NEW g, NEW prog, NEW op, NEW n, NEW root, Witnessed(w, f, g, prog, op, n, root), Rooted(root),
         NEW v, Claim(w, g, v), f.gas >= opGas(op), op = "PUSH0"
  PROVE  Verified(w, f, g, v) /\ Agreed(w, g, v)
<1>1. PICK pc, gas, out : pc = f.pc + 1 /\ gas = f.gas - opGas(op) /\ out = One(Zero)
  OBVIOUS
<1>2. Claim(w, g, w)
  BY OwnClaim
<1>3. /\ Ends(g, pc, gas, outArity(op, n), out) \/ Fails(f, g)
      /\ VerifyWitness(v) <=> Fits(w) /\ Same(v, w, out, pc, gas)
      /\ executeOneStep(v) <=> Same(v, w, out, pc, gas)
  BY <1>1, Push0Verdict
<1>4. VerifyWitness(w) <=> Fits(w) /\ Same(w, w, out, pc, gas)
  BY <1>1, <1>2, Push0Verdict
<1> QED
  BY <1>1, <1>3, <1>4, Simply

\* SLOAD, whose value the storage must show.
LEMMA LoadSettled ==
  ASSUME NEW w, NEW f, NEW g, NEW prog, NEW op, NEW n, NEW root, Witnessed(w, f, g, prog, op, n, root), Rooted(root),
         NEW v, Claim(w, g, v), f.gas >= opGas(op), op = "SLOAD"
  PROVE  Verified(w, f, g, v) /\ Agreed(w, g, v)
<1>1. PICK pc, gas, out : pc = f.pc + 1 /\ gas = f.gas - opGas(op) /\ out = One(w.storageVal)
  OBVIOUS
<1>2. Claim(w, g, w)
  BY OwnClaim
<1>3. /\ Ends(g, pc, gas, outArity(op, n), out)
      /\ VerifyWitness(v) <=> Fits(w) /\ StorageShown(w) /\ Same(v, w, out, pc, gas)
      /\ executeOneStep(v) <=> StorageShown(w) /\ Same(v, w, out, pc, gas)
  BY <1>1, LoadVerdict
<1>4. VerifyWitness(w) <=> Fits(w) /\ StorageShown(w) /\ Same(w, w, out, pc, gas)
  BY <1>1, <1>2, LoadVerdict
<1> QED
  BY <1>1, <1>3, <1>4, Simply

\* SSTORE, likewise.
LEMMA StoreSettled ==
  ASSUME NEW w, NEW f, NEW g, NEW prog, NEW op, NEW n, NEW root, Witnessed(w, f, g, prog, op, n, root), Rooted(root),
         NEW v, Claim(w, g, v), f.gas >= opGas(op), op = "SSTORE"
  PROVE  Verified(w, f, g, v) /\ Agreed(w, g, v)
<1>1. PICK pc, gas, out : pc = f.pc + 1 /\ gas = f.gas - opGas(op) /\ out = Blank
  OBVIOUS
<1>2. Claim(w, g, w)
  BY OwnClaim
<1>3. /\ Ends(g, pc, gas, outArity(op, n), out)
      /\ VerifyWitness(v) <=> Fits(w) /\ StorageShown(w) /\ Same(v, w, out, pc, gas)
      /\ executeOneStep(v) <=> StorageShown(w) /\ Same(v, w, out, pc, gas)
  BY <1>1, StoreVerdict
<1>4. VerifyWitness(w) <=> Fits(w) /\ StorageShown(w) /\ Same(w, w, out, pc, gas)
  BY <1>1, <1>2, StoreVerdict
<1> QED
  BY <1>1, <1>3, <1>4, Simply

\* DUPn, which halts where the stack is full.
LEMMA DupSettled ==
  ASSUME NEW w, NEW f, NEW g, NEW prog, NEW op, NEW n, NEW root, Witnessed(w, f, g, prog, op, n, root), Rooted(root),
         NEW v, Claim(w, g, v), f.gas >= opGas(op), op = "DUP"
  PROVE  Verified(w, f, g, v) /\ Agreed(w, g, v)
<1>1. PICK pc, gas, out : pc = f.pc + 1 /\ gas = f.gas - opGas(op) /\ out = DupOut(f, n)
  OBVIOUS
<1>2. Claim(w, g, w)
  BY OwnClaim
<1>3. /\ Ends(g, pc, gas, outArity(op, n), out) \/ Fails(f, g)
      /\ VerifyWitness(v) <=> Fits(w) /\ Same(v, w, out, pc, gas)
      /\ executeOneStep(v) <=> Same(v, w, out, pc, gas)
  BY <1>1, DupVerdict
<1>4. VerifyWitness(w) <=> Fits(w) /\ Same(w, w, out, pc, gas)
  BY <1>1, <1>2, DupVerdict
<1> QED
  BY <1>1, <1>3, <1>4, Simply

\* SWAPn.
LEMMA SwapSettled ==
  ASSUME NEW w, NEW f, NEW g, NEW prog, NEW op, NEW n, NEW root, Witnessed(w, f, g, prog, op, n, root), Rooted(root),
         NEW v, Claim(w, g, v), f.gas >= opGas(op), op = "SWAP"
  PROVE  Verified(w, f, g, v) /\ Agreed(w, g, v)
<1>1. PICK pc, gas, out : pc = f.pc + 1 /\ gas = f.gas - opGas(op) /\ out = SwapOut(f, n)
  OBVIOUS
<1>2. Claim(w, g, w)
  BY OwnClaim
<1>3. /\ Ends(g, pc, gas, outArity(op, n), out)
      /\ VerifyWitness(v) <=> Fits(w) /\ Same(v, w, out, pc, gas)
      /\ executeOneStep(v) <=> Same(v, w, out, pc, gas)
  BY <1>1, SwapVerdict
<1>4. VerifyWitness(w) <=> Fits(w) /\ Same(w, w, out, pc, gas)
  BY <1>1, <1>2, SwapVerdict
<1> QED
  BY <1>1, <1>3, <1>4, Simply

\* MLOAD: a replay is charged nothing for the memory, so it comes to the step's
\* result only where the step was not either.
LEMMA MLoadSettled ==
  ASSUME NEW w, NEW f, NEW g, NEW prog, NEW op, NEW n, NEW root, Witnessed(w, f, g, prog, op, n, root), Rooted(root),
         NEW v, Claim(w, g, v), f.gas >= opGas(op), op = "MLOAD"
  PROVE  Verified(w, f, g, v) /\ Agreed(w, g, v)
<1>1. w.op = op /\ f.gas \in Nat /\ opGas(op) \in Nat
  BY WitnessFields
<1>2. PICK pc, gas, off, out : pc = f.pc + 1 /\ gas = f.gas - opGas(op) /\ off = Top(f, 0) /\ out = One(FromBytesBE(w.memData))
  OBVIOUS
<1>3. PICK grow : grow = Grow(f, off[0])
  OBVIOUS
<1>4. Claim(w, g, w)
  BY OwnClaim
<1>5. /\ \/ /\ Ends(g, pc, gas - grow, outArity(op, n), out) /\ InReach(off)
            /\ g.memSize = f.memSize <=> grow = 0
         \/ Fails(f, g)
      /\ grow \in Nat
      /\ VerifyWitness(v) <=> Fits(w) /\ InReach(off) /\ Same(v, w, out, pc, gas)
      /\ executeOneStep(v) <=> InReach(off) /\ Same(v, w, out, pc, gas)
  BY <1>2, <1>3, MLoadVerdict
<1>6. VerifyWitness(w) <=> Fits(w) /\ InReach(off) /\ Same(w, w, out, pc, gas)
  BY <1>2, <1>4, MLoadVerdict
<1>7. ASSUME g.status \notin Exceptional PROVE VerifyWitness(w) <=> CanReplay(w, f, g)
  <2>1. PICK left : left = gas - grow /\ Ends(g, pc, left, outArity(op, n), out) /\ InReach(off) /\ (g.memSize = f.memSize <=> grow = 0)
    BY <1>5, <1>7 DEF Fails
  <2>2. Same(w, w, out, pc, gas) <=> left = gas
    BY <2>1, SameEnds
  <2>3. left = gas <=> grow = 0
    BY <1>1, <1>2, <1>5, <2>1
  <2>4. ~w.storageRoot.some
    BY StorageJudged
  <2> QED
    BY <1>1, <1>6, <2>1, <2>2, <2>3, <2>4 DEF CanReplay
<1>8. ASSUME g.status \in Exceptional, VerifyWitness(w) PROVE f.gas = opGas(w.op)
  <2>1. Fails(f, g)
    BY <1>5, <1>8 DEF Ends, Exceptional
  <2>2. gas = 0
    BY <1>6, <1>8, <2>1, SameFails
  <2> QED
    BY <1>1, <1>2, <2>2
<1>9. VerifyWitness(w) /\ VerifyWitness(v) => v = w
  BY <1>4, <1>5, <1>6, SameUnique
<1> QED
  BY <1>5, <1>7, <1>8, <1>9 DEF Verified, Agreed

\* MSTORE: a replay pays for all words up to the place, as the step does where the
\* memory was empty.
LEMMA MStoreSettled ==
  ASSUME NEW w, NEW f, NEW g, NEW prog, NEW op, NEW n, NEW root, Witnessed(w, f, g, prog, op, n, root), Rooted(root),
         NEW v, Claim(w, g, v), f.gas >= opGas(op), op = "MSTORE"
  PROVE  Verified(w, f, g, v) /\ Agreed(w, g, v)
<1>1. w.op = op /\ f.gas \in Nat /\ opGas(op) \in Nat
  BY WitnessFields
<1>2. PICK pc, gas, off, out : pc = f.pc + 1 /\ gas = f.gas - opGas(op) /\ off = Top(f, 0) /\ out = Blank
  OBVIOUS
<1>3. PICK grow, cost : grow = Grow(f, off[0]) /\ cost = memGas(Words(off[0] + WordBytes))
  OBVIOUS
<1>4. Claim(w, g, w)
  BY OwnClaim
<1>5. /\ InReach(off) /\ gas >= grow => Ends(g, pc, gas - grow, outArity(op, n), out)
      /\ ~(InReach(off) /\ gas >= grow) => Fails(f, g)
      /\ cost \in Nat /\ grow \in Nat /\ grow <= cost /\ (grow = cost <=> f.memSize = 0)
      /\ VerifyWitness(v) <=> Fits(w) /\ InReach(off) /\ gas >= cost /\ Same(v, w, out, pc, gas - cost)
      /\ executeOneStep(v) <=> InReach(off) /\ gas >= cost /\ Same(v, w, out, pc, gas - cost)
  BY <1>2, <1>3, MStoreVerdict
<1>6. VerifyWitness(w) <=> Fits(w) /\ InReach(off) /\ gas >= cost /\ Same(w, w, out, pc, gas - cost)
  BY <1>2, <1>3, <1>4, MStoreVerdict
<1>7. gas \in Nat
  BY <1>1, <1>2
<1>8. PICK left, less : left = gas - grow /\ less = gas - cost /\ (left = less <=> f.memSize = 0)
  <2>1. gas - grow = gas - cost <=> f.memSize = 0
    BY <1>5, <1>7
  <2> QED
    BY <2>1
<1>9. ASSUME g.status \notin Exceptional PROVE VerifyWitness(w) <=> CanReplay(w, f, g)
  <2>1. InReach(off) /\ gas >= grow /\ Ends(g, pc, left, outArity(op, n), out)
    BY <1>5, <1>8, <1>9 DEF Fails
  <2>2. Same(w, w, out, pc, less) <=> left = less
    BY <2>1, SameEnds
  <2>3. f.memSize = 0 => gas >= cost
    BY <1>5, <2>1
  <2>4. ~w.storageRoot.some
    BY StorageJudged
  <2> QED
    BY <1>1, <1>6, <1>8, <2>1, <2>2, <2>3, <2>4 DEF CanReplay
<1>10. ASSUME VerifyWitness(w) PROVE g.status \notin Exceptional
  <2>1. gas >= grow /\ InReach(off)
    BY <1>5, <1>6, <1>7, <1>10
  <2> QED
    BY <1>5, <2>1 DEF Ends, Exceptional
<1>11. VerifyWitness(w) /\ VerifyWitness(v) => v = w
  <2>1. ASSUME VerifyWitness(w), VerifyWitness(v) PROVE v = w
    <3>1. Same(v, w, out, pc, less) /\ Same(w, w, out, pc, less)
      BY <1>5, <1>6, <1>8, <2>1
    <3> QED
      BY <1>4, <3>1, SameUnique
  <2> QED
    BY <2>1
<1> QED
  BY <1>5, <1>9, <1>10, <1>11 DEF Verified, Agreed

\* A jump that is taken: the replay's code has a JUMPDEST where it leads, except at the
\* jump itself, where the step cannot have led.
LEMMA JumpSettled ==
  ASSUME NEW w, NEW f, NEW g, NEW prog, NEW op, NEW n, NEW root, Witnessed(w, f, g, prog, op, n, root), Rooted(root),
         NEW v, Claim(w, g, v), f.gas >= opGas(op), op \in {"JUMP", "JUMPI"}, IsTaken(w)
  PROVE  Verified(w, f, g, v) /\ Agreed(w, g, v)
<1>1. w.op = op /\ f.gas \in Nat /\ opGas(op) \in Nat /\ f.pc \in Nat
  BY WitnessFields
<1>2. PICK dest, pc, gas, out : dest = Top(f, 0) /\ pc = dest[0] /\ gas = f.gas - opGas(op) /\ out = Blank
  OBVIOUS
<1>3. Claim(w, g, w)
  BY OwnClaim
<1>4. /\ \/ Ends(g, pc, gas, outArity(op, n), out) /\ Narrow(dest) /\ pc # f.pc
         \/ Fails(f, g)
      /\ VerifyWitness(v) <=> Fits(w) /\ Narrow(dest) /\ pc # f.pc /\ Same(v, w, out, pc, gas)
      /\ executeOneStep(v) <=> Narrow(dest) /\ Same(v, w, out, pc, gas)
  BY <1>2, JumpVerdict
<1>5. VerifyWitness(w) <=> Fits(w) /\ Narrow(dest) /\ pc # f.pc /\ Same(w, w, out, pc, gas)
  BY <1>2, <1>3, JumpVerdict
<1>6. ASSUME g.status \notin Exceptional PROVE VerifyWitness(w) <=> CanReplay(w, f, g)
  <2>1. Ends(g, pc, gas, outArity(op, n), out) /\ Narrow(dest) /\ pc # f.pc
    BY <1>4, <1>6 DEF Fails
  <2>2. Same(w, w, out, pc, gas)
    BY <2>1, SameEnds
  <2>3. ~w.storageRoot.some
    BY StorageJudged
  <2> QED
    BY <1>1, <1>5, <2>1, <2>2, <2>3 DEF CanReplay
<1>7. ASSUME g.status \in Exceptional, VerifyWitness(w) PROVE f.gas = opGas(w.op)
  <2>1. Fails(f, g)
    BY <1>4, <1>7 DEF Ends, Exceptional
  <2>2. gas = 0
    BY <1>5, <1>7, <2>1, SameFails
  <2> QED
    BY <1>1, <1>2, <2>2
<1>8. VerifyWitness(w) /\ VerifyWitness(v) => v = w
  BY <1>3, <1>4, <1>5, SameUnique
<1>9. ASSUME executeOneStep(v), pc = f.pc PROVE FALSE
  <2>1. g.pc = f.pc + 1
    BY <1>4, <1>9 DEF Fails
  <2>2. pc \in {g.pc, g.pc + 1}
    BY <1>4, <1>9, SamePlace
  <2> QED
    BY <1>1, <1>9, <2>1, <2>2
<1> QED
  BY <1>4, <1>6, <1>7, <1>8, <1>9 DEF Verified, Agreed

\* One that is not taken goes on, but is replayed only with a narrow destination.
LEMMA NoJumpSettled ==
  ASSUME NEW w, NEW f, NEW g, NEW prog, NEW op, NEW n, NEW root, Witnessed(w, f, g, prog, op, n, root), Rooted(root),
         NEW v, Claim(w, g, v), f.gas >= opGas(op), op = "JUMPI", ~IsTaken(w)
  PROVE  Verified(w, f, g, v) /\ Agreed(w, g, v)
<1>1. w.op = op
  BY WitnessFields
<1>2. PICK pc, gas, out : pc = f.pc + 1 /\ gas = f.gas - opGas(op) /\ out = Blank
  OBVIOUS
<1>3. Claim(w, g, w)
  BY OwnClaim
<1>4. /\ Ends(g, pc, gas, outArity(op, n), out)
      /\ VerifyWitness(v) <=> Fits(w) /\ Narrow(In(w, 0)) /\ Same(v, w, out, pc, gas)
      /\ executeOneStep(v) <=> Same(v, w, out, pc, gas)
  BY <1>2, NoJumpVerdict
<1>5. VerifyWitness(w) <=> Fits(w) /\ Narrow(In(w, 0)) /\ Same(w, w, out, pc, gas)
  BY <1>2, <1>3, NoJumpVerdict
<1>6. VerifyWitness(w) <=> CanReplay(w, f, g)
  <2>1. Same(w, w, out, pc, gas)
    BY <1>4, SameEnds
  <2>2. ~w.storageRoot.some
    BY StorageJudged
  <2> QED
    BY <1>1, <1>5, <2>1, <2>2 DEF CanReplay
<1>7. g.status \notin Exceptional
  BY <1>4 DEF Ends, Exceptional
<1>8. VerifyWitness(w) /\ VerifyWitness(v) => v = w
  BY <1>3, <1>4, <1>5, SameUnique
<1> QED
  BY <1>1, <1>4, <1>6, <1>7, <1>8 DEF Verified, Agreed

\* PUSHn: only when the stack was full has the word a witness shows more bytes than
\* the PUSH, and then no claim is what the replay comes to.
LEMMA PushSettled ==
  ASSUME NEW w, NEW f, NEW g, NEW prog, NEW op, NEW n, NEW root, Witnessed(w, f, g, prog, op, n, root), Rooted(root),
         NEW v, Claim(w, g, v), f.gas >= opGas(op), op = "PUSH"
  PROVE  Verified(w, f, g, v) /\ Agreed(w, g, v)
<1>1. w.op = op /\ f.pc \in Nat
  BY WitnessFields
<1>2. PICK pc, gas, out, low : /\ pc = f.pc + 1 + n /\ gas = f.gas - opGas(op)
                               /\ out = One(FromBytesBE(w.memData)) /\ low = One(FromBytesBE(PushPart(w, n)))
  OBVIOUS
<1>3. Claim(w, g, w)
  BY OwnClaim
<1>4. /\ VerifyWitness(v) <=> Fits(w) /\ Same(v, w, low, pc, gas)
      /\ executeOneStep(v) <=> Same(v, w, out, pc, gas)
      /\ WidePush(w) => w.stackOut # low
      /\ ~WidePush(w) => low = out
      /\ outArity(op, n) = 1 /\ n \in Nat /\ n >= 1
  BY <1>2, PushVerdict
<1>5. VerifyWitness(w) <=> Fits(w) /\ Same(w, w, low, pc, gas)
  BY <1>2, <1>3, PushVerdict
<1>6. \/ Ends(g, pc, gas, outArity(op, n), out) /\ ~WidePush(w)
      \/ Fails(f, g) /\ g.status = "overflow"
  BY <1>2, <1>4, StepPushed
<1>7. CASE ~WidePush(w)
  BY <1>2, <1>4, <1>5, <1>6, <1>7, Simply
<1>8. CASE WidePush(w)
  <2>1. Fails(f, g) /\ g.status = "overflow" /\ g.pc = f.pc + 1
    BY <1>6, <1>8 DEF Fails
  <2>2. ASSUME NEW u, Claim(w, g, u), Same(u, w, low, pc, gas) PROVE FALSE
    <3>1. pc \in {g.pc, g.pc + 1} /\ (pc # g.pc => low = w.stackOut)
      BY <2>2, SamePlace
    <3>2. pc # g.pc
      BY <1>1, <1>2, <1>4, <2>1
    <3> QED
      BY <1>4, <1>8, <3>1, <3>2
  <2>3. ~VerifyWitness(v) /\ ~VerifyWitness(w)
    BY <1>3, <1>4, <1>5, <2>2
  <2>4. g.status \in Exceptional
    BY <2>1 DEF Exceptional
  <2> QED
    BY <1>8, <2>1, <2>3, <2>4 DEF Verified, Agreed
<1> QED
  BY <1>7, <1>8

\* Every step.
LEMMA Settled ==
  ASSUME NEW w, NEW f, NEW g, NEW prog, NEW op, NEW n, NEW root, Witnessed(w, f, g, prog, op, n, root), Rooted(root),
         NEW v, Claim(w, g, v)
  PROVE  Verified(w, f, g, v) /\ Agreed(w, g, v)
<1>1. n \in Nat /\ opcodeSupported(op, n)
  BY WitnessFields
<1>2. CASE ~(f.gas >= opGas(op))
  <2>1. Claim(w, g, w)
    BY OwnClaim
  <2>2. ~VerifyWitness(v) /\ ~VerifyWitness(w) /\ ~executeOneStep(v) /\ g.status \in Exceptional
    BY <1>2, <2>1, PoorVerdict DEF Exceptional
  <2> QED
    BY <2>2 DEF Verified, Agreed
<1>3. CASE f.gas >= opGas(op)
  <2>1. op \in Plain \cup {"MLOAD", "MSTORE", "SLOAD", "SSTORE", "JUMP", "JUMPI", "PUSH0", "PUSH", "DUP", "SWAP"}
    BY <1>1, SupportedTakes
  <2>2. CASE op \in Plain
    BY <1>3, <2>2, PlainSettled
  <2>3. CASE op = "MLOAD"
    BY <1>3, <2>3, MLoadSettled
  <2>4. CASE op = "MSTORE"
    BY <1>3, <2>4, MStoreSettled
  <2>5. CASE op = "SLOAD"
    BY <1>3, <2>5, LoadSettled
  <2>6. CASE op = "SSTORE"
    BY <1>3, <2>6, StoreSettled
  <2>7. CASE op = "JUMP"
    <3>1. IsTaken(w)
      BY <2>7, WitnessFields DEF IsTaken
    <3> QED
      BY <1>3, <2>7, <3>1, JumpSettled
  <2>8. CASE op = "JUMPI"
    BY <1>3, <2>8, JumpSettled, NoJumpSettled
  <2>9. CASE op = "PUSH0"
    BY <1>3, <2>9, Push0Settled
  <2>10. CASE op = "PUSH"
    BY <1>3, <2>10, PushSettled
  <2>11. CASE op = "DUP"
    BY <1>3, <2>11, DupSettled
  <2>12. CASE op = "SWAP"
    BY <1>3, <2>12, SwapSettled
  <2> QED
    BY <2>1, <2>2, <2>3, <2>4, <2>5, <2>6, <2>7, <2>8, <2>9, <2>10, <2>11, <2>12
<1> QED
  BY <1>2, <1>3

-----------------------------------------------------------------------------
\* The witness of the specification is that of its last step.
LEMMA StepWitnessed ==
  ASSUME FrameInv, WitnessInv, witness # NoWitness
  PROVE  \E root : Rooted(root) /\ Witnessed(witness, before, frame, code, Instruction.op, Instruction.n, root)
<1>1. /\ Sound(before) /\ Sound(frame) /\ code \in Seq(Instructions)
      /\ before.status = "running" /\ before.pc < Len(code) /\ frame = StepOne(before, code)
  BY DEF FrameInv, RequestOverlong, WitnessInv
<1>2. PICK root \in Roots : witness = CaptureWitness(before, frame, Instruction.op, Instruction.n, root)
  BY DEF WitnessInv
<1>3. Rooted(root)
  BY <1>2 DEF Roots, Rooted, RootOf
<1>4. PICK op, n : op = Instruction.op /\ n = Instruction.n
  OBVIOUS
<1>5. Instruction \in Instructions
  <2>1. PICK i \in 1..Len(code) : i = before.pc + 1
    <3>1. before.pc \in Nat
      BY <1>1 DEF Sound, Frames
    <3> QED
      BY <1>1, <3>1
  <2> QED
    BY <1>1, <2>1, ElementOfSeq DEF Instruction
<1>6. n \in Nat /\ op \in Known \cup Unknown
  BY <1>4, <1>5 DEF Instructions
<1>7. op \in Known
  <2>1. opcodeSupported(op, n)
    BY <1>2, <1>4 DEF CaptureWitness
  <2> QED
    BY <1>6, <2>1, SupportedTakes
<1>8. Holds(witness, before, frame, op, n, root)
  BY <1>1, <1>2, <1>4, <1>6, <1>7, Captured
<1>9. Witnessed(witness, before, frame, code, op, n, root)
  BY <1>1, <1>4, <1>8 DEF Witnessed, Instruction
<1> QED
  BY <1>3, <1>4, <1>9

\* The other results are claims.
LEMMA OtherClaims ==
  ASSUME NEW w, w = AsRecord(w), NEW v \in OtherResults(w)
  PROVE  Claim(w, frame, v)
<1>1. PICK other, r : other = [w.stackOut EXCEPT ![1] = Not256(w.stackOut[1])] /\ r = AsRecord(w)
  OBVIOUS
<1>2. CASE v = [w EXCEPT !.stackOut = other, !.postStateRoot = hashState(frame.pc, frame.gas, other, w)]
  <2>1. PICK h : h = hashState(frame.pc, frame.gas, other, w)
    OBVIOUS
  <2>2. v = [w EXCEPT !.stackOut = other, !.postStateRoot = h]
    BY <1>2, <2>1
  <2>3. /\ v = AsRecord(v) /\ v.stackOut = other /\ v.postStateRoot = h
        /\ v.pc = w.pc /\ v.op = w.op /\ v.n = w.n /\ v.gas = w.gas /\ v.stackIn = w.stackIn
        /\ v.memOffset = w.memOffset /\ v.memData = w.memData /\ v.storageKey = w.storageKey /\ v.storageVal = w.storageVal
        /\ v.storageRoot = w.storageRoot /\ v.storageProof = w.storageProof /\ v.preStateRoot = w.preStateRoot
    BY <2>2 DEF AsRecord
  <2> QED
    BY <2>1, <2>3 DEF Claim
<1>3. ASSUME NEW pc \in {frame.pc, frame.pc + 1}, NEW gas, NEW h, h = hashState(pc, gas, w.stackOut, w),
             v = [w EXCEPT !.postStateRoot = h]
      PROVE  Claim(w, frame, v)
  <2>1. /\ v = AsRecord(v) /\ v.stackOut = w.stackOut /\ v.postStateRoot = h
        /\ v.pc = w.pc /\ v.op = w.op /\ v.n = w.n /\ v.gas = w.gas /\ v.stackIn = w.stackIn
        /\ v.memOffset = w.memOffset /\ v.memData = w.memData /\ v.storageKey = w.storageKey /\ v.storageVal = w.storageVal
        /\ v.storageRoot = w.storageRoot /\ v.storageProof = w.storageProof /\ v.preStateRoot = w.preStateRoot
    BY <1>3 DEF AsRecord
  <2> QED
    BY <1>3, <2>1 DEF Claim
<1>4. \/ v = [w EXCEPT !.stackOut = other, !.postStateRoot = hashState(frame.pc, frame.gas, other, w)]
      \/ v = [w EXCEPT !.postStateRoot = hashState(frame.pc + 1, frame.gas, w.stackOut, w)]
      \/ v = [w EXCEPT !.postStateRoot = hashState(frame.pc, frame.gas + 1, w.stackOut, w)]
  BY <1>1 DEF OtherResults
<1> QED
  BY <1>2, <1>3, <1>4

\* The witness and the other results, judged.
LEMMA Judged ==
  ASSUME FrameInv, WitnessInv, witness # NoWitness, NEW v \in {witness} \cup OtherResults(witness)
  PROVE  /\ Verified(witness, before, frame, v) /\ Agreed(witness, frame, v)
         /\ v.op = witness.op /\ (Fits(v) <=> Fits(witness)) /\ (IsTaken(v) <=> IsTaken(witness))
         /\ In(v, 0) = In(witness, 0) /\ (WidePush(v) <=> WidePush(witness))
<1>1. PICK root : Rooted(root) /\ Witnessed(witness, before, frame, code, Instruction.op, Instruction.n, root)
  BY StepWitnessed
<1>2. Claim(witness, frame, witness)
  BY <1>1, OwnClaim
<1>3. witness = AsRecord(witness)
  BY <1>2 DEF Claim
<1>4. Claim(witness, frame, v)
  BY <1>2, <1>3, OtherClaims
<1>5. Verified(witness, before, frame, v) /\ Agreed(witness, frame, v)
  BY <1>1, <1>4, Settled
<1>6. v.op = witness.op
  BY <1>4 DEF Claim
<1> QED
  BY <1>4, <1>5, <1>6, ClaimSame

\* Every witness of a step that ran verifies exactly when it can be replayed, and no
\* other result does, whatever code is replayed and whatever request simulated.
THEOREM WitnessesSound ==
  ASSUME Digests
  PROVE  Spec => []WitnessesVerify
<1>1. FrameInv /\ WitnessInv => WitnessesVerify
  <2> SUFFICES ASSUME FrameInv, WitnessInv, witness # NoWitness
               PROVE  LET Accepted == {w \in {witness} \cup OtherResults(witness) : VerifyWitness(w)}
                      IN  /\ frame.status \notin Exceptional => (witness \in Accepted <=> Replayable(witness))
                          /\ frame.status \in Exceptional /\ witness \in Accepted => before.gas = opGas(witness.op)
                          /\ witness \in Accepted => Accepted = {witness}
    BY DEF WitnessesVerify
  <2>1. \A v \in {witness} \cup OtherResults(witness) : Verified(witness, before, frame, v)
    BY Judged
  <2>2. CanReplay(witness, before, frame) <=> Replayable(witness)
    BY DEF CanReplay, Replayable
  <2>3. /\ frame.status \notin Exceptional => (VerifyWitness(witness) <=> Replayable(witness))
        /\ frame.status \in Exceptional /\ VerifyWitness(witness) => before.gas = opGas(witness.op)
        /\ \A v \in {witness} \cup OtherResults(witness) : VerifyWitness(witness) /\ VerifyWitness(v) => v = witness
    BY <2>1, <2>2 DEF Verified
  <2> QED
    BY <2>3
<1> QED
  BY <1>1, OneStepInvariant, PTL

\* The contract accepts of every witness and of other results what VerifyWitness
\* accepts, and more only where it is listed.
THEOREM ContractSound ==
  ASSUME Digests
  PROVE  Spec => []ContractAgrees
<1>1. FrameInv /\ WitnessInv => ContractAgrees
  <2> SUFFICES ASSUME FrameInv, WitnessInv, witness # NoWitness, NEW w \in {witness} \cup OtherResults(witness)
               PROVE  /\ VerifyWitness(w) => executeOneStep(w)
                      /\ executeOneStep(w) =>
                           \/ VerifyWitness(w)
                           \/ ~Fits(w)
                           \/ w.op = "JUMPI" /\ ~IsTaken(w) /\ ~Narrow(In(w, 0))
                           \/ WidePush(w) /\ frame.status = "overflow"
    BY DEF ContractAgrees
  <2>1. /\ Agreed(witness, frame, w)
        /\ w.op = witness.op /\ (Fits(w) <=> Fits(witness)) /\ (IsTaken(w) <=> IsTaken(witness))
        /\ In(w, 0) = In(witness, 0) /\ (WidePush(w) <=> WidePush(witness))
    BY Judged
  <2> QED
    BY <2>1 DEF Agreed
<1> QED
  BY <1>1, OneStepInvariant, PTL
=============================================================================
