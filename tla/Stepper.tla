------------------------------ MODULE Stepper ------------------------------
(***************************************************************************)
(* pkg/c2evm: StepOne, one instruction of an execution frame.              *)
(*                                                                         *)
(* A code is a sequence of bytes; a byte is read as an instruction, op     *)
(* with its number n (of PUSHn, DUPn, SWAPn), or as a number, byte, when a *)
(* PUSH takes it.  Stacks are sequences with the top at the end.           *)
(***************************************************************************)
EXTENDS Evm256, SequencesExt

CONSTANTS
  stackMax,          \* 1024
  memMax,            \* 65536
  MaxUint32,         \* 2^32 - 1
  Keccak256(_)       \* the digest of a sequence of bytes, a word

ASSUME FrameAssumption ==
  /\ stackMax \in Nat \ (0..3)
  /\ memMax \in Nat \ {0} /\ memMax % WordBytes = 0
  /\ MaxUint32 \in Nat /\ memMax <= MaxUint32 /\ MaxUint32 < Limb

Exceptional == {"underflow", "overflow", "oog", "invalid", "jumpdest"}

\* StateDB at address zero: on is FALSE for nil, slots has the nonzero values.
NoDB == [on |-> FALSE, slots |-> <<>>]
Slot(db, key) == IF key \in DOMAIN db.slots THEN db.slots[key] ELSE Zero
Stored(db, key, val) ==
  [db EXCEPT !.slots = IF val = Zero THEN Restrict(db.slots, DOMAIN db.slots \ {key})
                       ELSE [k \in DOMAIN db.slots \cup {key} |-> IF k = key THEN val ELSE db.slots[k]]]

Reset(gas, db) ==
  [stack |-> <<>>, pc |-> 0, gas |-> gas, refund |-> 0, status |-> "running",
   memory |-> [i \in 0..(memMax - 1) |-> 0], memSize |-> 0, retOff |-> 0, retSize |-> 0, db |-> db]

-----------------------------------------------------------------------------
Unary == {"ISZERO", "NOT"}
Binary == {"ADD", "MUL", "SUB", "DIV", "SDIV", "MOD", "SMOD", "EXP", "SIGNEXTEND", "LT", "GT", "SLT",
           "SGT", "EQ", "AND", "OR", "XOR", "BYTE", "SHL", "SHR", "SAR"}
Ternary == {"ADDMOD", "MULMOD"}
Invalid == -1

keccakGas == 30
sloadGas == 800
sstoreGas == 5000

opGas(op) ==
  CASE op \in {"STOP", "REVERT"} -> 0
    [] op = "JUMPDEST" -> 1
    [] op \in {"POP", "PC", "MSIZE", "GAS", "PUSH0"} -> 2
    [] op \in {"MUL", "DIV", "SDIV", "MOD", "SMOD", "SIGNEXTEND"} -> 5
    [] op \in {"ADDMOD", "MULMOD", "JUMP"} -> 8
    [] op \in {"EXP", "JUMPI"} -> 10
    [] op = "KECCAK256" -> keccakGas
    [] op = "SLOAD" -> sloadGas
    [] op = "SSTORE" -> sstoreGas
    [] op \in {"ADD", "SUB", "LT", "GT", "SLT", "SGT", "EQ", "ISZERO", "AND", "OR", "XOR", "NOT", "BYTE", "SHL",
               "SHR", "SAR", "MLOAD", "MSTORE", "MSTORE8", "PUSH", "DUP", "SWAP"} -> 3
    [] OTHER -> Invalid

haltEx(f, st) == [f EXCEPT !.status = st, !.gas = 0]

\* An instruction that takes n items, and one that adds an item, unless it cannot.
Requiring(f, n, then) == IF Len(f.stack) < n THEN haltEx(f, "underflow") ELSE then
WithRoom(f, then) == IF Len(f.stack) >= stackMax THEN haltEx(f, "overflow") ELSE then

Top(f, i) == f.stack[Len(f.stack) - i]
\* f with the uppermost n items replaced.
Put(f, n, items) == [f EXCEPT !.stack = SubSeq(f.stack, 1, Len(f.stack) - n) \o items]

\* A word that fits into 64 bits, and the number it is then.
FitsU64(x) == \A i \in Index \ {0} : x[i] = 0
u256AsU64(x, otherwise) == IF FitsU64(x) THEN x[0] ELSE otherwise
u256ByteLen(x) == Length([k \in 0..(WordBytes - 1) |-> BytesBE(x)[WordBytes - k]], WordBytes)

Words(size) == (size + WordBytes - 1) \div WordBytes
memGas(words) == 3 * words + (words * words) \div 512

\* Memory grows by words, and is paid for before it is touched.
chargeMem(f, offset, size) ==
  LET end == (offset + size) % Limb
      newSize == Words(end) * WordBytes
      delta == memGas(Words(end)) - memGas(Words(f.memSize))
  IN  IF size = 0 THEN f
      ELSE IF offset >= memMax \/ size > memMax - offset \/ newSize > memMax THEN haltEx(f, "oog")
      ELSE IF newSize <= f.memSize THEN f
      ELSE IF delta < 0 \/ f.gas < delta THEN haltEx(f, "oog")
      ELSE [f EXCEPT !.gas = f.gas - delta, !.memSize = newSize]

\* A range whose ends, taken from the stack, must fit 64 bits.
Charged(f, offset, size) ==
  IF FitsU64(offset) /\ FitsU64(size) THEN chargeMem(f, offset[0], size[0]) ELSE haltEx(f, "oog")

Read(f, offset, size) == [i \in 1..size |-> f.memory[offset + i - 1]]
Written(f, offset, bytes) ==
  [f EXCEPT !.memory = [i \in 0..(memMax - 1) |->
     IF i - offset \in 0..(Len(bytes) - 1) THEN bytes[i - offset + 1] ELSE f.memory[i]]]

-----------------------------------------------------------------------------
\* The instructions there are, and what else a byte is read as.
Known ==
  Unary \cup Binary \cup Ternary \cup
    {"STOP", "REVERT", "JUMPDEST", "POP", "PC", "MSIZE", "GAS", "PUSH0", "JUMP", "JUMPI", "KECCAK256",
     "SLOAD", "SSTORE", "MLOAD", "MSTORE", "MSTORE8", "PUSH", "DUP", "SWAP"}
Unknown == {"LOG", "INVALID", "DATA"}

\* A byte of a code: PUSH is followed by a word's bytes at most, and DUP and SWAP
\* reach at least the first item; the others have no number.
Instructions ==
  {at \in [op : Known \cup Unknown, n : Nat, byte : 0..(Byte - 1)] :
     /\ at.op = "PUSH" => at.n \in 1..WordBytes
     /\ at.op \in {"DUP", "SWAP"} => at.n >= 1
     /\ at.op \notin {"PUSH", "DUP", "SWAP"} => at.n = 0}

\* The instruction at position i; the bytes of a PUSH are no instructions.
After(code, i) == i + 1 + (IF code[i + 1].op = "PUSH" THEN code[i + 1].n ELSE 0)
Positions(code) ==
  LET pos[k \in 0..Len(code)] ==
        IF k = 0 THEN 0 ELSE LET i == pos[k - 1] IN IF i >= Len(code) THEN i ELSE After(code, i)
  IN  pos
Starts(code) == {Positions(code)[k] : k \in 0..Len(code)}

\* Mutant of jumpdestOK: the bytes before dest are not looked at.
jumpdestAnywhere(code, dest) == dest < Len(code) /\ code[dest + 1].op = "JUMPDEST"

jumpdestOK(code, dest) ==
  dest < Len(code) /\ code[dest + 1].op = "JUMPDEST" /\ dest \in Starts(code)

JumpTo(f, code, dest) ==
  IF FitsU64(dest) /\ dest[0] <= MaxUint32 /\ jumpdestOK(code, dest[0])
  THEN [f EXCEPT !.pc = dest[0]]
  ELSE haltEx(f, "jumpdest")

execPush(f, code, n) ==
  LET Taken(i) == IF f.pc + i <= Len(code) THEN code[f.pc + i].byte ELSE 0
      bytes == [p \in 1..WordBytes |-> IF p > WordBytes - n THEN Taken(p - (WordBytes - n)) ELSE 0]
  IN  WithRoom(f, [Put(f, 0, <<FromBytesBE(bytes)>>) EXCEPT !.pc = f.pc + n])

Calculate(op, a, b, c) ==
  CASE op = "ADD" -> Add256(a, b)
    [] op = "MUL" -> Mul256(a, b)
    [] op = "SUB" -> Sub256(a, b)
    [] op = "DIV" -> Div256(a, b)
    [] op = "SDIV" -> SDiv256(a, b)
    [] op = "MOD" -> Mod256(a, b)
    [] op = "SMOD" -> SMod256(a, b)
    [] op = "ADDMOD" -> AddMod256(a, b, c)
    [] op = "MULMOD" -> MulMod256(a, b, c)
    [] op = "EXP" -> Exp256(a, b)
    [] op = "SIGNEXTEND" -> SignExtend256(u256AsU64(a, WordBytes - 1), b)
    [] op = "LT" -> FromU64(Bool(Lt256(a, b)))
    [] op = "GT" -> FromU64(Bool(Gt256(a, b)))
    [] op = "SLT" -> FromU64(Bool(Slt256(a, b)))
    [] op = "SGT" -> FromU64(Bool(Sgt256(a, b)))
    [] op = "EQ" -> FromU64(Bool(Eq(a, b)))
    [] op = "ISZERO" -> FromU64(Bool(IsZero(a)))
    [] op = "AND" -> And256(a, b)
    [] op = "OR" -> Or256(a, b)
    [] op = "XOR" -> Xor256(a, b)
    [] op = "NOT" -> Not256(a)
    [] op = "BYTE" -> Byte256(u256AsU64(a, WordBytes), b)
    [] op = "SHL" -> Shl256(a, b)
    [] op = "SHR" -> Shr256(a, b)
    [] op = "SAR" -> Sar256(a, b)

\* EXP pays for the exponent's bytes, KECCAK256 for the words it reads.
Extra(f, gas, then) == IF f.gas < gas THEN haltEx(f, "oog") ELSE then

execMemory(op, f) ==
  LET off == Top(f, 0)
      size == CASE op \in {"MLOAD", "MSTORE"} -> FromU64(WordBytes)
                [] op = "MSTORE8" -> FromU64(1)
                [] OTHER -> Top(f, 1)
      g == Charged(f, off, size)
      hash == 6 * Words(size[0])
  IN  IF g.status # "running" THEN g
      ELSE CASE op = "MLOAD" -> Put(g, 1, <<FromBytesBE(Read(g, off[0], WordBytes))>>)
             [] op = "MSTORE" -> Put(Written(g, off[0], BytesBE(Top(f, 1))), 2, <<>>)
             [] op = "MSTORE8" -> Put(Written(g, off[0], <<Top(f, 1)[0] % Byte>>), 2, <<>>)
             [] op = "KECCAK256" ->
                  Extra(g, hash, [Put(g, 2, <<Keccak256(Read(g, off[0], size[0]))>>)
                                    EXCEPT !.gas = g.gas - hash])
             [] op = "REVERT" ->
                  [Put(g, 2, <<>>) EXCEPT !.status = "revert", !.retOff = off[0] % (MaxUint32 + 1),
                                          !.retSize = size[0] % (MaxUint32 + 1)]

\* 15000 are refunded for a slot that is cleared.
execStorage(op, f) ==
  LET key == Top(f, 0)
      val == Top(f, 1)
  IN  IF op = "SLOAD" THEN Put(f, 1, <<Slot(f.db, key)>>)
      ELSE IF ~f.db.on THEN Put(f, 2, <<>>)
      ELSE [Put(f, 2, <<>>) EXCEPT
              !.db = Stored(f.db, key, val),
              !.refund = f.refund + (IF Slot(f.db, key) # Zero /\ val = Zero THEN 15000 ELSE 0)]

\* The items an instruction takes, where it takes any.
Takes(op, n) ==
  CASE op \in Unary \cup {"POP", "MLOAD", "SLOAD", "JUMP"} -> 1
    [] op \in Binary \cup {"MSTORE", "MSTORE8", "SSTORE", "JUMPI", "KECCAK256", "REVERT"} -> 2
    [] op \in Ternary -> 3
    [] op = "DUP" -> n
    [] op = "SWAP" -> n + 1
    [] OTHER -> 0

\* The switch of StepOne; the gas is paid and pc has moved on.
execute(op, n, f, code) ==
  LET size == Len(f.stack)
      exp == IF op = "EXP" THEN 50 * u256ByteLen(Top(f, 1)) ELSE 0
  IN  CASE op = "STOP" -> [f EXCEPT !.status = "success"]
        [] op = "JUMPDEST" -> f
        [] op = "POP" -> Put(f, 1, <<>>)
        [] op \in Unary \cup Binary \cup Ternary ->
             Extra(f, exp, [Put(f, Takes(op, n), <<Calculate(op, Top(f, 0), Top(f, 1), Top(f, 2))>>)
                              EXCEPT !.gas = f.gas - exp])
        [] op \in {"MLOAD", "MSTORE", "MSTORE8", "KECCAK256", "REVERT"} -> execMemory(op, f)
        [] op \in {"SLOAD", "SSTORE"} -> execStorage(op, f)
        [] op = "JUMP" ->
             LET g == JumpTo(f, code, Top(f, 0)) IN IF g.status = "running" THEN Put(g, 1, <<>>) ELSE g
        [] op = "JUMPI" ->
             LET g == IF IsZero(Top(f, 1)) THEN f ELSE JumpTo(f, code, Top(f, 0))
             IN  IF g.status = "running" THEN Put(g, 2, <<>>) ELSE g
        [] op = "PC" -> WithRoom(f, Put(f, 0, <<FromU64(f.pc - 1)>>))
        [] op = "MSIZE" -> WithRoom(f, Put(f, 0, <<FromU64(f.memSize)>>))
        [] op = "GAS" -> WithRoom(f, Put(f, 0, <<FromU64(f.gas)>>))
        [] op = "PUSH0" -> WithRoom(f, Put(f, 0, <<Zero>>))
        [] op = "PUSH" -> execPush(f, code, n)
        [] op = "DUP" -> WithRoom(f, Put(f, 0, <<Top(f, n - 1)>>))
        [] op = "SWAP" ->
             [f EXCEPT !.stack = [f.stack EXCEPT ![size] = f.stack[size - n], ![size - n] = f.stack[size]]]

StepOne(f, code) ==
  LET at == code[f.pc + 1]
      cost == opGas(at.op)
      paid == [f EXCEPT !.gas = f.gas - cost, !.pc = f.pc + 1]
  IN  IF f.status # "running" THEN f
      ELSE IF f.pc >= Len(code) THEN [f EXCEPT !.status = "success"]
      ELSE IF cost = Invalid THEN haltEx(f, "invalid")
      ELSE IF f.gas < cost THEN haltEx(f, "oog")
      ELSE Requiring(paid, Takes(at.op, at.n), execute(at.op, at.n, paid, code))
=============================================================================
