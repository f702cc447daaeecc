----------------------------- MODULE MCOneStep -----------------------------
(***************************************************************************)
(* Words of three limbs of four bits, and six bytes of two; two words of   *)
(* memory.  The operands make the estimates of division take every branch. *)
(***************************************************************************)
EXTENDS OneStep

MCKeccak256(bytes) ==
  FromU64(FoldLeft(LAMBDA sum, b : (7 * sum + b + 1) % Modulus, 5, bytes))

Operands == {0, 1, 2, 3, 5, 6, 11, 12, 15, 16, 17, 255, 256, 2047, 2048, 2049, 2063, 2303, 4095}

Request(op, n, pc, stack, gas) ==
  [op |-> op, n |-> n, pc |-> pc, stack |-> [i \in DOMAIN stack |-> FromU64(stack[i])], gas |-> gas]

\* Arithmetic on all operands, or on those whose sums and products suffice; the
\* other instructions on some, at two places; and stacks at the limit and beyond.
Factors == {0, 1, 15, 255, 2047, 2048, 2063, 2303, 4095}
MCRequests ==
  {Request(op, 0, 0, <<b, a>>, 0) : op \in Binary \ {"EXP"}, a \in Operands, b \in Operands}
    \cup {Request("EXP", 0, 0, <<b, a>>, 1000) : a \in Operands, b \in Operands \cap 0..255}
    \cup {Request(op, 0, 0, <<c, b, a>>, 0) : op \in Ternary, a \in Factors, b \in Factors, c \in Operands}
    \cup {Request(op, 0, 1, <<a>>, gas) : op \in Unary \cup {"MLOAD", "SLOAD", "JUMP"}, a \in Operands,
                                          gas \in {2, 3, 6, 800}}
    \cup {Request(op[1], op[2], 2, s, gas) :
            op \in {<<"MSTORE", 0>>, <<"SSTORE", 0>>, <<"JUMPI", 0>>, <<"PUSH0", 0>>, <<"PUSH", 1>>,
                    <<"PUSH", 3>>, <<"DUP", 1>>, <<"DUP", 2>>, <<"SWAP", 1>>, <<"SWAP", 2>>, <<"LOG", 0>>},
            s \in {<<>>, <<7>>, <<0, 0>>, <<5, 6>>, <<0, 14>>, <<9, 4095>>, <<3, 2, 1>>}, gas \in {2, 3, 6, 5000}}
    \cup {Request(op[1], op[2], 0, s, gas) :
            op \in ({"STOP", "JUMPDEST", "POP", "ADD", "SHL", "EXP", "SSTORE", "JUMPI", "MLOAD", "PC", "PUSH0", "LOG"} \X {0})
                    \cup {<<"PUSH", 1>>, <<"PUSH", 3>>, <<"DUP", 1>>, <<"DUP", 2>>, <<"SWAP", 1>>, <<"SWAP", 2>>, <<"SWAP", 5>>},
            s \in {[i \in 1..k |-> i] : k \in 4..7} \cup {<<1, 2, 3, 0, 0>>}, gas \in {2, 20, 0}}

-----------------------------------------------------------------------------
\* PUSH of as many bytes as x needs.
P(x) ==
  LET n == Max({1, u256ByteLen(FromU64(x))})
      bytes == BytesBE(FromU64(x))
  IN  <<Instr("PUSH", n)>> \o [i \in 1..n |-> Data(bytes[WordBytes - n + i])]
I(op) == <<Instr(op, 0)>>
N(op, n) == <<Instr(op, n)>>

Offsets == {0, 1, 6, 7, 14, 4095}
Sizes == {0, 1, 7, 13}

\* A store, another access, and a load of what is there then.
MemoryPrograms ==
  {P(v) \o P(off) \o I("MSTORE") \o second \o P(0) \o I("MLOAD") :
     v \in {0, 2303}, off \in Offsets,
     second \in {P(17) \o P(o) \o I(op) : o \in Offsets, op \in {"MSTORE", "MSTORE8"}}
                  \cup {P(o) \o I("MLOAD") : o \in Offsets}
                  \cup {P(n) \o P(o) \o I(op) : n \in Sizes, o \in Offsets, op \in {"KECCAK256", "REVERT"}}}
    \cup {P(o) \o I("MLOAD") \o I("MSIZE") \o P(o) \o I("MSTORE") : o \in Offsets}

StoragePrograms ==
  {P(u) \o P(7) \o I("SSTORE") \o P(v) \o P(k) \o I("SSTORE") \o P(7) \o I("SLOAD") :
     u \in {0, 17}, v \in {0, 17, 255}, k \in {7, 9}}

\* The byte behind the second PUSH reads as a JUMPDEST, and is none.
Jumps(dest) ==
  {I("JUMPDEST") \o P(cond) \o dest \o I("JUMPI") \o N("PUSH", 1)
     \o <<[op |-> "JUMPDEST", n |-> 0, byte |-> 3]>> \o I("JUMPDEST") \o I("PC") \o I("JUMP") : cond \in {0, 1}}
    \cup {dest \o I("JUMP") \o N("PUSH", 1) \o <<[op |-> "JUMPDEST", n |-> 0, byte |-> 3]>>
            \o I("JUMPDEST") \o I("STOP")}
JumpPrograms == UNION {Jumps(P(d)) : d \in 0..15 \cup {4095}}

\* Items up to the limit and beyond, and what finds too few.
StackPrograms ==
  {I("PUSH0") \o I("GAS") \o I("PUSH0") \o rest : rest \in
     {I("PUSH0") \o last : last \in {I("PUSH0"), P(5), P(0), N("DUP", 1), N("DUP", 3), N("SWAP", 3), I("PC"), I("MSIZE")}}
       \cup {I("POP") \o I("POP") \o last : last \in {I("ADD"), I("POP"), N("DUP", 2), N("SWAP", 1), I("MSTORE"),
                                                    I("NOT") \o I("INVALID")}}}
    \cup {N("PUSH", 6) \o <<Data(1)>>, I("ADDMOD"), I("SLOAD"), I("JUMPDEST") \o I("REVERT")}
    \cup {P(0) \o P(0) \o I("PUSH0") \o P(top) \o P(v) : top \in {3, 2303}, v \in {3, 17}}

MCPrograms == MemoryPrograms \cup StoragePrograms \cup JumpPrograms \cup StackPrograms
=============================================================================
