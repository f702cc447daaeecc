------------------------------ MODULE OneStep ------------------------------
(***************************************************************************)
(* Witnesses of single steps: pkg/onestep captures one from the frames     *)
(* before and after a step and verifies it by replaying the step from what *)
(* it holds; contracts/OneStepEVM.sol verifies it on its own.  Steps come  *)
(* from CaptureStepWitnesses (pkg/c2torture), which runs a code, and from  *)
(* executeSimulate (pkg/c2web), which sets up a frame for one instruction. *)
(*                                                                         *)
(* A state root is what it is the digest of.  A proof of storage is the    *)
(* contents it was made from: module StateRoot shows that it verifies      *)
(* exactly for the values these have.                                      *)
(***************************************************************************)
EXTENDS Stepper

CONSTANTS
  maxReplayCode,     \* 2^20
  maxWitnessSteps,   \* 4096
  witnessGas,        \* 8000000
  Programs,          \* the codes CaptureStepWitnesses is called with
  Gases,             \* and the gas
  Requests           \* of executeSimulate: opcode, n, pc, stack and gas

ASSUME ReplayAssumption ==
  maxReplayCode \in Nat /\ maxWitnessSteps \in Nat /\ witnessGas \in Nat /\ Gases \subseteq Nat

\* A request's stack may have any length.
ASSUME InputAssumption ==
  /\ Programs \subseteq Seq(Instructions)
  /\ \A req \in Requests :
       /\ [op |-> req.op, n |-> req.n, byte |-> 0] \in Instructions
       /\ req.pc \in Nat /\ req.gas \in Nat
       /\ req.stack \in Seq(Word)

VARIABLES
  phase,             \* "idle", "replaying", "done", "panicked"
  code,
  frame,             \* the frame after the last step
  before,            \* and before it
  witness,           \* of the last step
  steps

vars == <<phase, code, frame, before, witness, steps>>

NoWitness == [op |-> "none"]

-----------------------------------------------------------------------------
Plain == {"ADD", "MUL", "SUB", "DIV", "AND", "OR", "XOR", "SHL", "SHR"}

opcodeSupported(op, n) ==
  \/ op \in Plain \cup {"MLOAD", "MSTORE", "SLOAD", "SSTORE", "JUMP", "JUMPI", "PUSH0", "PUSH"}
  \/ op \in {"DUP", "SWAP"} /\ n <= 3

inArity(op, n) == Takes(op, n)
outArity(op, n) ==
  CASE op \in Plain \cup {"MLOAD", "SLOAD", "PUSH0", "PUSH"} -> 1
    [] op \in {"DUP", "SWAP"} -> n + 1
    [] OTHER -> 0

\* The n uppermost items, the deepest first, in a window of four.
copyStackWindow(f, n) ==
  LET k == Min({n, 4, Len(f.stack)})
  IN  [i \in 1..4 |-> IF i <= k THEN f.stack[Len(f.stack) - k + i] ELSE Zero]

NoData == [i \in 1..WordBytes |-> 0]

\* What MLOAD reads and MSTORE has written; a PUSH's word.
extractMem(op, pre, post) ==
  LET off == pre.stack[Len(pre.stack)]
      near == FitsU64(off) /\ off[0] <= memMax - WordBytes
  IN  CASE op = "MLOAD" /\ near -> [offset |-> off[0], data |-> Read(pre, off[0], WordBytes)]
        [] op = "MSTORE" /\ near -> [offset |-> off[0], data |-> Read(post, off[0], WordBytes)]
        [] op = "PUSH" /\ post.stack # <<>> -> [offset |-> 0, data |-> BytesBE(Top(post, 0))]
        [] OTHER -> [offset |-> 0, data |-> NoData]

extractStor(op, pre, post) ==
  CASE op = "SLOAD" -> [key |-> Top(pre, 0), val |-> Top(post, 0)]
    [] op = "SSTORE" -> [key |-> Top(pre, 0), val |-> Top(pre, 1)]
    [] OTHER -> [key |-> Zero, val |-> Zero]

hashState(pc, gas, stack, w) ==
  <<pc, gas, stack, w.memOffset, w.memData, w.storageRoot, w.storageKey, w.storageVal>>

\* A storage root; none is all zeros.
NoRoot == [some |-> FALSE, slots |-> <<>>]
RootOf(slots) == [some |-> TRUE, slots |-> slots]

\* CaptureWitness, and CaptureWitnessWithStorage for the root of a trie: only loads
\* and stores get it, and a proof.
CaptureWitness(pre, post, op, n, root) ==
  LET mem == extractMem(op, pre, post)
      stor == extractStor(op, pre, post)
      joined == op \in {"SLOAD", "SSTORE"} /\ root.some
      in == copyStackWindow(pre, inArity(op, n))
      out == copyStackWindow(post, outArity(op, n))
      w == [pc |-> pre.pc, op |-> op, n |-> n, gas |-> pre.gas, stackIn |-> in, stackOut |-> out,
            memOffset |-> mem.offset, memData |-> mem.data,
            storageKey |-> stor.key, storageVal |-> stor.val,
            storageRoot |-> IF joined THEN root ELSE NoRoot,
            storageProof |-> IF joined THEN <<root.slots>> ELSE <<>>,
            preStateRoot |-> <<>>, postStateRoot |-> <<>>]
  IN  IF ~opcodeSupported(op, n) \/ Len(pre.stack) < inArity(op, n) THEN NoWitness
      ELSE [w EXCEPT !.preStateRoot = hashState(pre.pc, pre.gas, in, w),
                     !.postStateRoot = hashState(post.pc, post.gas, out, w)]

\* The words of a window by their depth: the top is the last that the step takes.
In(w, depth) == w.stackIn[inArity(w.op, w.n) - depth]

-----------------------------------------------------------------------------
\* VerifyWitness.
Instr(op, n) == [op |-> op, n |-> n, byte |-> 0]
Data(b) == [op |-> "DATA", n |-> 0, byte |-> b]

IsJump(w) == w.op \in {"JUMP", "JUMPI"}
IsTaken(w) == w.op = "JUMP" \/ (w.op = "JUMPI" /\ ~IsZero(In(w, 1)))
Narrow(dest) == FitsU64(dest) /\ dest[0] <= MaxUint32

\* How far the code must reach: over a PUSH's bytes, and where a jump that is taken
\* leads.
npush(w) == IF w.op = "PUSH" THEN w.n ELSE 0
CodeEnd(w) ==
  LET next == w.pc + 1 + npush(w)
      dest == In(w, 0)[0]
  IN  IF IsTaken(w) /\ dest + 1 > next THEN dest + 1 ELSE next
Fits(w) == CodeEnd(w) <= maxReplayCode

\* The code with the instruction alone: zeros before it, a PUSH's bytes behind it,
\* and a JUMPDEST where a jump that is taken leads.  Empty when it is refused.
reconstructCode(w) ==
  LET dest == In(w, 0)[0]
  IN  IF (IsJump(w) /\ ~Narrow(In(w, 0))) \/ ~Fits(w) THEN <<>>
      ELSE [i \in 1..CodeEnd(w) |->
              CASE IsTaken(w) /\ dest # w.pc /\ i = dest + 1 -> Instr("JUMPDEST", 0)
                [] i = w.pc + 1 -> Instr(w.op, w.n)
                [] i \in (w.pc + 2)..(w.pc + 1 + npush(w)) ->
                     Data(w.memData[WordBytes - npush(w) + i - w.pc - 1])
                [] OTHER -> Instr("STOP", 0)]

\* The frame with what the step takes: the memory is as large as a load needs, and
\* empty for a store.
reconstructFrame(w) ==
  LET n == inArity(w.op, w.n)
      f == [Reset(w.gas, [on |-> w.op \in {"SLOAD", "SSTORE"}, slots |-> <<>>])
              EXCEPT !.pc = w.pc, !.stack = SubSeq(w.stackIn, 1, n)]
  IN  CASE w.op = "MLOAD" ->
             [Written(f, w.memOffset, w.memData)
                EXCEPT !.memSize = Words(w.memOffset + WordBytes) * WordBytes]
        [] w.op = "SLOAD" -> [f EXCEPT !.db = Stored(f.db, w.storageKey, w.storageVal)]
        [] OTHER -> f

VerifyStorageProof(w) ==
  LET held == RootOf(w.storageProof[1]) IN
  w.storageRoot = held /\ Slot(held, w.storageKey) = w.storageVal

StorageShown(w) ==
  IF w.storageProof = <<>> THEN ~w.storageRoot.some ELSE w.storageRoot.some /\ VerifyStorageProof(w)

\* Mutant of VerifyWitness: the stack that comes out is taken from the witness.
VerifyTrusting(w) ==
  LET Ends(f) == /\ f.status \in {"running", "success"}
                 /\ w.postStateRoot = hashState(f.pc, f.gas, w.stackOut, w)
  IN  /\ opcodeSupported(w.op, w.n)
      /\ w.preStateRoot = hashState(w.pc, w.gas, w.stackIn, w)
      /\ reconstructCode(w) # <<>>
      /\ Ends(StepOne(reconstructFrame(w), reconstructCode(w)))
      /\ w.op \in {"SLOAD", "SSTORE"} => StorageShown(w)

VerifyWitness(w) ==
  LET Ends(f) == /\ f.status \in {"running", "success"}
                 /\ w.stackOut = copyStackWindow(f, outArity(w.op, w.n))
                 /\ w.op = "SSTORE" => In(w, 0) = w.storageKey /\ In(w, 1) = w.storageVal
                 /\ w.postStateRoot = hashState(f.pc, f.gas, w.stackOut, w)
  IN  /\ opcodeSupported(w.op, w.n)
      /\ w.preStateRoot = hashState(w.pc, w.gas, w.stackIn, w)
      /\ reconstructCode(w) # <<>>
      /\ w.op = "MLOAD" => w.memOffset <= memMax - WordBytes
      /\ Ends(StepOne(reconstructFrame(w), reconstructCode(w)))
      /\ w.op \in {"SLOAD", "SSTORE"} => StorageShown(w)

-----------------------------------------------------------------------------
\* Mutant of solChargeMem: an aligned store is thought to be free.
solChargeAligned(gas, memSize, offset) ==
  IF offset % WordBytes = 0 THEN gas ELSE gas - memGas(Words(offset + WordBytes)) + memGas(Words(memSize))

\* OneStepEVM.sol.  Arithmetic is the host's, on numbers.
solChargeMem(gas, memSize, offset) ==
  LET words == Words(offset + WordBytes)
      delta == memGas(words) - memGas(Words(memSize))
  IN  IF words * WordBytes <= memSize THEN gas ELSE gas - delta

Refused == [ok |-> FALSE, pc |-> 0, gas |-> 0, stack |-> <<>>, mem |-> NoData]

\* What _exec answers for a step it can do, from the gas left and the next pc.
solExec(w) ==
  LET gas == w.gas - opGas(w.op)
      mem == IF w.op = "MLOAD" THEN solChargeMem(gas, w.memOffset + WordBytes, w.memOffset)
             ELSE solChargeMem(gas, 0, w.memOffset)
      Out(words, pc, left, data) ==
        [ok |-> TRUE, pc |-> pc, gas |-> left, mem |-> data,
         stack |-> [i \in 1..4 |-> IF i <= Len(words) THEN words[i] ELSE Zero]]
      Done(words) == Out(words, w.pc + 1, gas, w.memData)
      If(ok, answer) == IF ok THEN answer ELSE Refused
      k == w.n + 1
  IN  If(opcodeSupported(w.op, w.n) /\ gas >= 0,
        CASE w.op \in Plain ->
               Done(<<FromU64(Meaning(w.op, Value(w.stackIn[2]), Value(w.stackIn[1]), 0))>>)
          [] w.op = "MLOAD" ->
               If(mem >= 0 /\ FromU64(w.memOffset) = w.stackIn[1],
                  Out(<<FromBytesBE(w.memData)>>, w.pc + 1, mem, w.memData))
          [] w.op = "MSTORE" ->
               If(mem >= 0 /\ FromU64(w.memOffset) = w.stackIn[2],
                  Out(<<>>, w.pc + 1, mem, BytesBE(w.stackIn[1])))
          [] w.op = "SLOAD" -> If(StorageShown(w) /\ w.stackIn[1] = w.storageKey, Done(<<w.storageVal>>))
          [] w.op = "SSTORE" ->
               If(StorageShown(w) /\ w.stackIn[2] = w.storageKey /\ w.stackIn[1] = w.storageVal, Done(<<>>))
          [] w.op = "JUMP" -> If(Narrow(w.stackIn[1]), Out(<<>>, w.stackIn[1][0], gas, w.memData))
          [] w.op = "JUMPI" ->
               IF IsZero(w.stackIn[1]) THEN Done(<<>>)
               ELSE If(Narrow(w.stackIn[2]), Out(<<>>, w.stackIn[2][0], gas, w.memData))
          [] w.op \in {"PUSH0", "PUSH"} ->
               Out(<<FromBytesBE(w.memData)>>, w.pc + 1 + w.n, gas, w.memData)
          [] w.op = "DUP" -> Done(Append(SubSeq(w.stackIn, 1, w.n), w.stackIn[1]))
          [] w.op = "SWAP" ->
               Done([SubSeq(w.stackIn, 1, k) EXCEPT ![k] = w.stackIn[1], ![1] = w.stackIn[k]]))

executeOneStep(w) ==
  LET out == solExec(w)
  IN  /\ w.preStateRoot = hashState(w.pc, w.gas, w.stackIn, w)
      /\ out.ok
      /\ out.stack = w.stackOut
      /\ w.postStateRoot = hashState(out.pc, out.gas, out.stack, [w EXCEPT !.memData = out.mem])

-----------------------------------------------------------------------------
Init ==
  /\ phase = "idle"
  /\ code = <<>>
  /\ frame = Reset(0, NoDB) /\ before = frame
  /\ witness = NoWitness
  /\ steps = 0

\* CaptureStepWitnesses; the frame's StateDB is a trie, empty at first, or nil.
CaptureStepWitnesses(prog, gas, db) ==
  /\ phase = "idle"
  /\ phase' = "replaying"
  /\ code' = prog
  /\ frame' = Reset(IF gas = 0 THEN witnessGas ELSE gas, db) /\ before' = frame'
  /\ UNCHANGED <<witness, steps>>

\* Its loop: a step and the witness of it, also when the step has halted.  Its witness
\* has no storage root; with one it is CaptureWitnessWithStorage's of the same two
\* frames, for the trie as it was before the step or is after it.
Iterate ==
  LET at == code[frame.pc + 1]
      roots == {NoRoot} \cup {RootOf(f.db.slots) : f \in {g \in {frame, frame'} : g.db.on}}
  IN  /\ phase = "replaying"
      /\ frame.status = "running" /\ steps < maxWitnessSteps
      /\ frame.pc < Len(code)
      /\ steps' = steps + 1
      /\ before' = frame /\ frame' = StepOne(frame, code)
      /\ \E root \in roots : witness' = CaptureWitness(frame, frame', at.op, at.n, root)
      /\ UNCHANGED <<phase, code>>

\* executeSimulate's frame: the request's stack has the top last, or first for SHL,
\* SHR, DUP1, SWAP1 and PUSH1, whose first item is what is pushed.  As many items are
\* copied as the frame's array has; SP is set to the number there are.
SimStack(op, n, stack) ==
  LET pair == <<stack[2], stack[1]>>
  IN  CASE op \in {"SHL", "SHR"} \/ (op = "SWAP" /\ n = 1) -> pair
        [] op = "DUP" /\ n = 1 -> IF Len(stack) >= 2 THEN pair ELSE SubSeq(stack, 1, 1)
        [] op = "PUSH" /\ n = 1 ->
             [i \in 1..(Len(stack) - 1) |-> IF Len(stack) - i < stackMax THEN stack[Len(stack) - i + 1] ELSE Zero]
        [] OTHER -> stack
SimEnough(op, n, stack) ==
  /\ op \in Plain \/ (op = "SWAP" /\ n <= 2) => Len(stack) >= 2
  /\ op = "DUP" /\ n <= 2 => Len(stack) >= 1
SimCode(op, n, pc, stack) ==
  LET first == IF stack = <<>> THEN Zero ELSE stack[1]
      Pushed(k) == IF n = 1 THEN first[0] % Byte ELSE k % Byte
  IN  [i \in 1..(pc + WordBytes + 2) |->
         CASE i = pc + 1 -> Instr(op, n)
           [] op = "PUSH" /\ i \in (pc + 2)..(pc + 1 + n) -> Data(Pushed(i - pc - 1))
           [] OTHER -> Instr("STOP", 0)]

SimFrame(req) ==
  [Reset(IF req.gas = 0 THEN 100000 ELSE req.gas, NoDB)
     EXCEPT !.pc = req.pc, !.stack = SimStack(req.op, req.n, req.stack)]

\* An index beyond the array of a frame with too many items: in the step, or when
\* its witness is captured.  POP only lowers SP and DUP finds no room; EXP looks at
\* the second item first, and may be out of gas then.
IndexesBeyond(f, op, n) ==
  LET left == f.gas - opGas(op)
      second == Len(f.stack) - 1
  IN  /\ Len(f.stack) > stackMax
      /\ opGas(op) # Invalid /\ left >= 0
      /\ Takes(op, n) \in 1..Len(f.stack) /\ op \notin {"POP", "DUP"}
      /\ op = "EXP" => second > stackMax \/ left >= 50 * u256ByteLen(f.stack[second])
SimPanics(req) ==
  \/ req.op = "PUSH" /\ req.n = 1 /\ Len(req.stack) > stackMax + 1
  \/ IndexesBeyond(SimFrame(req), req.op, req.n)

\* The whole call; a step that halts is answered with an error.
executeSimulate(req) ==
  LET pre == SimFrame(req)
  IN  /\ phase = "idle"
      /\ SimEnough(req.op, req.n, req.stack)
      /\ ~SimPanics(req)
      /\ phase' = "done"
      /\ code' = SimCode(req.op, req.n, req.pc, req.stack)
      /\ before' = pre /\ frame' = StepOne(pre, code')
      /\ witness' = IF frame'.status \in {"running", "success"}
                    THEN CaptureWitness(pre, frame', req.op, req.n, NoRoot) ELSE NoWitness
      /\ UNCHANGED steps

\* A call that panics: its frames are lost and nothing is answered.
SimulatePanics(req) ==
  /\ phase = "idle"
  /\ SimEnough(req.op, req.n, req.stack)
  /\ SimPanics(req)
  /\ phase' = "panicked"
  /\ UNCHANGED <<code, frame, before, witness, steps>>

Next ==
  \/ \E prog \in Programs, gas \in Gases, db \in {NoDB, [NoDB EXCEPT !.on = TRUE]} :
       CaptureStepWitnesses(prog, gas, db)
  \/ Iterate
  \/ \E req \in Requests : executeSimulate(req) \/ SimulatePanics(req)

Spec == Init /\ [][Next]_vars

-----------------------------------------------------------------------------
\* The instruction of the last step.
Instruction == code[before.pc + 1]
Stepped == phase # "idle" /\ frame # before

\* Every arithmetic instruction leaves what it means on numbers: in particular the
\* limbs of a quotient are right however far the estimates are off, and carries,
\* signs and shifts cross limbs.
ArithmeticExact ==
  Stepped /\ frame.status = "running" /\ Instruction.op \in Unary \cup Binary \cup Ternary =>
    LET n == Takes(Instruction.op, 0)
        Arg(i) == IF i < n THEN Value(Top(before, i)) ELSE 0
    IN  /\ Value(Top(frame, 0)) = Meaning(Instruction.op, Arg(0), Arg(1), Arg(2))
        /\ Len(frame.stack) = Len(before.stack) - n + 1

\* The memory an instruction reads or writes: where it begins and how long it is.
MemoryUsers == {"MLOAD", "MSTORE", "MSTORE8", "KECCAK256", "REVERT"}
RangeUsed(op, f) ==
  <<Value(Top(f, 0)),
    CASE op \in {"MLOAD", "MSTORE"} -> WordBytes
      [] op = "MSTORE8" -> 1
      [] OTHER -> Value(Top(f, 1))>>

\* A frame that runs is at an instruction, never inside the bytes of a PUSH; its
\* memory is whole words and blank where it has not been paid for, and has been paid
\* for as far as the last step used it.  The stack exceeds its limit only where a
\* request did, and then there is no witness.
FramesStaySound ==
  /\ phase # "idle" /\ frame.status = "running" /\ frame.pc < Len(code) =>
       phase \in {"done", "panicked"} \/ frame.pc \in Starts(code)
  /\ frame.memSize % WordBytes = 0
  /\ \A i \in frame.memSize..(memMax - 1) : frame.memory[i] = 0
  /\ Stepped /\ frame.status \notin Exceptional /\ Instruction.op \in MemoryUsers =>
       LET used == RangeUsed(Instruction.op, before)
       IN  used[2] = 0 \/ used[1] + used[2] <= frame.memSize
  /\ Len(frame.stack) > stackMax =>
       phase = "done" /\ Len(before.stack) > stackMax /\ witness = NoWitness

\* The witnesses a replay cannot judge although the step ran: its code is bounded, it
\* starts from a memory of its own size, and it reads the destination of a jump that
\* is not taken.
Replayable(w) ==
  /\ Fits(w)
  /\ w.op = "MLOAD" => frame.memSize = before.memSize
  /\ w.op = "MSTORE" => before.memSize = 0
  /\ w.op = "JUMPI" => IsTaken(w) \/ Narrow(In(w, 0))
  /\ w.storageRoot.some => Slot(w.storageRoot, w.storageKey) = w.storageVal

\* Claims of another result for the same step, with the root that fits the claim.
OtherResults(w) ==
  LET other == [w.stackOut EXCEPT ![1] = Not256(w.stackOut[1])]
  IN  {[w EXCEPT !.stackOut = other, !.postStateRoot = hashState(frame.pc, frame.gas, other, w)],
       [w EXCEPT !.postStateRoot = hashState(frame.pc + 1, frame.gas, w.stackOut, w)],
       [w EXCEPT !.postStateRoot = hashState(frame.pc, frame.gas + 1, w.stackOut, w)]}

\* The witness of a step that ran verifies exactly when it can be replayed, and then
\* no other result of the step does.  That of a step that halted does only if its
\* gas was just the price of the instruction: roots do not have the status.
WitnessesVerify ==
  witness # NoWitness =>
    LET Accepted == {w \in {witness} \cup OtherResults(witness) : VerifyWitness(w)}
    IN  /\ frame.status \notin Exceptional => (witness \in Accepted <=> Replayable(witness))
        /\ frame.status \in Exceptional /\ witness \in Accepted => before.gas = opGas(witness.op)
        /\ witness \in Accepted => Accepted = {witness}

\* A word with more bytes than its PUSH has.
WidePush(w) == w.op = "PUSH" /\ \E i \in 1..(WordBytes - w.n) : w.memData[i] # 0

\* The contract accepts what VerifyWitness accepts.  More it accepts only where a
\* replay's code would be too long, for a jump that is not taken whose destination
\* is wide, and for a PUSH that found the stack full: the contract then pushes the
\* word that was on top, a replay no more than the PUSH's bytes of it.
ContractAgrees ==
  witness # NoWitness =>
    \A w \in {witness} \cup OtherResults(witness) :
      /\ VerifyWitness(w) => executeOneStep(w)
      /\ executeOneStep(w) =>
           \/ VerifyWitness(w)
           \/ ~Fits(w)
           \/ w.op = "JUMPI" /\ ~IsTaken(w) /\ ~Narrow(In(w, 0))
           \/ WidePush(w) /\ frame.status = "overflow"
=============================================================================
