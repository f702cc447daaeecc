------------------------------ MODULE CallContext ------------------------------
(***************************************************************************)
(* pkg/c2block/call_context.go: the call frames of one transaction.  Every *)
(* frame takes a snapshot of the state and marks in the journals of the    *)
(* logs and of the touched, created and self-destructed accounts; a frame  *)
(* that fails goes back to them, and only to them, whatever the frames it  *)
(* called did.                                                             *)
(*                                                                         *)
(* An account is its balance, whether its nonce is not zero and whether it *)
(* has code; its storage is whether it is non-empty.  saved is the state's *)
(* stack of snapshots (module SnapshotStore).  The opcodes a contract runs *)
(* are a choice, memory and the operand stack are left out (what they can  *)
(* do to a frame is Halt it), and so are fees (module BlockProcessor).     *)
(* Sums of balances stay below 2^256 (NothingMinted), so none wraps.       *)
(*                                                                         *)
(* begun and entry are history variables: what the transaction and its     *)
(* frames found when they began.                                           *)
(***************************************************************************)
EXTENDS Integers, Sequences, FiniteSetsExt

CONSTANTS
  Address, Precompiles, NoAccount,
  World0,            \* the state the transaction begins with
  From, Coinbase,    \* its sender and header.Coinbase
  Fresh,             \* the addresses createAddress and create2Address may give
  TxGas,             \* the gas the first frame gets
  Vals,              \* values sent with calls
  Reqs,              \* gas requested by calls
  MaxDepth,          \* maxCallDepth (1024)
  Div,               \* 64: eip150 keeps back a Div-th of the gas
  CallValue, NewAccountGas, Stipend, \* gasCallValue, gasNewAccount, gasCallStipend
  CreateGas, DepositGas              \* gasCreate, and gasCodeDeposit for the code

Account == [balance : Nat, nonce : BOOLEAN, code : BOOLEAN]
Worlds == [acc : [Address -> Account \cup {NoAccount}], slot : [Address -> BOOLEAN]]

\* An address is a [20]byte.
ASSUME AddressAssumption == IsFiniteSet(Address)

ASSUME CallAssumption ==
  /\ NoAccount \notin Account
  /\ World0 \in Worlds
  /\ Precompiles \subseteq Address /\ Fresh \subseteq Address
  /\ From \in Address /\ Coinbase \in Address
  /\ TxGas \in Nat /\ Vals \subseteq Nat /\ Reqs \subseteq Nat
  /\ MaxDepth \in Nat \ {0} /\ Div \in Nat \ {0}
  /\ {CallValue, NewAccountGas, Stipend, CreateGas, DepositGas} \subseteq Nat
  /\ Stipend <= CallValue

\* A transaction finds the state as the sweep of the one before left it
\* (NoOrphanStorage), and the addresses of new contracts are the ends of hashes,
\* never one of isPrecompile's few.
ASSUME WorldAssumption ==
  /\ \A a \in Address : World0.slot[a] => World0.acc[a] # NoAccount
  /\ Fresh \cap Precompiles = {}

VARIABLES
  env,               \* the world and vmEnv's logs, touched, created and suicided
  saved,             \* the worlds of the live snapshots
  frames,            \* the running frames, the innermost last
  base,              \* ProcessTransaction's own marks
  result,            \* what the first frame answered
  phase,             \* "ready", "running", "ran", "swept"
  begun,             \* history: the environment the marks of base were taken in
  entry              \* history: the environments the frames' marks were taken in

vars == <<env, saved, frames, base, result, phase, begun, entry>>

\* A Go map with the slice that journals its insertions.
Journalled == [map : SUBSET Address, journal : Seq(Address)]
Envs == [world : Worlds, logs : Seq(Address),
         touched : Journalled, created : Journalled, suicided : Journalled]
MarkSet == [rev : Nat, logs : Nat, touched : Nat, created : Nat, suicided : Nat]
Params == [caller : Address, addr : Address, codeAddr : Address, val : Nat,
           gas : Nat, ro : BOOLEAN, kind : {"call", "delegate", "create"}]
Frames == [p : Params, gas : Nat, marks : MarkSet]

TypeOK ==
  /\ env \in Envs
  /\ saved \in Seq(Worlds)
  /\ frames \in Seq(Frames)
  /\ base \in MarkSet
  /\ result \in [ok : BOOLEAN, left : Nat]
  /\ phase \in {"ready", "running", "ran", "swept"}
  /\ begun \in Envs /\ entry \in Seq(Envs)

-----------------------------------------------------------------------------
\* account(): an absent account reads as an empty one.
account(w, a) ==
  IF w.acc[a] = NoAccount THEN [balance |-> 0, nonce |-> FALSE, code |-> FALSE] ELSE w.acc[a]
emptyAccount(w, a) ==
  LET acc == account(w, a) IN ~acc.nonce /\ acc.balance = 0 /\ ~acc.code
codeOf(w, a) == a \notin Precompiles /\ account(w, a).code

setAcc(w, a, acc) == [w EXCEPT !.acc = [w.acc EXCEPT ![a] = acc]]
setNonce(w, a) == setAcc(w, a, [account(w, a) EXCEPT !.nonce = TRUE])
setCode(w, a, code) == setAcc(w, a, [account(w, a) EXCEPT !.code = code])
setBalance(w, a, bal) == setAcc(w, a, [account(w, a) EXCEPT !.balance = bal])

\* SetAccount(a, nil) deletes the slots too.
Delete(w, A) == [acc  |-> [a \in Address |-> IF a \in A THEN NoAccount ELSE w.acc[a]],
                 slot |-> [a \in Address |-> a \notin A /\ w.slot[a]]]

\* Mutant of Moved: both balances are read before either is written.
MovedAliased(w, from, to, v) ==
  setBalance(setBalance(w, from, account(w, from).balance - v), to, account(w, to).balance + v)

\* transfer's effect on the state when it succeeds; a zero value writes nothing.
Moved(w, from, to, v) ==
  IF v = 0 THEN w
  ELSE LET paid == setBalance(w, from, account(w, from).balance - v)
       IN  setBalance(paid, to, account(paid, to).balance + v)

\* Mutant of Mark: a known address is journalled again.
MarkAgain(s, a) == [map |-> s.map \cup {a}, journal |-> Append(s.journal, a)]

\* touch, markCreated and markSuicided: a known address is not journalled again.
Mark(s, a) ==
  IF a \in s.map THEN s ELSE [map |-> s.map \cup {a}, journal |-> Append(s.journal, a)]
Touch(e, a, b) == [e EXCEPT !.touched = Mark(Mark(e.touched, a), b)]
transfer(e, from, to, v) == [Touch(e, from, to) EXCEPT !.world = Moved(e.world, from, to, v)]

\* revertTouched, revertCreated and revertSuicided.
Rollback(s, mark) ==
  [map     |-> s.map \ {s.journal[i] : i \in (mark + 1)..Len(s.journal)},
   journal |-> SubSeq(s.journal, 1, mark)]

Marks(e, snaps) ==
  [rev |-> Len(snaps), logs |-> Len(e.logs), touched |-> Len(e.touched.journal),
   created |-> Len(e.created.journal), suicided |-> Len(e.suicided.journal)]

\* What a failed frame leaves of the environment e, given the snapshots snaps.
Restored(e, snaps, m) ==
  [world    |-> snaps[m.rev + 1],
   logs     |-> SubSeq(e.logs, 1, m.logs),
   touched  |-> Rollback(e.touched, m.touched),
   created  |-> Rollback(e.created, m.created),
   suicided |-> Rollback(e.suicided, m.suicided)]

-----------------------------------------------------------------------------
Init ==
  /\ env = [world |-> World0, logs |-> <<>>,
            touched  |-> [map |-> {}, journal |-> <<>>],
            created  |-> [map |-> {}, journal |-> <<>>],
            suicided |-> [map |-> {}, journal |-> <<>>]]
  /\ saved = <<>>
  /\ frames = <<>>
  /\ base = [rev |-> 0, logs |-> 0, touched |-> 0, created |-> 0, suicided |-> 0]
  /\ result = [ok |-> FALSE, left |-> 0]
  /\ phase = "ready"
  /\ begun = env /\ entry = <<>>

\* run's return to the frames beneath, with the gas left.
Answer(under, left, ok) ==
  LET n == Len(under) IN
  /\ entry' = SubSeq(entry, 1, n)
  /\ IF n = 0
     THEN /\ frames' = <<>> /\ phase' = "ran"
          /\ result' = [ok |-> ok, left |-> left]
     ELSE /\ frames' = [under EXCEPT ![n] = [under[n] EXCEPT !.gas = under[n].gas + left]]
          /\ phase' = "running"
          /\ UNCHANGED result

\* run's first lines: the created account is marked before anything runs in it.
Prologue(e, p) ==
  LET t == Touch(e, p.caller, p.addr)
  IN  IF p.kind = "create" THEN [t EXCEPT !.created = Mark(e.created, p.addr)] ELSE t
Pays(e, p) == p.val = 0 \/ p.val <= account(e.world, p.caller).balance
Entered(e, p) ==
  IF p.kind = "delegate" THEN Prologue(e, p)
  ELSE transfer(Prologue(e, p), p.caller, p.addr, p.val)

\* run's ways to answer at once: the snapshot it took is undone, or stays.
RunUndone(e, snaps, under, p, left) ==
  /\ env' = Restored(Prologue(e, p), Append(snaps, e.world), Marks(e, snaps))
  /\ saved' = snaps
  /\ Answer(under, left, FALSE)
RunDone(e, snaps, under, p, left) ==
  /\ env' = Entered(e, p)
  /\ saved' = Append(snaps, e.world)
  /\ Answer(under, left, TRUE)

\* run(p) called in environment e with the snapshots snaps, above the frames
\* under, whose last one is the caller and has paid for the call.
Run(e, snaps, under, p) ==
  IF Len(under) >= MaxDepth
  THEN env' = e /\ saved' = snaps /\ Answer(under, p.gas, FALSE)
  ELSE IF p.kind # "delegate" /\ ~Pays(e, p)
  THEN RunUndone(e, snaps, under, p, p.gas)
  ELSE IF p.kind # "create" /\ p.codeAddr \in Precompiles
  THEN \/ RunUndone(e, snaps, under, p, 0)
       \/ \E left \in 0..p.gas : RunDone(e, snaps, under, p, left)
  ELSE IF p.kind # "create" /\ ~codeOf(e.world, p.codeAddr)
  THEN RunDone(e, snaps, under, p, p.gas)
  ELSE /\ env' = Entered(e, p)
       /\ saved' = Append(snaps, e.world)
       /\ frames' = Append(under, [p |-> p, gas |-> p.gas, marks |-> Marks(e, snaps)])
       /\ entry' = Append(SubSeq(entry, 1, Len(under)), e)
       /\ phase' = "running"
       /\ UNCHANGED result

-----------------------------------------------------------------------------
Top == frames[Len(frames)]
Under == SubSeq(frames, 1, Len(frames) - 1)

\* ProcessTransaction, once the gas is bought: its marks, and the first run.
BeginTx(to, val, create) ==
  LET known == Mark(Mark(env.touched, From), Coinbase)
      e == [env EXCEPT !.touched = IF create THEN known ELSE Mark(known, to)]
      p == [caller |-> From, addr |-> to, codeAddr |-> to, val |-> val, gas |-> TxGas,
            ro |-> FALSE, kind |-> IF create THEN "create" ELSE "call"] IN
  /\ phase = "ready"
  /\ base' = Marks(e, saved) /\ begun' = e
  /\ Run(e, Append(saved, e.world), <<>>, p)

\* Mutant of callGas: the request is not capped.
callGasUncapped(gas, req) == req

\* The gas a call may take: all but a Div-th of what is left.
eip150(gas) == gas - gas \div Div
callGas(gas, req) == IF req > eip150(gas) THEN eip150(gas) ELSE req

\* The innermost frame runs an opcode of this cost.
Charged(cost) ==
  /\ phase = "running"
  /\ Top.gas >= cost

\* An opcode that only costs gas; every one that does not end the frame costs some.
Compute ==
  /\ Charged(1)
  /\ frames' = [frames EXCEPT ![Len(frames)] = [Top EXCEPT !.gas = Top.gas - 1]]
  /\ UNCHANGED <<env, saved, base, result, phase, begun, entry>>

\* Mutant of Writes: the read-only flag is not looked at.
WritesAnyway(cost, e) ==
  /\ Charged(cost)
  /\ env' = e
  /\ frames' = [frames EXCEPT ![Len(frames)] = [Top EXCEPT !.gas = Top.gas - cost]]
  /\ UNCHANGED <<saved, base, result, phase, begun, entry>>

\* Mutant of Writes: the opcode is free.
WritesFree(cost, e) ==
  /\ Charged(cost) /\ ~Top.p.ro
  /\ env' = e
  /\ UNCHANGED <<saved, frames, base, result, phase, begun, entry>>

\* An opcode a read-only frame may not run, with its effect on the environment.
Writes(cost, e) ==
  /\ Charged(cost) /\ ~Top.p.ro
  /\ env' = e
  /\ frames' = [frames EXCEPT ![Len(frames)] = [Top EXCEPT !.gas = Top.gas - cost]]
  /\ UNCHANGED <<saved, base, result, phase, begun, entry>>

SStore(v) ==
  LET w == env.world IN
  Writes(1, [env EXCEPT !.world = [w EXCEPT !.slot = [w.slot EXCEPT ![Top.p.addr] = v]]])
opLog == Writes(1, [env EXCEPT !.logs = Append(env.logs, Top.p.addr)])

\* opCall: CALL, CALLCODE, DELEGATECALL and STATICCALL to an address.
opCall(op, to, val, req) ==
  LET f == Top
      extra == IF val = 0 THEN 0
               ELSE CallValue + (IF emptyAccount(env.world, to) THEN NewAccountGas ELSE 0)
      gas == f.gas - 1 - extra
      fwd == callGas(gas, req)
      p == [caller   |-> IF op = "delegatecall" THEN f.p.caller ELSE f.p.addr,
            addr     |-> IF op \in {"delegatecall", "callcode"} THEN f.p.addr ELSE to,
            codeAddr |-> to,
            val      |-> IF op = "delegatecall" THEN f.p.val ELSE val,
            gas      |-> fwd + (IF val = 0 THEN 0 ELSE Stipend),
            ro       |-> f.p.ro \/ op = "staticcall",
            kind     |-> IF op = "delegatecall" THEN "delegate" ELSE "call"] IN
  /\ Charged(1 + extra)
  /\ op \in {"call", "callcode"} \/ val = 0
  /\ ~f.p.ro \/ val = 0
  /\ Run(env, saved, Append(Under, [f EXCEPT !.gas = gas - fwd]), p)
  /\ UNCHANGED <<base, begun>>

\* opCreate: the creator's nonce is raised first, and stays so if the address is
\* taken or the new frame fails.
opCreate(to, val) ==
  LET f == Top
      gas == f.gas - CreateGas
      fwd == eip150(gas)
      e == [env EXCEPT !.world = setNonce(env.world, f.p.addr)]
      p == [caller |-> f.p.addr, addr |-> to, codeAddr |-> to, val |-> val, gas |-> fwd,
            ro |-> FALSE, kind |-> "create"] IN
  /\ Charged(CreateGas) /\ ~f.p.ro
  /\ IF codeOf(e.world, to)
     THEN /\ env' = e
          /\ frames' = Append(Under, [f EXCEPT !.gas = gas])
          /\ UNCHANGED <<saved, result, phase, entry>>
     ELSE Run(e, saved, Append(Under, [f EXCEPT !.gas = gas - fwd]), p)
  /\ UNCHANGED <<base, begun>>

-----------------------------------------------------------------------------
\* Mutant of Fail: the frame's whole gas is given back.
FailForFree(left) ==
  /\ env' = Restored(env, saved, Top.marks)
  /\ saved' = SubSeq(saved, 1, Top.marks.rev)
  /\ Answer(Under, Top.p.gas, FALSE)
  /\ UNCHANGED <<base, begun>>

\* A frame ends without success: run goes back to its snapshot and its marks.
Fail(left) ==
  /\ env' = Restored(env, saved, Top.marks)
  /\ saved' = SubSeq(saved, 1, Top.marks.rev)
  /\ Answer(Under, left, FALSE)
  /\ UNCHANGED <<base, begun>>

\* A frame ends with success in environment e; a creation stores its code then,
\* unless the new account has destroyed itself or cannot pay for the code.
Succeed(e, gas, code) ==
  LET p == Top.p
      deposit == IF code THEN DepositGas ELSE 0
      done == [e EXCEPT !.world = setNonce(setCode(e.world, p.addr, code), p.addr),
                        !.created = Mark(e.created, p.addr)] IN
  IF p.kind # "create" \/ p.addr \in e.suicided.map
  THEN env' = e /\ UNCHANGED <<saved, base, begun>> /\ Answer(Under, gas, TRUE)
  ELSE IF gas < deposit
  THEN Fail(0)
  ELSE env' = done /\ UNCHANGED <<saved, base, begun>> /\ Answer(Under, gas - deposit, TRUE)

\* STOP, RETURN or the end of the code; code: whether a creation returned any.
Return(code) == Charged(0) /\ Succeed(env, Top.gas, code)
\* REVERT keeps the gas; every other failure takes it, too long a code included.
Revert == Charged(0) /\ Fail(Top.gas)
Halt == Charged(0) /\ Fail(0)

\* Mutant of SelfDestruct: an older account is deleted too.
SelfDestructAny(to) ==
  LET a == Top.p.addr
      e == transfer(env, a, to, account(env.world, a).balance) IN
  /\ Charged(1) /\ ~Top.p.ro
  /\ Succeed([e EXCEPT !.world = Delete(e.world, {a}), !.suicided = Mark(e.suicided, a)],
             Top.gas - 1, FALSE)

\* SELFDESTRUCT: the balance goes to the beneficiary, the account only if this
\* transaction made it.
SelfDestruct(to) ==
  LET a == Top.p.addr
      e == transfer(env, a, to, account(env.world, a).balance)
      w == IF a \in env.created.map THEN Delete(e.world, {a}) ELSE e.world IN
  /\ Charged(1) /\ ~Top.p.ro
  /\ Succeed([e EXCEPT !.world = w, !.suicided = Mark(e.suicided, a)], Top.gas - 1, FALSE)

\* Mutant of EndTx: nothing is swept.
EndTxNoSweep ==
  /\ phase = "ran"
  /\ env' = IF result.ok THEN env ELSE Restored(env, saved, base)
  /\ saved' = IF result.ok THEN saved ELSE SubSeq(saved, 1, base.rev)
  /\ phase' = "swept"
  /\ UNCHANGED <<frames, base, result, begun, entry>>

\* ProcessTransaction after the first run, down to cleanTouchedEmptyAccounts.
EndTx ==
  LET e == IF result.ok THEN env ELSE Restored(env, saved, base)
      empty == {a \in e.touched.map : emptyAccount(e.world, a)}
      w == Delete(Delete(e.world, empty), e.suicided.map \cap e.created.map) IN
  /\ phase = "ran"
  /\ env' = [e EXCEPT !.world = w]
  /\ saved' = IF result.ok THEN saved ELSE SubSeq(saved, 1, base.rev)
  /\ phase' = "swept"
  /\ UNCHANGED <<frames, base, result, begun, entry>>

FrameStep ==
  \/ Compute
  \/ \E v \in BOOLEAN : SStore(v) \/ Return(v)
  \/ opLog
  \/ \E op \in {"call", "callcode", "delegatecall", "staticcall"}, to \in Address,
        val \in Vals, req \in Reqs : opCall(op, to, val, req)
  \/ \E to \in Fresh, val \in Vals : opCreate(to, val)
  \/ \E to \in Address : SelfDestruct(to)
  \/ Revert
  \/ Halt

\* The address of a transaction's new contract is a hash of the sender and its
\* nonce: no account has code there.
Next ==
  \/ \E to \in Address, val \in Vals : BeginTx(to, val, FALSE)
  \/ \E to \in Fresh, val \in Vals : ~World0.slot[to] /\ ~codeOf(World0, to) /\ BeginTx(to, val, TRUE)
  \/ FrameStep
  \/ EndTx

Spec == Init /\ [][Next]_vars
FairSpec == Spec /\ WF_vars(Next)

-----------------------------------------------------------------------------
\* Whatever has happened since, the failure of any frame that is still running
\* restores exactly what that frame found: the state, the logs, and the sets of
\* touched, created and self-destructed accounts; and so does the transaction's.
Restorable ==
  /\ phase \in {"running", "ran"} => Restored(env, saved, base) = begun
  /\ \A i \in 1..Len(frames) : Restored(env, saved, frames[i].marks) = entry[i]

\* While a static call runs nothing is written, by it or by what it calls.
StaticIsReadOnly ==
  \A i \in 1..Len(frames) :
    frames[i].p.ro => /\ env.world = entry[i].world
                      /\ env.logs = entry[i].logs
                      /\ env.created = entry[i].created
                      /\ env.suicided = entry[i].suicided

\* Calls, failures and self-destructions make no coins, and lose none but those
\* of accounts that this transaction both created and destroyed.
Total(w) ==
  LET balance == [a \in Address |-> account(w, a).balance]
  IN  MapThenSumSet(LAMBDA a : balance[a], Address)
NothingMinted ==
  /\ Total(env.world) <= Total(World0)
  /\ env.created.map \cap env.suicided.map = {} => Total(env.world) = Total(World0)

\* EIP-6780: a contract that was there before the transaction keeps its code.
CodeSurvives ==
  \A a \in Address : account(World0, a).code => account(env.world, a).code

\* A swept transaction leaves no storage behind without its account, although a
\* frame may go on writing to an account that a frame above it has destroyed.
NoOrphanStorage ==
  phase = "swept" => \A a \in Address : env.world.slot[a] => env.world.acc[a] # NoAccount

\* The gas of all frames together never grows: not by a stipend, a failed call
\* that gives its gas back, or one that is refused for its depth.
GasOf(fs) ==
  LET gas == [i \in 1..Len(fs) |-> fs[i].gas] IN MapThenSumSet(LAMBDA i : gas[i], 1..Len(fs))
GasTotal == IF phase = "ready" THEN TxGas ELSE result.left + GasOf(frames)
GasNotMade == [][GasTotal' <= GasTotal]_vars

\* Every transaction ends, however its contracts call each other.
TransactionEnds == <>(phase = "swept")
=============================================================================
