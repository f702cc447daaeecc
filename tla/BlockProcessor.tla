---------------------------- MODULE BlockProcessor ----------------------------
(***************************************************************************)
(* pkg/c2block/block_processor.go: ProcessBlock runs a block's             *)
(* transactions one after the other on the world state.  A transaction     *)
(* buys its gas, runs under a snapshot of its own, and is refunded; the    *)
(* first one that is refused takes the whole block back to the snapshot    *)
(* the block began with.                                                   *)
(*                                                                         *)
(* The world is the part of the state the fees and the nonces are about;   *)
(* saved is the state's stack of snapshots (module SnapshotStore, which    *)
(* StateTrie implements).  What the called code does is a choice: whether  *)
(* it succeeds, the gas and the refund it leaves, one transfer out of the  *)
(* callee, and the accounts it creates and destroys.  The nonces are those *)
(* of the senders of transactions; contracts and theirs are module         *)
(* CallContext's.                                                          *)
(*                                                                         *)
(* start, depth0, minted, burntGas and wrapped are history variables, and  *)
(* burnt is a history in the world itself, so that a revert takes it back. *)
(***************************************************************************)
EXTENDS Transaction, Sequences, FiniteSetsExt

CONSTANTS
  Word,              \* 2^256
  GasLimit,          \* header.GasLimit; 0 means none
  BaseFee,           \* header.BaseFee
  Coinbase,          \* header.Coinbase
  Refunds,           \* values of the EVM's refund counter
  Moves,             \* amounts the callee may send on
  Ephemeral,         \* accounts a transaction may create and destroy
  Funds              \* the balances the chain starts with

\* An address is a [20]byte.
ASSUME AddressAssumption == IsFiniteSet(Address)

ASSUME ProcAssumption ==
  /\ Word \in Nat \ {0} /\ GasLimit \in Nat /\ BaseFee \in Nat
  /\ Coinbase \in Address
  /\ Refunds \subseteq Nat /\ Moves \subseteq Nat /\ Ephemeral \subseteq Address
  /\ Funds \in [Address -> 0..(Word - 1)]

VARIABLES
  world,             \* balances, nonces and what was burnt with destroyed accounts
  saved,             \* the worlds of the live snapshots
  blockRev,          \* the revision of the block's snapshot
  todo,              \* the transactions not yet processed
  cum,               \* gas used by the block so far
  proc,              \* where ProcessBlock is
  result,            \* what the last ProcessBlock answered
  start, depth0,     \* history: the world and the snapshots' number at its start
  minted,            \* history: all that was ever credited from outside
  burntGas,          \* history: the gas used by committed blocks
  wrapped            \* history: some amount, or the supply, exceeded a word

procVars == <<world, saved, blockRev, todo, cum, proc, result,
              start, depth0, minted, burntGas, wrapped>>
Worlds == [balance : [Address -> 0..(Word - 1)], nonce : [Address -> Nat], burnt : Nat]

Total(w) == LET balance == w.balance IN MapThenSumSet(LAMBDA a : balance[a], Address)
Held(w) == Total(w) + w.burnt

ProcInit ==
  /\ world = [balance |-> Funds, nonce |-> [a \in Address |-> 0], burnt |-> 0]
  /\ saved = <<>>
  /\ blockRev = 0 /\ depth0 = 0
  /\ todo = <<>>
  /\ cum = 0 /\ burntGas = 0
  /\ proc = "idle" /\ result = "none"
  /\ start = world
  /\ minted = Total(world)
  /\ wrapped = (minted >= Word)

-----------------------------------------------------------------------------
\* What a transaction pays per gas, and the part of it the coinbase gets.
FeeCapOK(tx) ==
  IF tx.type = "dynamic" THEN tx.feeCap >= BaseFee ELSE BaseFee = 0 \/ tx.gasPrice >= BaseFee
tipOf(tx) ==
  IF tx.type = "dynamic"
  THEN IF tx.tipCap <= tx.feeCap - BaseFee THEN tx.tipCap ELSE tx.feeCap - BaseFee
  ELSE tx.gasPrice - BaseFee
effective(tx) == (BaseFee + tipOf(tx)) % Word

gasCost(tx) == (effective(tx) * tx.gas) % Word
cost(tx) == (gasCost(tx) + tx.value) % Word

\* The checks of ProcessTransaction, SubBalance's included.
Rejected(tx) ==
  \/ GasLimit # 0 /\ tx.gas > GasLimit
  \/ tx.gas < tx.intrinsic
  \/ ~FeeCapOK(tx)
  \/ world.nonce[tx.from] # tx.nonce
  \/ world.balance[tx.from] < cost(tx)
  \/ world.balance[tx.from] < gasCost(tx)

Credit(w, a, v) == [w EXCEPT !.balance = [w.balance EXCEPT ![a] = (w.balance[a] + v) % Word]]
Debit(w, a, v) == [w EXCEPT !.balance = [w.balance EXCEPT ![a] = w.balance[a] - v]]
Transfer(w, a, b, v) == Credit(Debit(w, a, v), b, v)

-----------------------------------------------------------------------------
ProcessBlock(batch) ==
  /\ proc = "idle"
  /\ blockRev' = Len(saved)
  /\ saved' = Append(saved, world)
  /\ todo' = batch
  /\ cum' = 0
  /\ proc' = "next"
  /\ start' = world /\ depth0' = Len(saved)
  /\ UNCHANGED <<world, result, minted, burntGas, wrapped>>

\* Mutant of AbortBlock: the error is returned without the revert.
AbortKeepsWorld ==
  /\ todo' = <<>>
  /\ cum' = 0
  /\ proc' = "idle" /\ result' = "error"
  /\ UNCHANGED <<world, saved>>

\* RevertToSnapshot(blockRev) and an error.
AbortBlock ==
  /\ world' = saved[blockRev + 1]
  /\ saved' = SubSeq(saved, 1, blockRev)
  /\ todo' = <<>>
  /\ cum' = 0
  /\ proc' = "idle" /\ result' = "error"

RejectTx ==
  /\ proc = "next" /\ todo # <<>>
  /\ Rejected(Head(todo))
  /\ AbortBlock
  /\ UNCHANGED <<blockRev, start, depth0, minted, burntGas, wrapped>>

\* Mutant of Bought: the nonce is not raised.
BoughtSameNonce(tx) == Debit(world, tx.from, gasCost(tx))

\* The world once the gas is bought and the nonce raised.
Bought(tx) ==
  LET w == Debit(world, tx.from, gasCost(tx))
  IN  [w EXCEPT !.nonce = [w.nonce EXCEPT ![tx.from] = tx.nonce + 1]]

BeginTx ==
  LET tx == Head(todo) IN
  /\ proc = "next" /\ todo # <<>>
  /\ ~Rejected(tx)
  /\ world' = Bought(tx)
  /\ saved' = Append(saved, Bought(tx))
  /\ proc' = "running"
  /\ wrapped' = (wrapped \/ (BaseFee + tipOf(tx)) * tx.gas + tx.value >= Word)
  /\ UNCHANGED <<blockRev, todo, cum, result, start, depth0, minted, burntGas>>

\* Mutant of Settled: the refund saturates where the purchase wrapped.
SettledSaturates(w, tx, left) ==
  LET used == tx.gas - left
      refunded == Credit(w, tx.from, Min({effective(tx) * left, Word - 1}))
  IN  Credit(refunded, Coinbase, (tipOf(tx) * used) % Word)

\* The gas left is paid back and the coinbase gets its tip.
Settled(w, tx, left) ==
  LET used == tx.gas - left
      refunded == Credit(w, tx.from, (effective(tx) * left) % Word)
  IN  Credit(refunded, Coinbase, (tipOf(tx) * used) % Word)

\* The refund counter is honoured up to a fifth of the gas used.
LeftAfterRefund(tx, left, refund) ==
  LET limit == (tx.gas - left) \div 5
  IN  left + (IF refund > limit THEN limit ELSE refund)

\* Mutant of Swept: the coinbase, which every transaction touches, goes as if empty.
SweptTouched(w, gone) == [w EXCEPT !.balance = [w.balance EXCEPT ![Coinbase] = 0]]

\* cleanTouchedEmptyAccounts: the accounts that were created and destroyed in the
\* run are deleted with what they hold; empty ones have nothing to lose.
Swept(w, gone) ==
  LET lost == [a \in Address |-> IF a \in gone THEN w.balance[a] ELSE 0]
  IN  [w EXCEPT !.balance = [a \in Address |-> w.balance[a] - lost[a]],
                !.burnt = w.burnt + MapThenSumSet(LAMBDA a : lost[a], Address)]

\* The rest of ProcessTransaction and of the loop's body: the run's result w, the
\* accounts gone that it destroyed, the snapshots snaps that are left, and the gas
\* it left.
EndTx(w, gone, snaps, left) ==
  LET tx == Head(todo)
      used == tx.gas - left IN
  IF GasLimit # 0 /\ cum + used > GasLimit
  THEN AbortBlock
  ELSE /\ world' = Swept(Settled(w, tx, left), gone)
       /\ saved' = snaps
       /\ todo' = Tail(todo)
       /\ cum' = cum + used
       /\ proc' = "next"
       /\ UNCHANGED result

\* The code ran: the value is with the callee, which may have sent some on, and
\* accounts were created, which only one without a nonce can be, and destroyed.
RunOK(left, refund, b, v, gone) ==
  LET tx == Head(todo)
      paid == Transfer(world, tx.from, tx.to, tx.value) IN
  /\ proc = "running"
  /\ left <= tx.gas - tx.intrinsic
  /\ world.balance[tx.from] >= tx.value
  /\ v <= paid.balance[tx.to]
  /\ \A d \in gone : world.nonce[d] = 0
  /\ EndTx(Transfer(paid, tx.to, b, v), gone, saved, LeftAfterRefund(tx, left, refund))
  /\ UNCHANGED <<blockRev, start, depth0, minted, burntGas, wrapped>>

\* It failed: its snapshot is restored; nested runs may still have left a refund.
RunFailed(left, refund) ==
  LET rev == Len(saved) - 1 IN
  /\ proc = "running"
  /\ left <= Head(todo).gas - Head(todo).intrinsic
  /\ EndTx(saved[rev + 1], {}, SubSeq(saved, 1, rev), LeftAfterRefund(Head(todo), left, refund))
  /\ UNCHANGED <<blockRev, start, depth0, minted, burntGas, wrapped>>

\* Commit drops the journal and every snapshot.
CommitBlock ==
  /\ proc = "next" /\ todo = <<>>
  /\ saved' = <<>>
  /\ burntGas' = burntGas + cum
  /\ cum' = 0
  /\ proc' = "idle" /\ result' = "ok"
  /\ UNCHANGED <<world, blockRev, todo, start, depth0, minted, wrapped>>

\* AddBalance from outside a block (a deposit).
Deposit(a, v) ==
  /\ proc = "idle"
  /\ world' = Credit(world, a, v)
  /\ minted' = minted + v
  /\ wrapped' = (wrapped \/ minted + v >= Word)
  /\ UNCHANGED <<saved, blockRev, todo, cum, proc, result, start, depth0, burntGas>>

RunStep ==
  \/ RejectTx
  \/ BeginTx
  \/ \E left \in 0..(IF todo = <<>> THEN 0 ELSE Head(todo).gas), refund \in Refunds :
       \/ RunFailed(left, refund)
       \/ \E b \in Address, v \in Moves, gone \in SUBSET Ephemeral :
            RunOK(left, refund, b, v, gone)
  \/ CommitBlock

-----------------------------------------------------------------------------
\* Between transactions every coin is accounted for, refunds, failed runs and
\* aborted blocks included: what was credited from outside is in the balances, or
\* was burnt, with a destroyed account or as base fee for gas that was used.  The
\* amounts being words, this is so modulo a word; it is exact as long as neither
\* the cost of a transaction nor the supply exceeds a word.
Conservation ==
  proc # "running" =>
    LET known == Held(world) + BaseFee * (burntGas + cum)
    IN  (known - minted) % Word = 0 /\ (~wrapped => known = minted)

\* The block's snapshot is not disturbed by the snapshots, reverts and failures
\* of its transactions: at any moment an abort would restore the world the block
\* began with.
BlockSnapshotIntact ==
  proc # "idle" => blockRev < Len(saved) /\ saved[blockRev + 1] = start

\* A block that is answered with an error leaves the world and the stack of
\* snapshots as it found them.
FailedBlockUndone ==
  [][proc # "idle" /\ proc' = "idle" /\ result' = "error" =>
       world' = start /\ Len(saved') = depth0]_procVars
=============================================================================
