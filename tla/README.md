# A verification project for crypto55

crypto55 is a rollup node in Go: clients hand transactions to a sequencer, which orders them into blocks; a block
processor executes them on a journalled world state with a host for EVM call frames; a batch poster packs the executed
transactions; an RPC layer indexes the chain and replicates it from a leader to followers; single steps of the EVM are
witnessed, with Merkle proofs of the storage they touch, so that a contract can judge a dispute about them. This
directory holds TLA+ modules of those parts, TLC configurations that check them on small instances, and TLAPS proofs
of the properties that matter most. Paths below are relative to the repository.

    tlc -config MCMempool.cfg MCMempool      # one run; PROJECT.json lists all of them
    tlapm SequencerProofs.tla                # the proofs of one module

PROJECT.json maps every definition to the lines it stands for, lists the runs with their properties, the mutants
that show each property can fail, the hazards of the code, the findings and the theorems.

## 1. Inventory

| component | state | operations | who calls it | what is hard | what makes it correct |
|---|---|---|---|---|---|
| world state, `pkg/statetrie/state_trie.go` | accounts, storage, undo journal, stack of revisions | SetAccount, AddBalance, SubBalance, SetStorage, deletion of an account, Snapshot, RevertToSnapshot, DiscardSnapshot, Commit | block processor, call frames, sequencer (deposits) | nested snapshots over one journal, undo in reverse order, deletion in the order of a Go map, cloned entries | a revert gives back exactly what the snapshot saw |
| mempool, `pkg/c2seq/mempool.go` | index by hash, lists by sender | AddTx, RemoveTx, PopBatch | clients, sequencer | two indices to keep in step, replacement by tip, two budgets, iteration over a Go map | indices agree; a batch is sorted, within budget, and takes senders' nonces in order |
| retryable tickets, `pkg/c2seq/retryable.go` | tickets by ID | Create, AutoRedeem, ManualRedeem, the quote | sequencer, clients | 64- and 256-bit carries, equal IDs | a quote is exact or refused; one redemption per submission |
| delayed inbox, express lane, sequencer, `pkg/c2seq/sequencer.go`, `timeboost.go` | inbox, lane, header, last batch; a mutex each | Enqueue, PushExpress, PopReady, Drain, ProduceBlock | clients, RPC, the ticker | clients add between any two steps of ProduceBlock; nonces are looked at before the block runs; deposits are outside the block's snapshot; clocks at both ends of 64 bits | no nonce twice, none skipped, no block refused for a nonce, deposits credited once, delays and windows kept, the call returns |
| batch poster, `pkg/c2seq/batch_poster.go` | none | Pack, Unpack | sequencer | Pack can fail after the block was committed | a failed block has no effect (it has: section 6) |
| block processor, `pkg/c2block/block_processor.go` | none of its own; the world | ProcessBlock, ProcessTransaction | sequencer, import | fees modulo 2^256, refund cap, accounts that are destroyed with what they hold, failure in the middle of a block | every coin is in a balance or was burnt; a failed block leaves the world as it was |
| call frames, `pkg/c2block/call_context.go` | frames, logs, journals of touched, created and destroyed accounts | run, CALL and its kinds, CREATE and CREATE2, SSTORE, LOG, SELFDESTRUCT, returns and failures, the sweep at the end | block processor | an inner success followed by an outer failure; frames that run in a destroyed account; the read-only flag through delegate calls; the stipend | a failure undoes exactly its frame; a static call writes nothing; neither coins nor gas appear |
| EVM stepper, `pkg/c2evm` | frame: stack, memory, pc, gas, refund, status | StepOne | one-step witnesses, web simulator, block replay | jump destinations inside PUSH data; memory is paid for by its highest word; offsets near 2^64; what is checked before what | a frame that runs is at an instruction, in memory it has paid for |
| 256-bit words, `pkg/evm256` | none | arithmetic, comparisons, shifts, bytes | stepper, processor | carries; Knuth's division with estimated limbs, whose corrections random operands hardly meet; the smallest negative number | every result is the one on integers |
| one-step witness, `pkg/onestep/witness.go`, `contracts/OneStepEVM.sol` | witness of a step | CaptureWitness, CaptureWitnessWithStorage, VerifyWitness, executeOneStep | block replay (`c2torture/replay.go`), web simulator, disputes | the step is replayed from a window of the frame; two verifiers in two languages | a witness verifies for its step's result and for no other; the verifiers agree |
| Merkle-Patricia trie, `pkg/statetrie/arena.go`, `state_trie.go`, `pkg/c2crypto/mpt.go`, `storage_proof.go`, `contracts/MPTProofVerifier.sol` | arena of nodes, reused by every call | ComputeRoot, GenerateProof, GenerateStorageProof, both verifiers | the root of a block, witnesses | splits at every place of a path, nodes below 32 bytes held in place, map order, slots without an account, the arena's size | the root depends on the contents only; a proof shows exactly what the state holds |
| chain index and RPC, `pkg/c2rpc/api.go` | blocks, indices by hash and by transaction; a mutex | produce, import, queries, simulation | clients, nodes | blocks are looked up by index where a number is meant | numbers are indices |
| replication, `pkg/c2rpc/p2p.go` | peers, channels, read and write loops | AttachPair, Mine, BroadcastLatest, CatchUp, handling of four messages | operators | messages overtake each other, answers are stale when they arrive, blocks arrive twice, greeting races announcement, a list of blocks has no bound and a frame has | followers execute the leader's batches once each and in order, and reach its height |
| RPC server, command, web page, decoding, precompiles, cryptography, state-test runner, C oracles | | | | I/O, byte-level parsing or pure number crunching | not modelled, see section 7 |

How they interact. A client's transaction goes to the mempool, to the express lane or, as a delayed message, to
the inbox; each has a mutex of its own. `ProduceBlock` holds the sequencer's mutex, credits ripe deposits, turns
ripe retryables into transactions, drains the lane, asks the pool for a batch, keeps the candidates whose nonces
follow, and calls `ProcessBlock`, which calls `ProcessTransaction`, which calls `run` for the outermost frame; all
three take snapshots of the one world state. Then `Pack` runs, the RPC layer seals the block under its own mutex,
and `Mine` announces it to the peers through their channels. A follower's read loop hands it to `importLocked`,
which calls `ProcessBlock` again on the follower's world. Apart from the node, the replay of a block and the web
simulator run the stepper step by step and capture witnesses; `VerifyWitness` and the contract replay them, and where
a step touches storage check a Merkle proof against the storage root.

## 2. Modules

| module | what it is |
|---|---|
| `SnapshotStore` | what the world state promises: a stack of full copies |
| `StateTrie` | the journal, revisions and loops of `state_trie.go`; `Refines` says it implements `SnapshotStore` |
| `Transaction` | the fields of a transaction the pool, the sequencer and the processor look at |
| `Mempool` | `mempool.go`; the loop of PopBatch in steps |
| `Retryable` | `retryable.go`; checked arithmetic on limbs of a small base |
| `BlockProcessor` | `ProcessBlock` and `ProcessTransaction`, on a world of balances and nonces with the stack of `SnapshotStore` |
| `Sequencer` | `sequencer.go` and `timeboost.go`; extends `Mempool` and `BlockProcessor`, so that all three run together |
| `CallContext` | `call_context.go`: the frames of one transaction |
| `ReplicatedLog` | what replication promises: every node copies one log, entry after entry |
| `Replication` | `p2p.go` and the chain of `api.go`; `Refines` says it implements `ReplicatedLog` |
| `Mpt` | nodes, insertion, encoding and hashing of the Merkle-Patricia trie |
| `MptProof` | collection of a proof, its verification in Go and in Solidity |
| `StateRoot` | the writers of the world state, ComputeRoot, GenerateProof and GenerateStorageProof |
| `Evm256` | `pkg/evm256`, limb by limb |
| `Stepper` | `StepOne` on a frame; extends `Evm256` |
| `OneStep` | capture and verification of witnesses in Go and in Solidity, and what calls them; extends `Stepper` |
| `MC*` | constants for TLC |
| `SumTheorems` | lemmas about sums over finite sets and along sequences, by an induction stated for sets of numbers |
| `StateTrieProofs`, `SequencerProofs` (of the mempool, the sequencer and the block processor), `RetryableProofs`, `CallContextProofs`, `ReplicationProofs`, `WordProofs` (of `Evm256`), `OneStepProofs` (of `Stepper` and `OneStep`) | the theorems |

How the state and the actions correspond to the code:

* **StateTrie.** `accounts`, `storage`, `journal` and `reverts` are the fields of the struct; `mu` is the mutex
  together with the state of the loop that holds it. Each mutator is one action, because it holds the mutex throughout
  and no one can see its middle; the deletion of an account and the undo are loops and run one iteration per step, so
  that the properties also hold between iterations. The history variable `hist` holds the contents each journal entry
  was written over. An address is a word of 256 bits reduced to 160: `RawSpace` is larger than `AddrSpace` in the runs
  so that the reduction is met.
* **Mempool.** `byHash` and `bySender` are the two maps; a batch under construction is `popping`, `budget` and `out`.
  The order in which PopBatch iterates its map of senders is a choice; `PreferTotal` proves it cannot matter.
* **Retryable.** A ticket's ID is the tuple it is a hash of. The words have base `B` instead of 2^64, four limbs each,
  with the code's carries; `Err` is the error of a checked operation.
* **BlockProcessor.** `world` holds balances and nonces, `saved` the worlds of the live snapshots. What the called
  code does is a choice of success, gas left, refund, one transfer, and the set of accounts it creates and destroys,
  which `cleanTouchedEmptyAccounts` deletes with what they hold after refund and tip are paid; `CallContext` is about
  what it does. The world has a history field `burnt`, of what went with such accounts, which a revert takes back.
  Nonces are those of externally owned senders: a contract's own nonce is in `CallContext`. Amounts wrap at `Word`; the
  history variable `wrapped` records that a cost, or the supply, did not fit one: `Conservation` is exact before and
  holds modulo a word always (section 6).
* **Sequencer.** `pc` says which part of ProduceBlock runs; clients act between any two steps. The loops over inbox
  and lane hold those mutexes, so that clients of that queue wait meanwhile, as in the code. Sums and differences of
  clocks wrap at `MaxUint64` as in Go; an item of the lane also has the history field `pushedAt`.
* **CallContext.** An account is its balance, whether its nonce is not zero and whether it has code; its storage is
  whether there is any. The opcodes a contract runs are a choice at every step, so that the checks hold for every
  bytecode; memory, operand stack and the refund counter are left out (what they can do to a frame is end it, which is
  the action `Halt`). Fees are the block processor's. Gas costs are constants; `eip150` keeps its form with the
  divisor as a constant.
* **Replication.** `queue` is the message in a write loop's hands followed by the peer's channel: with exactly `Cap`
  messages on their way the channel may or may not have room, and `write` allows both. `waiting` are the goroutines
  `write` starts when it finds no room. A world is the sequence of what was executed on it, a hash the list of the
  headers down to the genesis, so that equal hashes mean equal histories and nothing else. `Wire` is what conversion to
  JSON and back does to a transaction. A frame holds `MaxFrame` blocks, where the code has 16 MiB: a larger list ends
  the read loop it comes to (`TooLarge`), and a single block always fits, since Pack has limited it. Only the leader
  mines, one call at a time, as in the tests (the command runs a node without peers).

* **Mpt, MptProof.** A key is a sequence of nibbles, a value its content and its length, an RLP item its content or
  items and its encoded size, a digest the text it is the digest of. Sizes are kept exactly: they decide which child
  is held in place. An insertion answers the new node and how many nodes it took from the arena. What is no RLP list of
  two or seventeen items is refused as a whole.
* **StateRoot.** `cert` is the last answer of a call (root, proof, nodes taken, room reserved) with the state it was
  made from; `age` counts the writes since. GenerateStorageProof inserts in the order of a map's iteration, a choice;
  ComputeRoot and GenerateProof in sorted order, merging accounts with slots as `buildAccountTrie` does.
* **Evm256.** The number of limbs, their bits and the bits of a byte are constants; everything else is the code's:
  carries, borrows, the 512-bit product, normalisation, the reciprocal, the estimate of each limb of a quotient and its
  correction. A loop is the function of its states, round after round. The reference is integer arithmetic modulo the
  word (`Value` and `Meaning`, at the end of the module).
* **Stepper.** A frame is a record with the fields of `ExecutionFrame`; code is a sequence of bytes that are read as
  instructions or, after a PUSH, as data. Each instruction checks in the code's order: stack, room, gas, then
  its own conditions. Keccak is a constant operator.
* **OneStep.** `Iterate` is one round of CaptureStepWitnesses: clone, step, capture. `executeSimulate` is the web
  handler: it makes stack, code and frame for one instruction, of a request with any number of items; `SimulatePanics`
  is a call that indexes beyond the frame's array, which the HTTP server recovers from. `VerifyWitness` and
  `executeOneStep` are operators, because they have no state. A storage proof is the contents it was made from, which is
  what the run `stateroot` shows it to stand for.

## 3. Runs

Every passing run is checked to its end; the numbers are TLC's distinct states.

| run | asks | bounds, and why they are enough |
|---|---|---|
| `statetrie` | does a revert give back exactly what its snapshot saw, does the journal implement `SnapshotStore`? | one address with an alias, two slots, values below 2, four journal entries, two snapshots (2.7 M). A deletion with both slots, in both orders, fits together with a write before or after it and a nested revert or discard; values below 2 wrap. More addresses, slots and entries are the theorems' business. |
| `mempool` | do the indices agree, are batches sorted and within both budgets, does nothing vanish? | two senders, seven transactions with rival nonces, equal tips and gas amounts that leave heads out; budgets with and without a count |
| `retryable` | is a quote exact or refused, is a submission redeemed at most once? | limbs below 3, so words below 81: products and sums of fees up to 80 overflow in every place; two submissions, also of one ID |
| `block_processor` | is every coin in a balance or burnt, does a failed block leave nothing? | two accounts, one of them the coinbase, two blocks, refunds above and below the cap, a word of 64 that costs pass, so that a purchase wraps while its refund does not; each account without a nonce (`Ephemeral`) may be destroyed, the coinbase with its tip included |
| `call_context` | does a failure undo exactly its frame, do static calls only read, are coins, gas, code and storage accounted for, does a transaction end? | sender, contract, precompile, fresh address; depth 3; four units of gas, of which every opcode that does not end its frame takes at least one: enough for a call, a creation and a destruction below each other |
| `sequencer` | is no nonce executed twice or skipped, is no block refused for nonce or gas, are deposits credited once and coins accounted for, are delays and windows kept, does ProduceBlock return while clients go on adding? | two blocks, two transactions of one sender that follow each other, a deposit it needs for the second, deposits to nobody, retryables that take its nonce and leave room, no room or are not redeemed; one delayed message and one express transaction at a time, times at both ends of the clock, so that a deadline carries and a message comes from the future (0.6 M); safety and liveness |
| `sequencer_pack` | does a block answered with an error have no effect? It has: section 6 | |
| `replication` | has a follower executed a prefix of the leader's batches, does the whole implement `ReplicatedLog`, and, as long as no block fails, no deposit comes and no transaction is changed by the wire: equal hashes and states, and does CatchUp bring the leader's height? | leader and follower, channels of one message so that messages wait and overtake, attempts at blocks of which some fail before or after the commit, one deposit, transactions with and without a tip and with an access list, frames of one block, so that a list of two ends a connection, one CatchUp (0.4 M); safety and liveness |
| `replication_deposit` | the same agreement with one deposit and a transaction without a tip. It fails by each of the two alone: section 6 | frames of three blocks, which is the whole chain |
| `replication_gap` | the same progress with one failing block. It fails: section 6 | |
| `stateroot` | is every root the one of the contents, does a proof show exactly what the state holds, do the two verifiers agree, does the arena suffice? | keys of 64 nibbles as in the code, since sizes depend on them; four slots that share ten, nine and no nibbles, so that an extension is made and split at its first and last nibble and a leaf is short enough to be held in place; values of 1, 2 and 33 bytes, with which leaves are of 30, 31, 32 and 35 bytes, on both sides of the limit and at it; two addresses, each with and without account and slots; a proof is used in the state it was made from and after one more write, also behind the new root (14 K) |
| `onestep` | is the limb arithmetic exact, do frames stay sound, does a witness verify for its step's result only, does the contract agree? | three limbs of four bits; the operands are chosen so that every branch of the division occurs (estimate right, lowered, saturated, each with and without the correction after it); stack of four and requests of up to seven items, memory of two words, offsets at, across and beyond its end, gas at and around the prices; programs with stores before loads, storage, and jumps into and out of PUSH data; `maxReplayCode` is 20 bytes, so that codes reach beyond it and `Fits` refuses some witnesses, and `maxWitnessSteps` is more than the longest run; each of the three exceptions in `ContractAgrees` occurs, the run fails without it (51 K) |

Deadlock checking is off where the bounded system may simply stop (all clients done, all blocks made); progress is
then what the liveness properties are for.

Fairness. `Sequencer!Spec` has weak fairness of `Step`, the next step of a running ProduceBlock: it holds the
sequencer's mutex and takes the others only for the length of a loop that ends. `CallContext!FairSpec`: a running
transaction runs on. `Replication!FairSpec`: weak fairness of each goroutine (each read loop, each waiting write, the
rest of each Mine, AttachPair and CatchUp call) and none of calling Mine, CatchUp or AttachPair. The two liveness
results of replication (`CatchUpServes`, and `CatchUpServesUntilTrouble`, which asks it only for a leader without
trouble, and of a follower whose read loop no list has ended) need no more, because `write` never waits.

Each property of a passing run has a mutant in PROJECT.json: a changed definition of the code's model under which TLC
finds the property violated in the same run.

## 4. Proofs

TLC checks the instances above; the theorems hold for every value of the constants that satisfies the named
assumptions. Most are typing facts, and that markers such as `NoAccount` are not values (`SpaceAssumption`,
`AbsentAssumption`, `TxAssumption`, `BudgetAssumption`, `ProcAssumption`, `SeqAssumption`, `NodeAssumption`,
`OriginAssumption`, `RetryableAssumption`: a gas amount is below `B`, a word below `B^4`). The others:

* `AddressAssumption`: there are finitely many addresses (an address is a `[20]byte`), without which their balances
  have no sum.
* `CallAssumption`: the stipend is no larger than the price of a call with value, as in the code (2300 and 9000);
  `NoGasMade` would be false otherwise.
* `WorldAssumption`: a transaction finds no storage without an account, which is what the one before it leaves, and the
  address of a new contract, the end of a hash, is not a precompile's.
* `LimbAssumption`: a word has at least two limbs, a limb is whole bytes, and the bits of a word can be counted in a
  limb, as 256 can in 64 bits: shifts are compared with it in the lowest limb.
* `FrameAssumption`: a stack holds four words, the memory's limit is whole words, fits 32 bits, and 32 bits fit a limb.
  `ReplayAssumption` and `InputAssumption`: codes are made of bytes and a request's items are words, any number of them.
* `Digests`, a hypothesis of the theorems about steps and no ASSUME, since TLC cannot go through all byte strings: the
  digest of bytes is a word.

The arguments:

* **StateTrieProofs.** The inductive invariant is `IInv`: types, valid indices of the snapshots, and `UndoChain`:
  undoing journal entry *i* on contents `hist[i + 1]` gives `hist[i]`. The chain is what makes a revert right although
  entries of several snapshots lie behind each other and DiscardSnapshot removes indices without entries; the last
  element of the chain is the current contents, also in the middle of an undo loop. From it: `RevertCorrect`,
  `IndicesValid`, `NoZeroStored`, and `Refinement`: every step is a step of `SnapshotStore` or stutters, where a loop
  stutters until its last iteration.
* **SumTheorems.** The totals of balances and gas are `MapThenSumSet`s, which add up in the order CHOOSE picks. The
  lemmas say that the order does not show (`SumRemove` and its kin: a sum is any element and the sum of the rest), and
  how a sum follows a change of one or two terms, an appended or a removed first element. The library's induction takes
  a predicate, which the provers cannot instantiate; here it is stated of a set of numbers (`Induction`) and follows
  from the well-foundedness of `<` (`Least`).
* **SequencerProofs, the mempool.** `PoolIInv`: types, agreement of the indices, the batch sorted, every head still to
  be taken after everything taken, budgets. The head clause is the invariant of PopBatch's loop: a head that appears
  when the one before it is taken has a higher nonce and so comes after it. `PreferTotal` says that the preference is
  total, which is why the map's order cannot matter. `Counted`, that the loop's counter is the sum of the gas of what
  was taken, gives `BatchGasBounded`. `NothingLost` follows from the agreement of the indices: what leaves one list
  leaves the other.
* **RetryableProofs.** The limbs of a word are its digits (`DivMod`, `DivUnique`), so four rounds of multiplication
  with a carry give the product or a carry too large for a limb, and a wrapped sum is smaller than an operand; hence
  each checked operation is exact or fails, and a quote that is none of the errors is the cost in integers. The
  invariant adds `Unspent`: a ticket that can be redeemed is of a submission that has produced nothing yet; without it
  `OncePerSubmission` is not inductive, because redeeming raises `emitted`.
* **SequencerProofs, blocks.** `NonceInv` relates five things that change at different times: the world's nonces, those
  of the live snapshots, the committed transactions, the batch under construction with the nonces it expects, and what
  of the batch has already run. From it: `NeverTwice`, `NoncesMatch`, `NoErrNonce`, `BlockUndoable`, `BlockAtomicity`.
  Nothing is needed of balances or gas: they only decide which blocks fail.
  - `GasInv`: what was reserved is the gas of the batch kept and is within the limit, and in a block what was used and
    what the remaining transactions may use is within it. From it: `SequencerTyped`, `NoErrGasLimit`.
  - `ProcInv` (`Coins`): balances, what was burnt and, while a transaction runs, the price it has paid in advance for
    its gas are what was minted, in the current world and in the one the block's snapshot holds: modulo a word always,
    since every amount is reduced once and sums do not care when, and exactly with nothing wrapped. The sweep moves what
    the destroyed accounts hold from the balances to what is burnt (`SumPlus`).
    It needs nothing of where blocks come from, so `AnyBlockConserves` is of `ProcSpec`: any sequence of transactions as
    a block, any deposit, at any time, as import runs blocks no sequencer has filtered; `SequencerConserves` is the
    sequencer's case. Likewise `AnyBlockUndoable` and `AnyBlockAtomicity` beside `BlockUndoable` and `BlockAtomicity`.
    The proof found `wrapped` too weak in an earlier form: it looked at single amounts, while two balances may together
    exceed a word although neither does, so that a transfer between them wraps. The supply is part of it now.
  - `OnTime`: the deadline of an item of the lane is the one of the moment it was pushed (`Dated`), so the comparisons
    of Drain and PopReady are those of integers: a sum that carries is past every clock, a difference is taken only
    where it does not borrow.
  - `DepositsSafe`: the deposits in the inbox, among those PopReady keeps and among those it handed out, with those
    credited, are those enqueued. The steps move messages between these lists one at a time; the sums follow.
* **CallContextProofs, frames.** `FrameInv`: for every frame on the stack, the snapshots and the marks it keeps still
  lead back to what it found (`AllHeld`); this survives what happens above it because logs, journals and snapshots only
  grow above a frame's marks (`Later`), and a rollback gives back exactly what was marked. `ReadOnly`: every frame above
  a static one is static, and the world below it is the world it found. From it: `FailureRestores`,
  `StaticCallsOnlyRead`, `CallTypeCorrect` (no deduction of gas or balance goes below zero).
* **CallContextProofs, the world.** `StateInv` says of every environment a failure may lead back to, not only of the
  current one, that old contracts have their code and are not among the created (`Kept`), that storage without an
  account is in the set the sweep goes through (`Watched`), and that the coins are accounted for (`Solvent`); and that
  the accounts of all running frames are touched in all of them. The last is what `SweepLeavesNoOrphans` rests on: a
  frame goes on writing to an account a frame above it destroyed, and a failure in between takes back touches as well.
  `NoGasMade` compares the sum over the frames before and after each kind of step.
* **ReplicationProofs.** `IInv`: every block on its way, in whatever channel, goroutine, caller or read loop, has the
  number and the batch of an entry of the leader's chain (`Carried`), the leader's numbers increase strictly, and every
  chain copies the beginning of the leader's. So a block that follows on a node is the leader's next, although import
  compares neither indices nor hashes. From it: `BatchesSame` and `Refinement`. `AgreementInv` adds that, until
  trouble, the leader's headers are those of executing its batches on its genesis, and the followers' are equal. It
  assumes nothing of the transactions: that the wire leaves the effect of one is a lemma about those without an access
  list and with a tip, or a price that leaves room for none, and trouble is that the leader's chain has another.

* **WordProofs.** A word is the `Number` its limbs are the digits of; bytes and bits are digits as well. 2^n is the
  number of subsets of n elements, which is where the laws of powers come from. The lemmas on digits say what a chain of
  carries or borrows, a row of a product, a shift or a changed digit does to the number; what a loop has come to after
  each round is shown by induction over a set of rounds (`Climb`).
  - Division: `reciprocal2by1` is the rounded reciprocal of a normalised limb, so `udivrem2by1`, with its two possible
    corrections, divides two limbs by one. An estimate `qhat` is never too small and, once it was compared with the
    second limb of the divisor, too large by one at most; in that case, and in no other, the subtraction borrows beyond
    the top limb, and adding the divisor back makes remainder and limb exact. The invariant of the rounds is that the
    limbs of the quotient so far, times the divisor, and what is left of the dividend are the dividend, and that what is
    left is smaller than the divisor. From it `DivExact`; `SignedDivExact` and `ModularExact` rest on it.
* **OneStepProofs.** `CalculateExact` goes through the 25 instructions and gives `ArithmeticSound`. The inductive
  invariant is `FrameInv`, the frames before and after the last step are sound (typed, stack within its limit, memory of
  whole words and blank behind its size, paid for as far as the step used it) and a replay that goes on is at an
  instruction, together with `WitnessInv`, the witness is the one captured from that step. A request with more items
  than a stack holds is a case of its own (`RequestOverlong`): where the call does not panic, it ends in a frame whose
  only flaw is the length of its stack, and without a witness. That memory is paid for needs that no sum of an offset and a
  size wraps a limb (`NoWrap`). `FramesStaySound` alone is not inductive: whether the memory stays
  blank and the next position is an instruction depends on the types of what is on the stack and in the code, and a
  verdict about a witness on the frame it was captured from.
  - `WitnessesSound` and `ContractSound` compare the step with its replay and with the contract. For each supported
    instruction a lemma says what the step came to, how it fails or with which result it ends, and which claims the
    replay and the contract accept: in all cases those of exactly one result, under a condition that does not depend
    on the claim. So at most one claim passes, the honest one passes when the condition is `Replayable`, and the
    verifiers agree where the conditions do.
  - The proof of `ContractSound` found two exceptions that the runs had not met with larger bounds: a code that would be
    longer than `maxReplayCode`, and a PUSH on a full stack (section 6). The run was extended to meet both.

Only model-checked: liveness (`ProduceBlockReturns`, `TransactionEnds`, `CatchUpServesUntilTrouble`), which is out of
the prover's reach; and the four properties of `StateRoot` (`RootsAreCanonical`, `ProofsShowExactly`, `VerifiersAgree`,
`ReservationHolds`): insertion into the trie and the walks of a proof are recursive operators, for which the prover has no
backend, and what they compute for every trie needs an induction over tries, with a predicate the provers cannot
instantiate. Every other property of the passing runs is the subject of a theorem.

## 5. Plan

Done: the parts of sections 1 to 4. Left:

1. `StateRoot`: `ReservationHolds` needs little of what insertion computes. If the arena's accounting is split from
   the trie's nodes, it can be proved.
2. `BatchCodec`: Pack and Unpack as inverse functions on abstract items; eth_call and eth_estimateGas on snapshots of
   the world that must leave no trace.

## 6. Where the code and its tests part

* `sequencer_pack`: Pack runs after ProcessBlock has committed; a batch over the size limit makes ProduceBlock report
  failure while nonces and transfers stay and no block is sealed. The test of block atomicity requires that a block
  answered with an error has no effect (`pkg/c2block/consensus_revert_test.go:83`).
* `replication_deposit`: a follower executes the block's transactions and seals its own root without comparing it with
  the leader's; deposits are credited by the leader outside any transaction, so the states part and the blocks after
  that have different hashes. `pkg/c2rpc/rpc_test.go:382` requires equal balances.
  Agreement fails in the same run, also without deposits, for a dynamic-fee transaction with tip zero: `fromWireTx`
  (`p2p.go:421`) gives it the price as a tip, so a follower charges its sender more than the leader did, or refuses the
  block because the sender cannot pay that. The access list is not on the wire at all.
* `replication_gap`: ProduceBlock raises the header's number before the block runs and keeps it when the block fails;
  the next block leaves a gap, followers refuse it as non-sequential, and no CatchUp helps.
  `pkg/c2rpc/rpc_test.go:373` requires that CatchUp brings a follower to the leader's height.

Three things that no sentence of the repository denies, so that there is no promise to refute; the properties state
exactly how far the code goes:

* A list of blocks above `maxP2PFrame` (16 MiB) is refused by `readP2P`, and `readLoop` then returns for good
  (`pkg/c2rpc/p2p.go:161`, `174`): the connection stays listed, the sender's write loop keeps the frame in its hands,
  and nothing sent over it arrives any more. `replyBlocks` sends the whole rest of the chain in one list, so a follower
  that is far enough behind can never catch up. `CatchUpServesUntilTrouble` excepts a read loop that ended this way.
* The cost of a transaction is taken modulo 2^256 before it is compared with the balance (`block_processor.go:127`).
  With a price near 2^256 a sender buys gas for almost nothing and is paid the tip or the refund, reduced separately
  (`215`-`221`): coins appear that nobody credited. They appear in multiples of a word only, which is what
  `Conservation` says of such transactions.
* `executeSimulate` copies at most 1024 items and sets SP to the number of the request's (`pkg/c2web/server.go:365`):
  with more, instructions that read the stack index out of range and the call panics (net/http recovers), and STOP,
  JUMPDEST and POP run with SP beyond the stack. `FramesStaySound` says that this ends there: no replay gets such a
  frame, and no witness is made of one.

Three further places where a sentence of the repository is wider than the code; the properties of the run `onestep`
state what does hold, so these need no run of their own:

* A witness of a step that ran is not always accepted. `reconstructFrame` starts with no memory and sizes it for the
  access itself, so an MSTORE in a frame that already has memory is charged anew, and an MLOAD that makes memory grow
  is not charged (`pkg/onestep/witness.go:320`). `Replayable` says exactly when the replay can judge.
* The contract accepts a JUMPI that is not taken with a destination of more than 32 bits, which VerifyWitness refuses
  (`pkg/onestep/witness.go:297`); README.md:21 calls the two bit-exact. Two more cases are of this kind: a step so far
  into its code, or a jump so far, that VerifyWitness will not rebuild the code (`maxReplayCode`, `witness.go:306`), and
  a PUSH that halted on a full stack, of whose witness the contract pushes the whole word that was on top while the
  replay has only the PUSH's bytes of it. `ContractAgrees` excepts these three cases and no other.
* A state root has no status: the witness of a step that halted may verify if its gas was exactly the instruction's
  price. `WitnessesVerify` says that no other halted step does.

Also of note: both verifiers of storage proofs refuse an extension whose child is held in place, which needs two
digests with 55 common nibbles; the proof for an SSTORE is of the new value, so it is made from the trie after the
step; SLOAD and SSTORE of a frame use address zero, while the proof is for the address given to the capture.

What holds in spite of the first three, and is checked with failing blocks and deposits, is `SameBatches`: a follower
never executes a batch twice, out of order, or beyond a gap.

## 7. Not modelled

* Hashes, signatures, elliptic curves, Brotli, precompiles and byte-level parsing: out of TLC's reach. Where a hash
  matters it is an injective constructor of what it covers.
* The assembly and C paths of `pkg/evm256`: compared with the Go code by the repository's tests.
* `EncodeWitnessABI`: the layout of a witness. Malformed RLP: both verifiers refuse it; how is not modelled.
* Receipts, blooms and the receipts trie: derived from what is executed. (The receipts trie has an encoder of its own
  with buffers of fixed size.)
* Go's data race between GenerateStorageProof, which takes no mutex, and a writer: its callers have the trie to
  themselves.
* RPC server, command, web page apart from the simulator's step, deployment: I/O around operations that are modelled.
  The command's ticker loop stops at the first failing block.
* The state-test runner of `pkg/c2torture` and `c_src`: test harness and oracles.
* The codec of batches and the simulations of eth_call are planned (section 5).
