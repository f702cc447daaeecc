------------------------------ MODULE Sequencer ------------------------------
(***************************************************************************)
(* pkg/c2seq/sequencer.go and timeboost.go: ProduceBlock collects          *)
(* candidates from the delayed inbox, the express lane and the mempool,    *)
(* keeps the ones whose nonces follow, has the block processor run them    *)
(* and posts the batch.                                                    *)
(*                                                                         *)
(* ProduceBlock holds the sequencer's mutex, but the inbox, the lane and   *)
(* the pool have mutexes of their own: clients add to them between any two *)
(* of its steps, and while a block runs.  The loops over the inbox (pc is  *)
(* "inbox") and over the lane ("drain") hold the respective mutex; each of *)
(* their iterations is a step.                                             *)
(*                                                                         *)
(* committed, first and posted are history variables: the transactions     *)
(* whose effects are in the committed world, the nonces at ProduceBlock's  *)
(* start, and the sum of all deposits ever enqueued; the lane's items      *)
(* remember when they were pushed.                                         *)
(***************************************************************************)
EXTENDS Mempool, BlockProcessor

CONSTANTS
  maxTxs,            \* transactions per block
  delay,             \* DelayedInbox.delay
  window,            \* Timeboost.window
  MaxUint64,         \* 2^64 - 1
  MaxExpressQueue,   \* the lane's capacity
  MaxBatch,          \* maxBatchPlain: what Pack accepts
  Times,             \* timestamps callers pass
  Message,           \* delayed messages
  NoAddress,         \* a nil To
  MaxInbox,          \* bound: messages waiting
  MaxBlocks          \* bound: calls of ProduceBlock

\* auto: RetryableEngine.Create answers with tx (module Retryable); otherwise with
\* an error, or with a ticket left to be redeemed by hand.
MessageFields == [kind : {"deposit", "retryable"}, to : Address \cup {NoAddress},
                  value : Nat, tx : TxFields, auto : BOOLEAN]

ASSUME SeqAssumption ==
  /\ MaxUint64 \in Nat /\ delay \in 0..MaxUint64 /\ window \in 0..MaxUint64
  /\ maxTxs \in Nat /\ MaxExpressQueue \in Nat /\ MaxBatch \in Nat
  /\ Times \subseteq 0..MaxUint64
  /\ Message \subseteq MessageFields
  /\ NoAddress \notin Address
  /\ MaxInbox \in Nat /\ MaxBlocks \in Nat

VARIABLES
  inbox,             \* DelayedInbox.q: messages with the time they were posted
  express,           \* Timeboost.items: transactions with their deadlines
  pc,                \* where ProduceBlock is
  number,            \* Header.Number
  stamp,             \* Header.Timestamp
  kept,              \* PopReady: the messages that stay in the inbox
  ready,             \* collect: the messages PopReady took
  cands,             \* candidates, in order
  batch,             \* those kept
  reserved,          \* their gas
  seen,              \* the next nonce of the senders met, or Unseen
  chain,             \* the sealed blocks: their numbers and transactions
  committed,         \* history: the transactions committed to the world
  first,             \* history: the nonces when ProduceBlock began
  posted             \* history: the deposits clients enqueued

localVars == <<number, stamp, kept, ready, cands, batch, reserved, seen>>
histVars == <<committed, first, posted>>
seqVars == <<inbox, express, pc, localVars, chain, histVars>>
vars == <<poolVars, procVars, seqVars>>

Unseen == -1
Phase == {"idle", "inbox", "deliver", "drain", "pool", "popping", "filter", "running", "pack"}

Posted == [msg : Message, postedAt : Times]
ExpressItem == [tx : TxFields, deadline : 0..MaxUint64, pushedAt : Times]

SeqTypeOK ==
  /\ inbox \in Seq(Posted) /\ kept \in Seq(Posted)
  /\ express \in Seq(ExpressItem)
  /\ pc \in Phase
  /\ number \in Nat /\ reserved \in Nat
  /\ stamp \in Times \cup {0}
  /\ ready \in Seq(Message)
  /\ cands \in Seq(TxFields) /\ batch \in Seq(TxFields) /\ committed \in Seq(TxFields)
  /\ seen \in [Address -> Nat \cup {Unseen}]
  /\ chain \in Seq([number : Nat, txs : Seq(TxFields)])
  /\ first \in [Address -> Nat] /\ posted \in Nat

Init ==
  /\ PoolInit /\ ProcInit
  /\ inbox = <<>> /\ express = <<>>
  /\ pc = "idle"
  /\ number = 0 /\ stamp = 0 /\ reserved = 0
  /\ kept = <<>> /\ ready = <<>> /\ cands = <<>> /\ batch = <<>>
  /\ seen = [s \in Address |-> Unseen]
  /\ chain = <<>> /\ committed = <<>>
  /\ first = [s \in Address |-> 0] /\ posted = 0

-----------------------------------------------------------------------------
\* Clients.
Submit(tx) ==
  /\ AddTx(tx)
  /\ UNCHANGED <<procVars, seqVars>>

\* What delivering a message adds to the balances: nothing without a target.
Credited(msg) == IF msg.kind = "deposit" /\ msg.to # NoAddress THEN msg.value ELSE 0

Enqueue(msg, postedAt) ==
  /\ pc # "inbox"
  /\ Len(inbox) < MaxInbox
  /\ inbox' = Append(inbox, [msg |-> msg, postedAt |-> postedAt])
  /\ posted' = posted + Credited(msg)
  /\ UNCHANGED <<poolVars, procVars, express, pc, localVars, chain, committed, first>>

\* Sums and differences of uint64.
Sum64(x, y) == (x + y) % (MaxUint64 + 1)
Diff64(x, y) == (x - y) % (MaxUint64 + 1)

\* Mutant of Deadline: the carry is not looked at.
DeadlineWraps(now) == Sum64(now, window)

\* SafeAddGas: a deadline that carries is the last moment.
Deadline(now) == IF now + window > MaxUint64 THEN MaxUint64 ELSE Sum64(now, window)

\* ErrExpressFull at the lane's capacity.
PushExpress(tx, now) ==
  /\ pc # "drain"
  /\ Len(express) < MaxExpressQueue
  /\ express' = Append(express, [tx |-> tx, deadline |-> Deadline(now), pushedAt |-> now])
  /\ UNCHANGED <<poolVars, procVars, inbox, pc, localVars, chain, histVars>>

-----------------------------------------------------------------------------
\* ProduceBlock.  The number is advanced first, and stays so if the block fails.
ProduceBlock(timestamp) ==
  /\ pc = "idle"
  /\ number < MaxBlocks
  /\ stamp' = timestamp
  /\ number' = number + 1
  /\ cands' = <<>> /\ batch' = <<>> /\ reserved' = 0
  /\ seen' = [s \in Address |-> Unseen]
  /\ pc' = "inbox"
  /\ first' = world.nonce
  /\ UNCHANGED <<poolVars, procVars, inbox, express, kept, ready, chain, committed, posted>>

Matured(item) == stamp >= item.postedAt /\ Diff64(stamp, item.postedAt) >= delay

\* PopReady: a message is taken or kept, in order.
PopReadyOne ==
  LET item == Head(inbox) IN
  /\ pc = "inbox" /\ inbox # <<>>
  /\ IF Matured(item)
     THEN ready' = Append(ready, item.msg) /\ UNCHANGED kept
     ELSE kept' = Append(kept, item) /\ UNCHANGED ready
  /\ inbox' = Tail(inbox)
  /\ UNCHANGED <<poolVars, procVars, express, pc, number, stamp, cands, batch, reserved,
                 seen, chain, histVars>>

\* Mutant of PopReadyEnd: the messages that are not ready are dropped too.
PopReadyEndClears ==
  /\ pc = "inbox" /\ inbox = <<>>
  /\ kept' = <<>>
  /\ pc' = "deliver"
  /\ UNCHANGED <<poolVars, procVars, inbox, express, number, stamp, ready, cands, batch,
                 reserved, seen, chain, histVars>>

PopReadyEnd ==
  /\ pc = "inbox" /\ inbox = <<>>
  /\ inbox' = kept
  /\ kept' = <<>>
  /\ pc' = "deliver"
  /\ UNCHANGED <<poolVars, procVars, express, number, stamp, ready, cands, batch, reserved,
                 seen, chain, histVars>>

\* A retryable's transaction gets the sender's nonce as the state has it now.
DeliverRetryable ==
  LET m == Head(ready) IN
  /\ pc = "deliver" /\ ready # <<>>
  /\ m.kind = "retryable"
  /\ cands' = IF m.auto
              THEN Append(cands, [m.tx EXCEPT !.nonce = world.nonce[m.tx.from]])
              ELSE cands
  /\ ready' = Tail(ready)
  /\ UNCHANGED <<poolVars, procVars, inbox, express, pc, number, stamp, kept, batch, reserved,
                 seen, chain, histVars>>

\* A deposit is credited at once, outside the block's snapshot.
DeliverDeposit ==
  LET m == Head(ready) IN
  /\ pc = "deliver" /\ ready # <<>>
  /\ m.kind = "deposit"
  /\ IF m.to = NoAddress THEN UNCHANGED procVars ELSE Deposit(m.to, m.value)
  /\ ready' = Tail(ready)
  /\ UNCHANGED <<poolVars, inbox, express, pc, number, stamp, kept, cands, batch, reserved,
                 seen, chain, histVars>>

DrainBegin ==
  /\ pc = "deliver" /\ ready = <<>>
  /\ pc' = "drain"
  /\ UNCHANGED <<poolVars, procVars, inbox, express, localVars, chain, histVars>>

\* Drain empties the lane; what is past its deadline is dropped.
DrainOne ==
  LET item == Head(express) IN
  /\ pc = "drain" /\ express # <<>>
  /\ cands' = IF stamp > item.deadline THEN cands ELSE Append(cands, item.tx)
  /\ express' = Tail(express)
  /\ UNCHANGED <<poolVars, procVars, inbox, pc, number, stamp, kept, ready, batch, reserved,
                 seen, chain, histVars>>

DrainEnd ==
  /\ pc = "drain" /\ express = <<>>
  /\ pc' = "pool"
  /\ UNCHANGED <<poolVars, procVars, inbox, express, localVars, chain, histVars>>

\* The gas the candidates ask for, up to the first sum that overflows.
UsedGas ==
  LET sum[i \in 0..Len(cands)] == IF i = 0 THEN 0 ELSE sum[i - 1] + cands[i].gas
  IN  sum[Max({i \in 0..Len(cands) : sum[i] <= MaxUint64})]

RemainGas == IF GasLimit = 0 THEN MaxUint64
             ELSE IF UsedGas >= GasLimit THEN 0 ELSE GasLimit - UsedGas
RemainCount == maxTxs - Len(cands)

\* The mempool is asked only for what the others leave.
AskPool ==
  /\ pc = "pool"
  /\ IF RemainCount > 0 /\ RemainGas > 0
     THEN PopBegin(RemainGas, RemainCount) /\ pc' = "popping"
     ELSE pc' = "filter" /\ UNCHANGED poolVars
  /\ UNCHANGED <<procVars, inbox, express, localVars, chain, histVars>>

PoolStep ==
  /\ pc = "popping"
  /\ PopOne
  /\ UNCHANGED <<procVars, seqVars>>

PoolDone ==
  /\ pc = "popping"
  /\ PopEnd
  /\ cands' = cands \o out
  /\ pc' = "filter"
  /\ UNCHANGED <<procVars, inbox, express, number, stamp, kept, ready, batch, reserved,
                 seen, chain, histVars>>

-----------------------------------------------------------------------------
\* The filter's loop: `full` ends it, otherwise the next candidate is kept or not.
want(s) == IF seen[s] = Unseen THEN world.nonce[s] ELSE seen[s]

Full == \/ maxTxs > 0 /\ Len(batch) >= maxTxs
        \/ GasLimit # 0 /\ reserved >= GasLimit

\* Mutant of HasRoom: the gas already reserved is forgotten.
HasRoomWholeBlock(tx) == GasLimit = 0 \/ tx.gas <= GasLimit

HasRoom(tx) == /\ GasLimit = 0 \/ tx.gas <= GasLimit - reserved
               /\ reserved + tx.gas <= MaxUint64

\* Mutant of Keep: the nonce wanted next is not remembered.
KeepForgetful ==
  LET tx == Head(cands) IN
  /\ pc = "filter" /\ cands # <<>> /\ ~Full
  /\ HasRoom(tx) /\ tx.nonce = want(tx.from)
  /\ batch' = Append(batch, tx)
  /\ reserved' = reserved + tx.gas
  /\ cands' = Tail(cands)
  /\ UNCHANGED <<poolVars, procVars, inbox, express, pc, number, stamp, kept, ready, seen,
                 chain, histVars>>

Keep ==
  LET tx == Head(cands) IN
  /\ pc = "filter" /\ cands # <<>> /\ ~Full
  /\ HasRoom(tx) /\ tx.nonce = want(tx.from)
  /\ batch' = Append(batch, tx)
  /\ reserved' = reserved + tx.gas
  /\ seen' = [seen EXCEPT ![tx.from] = want(tx.from) + 1]
  /\ cands' = Tail(cands)
  /\ UNCHANGED <<poolVars, procVars, inbox, express, pc, number, stamp, kept, ready,
                 chain, histVars>>

\* A candidate that is not kept goes nowhere: neither back to the pool nor to the
\* lane.  The sender is noted as seen once the gas check passed.
Skip ==
  LET tx == Head(cands)
      noted == GasLimit = 0 \/ tx.gas <= GasLimit - reserved IN
  /\ pc = "filter" /\ cands # <<>> /\ ~Full
  /\ ~(HasRoom(tx) /\ tx.nonce = want(tx.from))
  /\ seen' = IF noted THEN [seen EXCEPT ![tx.from] = want(tx.from)] ELSE seen
  /\ cands' = Tail(cands)
  /\ UNCHANGED <<poolVars, procVars, inbox, express, pc, number, stamp, kept, ready, batch,
                 reserved, chain, histVars>>

\* Mutant of StartBlock: a full batch does not end the loop.
StartBlockNoBreak ==
  /\ pc = "filter"
  /\ cands = <<>>
  /\ ProcessBlock(batch)
  /\ reserved' = 0
  /\ seen' = [s \in Address |-> Unseen]
  /\ pc' = "running"
  /\ UNCHANGED <<poolVars, inbox, express, number, stamp, kept, ready, cands, batch, chain, histVars>>

StartBlock ==
  /\ pc = "filter"
  /\ cands = <<>> \/ Full
  /\ ProcessBlock(batch)
  /\ cands' = <<>> /\ reserved' = 0
  /\ seen' = [s \in Address |-> Unseen]
  /\ pc' = "running"
  /\ UNCHANGED <<poolVars, inbox, express, number, stamp, kept, ready, batch, chain, histVars>>

\* The processor's steps.  An error ends ProduceBlock; a commit goes on to Pack.
BlockStep ==
  /\ pc = "running"
  /\ RunStep
  /\ pc' = IF proc' # "idle" THEN pc ELSE IF result' = "error" THEN "idle" ELSE "pack"
  /\ committed' = IF pc' = "pack" THEN committed \o batch ELSE committed
  /\ batch' = IF pc' = "idle" THEN <<>> ELSE batch
  /\ UNCHANGED <<poolVars, inbox, express, number, stamp, kept, ready, cands, reserved, seen,
                 chain, first, posted>>

\* What the batch's encoding takes.
BatchSize ==
  LET sum[i \in 0..Len(batch)] == IF i = 0 THEN 0 ELSE sum[i - 1] + batch[i].size
  IN  sum[Len(batch)]

\* LastTxs is the batch, and EthAPI.produceLocked seals it as a block.
Seal ==
  /\ pc = "pack"
  /\ BatchSize <= MaxBatch
  /\ chain' = Append(chain, [number |-> number, txs |-> batch])
  /\ batch' = <<>>
  /\ pc' = "idle"
  /\ UNCHANGED <<poolVars, procVars, inbox, express, number, stamp, kept, ready, cands, reserved,
                 seen, histVars>>

\* Pack fails when the world is already committed: no block, and an error.
PackFails ==
  /\ pc = "pack"
  /\ BatchSize > MaxBatch
  /\ result' = "error"
  /\ batch' = <<>>
  /\ pc' = "idle"
  /\ UNCHANGED <<poolVars, world, saved, blockRev, todo, cum, proc, start, depth0, minted,
                 burntGas, wrapped, inbox, express, number, stamp, kept, ready, cands, reserved,
                 seen, chain, histVars>>

Client ==
  \/ \E tx \in Tx : Submit(tx)
  \/ \E msg \in Message, t \in Times : Enqueue(msg, t)
  \/ \E tx \in Tx, now \in Times : PushExpress(tx, now)

Step ==
  \/ PopReadyOne \/ PopReadyEnd \/ DeliverRetryable \/ DeliverDeposit
  \/ DrainBegin \/ DrainOne \/ DrainEnd
  \/ AskPool \/ PoolStep \/ PoolDone
  \/ Keep \/ Skip \/ StartBlock \/ BlockStep
  \/ Seal \/ PackFails

Next == Client \/ (\E t \in Times : ProduceBlock(t)) \/ Step

\* Once called, ProduceBlock runs on: nothing in it waits but for the mutexes.
Spec == Init /\ [][Next]_vars /\ WF_vars(Step)

-----------------------------------------------------------------------------
\* A nonce of a sender is committed at most once, and in order, over all blocks:
\* whatever was submitted again, or both to the express lane and to the pool, or
\* made by a retryable, and whichever blocks failed.
NoDoubleExecution ==
  \A i, j \in DOMAIN committed :
    i < j /\ committed[i].from = committed[j].from => committed[i].nonce < committed[j].nonce

\* Outside of a block, the nonces of the world are the ones of the transactions
\* committed: a failed block leaves no nonce raised, and none is skipped.
NoncesAccounted ==
  proc = "idle" =>
    /\ \A i \in DOMAIN committed : committed[i].nonce < world.nonce[committed[i].from]
    /\ \A s \in Address : \A n \in 0..(world.nonce[s] - 1) :
         \E i \in DOMAIN committed : committed[i].from = s /\ committed[i].nonce = n

\* The filter's nonces, computed before the block runs, are the ones the processor
\* finds: a block of the sequencer never fails with ErrNonce.
NoncesFollow ==
  proc = "next" /\ todo # <<>> => Head(todo).nonce = world.nonce[Head(todo).from]

\* What the filter reserved is enough: a block of the sequencer never fails with
\* ErrGasLimit, whatever its transactions use of their gas.
GasSuffices ==
  proc = "next" /\ todo # <<>> /\ GasLimit # 0 => cum + Head(todo).gas <= GasLimit

\* What delivering all of msgs would credit, and what the chain began with.
Waiting(msgs) ==
  LET credit == [i \in 1..Len(msgs) |-> Credited(msgs[i])]
  IN  MapThenSumSet(LAMBDA i : credit[i], 1..Len(msgs))
Endowment == MapThenSumSet(LAMBDA s : Funds[s], Address)
Messages(items) == [i \in 1..Len(items) |-> items[i].msg]

\* Every deposit enqueued is waiting or was credited, once, whether or not the
\* block it came with succeeded.
DepositsAccounted ==
  minted + Waiting(ready) + Waiting(Messages(kept)) + Waiting(Messages(inbox))
    = Endowment + posted

\* Clocks are uint64 and callers' timestamps are any: a message is taken from the
\* inbox exactly when the delay has passed since it was posted, and an express
\* transaction is passed on exactly when the window has not passed since it was
\* pushed, in integers, also where sums and differences of clocks wrap.
TakenOnTime ==
  [][/\ pc = "inbox" /\ inbox # <<>> /\ inbox' = Tail(inbox) =>
          (ready' # ready <=> stamp >= Head(inbox).postedAt + delay)
     /\ pc = "drain" /\ express # <<>> /\ express' = Tail(express) =>
          (cands' # cands <=> stamp <= Head(express).pushedAt + window)]_vars

\* A call of ProduceBlock returns, however busy its clients are.
ProduceBlockReturns == pc # "idle" ~> pc = "idle"

\* A block that is answered with an error has no effect: no nonce of a sender is
\* raised (pkg/c2block/consensus_revert_test.go, TestProcessBlockAtomicity).
FailedBlockLeavesNonces == pc = "idle" /\ result = "error" => world.nonce = first
=============================================================================
