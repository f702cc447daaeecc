------------------------------- MODULE Mempool -------------------------------
(***************************************************************************)
(* pkg/c2seq/mempool.go: the pending transactions, indexed by hash and by  *)
(* sender.  A sender's list is kept sorted by nonce; a transaction is      *)
(* replaced only by one of the same nonce with a strictly higher tip.      *)
(* PopBatch takes list heads, best first, while they fit a gas and a count *)
(* budget: its loop holds the mutex, and each iteration is a step.         *)
(***************************************************************************)
EXTENDS Transaction, Sequences, FiniteSetsExt

CONSTANTS
  Gases,             \* gas budgets PopBatch is called with
  Counts             \* count budgets; a negative one means no limit

ASSUME BudgetAssumption == Gases \subseteq Nat /\ Counts \subseteq Int

VARIABLES
  byHash,            \* the pooled transactions, by hash
  bySender,          \* bySender[s]: those of s, by nonce
  popping,           \* the mutex is held by PopBatch
  budget,            \* PopBatch: the gas and count budgets, and the gas used
  out                \* PopBatch: the batch so far

poolVars == <<byHash, bySender, popping, budget, out>>

PoolTypeOK ==
  /\ byHash \subseteq Tx
  /\ bySender \in [Address -> Seq(Tx)]
  /\ popping \in BOOLEAN
  /\ budget \in [maxGas : Nat, maxCount : Int, used : Nat]
  /\ out \in Seq(Tx)

PoolInit ==
  /\ byHash = {}
  /\ bySender = [s \in Address |-> <<>>]
  /\ popping = FALSE
  /\ budget = [maxGas |-> 0, maxCount |-> 0, used |-> 0]
  /\ out = <<>>

-----------------------------------------------------------------------------
txTip(tx) == IF tx.tipCap # 0 THEN tx.tipCap ELSE tx.gasPrice

\* Mutant of popPrefer: the higher tip first, whatever the nonces.
popPreferTipFirst(t, u) ==
  \/ txTip(t) > txTip(u)
  \/ /\ txTip(t) = txTip(u)
     /\ \/ t.nonce < u.nonce
        \/ t.nonce = u.nonce /\ t.hash > u.hash

\* The lower nonce first, then the higher tip, then the higher hash.
popPrefer(t, u) ==
  \/ t.nonce < u.nonce
  \/ /\ t.nonce = u.nonce
     /\ \/ txTip(t) > txTip(u)
        \/ txTip(t) = txTip(u) /\ t.hash > u.hash

\* list with tx inserted at position p, and without its element at position p.
Inserted(list, p, tx) ==
  [k \in 1..(Len(list) + 1) |->
     IF k < p THEN list[k] ELSE IF k = p THEN tx ELSE list[k - 1]]
Without(list, p) ==
  [k \in 1..(Len(list) - 1) |-> IF k < p THEN list[k] ELSE list[k + 1]]

\* Mutant of Replace: an equal tip replaces too.
ReplaceEqualTip(tx) ==
  LET list == bySender[tx.from] IN
  /\ ~popping
  /\ tx \notin byHash
  /\ \E p \in DOMAIN list :
       /\ list[p].nonce = tx.nonce
       /\ txTip(tx) >= txTip(list[p])
       /\ byHash' = (byHash \ {list[p]}) \cup {tx}
       /\ bySender' = [bySender EXCEPT ![tx.from] = [list EXCEPT ![p] = tx]]
  /\ UNCHANGED <<popping, budget, out>>

\* Mutant of Replace: the replaced hash stays in byHash.
ReplaceKeepsOldHash(tx) ==
  LET list == bySender[tx.from] IN
  /\ ~popping
  /\ tx \notin byHash
  /\ \E p \in DOMAIN list :
       /\ list[p].nonce = tx.nonce
       /\ txTip(tx) > txTip(list[p])
       /\ byHash' = byHash \cup {tx}
       /\ bySender' = [bySender EXCEPT ![tx.from] = [list EXCEPT ![p] = tx]]
  /\ UNCHANGED <<popping, budget, out>>

\* AddTx on a nonce the sender already has: ErrUnderpriced unless the tip rises.
Replace(tx) ==
  LET list == bySender[tx.from] IN
  /\ ~popping
  /\ tx \notin byHash
  /\ \E p \in DOMAIN list :
       /\ list[p].nonce = tx.nonce
       /\ \A k \in 1..(p - 1) : list[k].nonce # tx.nonce
       /\ txTip(tx) > txTip(list[p])
       /\ byHash' = (byHash \ {list[p]}) \cup {tx}
       /\ bySender' = [bySender EXCEPT ![tx.from] = [list EXCEPT ![p] = tx]]
  /\ UNCHANGED <<popping, budget, out>>

\* AddTx on a new nonce: before the first larger one, or at the end.
Insert(tx) ==
  LET list == bySender[tx.from] IN
  /\ ~popping
  /\ tx \notin byHash
  /\ \A k \in DOMAIN list : list[k].nonce # tx.nonce
  /\ \E p \in 1..(Len(list) + 1) :
       /\ \A k \in 1..(p - 1) : list[k].nonce <= tx.nonce
       /\ p <= Len(list) => list[p].nonce > tx.nonce
       /\ bySender' = [bySender EXCEPT ![tx.from] = Inserted(list, p, tx)]
  /\ byHash' = byHash \cup {tx}
  /\ UNCHANGED <<popping, budget, out>>

AddTx(tx) == Replace(tx) \/ Insert(tx)

\* An unknown hash is left alone; the list may become empty.
removeLocked(tx) ==
  LET list == bySender[tx.from] IN
  /\ tx \in byHash
  /\ byHash' = byHash \ {tx}
  /\ IF \E p \in DOMAIN list : list[p] = tx
     THEN \E p \in DOMAIN list :
            /\ list[p] = tx
            /\ \A k \in 1..(p - 1) : list[k] # tx
            /\ bySender' = [bySender EXCEPT ![tx.from] = Without(list, p)]
     ELSE UNCHANGED bySender

RemoveTx(tx) ==
  /\ ~popping
  /\ removeLocked(tx)
  /\ UNCHANGED <<popping, budget, out>>

-----------------------------------------------------------------------------
PopBegin(maxGas, maxCount) ==
  /\ ~popping
  /\ maxGas # 0 /\ maxCount # 0
  /\ popping' = TRUE
  /\ budget' = [maxGas |-> maxGas, maxCount |-> maxCount, used |-> 0]
  /\ out' = <<>>
  /\ UNCHANGED <<byHash, bySender>>

\* Mutant of Fits: the gas already used is forgotten.
FitsWholeBudget(tx) == tx.gas <= budget.maxGas

\* The senders whose head fits what is left of the gas budget.
Fits(tx) == tx.gas <= budget.maxGas /\ tx.gas <= budget.maxGas - budget.used
Candidates == {s \in Address : bySender[s] # <<>> /\ Fits(bySender[s][1])}

CountReached == budget.maxCount > 0 /\ Len(out) >= budget.maxCount

\* Mutant of PopOne: the gas taken is not counted as the transaction's limit.
PopOneCountsOne ==
  /\ popping
  /\ ~CountReached
  /\ \E s \in Candidates :
       LET best == bySender[s][1] IN
       /\ \A r \in Candidates \ {s} : popPrefer(best, bySender[r][1])
       /\ out' = Append(out, best)
       /\ budget' = [budget EXCEPT !.used = @ + 1]
       /\ removeLocked(best)
  /\ UNCHANGED popping

PopOne ==
  /\ popping
  /\ ~CountReached
  /\ \E s \in Candidates :
       LET best == bySender[s][1] IN
       /\ \A r \in Candidates \ {s} : popPrefer(best, bySender[r][1])
       /\ out' = Append(out, best)
       /\ budget' = [budget EXCEPT !.used = @ + best.gas]
       /\ removeLocked(best)
  /\ UNCHANGED popping

\* The batch goes to the caller.
PopEnd ==
  /\ popping
  /\ CountReached \/ Candidates = {}
  /\ popping' = FALSE
  /\ budget' = [maxGas |-> 0, maxCount |-> 0, used |-> 0]
  /\ out' = <<>>
  /\ UNCHANGED <<byHash, bySender>>

PoolNext ==
  \/ \E tx \in Tx : AddTx(tx) \/ RemoveTx(tx)
  \/ \E g \in Gases, n \in Counts : PopBegin(g, n)
  \/ PopOne
  \/ PopEnd

PoolSpec == PoolInit /\ [][PoolNext]_poolVars

-----------------------------------------------------------------------------
\* The two indices hold the same transactions, each in its sender's list, and
\* every list is strictly increasing in nonce: replacement leaves no second
\* transaction of a nonce and no hash without a list entry.
IndexAgreement ==
  /\ \A s \in Address : \A i \in DOMAIN bySender[s] :
       bySender[s][i] \in byHash /\ bySender[s][i].from = s
  /\ \A tx \in byHash : \E i \in DOMAIN bySender[tx.from] : bySender[tx.from][i] = tx
  /\ \A s \in Address : \A i, j \in DOMAIN bySender[s] :
       i < j => bySender[s][i].nonce < bySender[s][j].nonce

\* A batch is sorted by the preference as a whole, although it is built from
\* list heads that only show up as earlier ones are taken, and although heads
\* that do not fit are passed over.
BatchSorted ==
  \A i, j \in DOMAIN out : i < j => popPrefer(out[i], out[j])

\* What is still to be taken comes after what was taken (with BatchSorted, the
\* invariant of the loop).
HeadsAfterBatch ==
  popping => \A s \in Candidates, i \in DOMAIN out : popPrefer(out[i], bySender[s][1])

\* The gas budget is never exceeded, nor the count budget when there is one.
WithinBudget ==
  /\ budget.used <= budget.maxGas
  /\ budget.maxCount > 0 => Len(out) <= budget.maxCount

\* The gas txs reserve together.
GasOf(txs) ==
  LET gas == [i \in 1..Len(txs) |-> txs[i].gas]
  IN  MapThenSumSet(LAMBDA i : gas[i], 1..Len(txs))

\* The batch's transactions, added up anew, stay within the budget that was asked
\* for: the counter of the loop missed none.
BatchWithinGas == GasOf(out) <= budget.maxGas

\* A transaction leaves the pool in a batch, by RemoveTx, or because the same
\* sender paid a strictly higher tip for the same nonce.
NoSilentLoss ==
  [][\A tx \in byHash \ byHash' :
       \/ out' = Append(out, tx)
       \/ RemoveTx(tx)
       \/ \E new \in byHash' : /\ new.from = tx.from
                               /\ new.nonce = tx.nonce
                               /\ txTip(new) > txTip(tx)]_poolVars
=============================================================================
