--------------------------- MODULE SequencerProofs ---------------------------
(***************************************************************************)
(* First the pool, for every set of senders, transactions and budgets: its *)
(* two indices agree, every batch PopBatch builds is sorted and within its *)
(* budgets, also when its gas is added up anew, and no transaction leaves  *)
(* the pool without a reason.                                              *)
(*                                                                         *)
(* Then the sequencer, for every set of accounts, transactions and         *)
(* messages and every limit: over all the blocks it commits, a sender's    *)
(* nonces are used once each, in order and without a gap, and no block     *)
(* fails with ErrNonce.  Balances, gas and sizes only decide which blocks  *)
(* fail; the argument needs nothing of them.                               *)
(*                                                                         *)
(* Three more invariants stand beside that of the nonces: GasInv (no block *)
(* fails with ErrGasLimit), ProcInv (no coin is made or lost, also in      *)
(* blocks no sequencer would build) and the account of the deposits.       *)
(***************************************************************************)
EXTENDS Sequencer, SumTheorems

-----------------------------------------------------------------------------
PoolIInv ==
  PoolTypeOK /\ IndexAgreement /\ BatchSorted /\ HeadsAfterBatch /\ WithinBudget

\* The fields of a transaction.
LEMMA TxIsTyped ==
  ASSUME NEW tx \in Tx
  PROVE  /\ tx.hash \in Nat /\ tx.from \in Address /\ tx.nonce \in Nat
         /\ tx.gas \in Nat /\ txTip(tx) \in Nat
BY TxAssumption DEF TxFields, txTip

\* The preference is transitive.
LEMMA PreferTransitive ==
  ASSUME NEW t \in Tx, NEW u \in Tx, NEW v \in Tx, popPrefer(t, u), popPrefer(u, v)
  PROVE  popPrefer(t, v)
BY TxIsTyped DEF popPrefer

\* Of two different transactions exactly one is preferred: the batch does not
\* depend on the order in which the Go map of heads is iterated.
THEOREM PreferTotal ==
  ASSUME NEW t \in Tx, NEW u \in Tx, t # u
  PROVE  popPrefer(t, u) <=> ~popPrefer(u, t)
BY TxIsTyped, TxAssumption DEF popPrefer

\* What insertion does to a list.
LEMMA InsertedProperties ==
  ASSUME NEW list \in Seq(Tx), NEW p \in 1..(Len(list) + 1), NEW tx \in Tx
  PROVE  LET new == Inserted(list, p, tx) IN
         /\ new \in Seq(Tx) /\ Len(new) = Len(list) + 1 /\ Len(list) \in Nat
         /\ new[p] = tx
         /\ \A k \in 1..(p - 1) : new[k] = list[k]
         /\ \A k \in (p + 1)..(Len(list) + 1) : new[k] = list[k - 1]
<1> DEFINE n == Len(list) + 1
           new == Inserted(list, p, tx)
<1>1. n \in Nat /\ Len(list) \in Nat /\ new \in [1..n -> Tx]
  BY DEF Inserted
<1>2. new \in Seq(Tx) /\ Len(new) = n
  BY <1>1 DEF Inserted
<1> QED
  BY <1>1, <1>2 DEF Inserted

\* What removal does to a list.
LEMMA WithoutProperties ==
  ASSUME NEW list \in Seq(Tx), NEW p \in 1..Len(list)
  PROVE  LET new == Without(list, p) IN
         /\ new \in Seq(Tx) /\ Len(new) = Len(list) - 1 /\ Len(list) \in Nat
         /\ \A k \in 1..(p - 1) : new[k] = list[k]
         /\ \A k \in p..(Len(list) - 1) : new[k] = list[k + 1]
<1> DEFINE n == Len(list) - 1
           new == Without(list, p)
<1>1. n \in Nat /\ Len(list) \in Nat /\ new \in [1..n -> Tx]
  BY DEF Without
<1>2. new \in Seq(Tx) /\ Len(new) = n
  BY <1>1 DEF Without
<1> QED
  BY <1>1, <1>2 DEF Without

-----------------------------------------------------------------------------
\* A list of sender s whose members are in the set pool, sorted by nonce.
SortedList(list, s, pool) ==
  /\ list \in Seq(Tx)
  /\ \A i \in 1..Len(list) : list[i] \in pool /\ list[i].from = s
  /\ \A i, j \in 1..Len(list) : i < j => list[i].nonce < list[j].nonce

\* A member of a list occurs in it only once.
LEMMA OnceInList ==
  ASSUME NEW list, NEW s, NEW pool \in SUBSET Tx, SortedList(list, s, pool),
         NEW i \in 1..Len(list), NEW j \in 1..Len(list), i # j
  PROVE  list[i] # list[j]
<1>1. i < j \/ j < i
  BY DEF SortedList
<1>2. list[i].nonce < list[j].nonce \/ list[j].nonce < list[i].nonce
  BY <1>1 DEF SortedList
<1>3. list[i].nonce \in Nat
  BY TxIsTyped DEF SortedList
<1> QED
  BY <1>2, <1>3

\* IndexAgreement, list by list.
ListsSorted ==
  /\ \A s \in Address : SortedList(bySender[s], s, byHash)
  /\ \A tx \in byHash : \E i \in 1..Len(bySender[tx.from]) : bySender[tx.from][i] = tx

\* The two indexes agree exactly when every sender's list is sorted and complete.
LEMMA AgreementByList == PoolTypeOK => (IndexAgreement <=> ListsSorted)
<1> SUFFICES ASSUME PoolTypeOK PROVE IndexAgreement <=> ListsSorted
  OBVIOUS
<1>1. \A s \in Address : bySender[s] \in Seq(Tx) /\ DOMAIN bySender[s] = 1..Len(bySender[s])
  BY DEF PoolTypeOK
<1>2. \A tx \in byHash : tx.from \in Address
  BY TxIsTyped DEF PoolTypeOK
<1> QED
  BY <1>1, <1>2 DEF IndexAgreement, ListsSorted, SortedList

\* Inserting a new nonce at its place keeps the list sorted.
LEMMA InsertedSorted ==
  ASSUME NEW list, NEW s, NEW pool \in SUBSET Tx, SortedList(list, s, pool),
         NEW tx \in Tx, tx.from = s, NEW p \in 1..(Len(list) + 1),
         \A k \in 1..Len(list) : list[k].nonce # tx.nonce,
         \A k \in 1..(p - 1) : list[k].nonce <= tx.nonce,
         p <= Len(list) => list[p].nonce > tx.nonce
  PROVE  SortedList(Inserted(list, p, tx), s, pool \cup {tx})
<1> DEFINE new == Inserted(list, p, tx)
           n == Len(list)
<1>0. list \in Seq(Tx) /\ n \in Nat
  BY DEF SortedList
<1>1. /\ new \in Seq(Tx) /\ Len(new) = n + 1 /\ new[p] = tx
      /\ \A k \in 1..(p - 1) : new[k] = list[k]
      /\ \A k \in (p + 1)..(n + 1) : new[k] = list[k - 1]
  <2>1. list \in Seq(Tx) /\ p \in 1..(Len(list) + 1) /\ tx \in Tx
    BY <1>0
  <2>2. new \in Seq(Tx) /\ Len(new) = n + 1 /\ new[p] = tx
    BY <2>1, InsertedProperties
  <2>3. \A k \in 1..(p - 1) : new[k] = list[k]
    BY <2>1, InsertedProperties
  <2>4. \A k \in (p + 1)..(n + 1) : new[k] = list[k - 1]
    BY <2>1, InsertedProperties
  <2> QED
    BY <2>2, <2>3, <2>4
<1> HIDE DEF new
<1>2. \A k \in 1..n : list[k].nonce \in Nat /\ list[k] \in pool /\ list[k].from = s
  BY TxIsTyped DEF SortedList
<1>3. tx.nonce \in Nat
  BY TxIsTyped
<1>4. \A k \in 1..(p - 1) : list[k].nonce < tx.nonce
  BY <1>0, <1>2, <1>3
<1>5. \A k \in p..n : list[k].nonce > tx.nonce
  <2> TAKE k \in p..n
  <2>1. p <= n /\ list[p].nonce > tx.nonce
    BY <1>0
  <2>2. k = p \/ list[p].nonce < list[k].nonce
    BY <1>0, <2>1 DEF SortedList
  <2> QED
    BY <2>1, <2>2, <1>0, <1>2, <1>3
<1>6. \A i \in 1..(n + 1) : new[i] \in pool \cup {tx} /\ new[i].from = s
  <2> TAKE i \in 1..(n + 1)
  <2>1. CASE i < p
    BY <2>1, <1>0, <1>1, <1>2
  <2>2. CASE i = p
    BY <2>2, <1>1
  <2>3. CASE i > p
    <3>1. i \in (p + 1)..(n + 1) /\ i - 1 \in 1..n
      BY <2>3, <1>0
    <3> QED
      BY <3>1, <1>1, <1>2
  <2> QED
    BY <2>1, <2>2, <2>3, <1>0
<1>7. ASSUME NEW i \in 1..(n + 1), NEW j \in 1..(n + 1), i < j
      PROVE  new[i].nonce < new[j].nonce
  <2>1. CASE j < p
    <3>1. new[i] = list[i] /\ new[j] = list[j] /\ i \in 1..n /\ j \in 1..n
      BY <2>1, <1>7, <1>0, <1>1
    <3> QED
      BY <3>1, <1>7 DEF SortedList
  <2>2. CASE j = p
    <3>1. i \in 1..(p - 1)
      BY <2>2, <1>7, <1>0
    <3> QED
      BY <2>2, <3>1, <1>1, <1>4
  <2>3. CASE j > p
    <3>1. j \in (p + 1)..(n + 1) /\ new[j] = list[j - 1] /\ j - 1 \in p..n /\ j - 1 \in 1..n
      BY <2>3, <1>0, <1>1
    <3>2. CASE i < p
      <4>1. i \in 1..(p - 1) /\ i \in 1..n /\ new[i] = list[i] /\ i < j - 1
        BY <3>1, <3>2, <1>0, <1>1
      <4> QED
        BY <4>1, <3>1 DEF SortedList
    <3>3. CASE i = p
      BY <3>1, <3>3, <1>1, <1>2, <1>3, <1>5
    <3>4. CASE i > p
      <4>1. i \in (p + 1)..(n + 1) /\ i - 1 \in 1..n /\ new[i] = list[i - 1] /\ i - 1 < j - 1
        BY <3>1, <3>4, <1>7, <1>0, <1>1
      <4> QED
        BY <4>1, <3>1 DEF SortedList
    <3> QED
      BY <3>2, <3>3, <3>4, <1>0
  <2> QED
    BY <2>1, <2>2, <2>3, <1>0
<1> QED
  BY <1>1, <1>6, <1>7 DEF SortedList, new

\* Replacing a transaction by one of the same nonce keeps the list sorted.
LEMMA ReplacedSorted ==
  ASSUME NEW list, NEW s, NEW pool \in SUBSET Tx, SortedList(list, s, pool),
         NEW tx \in Tx, tx.from = s, NEW p \in 1..Len(list), list[p].nonce = tx.nonce
  PROVE  SortedList([list EXCEPT ![p] = tx], s, (pool \ {list[p]}) \cup {tx})
<1> DEFINE new == [list EXCEPT ![p] = tx]
<1>0. list \in Seq(Tx) /\ Len(list) \in Nat
  BY DEF SortedList
<1>1. /\ new \in Seq(Tx) /\ Len(new) = Len(list) /\ new[p] = tx
      /\ \A k \in 1..Len(list) : k # p => new[k] = list[k]
  BY <1>0
<1> HIDE DEF new
<1>2. \A k \in 1..Len(list) : new[k].nonce = list[k].nonce
  BY <1>1
<1>3. \A k \in 1..Len(list) : new[k] \in (pool \ {list[p]}) \cup {tx} /\ new[k].from = s
  <2>1. \A k \in 1..Len(list) : k # p => list[k] # list[p]
    BY OnceInList
  <2> QED
    BY <1>1, <2>1 DEF SortedList
<1> QED
  BY <1>1, <1>2, <1>3 DEF SortedList, new

\* Removing a transaction keeps the list sorted, and the transaction is gone.
LEMMA WithoutSorted ==
  ASSUME NEW list, NEW s, NEW pool \in SUBSET Tx, SortedList(list, s, pool),
         NEW p \in 1..Len(list)
  PROVE  SortedList(Without(list, p), s, pool \ {list[p]})
<1> DEFINE new == Without(list, p)
           n == Len(list)
<1>0. list \in Seq(Tx) /\ n \in Nat
  BY DEF SortedList
<1>1. /\ new \in Seq(Tx) /\ Len(new) = n - 1
      /\ \A k \in 1..(p - 1) : new[k] = list[k]
      /\ \A k \in p..(n - 1) : new[k] = list[k + 1]
  BY <1>0, WithoutProperties
<1> HIDE DEF new
<1>2. \A k \in 1..(n - 1) : \E m \in 1..n :
        new[k] = list[m] /\ m # p /\ m = (IF k < p THEN k ELSE k + 1)
  <2> TAKE k \in 1..(n - 1)
  <2>1. CASE k < p
    BY <2>1, <1>0, <1>1
  <2>2. CASE k >= p
    <3>1. k \in p..(n - 1) /\ k + 1 \in 1..n /\ k + 1 # p
      BY <2>2, <1>0
    <3> QED
      BY <2>2, <3>1, <1>1
  <2> QED
    BY <2>1, <2>2, <1>0
<1>3. \A k \in 1..(n - 1) : new[k] \in pool \ {list[p]} /\ new[k].from = s
  <2>1. \A k \in 1..n : k # p => list[k] # list[p]
    BY OnceInList
  <2>2. \A k \in 1..n : list[k] \in pool /\ list[k].from = s
    BY DEF SortedList
  <2> QED
    BY <1>2, <2>1, <2>2
<1>4. \A i, j \in 1..(n - 1) : i < j => new[i].nonce < new[j].nonce
  <2> SUFFICES ASSUME NEW i \in 1..(n - 1), NEW j \in 1..(n - 1), i < j
               PROVE  new[i].nonce < new[j].nonce
    OBVIOUS
  <2>1. PICK k \in 1..n : new[i] = list[k] /\ k = (IF i < p THEN i ELSE i + 1)
    BY <1>2
  <2>2. PICK m \in 1..n : new[j] = list[m] /\ m = (IF j < p THEN j ELSE j + 1)
    BY <1>2
  <2>3. k < m
    BY <2>1, <2>2, <1>0
  <2> QED
    BY <2>1, <2>2, <2>3 DEF SortedList
<1> QED
  BY <1>1, <1>3, <1>4 DEF SortedList, new

\* A list that holds neither of two transactions stays sorted when the pool
\* changes by them.
LEMMA OtherListSorted ==
  ASSUME NEW list, NEW s, NEW pool, NEW pool2, SortedList(list, s, pool),
         \A i \in 1..Len(list) : list[i] \in pool => list[i] \in pool2
  PROVE  SortedList(list, s, pool2)
BY DEF SortedList

-----------------------------------------------------------------------------
\* AddTx keeps the indices in agreement.
LEMMA AddKeepsAgreement ==
  ASSUME PoolTypeOK, IndexAgreement, NEW tx \in Tx, AddTx(tx)
  PROVE  PoolTypeOK' /\ IndexAgreement'
<1> DEFINE s == tx.from
           list == bySender[s]
<1>a. s \in Address /\ byHash \in SUBSET Tx
  BY TxIsTyped DEF PoolTypeOK
<1>b. ListsSorted
  BY AgreementByList
<1>c. list \in Seq(Tx) /\ DOMAIN list = 1..Len(list) /\ Len(list) \in Nat
  BY <1>a DEF PoolTypeOK
<1>0. /\ \A r \in Address : SortedList(bySender[r], r, byHash)
      /\ \A t \in byHash : \E i \in 1..Len(bySender[t.from]) : bySender[t.from][i] = t
  BY <1>b DEF ListsSorted
<1> HIDE DEF list, s
<1>1. ASSUME NEW new, NEW pool \in SUBSET Tx, SortedList(new, s, pool),
             byHash' = pool, bySender' = [bySender EXCEPT ![s] = new],
             \A t \in byHash : t.from # s => t \in pool,
             \A t \in pool : t.from # s => t \in byHash,
             \A t \in pool : t.from = s => \E i \in 1..Len(new) : new[i] = t,
             UNCHANGED <<popping, budget, out>>
      PROVE  PoolTypeOK' /\ IndexAgreement'
  <2>1. bySender'[s] = new /\ \A r \in Address \ {s} : bySender'[r] = bySender[r]
    BY <1>a, <1>1 DEF PoolTypeOK
  <2>2. PoolTypeOK'
    BY <1>a, <1>1 DEF PoolTypeOK, SortedList
  <2>3. ASSUME NEW r \in Address PROVE SortedList(bySender'[r], r, byHash')
    <3>1. CASE r = s
      BY <3>1, <2>1, <1>1
    <3>2. CASE r # s
      <4>1. ASSUME NEW i \in 1..Len(bySender[r]) PROVE bySender[r][i] \in byHash'
        <5>1. bySender[r][i] \in byHash /\ bySender[r][i].from = r
          BY <1>0 DEF SortedList
        <5> QED
          BY <5>1, <3>2, <1>1
      <4> QED
        BY <4>1, <3>2, <2>1, <1>0, OtherListSorted
    <3> QED
      BY <3>1, <3>2
  <2>4. ASSUME NEW t \in byHash'
        PROVE  \E i \in 1..Len(bySender'[t.from]) : bySender'[t.from][i] = t
    <3>1. t.from \in Address
      BY <2>4, <1>1, TxIsTyped
    <3> QED
      BY <3>1, <2>1, <2>4, <1>0, <1>1
  <2> QED
    <3>1. ListsSorted'
      BY <2>3, <2>4 DEF ListsSorted
    <3> QED
      BY <3>1, <2>2, AgreementByList, PTL
<1>2. CASE Replace(tx)
  <2>1. PICK p \in 1..Len(list) :
          /\ list[p].nonce = tx.nonce
          /\ byHash' = (byHash \ {list[p]}) \cup {tx}
          /\ bySender' = [bySender EXCEPT ![s] = [list EXCEPT ![p] = tx]]
    BY <1>2, <1>c DEF Replace, list, s
  <2> DEFINE pool == (byHash \ {list[p]}) \cup {tx}
             new == [list EXCEPT ![p] = tx]
  <2>2. SortedList(list, s, byHash) /\ list[p] \in byHash /\ list[p].from = s /\ tx.from = s
    BY <1>a, <1>0 DEF list, s, SortedList
  <2>3. SortedList(new, s, pool)
    BY <2>1, <2>2, <1>a, ReplacedSorted
  <2>4. ASSUME NEW t \in pool, t.from = s PROVE \E i \in 1..Len(new) : new[i] = t
    <3>0. Len(new) = Len(list) /\ new[p] = tx /\ \A k \in 1..Len(list) : k # p => new[k] = list[k]
      BY <1>c, <2>1
    <3>1. CASE t = tx
      BY <3>0, <3>1
    <3>2. CASE t \in byHash /\ t # list[p]
      <4>1. PICK i \in 1..Len(list) : list[i] = t
        BY <1>0, <3>2, <2>4 DEF list
      <4> QED
        BY <4>1, <3>0, <3>2
    <3> QED
      BY <3>1, <3>2
  <2>5. /\ \A t \in byHash : t.from # s => t \in pool
        /\ \A t \in pool : t.from # s => t \in byHash
        /\ pool \in SUBSET Tx
    BY <2>2, <1>a
  <2> QED
    BY <2>1, <2>3, <2>4, <2>5, <1>1, <1>2 DEF Replace
<1>3. CASE Insert(tx)
  <2>1. PICK p \in 1..(Len(list) + 1) :
          /\ \A k \in 1..(p - 1) : list[k].nonce <= tx.nonce
          /\ p <= Len(list) => list[p].nonce > tx.nonce
          /\ bySender' = [bySender EXCEPT ![s] = Inserted(list, p, tx)]
    BY <1>3 DEF Insert, list, s
  <2>2. \A k \in 1..Len(list) : list[k].nonce # tx.nonce
    BY <1>3, <1>c DEF Insert, list, s
  <2> DEFINE pool == byHash \cup {tx}
             new == Inserted(list, p, tx)
  <2>3. SortedList(list, s, byHash) /\ tx.from = s
    BY <1>a, <1>0 DEF list, s
  <2>4. SortedList(new, s, pool)
    BY <2>1, <2>2, <2>3, <1>a, InsertedSorted
  <2>5. ASSUME NEW t \in pool, t.from = s PROVE \E i \in 1..Len(new) : new[i] = t
    <3>0. /\ Len(new) = Len(list) + 1 /\ new[p] = tx
          /\ \A k \in 1..(p - 1) : new[k] = list[k]
          /\ \A k \in (p + 1)..(Len(list) + 1) : new[k] = list[k - 1]
      <4>1. list \in Seq(Tx) /\ p \in 1..(Len(list) + 1) /\ tx \in Tx
        BY <1>c, <2>1
      <4>2. Len(new) = Len(list) + 1 /\ new[p] = tx
        BY <4>1, InsertedProperties
      <4>3. \A k \in 1..(p - 1) : new[k] = list[k]
        BY <4>1, InsertedProperties
      <4>4. \A k \in (p + 1)..(Len(list) + 1) : new[k] = list[k - 1]
        BY <4>1, InsertedProperties
      <4> QED
        BY <4>2, <4>3, <4>4
    <3> HIDE DEF new
    <3>1. CASE t = tx
      BY <3>0, <3>1, <1>c
    <3>2. CASE t \in byHash
      <4>1. PICK i \in 1..Len(list) : list[i] = t
        BY <1>0, <3>2, <2>5 DEF list
      <4>2. CASE i < p
        BY <4>1, <4>2, <3>0, <1>c
      <4>3. CASE i >= p
        <5>1. i + 1 \in (p + 1)..(Len(list) + 1) /\ (i + 1) - 1 = i /\ i + 1 \in 1..Len(new)
          BY <4>3, <3>0, <1>c
        <5>2. new[i + 1] = list[i]
          BY <5>1, <3>0
        <5> QED
          BY <4>1, <5>1, <5>2
      <4> QED
        BY <4>2, <4>3, <1>c
    <3> QED
      BY <3>1, <3>2
  <2>6. /\ \A t \in byHash : t.from # s => t \in pool
        /\ \A t \in pool : t.from # s => t \in byHash
        /\ pool \in SUBSET Tx /\ byHash' = pool
    BY <2>3, <1>a, <1>3 DEF Insert
  <2>7. bySender' = [bySender EXCEPT ![s] = new] /\ UNCHANGED <<popping, budget, out>>
    BY <2>1, <1>3 DEF Insert
  <2> HIDE DEF pool, new
  <2> QED
    BY <2>4, <2>5, <2>6, <2>7, <1>1
<1> QED
  BY <1>2, <1>3 DEF AddTx

\* removeLocked takes the transaction out of both indices.
LEMMA RemoveKeepsAgreement ==
  ASSUME PoolTypeOK, IndexAgreement, NEW tx \in Tx, removeLocked(tx),
         popping' \in BOOLEAN, out' \in Seq(Tx),
         budget' \in [maxGas : Nat, maxCount : Int, used : Nat]
  PROVE  /\ PoolTypeOK' /\ IndexAgreement'
         /\ \A r \in Address \ {tx.from} : bySender'[r] = bySender[r]
         /\ \E p \in 1..Len(bySender[tx.from]) :
              /\ bySender[tx.from][p] = tx
              /\ bySender'[tx.from] = Without(bySender[tx.from], p)
<1> DEFINE s == tx.from
           list == bySender[s]
<1>a. s \in Address /\ byHash \in SUBSET Tx /\ tx \in byHash
  BY TxIsTyped DEF PoolTypeOK, removeLocked
<1>b. ListsSorted
  BY AgreementByList
<1>c. list \in Seq(Tx) /\ DOMAIN list = 1..Len(list) /\ Len(list) \in Nat
  BY <1>a DEF PoolTypeOK
<1>0. /\ \A r \in Address : SortedList(bySender[r], r, byHash)
      /\ \A t \in byHash : \E i \in 1..Len(bySender[t.from]) : bySender[t.from][i] = t
  BY <1>b DEF ListsSorted
<1>1. PICK p \in 1..Len(list) :
        list[p] = tx /\ bySender' = [bySender EXCEPT ![s] = Without(list, p)]
  <2>1. \E q \in DOMAIN list : list[q] = tx
    BY <1>0, <1>a, <1>c
  <2> QED
    BY <2>1, <1>c DEF removeLocked
<1>2. byHash' = byHash \ {tx}
  BY DEF removeLocked
<1> DEFINE new == Without(list, p)
<1>3. SortedList(list, s, byHash)
  BY <1>0, <1>a
<1>4. SortedList(new, s, byHash')
  BY <1>1, <1>2, <1>3, <1>a, WithoutSorted
<1>5. /\ Len(new) = Len(list) - 1 /\ new \in Seq(Tx)
      /\ \A k \in 1..(p - 1) : new[k] = list[k]
      /\ \A k \in p..(Len(list) - 1) : new[k] = list[k + 1]
  BY <1>c, WithoutProperties
<1>6. bySender'[s] = new /\ \A r \in Address \ {s} : bySender'[r] = bySender[r]
  BY <1>1, <1>a DEF PoolTypeOK
<1>7. PoolTypeOK'
  BY <1>1, <1>2, <1>5, <1>a DEF PoolTypeOK
<1> HIDE DEF new
<1>8. ASSUME NEW r \in Address PROVE SortedList(bySender'[r], r, byHash')
  <2>1. CASE r = s
    BY <2>1, <1>4, <1>6
  <2>2. CASE r # s
    <3>1. ASSUME NEW i \in 1..Len(bySender[r]) PROVE bySender[r][i] \in byHash'
      <4>1. bySender[r][i] \in byHash /\ bySender[r][i].from = r
        BY <1>0 DEF SortedList
      <4> QED
        BY <4>1, <2>2, <1>2
    <3> QED
      BY <3>1, <2>2, <1>6, <1>0, OtherListSorted
  <2> QED
    BY <2>1, <2>2
<1>9. ASSUME NEW t \in byHash'
      PROVE  \E i \in 1..Len(bySender'[t.from]) : bySender'[t.from][i] = t
  <2>1. t \in byHash /\ t # tx /\ t.from \in Address
    BY <1>2, <1>a, TxIsTyped
  <2>2. CASE t.from # s
    BY <2>1, <2>2, <1>0, <1>6
  <2>3. CASE t.from = s
    <3>1. PICK i \in 1..Len(list) : list[i] = t
      BY <2>1, <2>3, <1>0
    <3>2. i # p
      BY <3>1, <2>1, <1>1
    <3>3. CASE i < p
      <4>1. i \in 1..(p - 1) /\ i \in 1..Len(new)
        BY <3>3, <1>5, <1>c
      <4>2. new[i] = t
        BY <4>1, <3>1, <1>5
      <4> QED
        BY <4>1, <4>2, <1>6, <2>3
    <3>4. CASE i > p
      <4>1. i - 1 \in p..(Len(list) - 1) /\ i - 1 \in 1..Len(new) /\ (i - 1) + 1 = i
        BY <3>4, <1>5, <1>c
      <4>2. new[i - 1] = list[i]
        BY <4>1, <1>5
      <4> QED
        BY <4>1, <4>2, <3>1, <1>6, <2>3
    <3> QED
      BY <3>2, <3>3, <3>4, <1>c
  <2> QED
    BY <2>2, <2>3
<1>10. ListsSorted'
  BY <1>8, <1>9 DEF ListsSorted
<1>11. IndexAgreement'
  BY <1>7, <1>10, AgreementByList, PTL
<1> QED
  BY <1>1, <1>6, <1>7, <1>11 DEF new

-----------------------------------------------------------------------------
\* The empty pool satisfies the invariant.
LEMMA PoolInitInv == PoolInit => PoolIInv
<1> SUFFICES ASSUME PoolInit PROVE PoolIInv
  OBVIOUS
<1>1. PoolTypeOK
  <2>1. popping \in BOOLEAN
    BY DEF PoolInit
  <2>2. /\ byHash \subseteq Tx /\ bySender \in [Address -> Seq(Tx)] /\ out \in Seq(Tx)
        /\ budget \in [maxGas : Nat, maxCount : Int, used : Nat]
    BY DEF PoolInit
  <2> QED
    BY <2>1, <2>2 DEF PoolTypeOK
<1>2. IndexAgreement
  BY DEF PoolInit, IndexAgreement
<1>3. BatchSorted /\ HeadsAfterBatch /\ WithinBudget
  BY DEF PoolInit, BatchSorted, HeadsAfterBatch, WithinBudget
<1> QED
  BY <1>1, <1>2, <1>3 DEF PoolIInv

\* An iteration of PopBatch: what follows the taken head in its list has a larger
\* nonce, every other head that still fits did fit before and was not preferred.
LEMMA PopOneKeepsInv ==
  ASSUME PoolIInv, PopOne
  PROVE  PoolIInv'
<1>1. PICK s \in Candidates :
        /\ \A r \in Candidates \ {s} : popPrefer(bySender[s][1], bySender[r][1])
        /\ out' = Append(out, bySender[s][1])
        /\ budget' = [budget EXCEPT !.used = budget.used + bySender[s][1].gas]
        /\ removeLocked(bySender[s][1])
  BY DEF PopOne
<1> DEFINE best == bySender[s][1]
           list == bySender[s]
<1>2. /\ popping /\ popping' = popping /\ ~CountReached /\ PoolTypeOK /\ IndexAgreement
  BY DEF PopOne, PoolIInv
<1>3. /\ s \in Address /\ list \in Seq(Tx) /\ Len(list) \in Nat \ {0} /\ best \in Tx
      /\ best.gas <= budget.maxGas - budget.used /\ best.gas \in Nat
  <2>1. s \in Address /\ list \in Seq(Tx) /\ list # <<>> /\ Fits(best)
    BY <1>2 DEF Candidates, PoolTypeOK
  <2>2. Len(list) \in Nat \ {0} /\ best \in Tx
    BY <2>1
  <2> QED
    BY <2>1, <2>2, TxIsTyped DEF Fits
<1>4. best.from = s
  BY <1>2, <1>3 DEF IndexAgreement
<1>t. /\ budget \in [maxGas : Nat, maxCount : Int, used : Nat] /\ out \in Seq(Tx)
      /\ popping' \in BOOLEAN
  BY <1>2 DEF PoolTypeOK
<1>5. /\ budget.maxGas \in Nat /\ budget.used \in Nat /\ budget.maxCount \in Int
      /\ budget'.maxGas = budget.maxGas /\ budget'.maxCount = budget.maxCount
      /\ budget'.used = budget.used + best.gas
      /\ budget' \in [maxGas : Nat, maxCount : Int, used : Nat]
  <2> DEFINE g == bySender[s][1].gas
  <2>1. g \in Nat /\ budget' = [budget EXCEPT !.used = budget.used + g]
    BY <1>1, <1>3
  <2> HIDE DEF g
  <2>2. budget.maxGas \in Nat /\ budget.used \in Nat /\ budget.maxCount \in Int
    BY <1>t
  <2>3. budget.used + g \in Nat
    BY <2>1, <2>2
  <2>4. /\ budget'.maxGas = budget.maxGas /\ budget'.maxCount = budget.maxCount
        /\ budget'.used = budget.used + g
    BY <2>1, <1>t
  <2>5. budget' \in [maxGas : Nat, maxCount : Int, used : Nat]
    BY <2>1, <2>3, <1>t
  <2> QED
    BY <2>2, <2>4, <2>5 DEF g
<1>6. /\ out' \in Seq(Tx) /\ Len(out') = Len(out) + 1 /\ Len(out) \in Nat
      /\ out'[Len(out) + 1] = best
      /\ \A i \in 1..Len(out) : out'[i] = out[i] /\ out[i] \in Tx
      /\ DOMAIN out = 1..Len(out) /\ DOMAIN out' = 1..(Len(out) + 1)
  BY <1>1, <1>3, <1>t
<1>7. /\ PoolTypeOK' /\ IndexAgreement'
      /\ \A r \in Address \ {s} : bySender'[r] = bySender[r]
      /\ \E p \in 1..Len(list) : list[p] = best /\ bySender'[s] = Without(list, p)
  <2>1. /\ best \in Tx /\ removeLocked(best) /\ popping' \in BOOLEAN /\ out' \in Seq(Tx)
        /\ budget' \in [maxGas : Nat, maxCount : Int, used : Nat]
    BY <1>1, <1>3, <1>5, <1>6, <1>t
  <2> HIDE DEF best
  <2>2. /\ PoolTypeOK' /\ IndexAgreement'
        /\ \A r \in Address \ {best.from} : bySender'[r] = bySender[r]
        /\ \E p \in 1..Len(bySender[best.from]) :
             /\ bySender[best.from][p] = best
             /\ bySender'[best.from] = Without(bySender[best.from], p)
    BY <2>1, <1>2, RemoveKeepsAgreement, Zenon
  <2> QED
    BY <2>2, <1>4, Zenon
<1>8. WithinBudget'
  BY <1>2, <1>3, <1>5, <1>6, SMTT(30) DEF PoolIInv, WithinBudget, CountReached
<1>9. \A i \in 1..Len(out) : popPrefer(out[i], best)
  BY <1>2, <1>6 DEF PoolIInv, HeadsAfterBatch
<1>10. BatchSorted'
  <2> SUFFICES ASSUME NEW i \in 1..(Len(out) + 1), NEW j \in 1..(Len(out) + 1), i < j
               PROVE  popPrefer(out'[i], out'[j])
    BY <1>6 DEF BatchSorted
  <2>1. CASE j = Len(out) + 1
    BY <2>1, <1>6, <1>9
  <2>2. CASE j # Len(out) + 1
    <3>1. i \in 1..Len(out) /\ j \in 1..Len(out)
      BY <2>2, <1>6
    <3> QED
      BY <3>1, <1>6 DEF PoolIInv, BatchSorted
  <2> QED
    BY <2>1, <2>2
<1>11. ASSUME NEW r \in Candidates' PROVE bySender'[r][1] \in Tx /\ popPrefer(best, bySender'[r][1])
  <2>0. r \in Address /\ bySender'[r] # <<>> /\ bySender'[r] \in Seq(Tx) /\ bySender'[r][1] \in Tx
    BY <1>7 DEF Candidates, PoolTypeOK
  <2>1. CASE r # s
    <3>1. bySender'[r] = bySender[r]
      BY <2>0, <2>1, <1>7
    <3>2. bySender[r][1].gas \in Nat
      BY <3>1, <2>0, TxIsTyped
    <3>3. /\ bySender[r][1].gas <= budget'.maxGas
          /\ bySender[r][1].gas <= budget'.maxGas - budget'.used
      BY <3>1 DEF Candidates, Fits
    <3>4. r \in Candidates
      <4>1. /\ bySender[r][1].gas <= budget.maxGas
            /\ bySender[r][1].gas <= budget.maxGas - budget.used
        <5> DEFINE g == bySender[r][1].gas
                   h == best.gas
        <5>1. /\ g \in Nat /\ g <= budget'.maxGas /\ g <= budget'.maxGas - budget'.used
              /\ h \in Nat /\ budget'.used = budget.used + h
          BY <3>2, <3>3, <1>3, <1>5, Zenon
        <5>2. budget'.maxGas = budget.maxGas /\ budget.maxGas \in Nat /\ budget.used \in Nat
          BY <1>5, Zenon
        <5> HIDE DEF g, h, best
        <5>3. g <= budget.maxGas /\ g <= budget.maxGas - budget.used
          BY <5>1, <5>2
        <5> QED
          BY <5>3 DEF g
      <4> QED
        BY <4>1, <2>0, <3>1 DEF Candidates, Fits
    <3> QED
      BY <3>1, <3>4, <2>0, <2>1, <1>1
  <2>2. CASE r = s
    <3>1. PICK p \in 1..Len(list) : list[p] = best /\ bySender'[s] = Without(list, p)
      BY <1>7
    <3>2. p = 1
      <4>1. SortedList(list, s, byHash) /\ byHash \in SUBSET Tx
        BY <1>2, <1>3, AgreementByList DEF ListsSorted, PoolTypeOK
      <4>2. 1 \in 1..Len(list)
        BY <1>3
      <4> QED
        BY <3>1, <4>1, <4>2, OnceInList
    <3>3. /\ Len(bySender'[s]) = Len(list) - 1
          /\ \A k \in 1..(Len(list) - 1) : bySender'[s][k] = list[k + 1]
      <4>1. bySender'[s] = Without(list, 1) /\ 1 \in 1..Len(list) /\ list \in Seq(Tx)
        BY <3>1, <3>2, <1>3
      <4> HIDE DEF list
      <4> QED
        BY <4>1, WithoutProperties
    <3>4. Len(list) >= 2 /\ bySender'[s][1] = list[2]
      <4>1. Len(bySender'[s]) # 0
        BY <2>0, <2>2
      <4>2. Len(list) >= 2
        <5> DEFINE n == Len(list)
                   m == Len(bySender'[s])
        <5>1. n \in Nat /\ n # 0 /\ m # 0 /\ m = n - 1
          BY <4>1, <3>3, <1>3
        <5> HIDE DEF n, m
        <5>2. n >= 2
          BY <5>1
        <5> QED
          BY <5>2 DEF n
      <4> QED
        BY <4>2, <3>3, <1>3
    <3>5. list[1].nonce < list[2].nonce
      BY <3>4, <1>2, <1>3 DEF IndexAgreement
    <3> QED
      BY <3>4, <3>5, <2>0, <2>2 DEF popPrefer
  <2> QED
    BY <2>1, <2>2
<1>12. HeadsAfterBatch'
  <2> SUFFICES ASSUME NEW r \in Candidates', NEW i \in 1..(Len(out) + 1)
               PROVE  popPrefer(out'[i], bySender'[r][1])
    BY <1>6 DEF HeadsAfterBatch
  <2>1. CASE i = Len(out) + 1
    BY <2>1, <1>6, <1>11
  <2>2. CASE i \in 1..Len(out)
    BY <2>2, <1>3, <1>6, <1>9, <1>11, PreferTransitive
  <2> QED
    BY <2>1, <2>2, <1>6
<1> QED
  BY <1>7, <1>8, <1>10, <1>12 DEF PoolIInv

\* Every operation of the pool preserves the invariant.
LEMMA PoolNextInv == PoolIInv /\ [PoolNext]_poolVars => PoolIInv'
<1> SUFFICES ASSUME PoolIInv, [PoolNext]_poolVars PROVE PoolIInv'
  OBVIOUS
<1>0. PoolTypeOK /\ IndexAgreement
  BY DEF PoolIInv
<1>1. ASSUME NEW tx \in Tx, AddTx(tx) PROVE PoolIInv'
  <2>1. PoolTypeOK' /\ IndexAgreement'
    BY <1>0, <1>1, AddKeepsAgreement
  <2>2. ~popping' /\ UNCHANGED <<budget, out>>
    BY <1>1 DEF AddTx, Replace, Insert
  <2>3. BatchSorted' /\ HeadsAfterBatch' /\ WithinBudget'
    BY <2>2 DEF PoolIInv, BatchSorted, HeadsAfterBatch, WithinBudget
  <2> QED
    BY <2>1, <2>3 DEF PoolIInv
<1>2. ASSUME NEW tx \in Tx, RemoveTx(tx) PROVE PoolIInv'
  <2>1. ~popping' /\ UNCHANGED <<popping, budget, out>> /\ removeLocked(tx)
    BY <1>2 DEF RemoveTx
  <2>2. PoolTypeOK' /\ IndexAgreement'
    BY <1>0, <2>1, RemoveKeepsAgreement DEF PoolTypeOK
  <2>3. BatchSorted' /\ HeadsAfterBatch' /\ WithinBudget'
    BY <2>1 DEF PoolIInv, BatchSorted, HeadsAfterBatch, WithinBudget
  <2> QED
    BY <2>2, <2>3 DEF PoolIInv
<1>3. ASSUME NEW g \in Gases, NEW n \in Counts, PopBegin(g, n) PROVE PoolIInv'
  <2>1. PoolTypeOK'
    BY <1>0, <1>3, BudgetAssumption DEF PoolTypeOK, PopBegin
  <2>2. IndexAgreement'
    BY <1>0, <1>3 DEF IndexAgreement, PopBegin
  <2>3. BatchSorted' /\ HeadsAfterBatch' /\ WithinBudget'
    BY <1>3, BudgetAssumption DEF PopBegin, BatchSorted, HeadsAfterBatch, WithinBudget
  <2> QED
    BY <2>1, <2>2, <2>3 DEF PoolIInv
<1>4. CASE PopOne
  BY <1>4, PopOneKeepsInv
<1>5. CASE PopEnd
  <2>0. budget' \in [maxGas : Nat, maxCount : Int, used : Nat] /\ out' \in Seq(Tx)
    BY <1>5 DEF PopEnd
  <2>1. PoolTypeOK'
    BY <1>0, <1>5, <2>0, Zenon DEF PoolTypeOK, PopEnd
  <2>2. IndexAgreement'
    BY <1>0, <1>5 DEF IndexAgreement, PopEnd
  <2>3. BatchSorted' /\ HeadsAfterBatch' /\ WithinBudget'
    BY <1>5 DEF PopEnd, BatchSorted, HeadsAfterBatch, WithinBudget
  <2> QED
    BY <2>1, <2>2, <2>3 DEF PoolIInv
<1>6. CASE UNCHANGED poolVars
  <2>1. Candidates' = Candidates
    BY <1>6 DEF poolVars, Candidates, Fits
  <2> QED
    BY <1>6, <2>1 DEF poolVars, PoolIInv, PoolTypeOK, IndexAgreement, BatchSorted,
                      HeadsAfterBatch, WithinBudget
<1> QED
  BY <1>1, <1>2, <1>3, <1>4, <1>5, <1>6 DEF PoolNext

\* The invariant holds in every reachable state of the pool.
THEOREM PoolInvariance == PoolSpec => []PoolIInv
BY PoolInitInv, PoolNextInv, PTL DEF PoolSpec

\* The hash index and the per-sender lists agree, and the lists stay sorted.
THEOREM IndicesAgree == PoolSpec => []IndexAgreement
<1>1. PoolIInv => IndexAgreement
  BY DEF PoolIInv
<1> QED
  BY <1>1, PoolInvariance, PTL

\* Every batch PopBatch builds is sorted by nonce, then tip, then hash.
THEOREM BatchesSorted == PoolSpec => []BatchSorted
<1>1. PoolIInv => BatchSorted
  BY DEF PoolIInv
<1> QED
  BY <1>1, PoolInvariance, PTL

\* Every batch is within the gas and count budgets it was asked for.
THEOREM BatchesWithinBudget == PoolSpec => []WithinBudget
<1>1. PoolIInv => WithinBudget
  BY DEF PoolIInv
<1> QED
  BY <1>1, PoolInvariance, PTL

-----------------------------------------------------------------------------
\* The gas of a list of transactions, as a sum along the list.
GasFields == [tx \in TxFields |-> tx.gas]

\* It is a number, nothing of no transactions, and grows by what is appended.
LEMMA GasOfList ==
  ASSUME NEW txs \in Seq(TxFields)
  PROVE  /\ GasOf(txs) \in Nat
         /\ txs = <<>> => GasOf(txs) = 0
         /\ \A tx \in TxFields : GasOf(Append(txs, tx)) = GasOf(txs) + tx.gas
         /\ txs # <<>> => /\ Head(txs) \in TxFields /\ Tail(txs) \in Seq(TxFields)
                          /\ GasOf(txs) = Head(txs).gas + GasOf(Tail(txs))
<1>1. GasFields \in [TxFields -> Nat] /\ GasFields \in [TxFields -> Int]
      /\ \A tx \in TxFields : GasFields[tx] = tx.gas
  <2>1. \A tx \in TxFields : tx.gas \in Nat
    BY DEF TxFields
  <2>2. \A tx \in TxFields : tx.gas \in Int
    BY <2>1
  <2> QED
    BY <2>1, <2>2, Zenon DEF GasFields
<1>2. ASSUME NEW list \in Seq(TxFields) PROVE GasOf(list) = Along(Each(GasFields, list))
  <2> DEFINE gas == [i \in 1..Len(list) |-> list[i].gas]
  <2>1. gas = Each(GasFields, list)
    BY <1>1 DEF Each
  <2>2. Len(gas) = Len(list)
    OBVIOUS
  <2>3. GasOf(list) = Over(gas, 1..Len(list))
    BY DEF GasOf, Over
  <2> HIDE DEF gas
  <2> QED
    BY <2>1, <2>2, <2>3 DEF Along
<1>3. GasOf(txs) \in Nat /\ (txs = <<>> => GasOf(txs) = 0)
  BY <1>1, <1>2, EachTyped
<1>4. ASSUME NEW tx \in TxFields PROVE GasOf(Append(txs, tx)) = GasOf(txs) + tx.gas
  <2>1. Append(txs, tx) \in Seq(TxFields)
    OBVIOUS
  <2>2. Along(Each(GasFields, Append(txs, tx))) = Along(Each(GasFields, txs)) + GasFields[tx]
    BY <1>1, EachAppend
  <2> QED
    BY <1>1, <1>2, <2>1, <2>2, Zenon
<1>5. ASSUME txs # <<>>
      PROVE  /\ Head(txs) \in TxFields /\ Tail(txs) \in Seq(TxFields)
             /\ GasOf(txs) = Head(txs).gas + GasOf(Tail(txs))
  <2>1. /\ Head(txs) \in TxFields /\ Tail(txs) \in Seq(TxFields)
        /\ Along(Each(GasFields, txs)) = GasFields[Head(txs)] + Along(Each(GasFields, Tail(txs)))
    BY <1>1, <1>5, EachTail
  <2> QED
    BY <1>1, <1>2, <2>1, Zenon
<1> QED
  BY <1>3, <1>4, <1>5

\* The counter of PopBatch is the gas of the batch so far.
Counted == GasOf(out) = budget.used

\* Every operation keeps it so.
LEMMA CountedKept == ASSUME PoolIInv, Counted, [PoolNext]_poolVars PROVE Counted'
<1>1. CASE UNCHANGED <<budget, out>>
  BY <1>1 DEF Counted
<1>2. CASE budget'.used = 0 /\ out' = <<>>
  <2>1. GasOf(<<>>) = 0
    BY EmptySeq, GasOfList, Zenon
  <2> QED
    BY <1>2, <2>1 DEF Counted
<1>3. CASE PopOne
  <2>1. PICK s \in Candidates : /\ out' = Append(out, bySender[s][1])
                                /\ budget' = [budget EXCEPT !.used = @ + bySender[s][1].gas]
    BY <1>3 DEF PopOne
  <2> DEFINE best == bySender[s][1]
  <2>2. best \in Tx /\ out \in Seq(Tx) /\ budget \in [maxGas : Nat, maxCount : Int, used : Nat]
    BY DEF PoolIInv, PoolTypeOK, Candidates
  <2>3. best \in TxFields /\ out \in Seq(TxFields)
    BY <2>2, TxAssumption
  <2>4. GasOf(out') = GasOf(out) + best.gas
    BY <2>1, <2>3, GasOfList
  <2>5. budget'.used = budget.used + best.gas
    BY <2>1, <2>2
  <2> QED
    BY <2>4, <2>5 DEF Counted
<1>4. CASE \E tx \in Tx : AddTx(tx) \/ RemoveTx(tx)
  BY <1>1, <1>4 DEF AddTx, Replace, Insert, RemoveTx
<1>5. CASE \E g \in Gases, n \in Counts : PopBegin(g, n)
  BY <1>2, <1>5 DEF PopBegin
<1>6. CASE PopEnd
  BY <1>2, <1>6 DEF PopEnd
<1>7. CASE UNCHANGED poolVars
  BY <1>1, <1>7 DEF poolVars
<1> QED
  BY <1>3, <1>4, <1>5, <1>6, <1>7 DEF PoolNext

\* Added up anew, no batch reserves more gas than PopBatch was asked for.
THEOREM BatchGasBounded == PoolSpec => []BatchWithinGas
<1>1. PoolInit => Counted
  <2> SUFFICES ASSUME PoolInit PROVE Counted
    OBVIOUS
  <2>1. GasOf(<<>>) = 0
    BY EmptySeq, GasOfList, Zenon
  <2> QED
    BY <2>1 DEF PoolInit, Counted
<1>2. PoolIInv /\ Counted /\ [PoolNext]_poolVars => Counted'
  BY CountedKept
<1>3. PoolIInv /\ Counted => BatchWithinGas
  BY DEF PoolIInv, WithinBudget, Counted, BatchWithinGas
<1> QED
  BY <1>1, <1>2, <1>3, PoolInvariance, PTL DEF PoolSpec

\* The fate of a transaction that a step takes from the pool.
Accounted(tx) ==
  \/ out' = Append(out, tx)
  \/ RemoveTx(tx)
  \/ \E new \in byHash' : /\ new.from = tx.from
                          /\ new.nonce = tx.nonce
                          /\ txTip(new) > txTip(tx)

\* No step takes one without.
LEMMA StepAccounts ==
  ASSUME PoolIInv, [PoolNext]_poolVars, NEW tx \in byHash \ byHash'
  PROVE  Accounted(tx)
<1>0. PoolTypeOK /\ IndexAgreement
  BY DEF PoolIInv
<1>1. ASSUME NEW u \in Tx, Insert(u) PROVE FALSE
  BY <1>1 DEF Insert
<1>2. ASSUME NEW u \in Tx, Replace(u) PROVE Accounted(tx)
  <2> DEFINE list == bySender[u.from]
  <2>1. PICK p \in DOMAIN list : /\ list[p].nonce = u.nonce
                                 /\ txTip(u) > txTip(list[p])
                                 /\ byHash' = (byHash \ {list[p]}) \cup {u}
    BY <1>2 DEF Replace
  <2>2. u.from \in Address
    BY TxIsTyped
  <2>3. list[p].from = u.from
    BY <1>0, <2>2 DEF IndexAgreement
  <2>4. tx = list[p] /\ u \in byHash'
    BY <2>1
  <2> QED
    BY <2>1, <2>3, <2>4 DEF Accounted
<1>3. ASSUME NEW u \in Tx, RemoveTx(u) PROVE Accounted(tx)
  <2>1. tx = u
    BY <1>3 DEF RemoveTx, removeLocked
  <2> QED
    BY <1>3, <2>1 DEF Accounted
<1>4. CASE PopOne
  <2>1. PICK s \in Candidates : out' = Append(out, bySender[s][1]) /\ removeLocked(bySender[s][1])
    BY <1>4 DEF PopOne
  <2>2. tx = bySender[s][1]
    BY <2>1 DEF removeLocked
  <2> QED
    BY <2>1, <2>2 DEF Accounted
<1>5. CASE UNCHANGED byHash
  BY <1>5
<1>6. CASE (\E g \in Gases, n \in Counts : PopBegin(g, n)) \/ PopEnd \/ UNCHANGED poolVars
  BY <1>5, <1>6 DEF PopBegin, PopEnd, poolVars
<1> QED
  BY <1>1, <1>2, <1>3, <1>4, <1>6 DEF PoolNext, AddTx

\* A transaction leaves the pool in a batch, by RemoveTx, or for one of the same
\* sender and nonce with a strictly higher tip.
THEOREM NothingLost == PoolSpec => NoSilentLoss
<1>1. ASSUME PoolIInv, [PoolNext]_poolVars
      PROVE  [\A tx \in byHash \ byHash' :
                \/ out' = Append(out, tx)
                \/ RemoveTx(tx)
                \/ \E new \in byHash' : /\ new.from = tx.from
                                        /\ new.nonce = tx.nonce
                                        /\ txTip(new) > txTip(tx)]_poolVars
  BY <1>1, StepAccounts DEF Accounted
<1> QED
  BY <1>1, PoolInvariance, PTL DEF PoolSpec, NoSilentLoss

-----------------------------------------------------------------------------
\* The pool's part: what PopBatch hands out are transactions.
PoolLists == bySender \in [Address -> Seq(Tx)] /\ out \in Seq(Tx)

\* AddTx keeps the lists lists of transactions.
LEMMA AddTxLists ==
  ASSUME PoolLists, NEW tx \in Tx, AddTx(tx)
  PROVE  PoolLists'
<1> DEFINE list == bySender[tx.from]
<1>0. tx.from \in Address /\ list \in Seq(Tx)
  BY TxIsTyped DEF PoolLists
<1>1. CASE Replace(tx)
  <2>1. PICK p \in DOMAIN list : bySender' = [bySender EXCEPT ![tx.from] = [list EXCEPT ![p] = tx]]
    BY <1>1 DEF Replace
  <2>2. [list EXCEPT ![p] = tx] \in Seq(Tx)
    BY <1>0
  <2> QED
    BY <1>0, <1>1, <2>1, <2>2 DEF PoolLists, Replace
<1>2. CASE Insert(tx)
  <2>1. PICK p \in 1..(Len(list) + 1) :
          bySender' = [bySender EXCEPT ![tx.from] = Inserted(list, p, tx)]
    BY <1>2 DEF Insert
  <2>2. Inserted(list, p, tx) \in Seq(Tx)
    BY <1>0, InsertedProperties
  <2> QED
    BY <1>0, <1>2, <2>1, <2>2 DEF PoolLists, Insert
<1> QED
  BY <1>1, <1>2 DEF AddTx

\* So does an iteration of PopBatch, and the batch it builds is one.
LEMMA PopOneLists ==
  ASSUME PoolLists, PopOne
  PROVE  PoolLists'
<1>1. PICK s \in Candidates : out' = Append(out, bySender[s][1]) /\ removeLocked(bySender[s][1])
  BY DEF PopOne
<1> DEFINE best == bySender[s][1]
           list == bySender[best.from]
<1>2. best \in Tx /\ best.from \in Address /\ list \in Seq(Tx)
  BY TxIsTyped DEF PoolLists, Candidates
<1>3. bySender' \in [Address -> Seq(Tx)]
  <2>1. CASE \E p \in DOMAIN list : list[p] = best
    <3>1. PICK p \in DOMAIN list : bySender' = [bySender EXCEPT ![best.from] = Without(list, p)]
      BY <1>1, <2>1 DEF removeLocked
    <3>2. Without(list, p) \in Seq(Tx)
      BY <1>2, WithoutProperties
    <3> QED
      BY <1>2, <3>1, <3>2 DEF PoolLists
  <2>2. CASE ~\E p \in DOMAIN list : list[p] = best
    BY <1>1, <2>2 DEF removeLocked, PoolLists
  <2> QED
    BY <2>1, <2>2
<1> QED
  BY <1>1, <1>2, <1>3 DEF PoolLists

-----------------------------------------------------------------------------
\* The world's part: fees and transfers leave it a world, with the same nonces.

\* The prices of a transaction are numbers, and what it pays is below a word.
LEMMA PricesTyped ==
  ASSUME NEW tx \in TxFields
  PROVE  /\ tipOf(tx) \in Int /\ effective(tx) \in Int
         /\ gasCost(tx) \in 0..(Word - 1)
<1>1. /\ tx.tipCap \in Nat /\ tx.feeCap \in Nat /\ tx.gasPrice \in Nat /\ tx.gas \in Nat
      /\ BaseFee \in Nat /\ Word \in Nat \ {0}
  BY ProcAssumption DEF TxFields
<1>2. tipOf(tx) \in Int
  BY <1>1 DEF tipOf
<1>3. effective(tx) \in Int
  BY <1>1, <1>2 DEF effective
<1>4. effective(tx) * tx.gas \in Int
  BY <1>1, <1>3
<1> QED
  BY <1>1, <1>2, <1>3, <1>4 DEF gasCost

\* A credit, and a debit the balance covers.
LEMMA CreditTyped ==
  ASSUME NEW w \in Worlds, NEW a \in Address, NEW v \in Int
  PROVE  /\ Credit(w, a, v) \in Worlds /\ Credit(w, a, v).nonce = w.nonce
         /\ Credit(w, a, v).burnt = w.burnt
BY ProcAssumption DEF Worlds, Credit

\* A debit the balance covers.
LEMMA DebitTyped ==
  ASSUME NEW w \in Worlds, NEW a \in Address, NEW v \in Nat, v <= w.balance[a]
  PROVE  /\ Debit(w, a, v) \in Worlds /\ Debit(w, a, v).nonce = w.nonce
         /\ Debit(w, a, v).burnt = w.burnt
BY ProcAssumption DEF Worlds, Debit

\* A transfer the balance covers.
LEMMA TransferTyped ==
  ASSUME NEW w \in Worlds, NEW a \in Address, NEW b \in Address, NEW v \in Nat, v <= w.balance[a]
  PROVE  /\ Transfer(w, a, b, v) \in Worlds /\ Transfer(w, a, b, v).nonce = w.nonce
         /\ Transfer(w, a, b, v).burnt = w.burnt
BY DebitTyped, CreditTyped DEF Transfer

\* The settlement of a transaction.
LEMMA SettledTyped ==
  ASSUME NEW w \in Worlds, NEW tx \in TxFields, NEW left \in Int
  PROVE  /\ Settled(w, tx, left) \in Worlds /\ Settled(w, tx, left).nonce = w.nonce
         /\ Settled(w, tx, left).burnt = w.burnt
<1> DEFINE back == (effective(tx) * left) % Word
           tip == (tipOf(tx) * (tx.gas - left)) % Word
           w1 == Credit(w, tx.from, back)
<1>1. tx.from \in Address /\ tx.gas \in Nat
  BY DEF TxFields
<1>2. back \in Int /\ tip \in Int
  <2>1. effective(tx) * left \in Int /\ tipOf(tx) * (tx.gas - left) \in Int
    BY <1>1, PricesTyped
  <2> QED
    BY <2>1, ProcAssumption
<1>3. w1 \in Worlds /\ w1.nonce = w.nonce /\ w1.burnt = w.burnt
  BY <1>1, <1>2, CreditTyped
<1>4. /\ Credit(w1, Coinbase, tip) \in Worlds /\ Credit(w1, Coinbase, tip).nonce = w1.nonce
      /\ Credit(w1, Coinbase, tip).burnt = w1.burnt
  <2> HIDE DEF w1, tip
  <2> QED
    BY <1>2, <1>3, CreditTyped, ProcAssumption
<1> QED
  BY <1>3, <1>4 DEF Settled

\* The sweep: what the accounts that are gone held is burnt.
LEMMA SweptTyped ==
  ASSUME NEW w \in Worlds, NEW gone \in SUBSET Address
  PROVE  /\ Swept(w, gone) \in Worlds /\ Swept(w, gone).nonce = w.nonce
         /\ Held(Swept(w, gone)) = Held(w) /\ Held(w) \in Nat
<1> DEFINE f == w.balance
           lost == [a \in Address |-> IF a \in gone THEN f[a] ELSE 0]
           rest == [a \in Address |-> f[a] - lost[a]]
           k == Over(lost, Address)
           v == Swept(w, gone)
<1>1. f \in [Address -> 0..(Word - 1)] /\ w.burnt \in Nat /\ Word \in Nat
  BY ProcAssumption DEF Worlds
<1>2. ASSUME NEW a \in Address
      PROVE  /\ f[a] \in Nat /\ f[a] <= Word - 1 /\ lost[a] \in Nat /\ lost[a] <= f[a]
             /\ rest[a] \in 0..(Word - 1) /\ f[a] = rest[a] + lost[a]
  <2>1. f[a] \in 0..(Word - 1)
    BY <1>1
  <2>2. lost[a] = 0 \/ lost[a] = f[a]
    OBVIOUS
  <2>3. rest[a] = f[a] - lost[a]
    OBVIOUS
  <2> HIDE DEF f, lost, rest
  <2> QED
    BY <1>1, <2>1, <2>2, <2>3
<1>3. rest \in [Address -> 0..(Word - 1)]
  <2>1. \A a \in Address : f[a] - lost[a] \in 0..(Word - 1)
    BY <1>2
  <2> HIDE DEF f, lost
  <2> QED
    BY <2>1
<1>4. v = [w EXCEPT !.balance = rest, !.burnt = w.burnt + k]
  BY DEF Swept, Over
<1>5. k \in Nat
  <2>1. \A a \in Address : lost[a] \in Nat
    BY <1>2
  <2> HIDE DEF lost
  <2> QED
    BY <2>1, SumBounds, AddressAssumption
<1>6. Over(f, Address) = Over(rest, Address) + k /\ Over(f, Address) \in Nat /\ Over(rest, Address) \in Nat
  <2>1. \A a \in Address : /\ rest[a] \in Int /\ lost[a] \in Int /\ f[a] = rest[a] + lost[a]
                           /\ f[a] \in Nat /\ rest[a] \in Nat
    <3> SUFFICES ASSUME NEW a \in Address
                 PROVE  /\ rest[a] \in Int /\ lost[a] \in Int /\ f[a] = rest[a] + lost[a]
                        /\ f[a] \in Nat /\ rest[a] \in Nat
      OBVIOUS
    <3>1. /\ f[a] \in Nat /\ lost[a] \in Nat /\ rest[a] \in 0..(Word - 1)
          /\ f[a] = rest[a] + lost[a]
      BY <1>2, Zenon
    <3> HIDE DEF f, lost, rest
    <3> QED
      BY <3>1
  <2> HIDE DEF f, lost, rest
  <2> QED
    BY <2>1, SumPlus, SumBounds, AddressAssumption
<1> HIDE DEF k, v, rest
<1>7. v \in Worlds /\ v.nonce = w.nonce /\ v.balance = rest /\ v.burnt = w.burnt + k
  <2>1. w.nonce \in [Address -> Nat] /\ w.burnt + k \in Nat
    BY <1>1, <1>5 DEF Worlds
  <2>2. v.nonce = w.nonce /\ v.balance = rest /\ v.burnt = w.burnt + k
    BY <1>4 DEF Worlds
  <2>3. v = [balance |-> rest, nonce |-> w.nonce, burnt |-> w.burnt + k]
    BY <1>4 DEF Worlds
  <2> QED
    BY <1>3, <2>1, <2>2, <2>3 DEF Worlds
<1>8. Total(w) = Over(f, Address) /\ Total(v) = Over(rest, Address)
  BY <1>7 DEF Total, Over
<1>9. Held(v) = Over(rest, Address) + (w.burnt + k) /\ Held(w) = Over(f, Address) + w.burnt
  BY <1>7, <1>8 DEF Held
<1>10. Held(v) = Held(w) /\ Held(w) \in Nat
  <2> HIDE DEF f
  <2> QED
    BY <1>1, <1>5, <1>6, <1>9
<1> QED
  BY <1>7, <1>10 DEF v

\* Buying the gas raises the sender's nonce and no other.
LEMMA BoughtTyped ==
  ASSUME world \in Worlds, NEW tx \in TxFields, ~Rejected(tx)
  PROVE  /\ Bought(tx) \in Worlds
         /\ Bought(tx).nonce = [world.nonce EXCEPT ![tx.from] = tx.nonce + 1]
<1> DEFINE w == Debit(world, tx.from, gasCost(tx))
<1>0. tx.from \in Address /\ tx.nonce \in Nat
  BY DEF TxFields
<1>1. gasCost(tx) \in Nat /\ gasCost(tx) <= world.balance[tx.from]
  <2>1. gasCost(tx) \in 0..(Word - 1) /\ ~(world.balance[tx.from] < gasCost(tx))
    BY PricesTyped DEF Rejected
  <2>2. world.balance[tx.from] \in Int /\ Word \in Int
    BY <1>0, ProcAssumption DEF Worlds
  <2> HIDE DEF gasCost
  <2> QED
    BY <2>1, <2>2
<1>2. w \in Worlds /\ w.nonce = world.nonce
  BY <1>0, <1>1, DebitTyped
<1> HIDE DEF w
<1>3. Bought(tx) = [w EXCEPT !.nonce = [w.nonce EXCEPT ![tx.from] = tx.nonce + 1]]
  BY DEF Bought, w
<1> QED
  BY <1>0, <1>2, <1>3 DEF Worlds

-----------------------------------------------------------------------------
\* The nonces' part, about lists of transactions.

\* The transactions of list take up, sender by sender, the nonces from base on.
Follows(list, base) ==
  /\ \A i \in 1..Len(list) : list[i].nonce >= base[list[i].from]
  /\ \A i, j \in 1..Len(list) :
       i < j /\ list[i].from = list[j].from => list[i].nonce < list[j].nonce
  /\ \A i \in 1..Len(list) : \A n \in base[list[i].from]..(list[i].nonce - 1) :
       \E j \in 1..(i - 1) : list[j].from = list[i].from /\ list[j].nonce = n

\* The first k of them take the nonces from base to now.
Reached(list, k, base, now) ==
  /\ \A i \in 1..k : list[i].nonce < now[list[i].from]
  /\ \A s \in Address : base[s] <= now[s]
  /\ \A s \in Address : \A n \in base[s]..(now[s] - 1) :
       \E i \in 1..k : list[i].from = s /\ list[i].nonce = n

\* A transaction with the nonce reached continues the list.
LEMMA Extend ==
  ASSUME NEW list \in Seq(TxFields), NEW tx \in TxFields,
         NEW base \in [Address -> Nat], NEW now \in [Address -> Nat],
         Follows(list, base), Reached(list, Len(list), base, now), tx.nonce = now[tx.from]
  PROVE  /\ Follows(Append(list, tx), base)
         /\ Reached(Append(list, tx), Len(list) + 1, base, [now EXCEPT ![tx.from] = tx.nonce + 1])
<1> DEFINE new == Append(list, tx)
           k == Len(list)
           then == [now EXCEPT ![tx.from] = tx.nonce + 1]
<1>e. \A i \in 1..k : list[i] \in TxFields
  OBVIOUS
<1>0. tx.from \in Address /\ tx.nonce \in Nat
  BY DEF TxFields
<1>1. /\ k \in Nat /\ Len(new) = k + 1 /\ new[k + 1] = tx
      /\ \A i \in 1..k : new[i] = list[i]
  OBVIOUS
<1>a. \A i \in 1..k : list[i].from \in Address /\ list[i].nonce \in Nat
  BY <1>e DEF TxFields
<1>2. then[tx.from] = tx.nonce + 1 /\ \A s \in Address : s # tx.from => then[s] = now[s]
  BY <1>0
<1>b. \A s \in Address : base[s] \in Nat /\ now[s] \in Nat
  OBVIOUS
<1>c. /\ \A i \in 1..k : list[i].nonce < now[list[i].from]
      /\ \A s \in Address : base[s] <= now[s]
      /\ \A s \in Address : \A n \in base[s]..(now[s] - 1) :
           \E i \in 1..k : list[i].from = s /\ list[i].nonce = n
  BY DEF Reached
<1>d. /\ \A i \in 1..k : list[i].nonce >= base[list[i].from]
      /\ \A i, j \in 1..k : i < j /\ list[i].from = list[j].from => list[i].nonce < list[j].nonce
      /\ \A i \in 1..k : \A n \in base[list[i].from]..(list[i].nonce - 1) :
           \E j \in 1..(i - 1) : list[j].from = list[i].from /\ list[j].nonce = n
  BY DEF Follows
<1> HIDE DEF new, k, then
<1> USE <1>0, <1>1, <1>a, <1>b
<1>3. Follows(new, base)
  <2>1. \A i \in 1..Len(new) : new[i].nonce >= base[new[i].from]
    BY <1>c, <1>d
  <2>2. ASSUME NEW i \in 1..Len(new), NEW j \in 1..Len(new), i < j, new[i].from = new[j].from
        PROVE  new[i].nonce < new[j].nonce
    <3>1. i \in 1..k
      BY <2>2
    <3>2. CASE j = k + 1
      BY <2>2, <3>1, <3>2, <1>c
    <3>3. CASE j \in 1..k
      BY <2>2, <3>1, <3>3, <1>d
    <3> QED
      BY <3>2, <3>3
  <2>3. ASSUME NEW i \in 1..Len(new), NEW n \in base[new[i].from]..(new[i].nonce - 1)
        PROVE  \E j \in 1..(i - 1) : new[j].from = new[i].from /\ new[j].nonce = n
    <3>1. CASE i = k + 1
      <4>1. new[i] = tx /\ n \in base[tx.from]..(now[tx.from] - 1)
        BY <2>3, <3>1
      <4>2. PICK j \in 1..k : list[j].from = tx.from /\ list[j].nonce = n
        <5>1. \A m \in base[tx.from]..(now[tx.from] - 1) :
                \E j \in 1..k : list[j].from = tx.from /\ list[j].nonce = m
          BY <1>0, <1>c, Zenon
        <5> QED
          BY <4>1, <5>1, Zenon
      <4>3. new[j] = list[j] /\ j \in 1..(i - 1)
        BY <3>1, <4>2
      <4> QED
        BY <4>1, <4>2, <4>3
    <3>2. CASE i \in 1..k
      <4>1. new[i] = list[i] /\ n \in base[list[i].from]..(list[i].nonce - 1)
        BY <2>3, <3>2
      <4>2. PICK j \in 1..(i - 1) : list[j].from = list[i].from /\ list[j].nonce = n
        BY <3>2, <4>1, <1>d
      <4>3. j \in 1..k
        BY <3>2
      <4> QED
        BY <4>1, <4>2, <4>3
    <3> QED
      BY <3>1, <3>2
  <2> QED
    BY <2>1, <2>2, <2>3 DEF Follows
<1>4. Reached(new, k + 1, base, then)
  <2>1. ASSUME NEW i \in 1..(k + 1) PROVE new[i].nonce < then[new[i].from]
    <3>1. CASE i = k + 1
      BY <1>2, <3>1
    <3>2. CASE i \in 1..k
      <4>1. new[i] = list[i] /\ list[i].nonce < now[list[i].from]
        BY <1>c, <3>2
      <4> QED
        BY <1>2, <3>2, <4>1, SMTT(30)
    <3> QED
      BY <2>1, <3>1, <3>2
  <2>2. \A s \in Address : base[s] <= then[s]
    <3> SUFFICES ASSUME NEW s \in Address PROVE base[s] <= then[s]
      OBVIOUS
    <3>1. base[s] <= now[s]
      BY <1>c
    <3> QED
      BY <1>2, <3>1
  <2>3. ASSUME NEW s \in Address, NEW n \in base[s]..(then[s] - 1)
        PROVE  \E i \in 1..(k + 1) : new[i].from = s /\ new[i].nonce = n
    <3>1. CASE s = tx.from /\ n = tx.nonce
      BY <3>1
    <3>2. CASE ~(s = tx.from /\ n = tx.nonce)
      <4>1. n \in base[s]..(now[s] - 1)
        BY <1>2, <2>3, <3>2
      <4>2. PICK i \in 1..k : list[i].from = s /\ list[i].nonce = n
        BY <4>1, <1>c
      <4> QED
        BY <4>2
    <3> QED
      BY <3>1, <3>2
  <2> QED
    BY <2>1, <2>2, <2>3 DEF Reached
<1> QED
  BY <1>3, <1>4 DEF new, k, then

\* The next transaction of the list has the nonce reached, and raises it by one.
LEMMA NextFits ==
  ASSUME NEW list \in Seq(TxFields), NEW k \in Nat, k < Len(list),
         NEW base \in [Address -> Nat], NEW now \in [Address -> Nat],
         Follows(list, base), Reached(list, k, base, now)
  PROVE  LET tx == list[k + 1] IN
         /\ tx.nonce = now[tx.from]
         /\ Reached(list, k + 1, base, [now EXCEPT ![tx.from] = tx.nonce + 1])
<1> DEFINE tx == list[k + 1]
           then == [now EXCEPT ![tx.from] = tx.nonce + 1]
<1>1. Len(list) \in Nat /\ k + 1 \in 1..Len(list) /\ \A i \in 1..Len(list) : list[i] \in TxFields
  OBVIOUS
<1>2. \A i \in 1..Len(list) : list[i].from \in Address /\ list[i].nonce \in Nat
  BY <1>1 DEF TxFields
<1>3. tx.from \in Address /\ tx.nonce \in Nat
  BY <1>1, <1>2
<1>4. then[tx.from] = tx.nonce + 1 /\ \A s \in Address : s # tx.from => then[s] = now[s]
  BY <1>3
<1>5. \A s \in Address : base[s] \in Nat /\ now[s] \in Nat
  OBVIOUS
<1>c. /\ \A i \in 1..k : list[i].nonce < now[list[i].from]
      /\ \A s \in Address : base[s] <= now[s]
      /\ \A s \in Address : \A n \in base[s]..(now[s] - 1) :
           \E i \in 1..k : list[i].from = s /\ list[i].nonce = n
  BY DEF Reached
<1>d. /\ \A i \in 1..Len(list) : list[i].nonce >= base[list[i].from]
      /\ \A i, j \in 1..Len(list) :
           i < j /\ list[i].from = list[j].from => list[i].nonce < list[j].nonce
      /\ \A i \in 1..Len(list) : \A n \in base[list[i].from]..(list[i].nonce - 1) :
           \E j \in 1..(i - 1) : list[j].from = list[i].from /\ list[j].nonce = n
  BY DEF Follows
<1> HIDE DEF then
<1>6. ~(tx.nonce > now[tx.from])
  <2> SUFFICES ASSUME tx.nonce > now[tx.from] PROVE FALSE
    OBVIOUS
  <2>1. now[tx.from] \in base[tx.from]..(tx.nonce - 1)
    BY <1>3, <1>5, <1>c
  <2>2. PICK j \in 1..((k + 1) - 1) : list[j].from = tx.from /\ list[j].nonce = now[tx.from]
    BY <1>1, <2>1, <1>d
  <2>3. j \in 1..k
    OBVIOUS
  <2> QED
    BY <1>3, <1>5, <2>2, <2>3, <1>c
<1>7. ~(tx.nonce < now[tx.from])
  <2> SUFFICES ASSUME tx.nonce < now[tx.from] PROVE FALSE
    OBVIOUS
  <2>1. tx.nonce \in base[tx.from]..(now[tx.from] - 1)
    BY <1>1, <1>3, <1>5, <1>d
  <2>2. PICK i \in 1..k : list[i].from = tx.from /\ list[i].nonce = tx.nonce
    BY <1>3, <2>1, <1>c
  <2>3. i \in 1..Len(list) /\ i < k + 1
    BY <1>1
  <2> QED
    BY <1>1, <1>2, <2>2, <2>3, <1>d
<1>8. tx.nonce = now[tx.from]
  BY <1>3, <1>5, <1>6, <1>7
<1>9. Reached(list, k + 1, base, then)
  <2>1. ASSUME NEW i \in 1..(k + 1) PROVE list[i].nonce < then[list[i].from]
    <3>1. CASE i = k + 1
      BY <1>3, <1>4, <3>1
    <3>2. CASE i \in 1..k
      <4>1. list[i].nonce < now[list[i].from] /\ i \in 1..Len(list)
        BY <1>1, <1>c, <3>2
      <4> QED
        BY <1>2, <1>3, <1>4, <1>5, <1>8, <4>1, SMTT(30)
    <3> QED
      BY <2>1, <3>1, <3>2
  <2>2. ASSUME NEW s \in Address PROVE base[s] <= then[s]
    <3>1. base[s] <= now[s]
      BY <1>c
    <3> QED
      BY <1>3, <1>4, <1>5, <1>8, <3>1, SMTT(30)
  <2>3. ASSUME NEW s \in Address, NEW n \in base[s]..(then[s] - 1)
        PROVE  \E i \in 1..(k + 1) : list[i].from = s /\ list[i].nonce = n
    <3>1. CASE s = tx.from /\ n = tx.nonce
      BY <3>1
    <3>2. CASE ~(s = tx.from /\ n = tx.nonce)
      <4>1. n \in base[s]..(now[s] - 1)
        BY <1>3, <1>4, <1>5, <1>8, <2>3, <3>2
      <4>2. PICK i \in 1..k : list[i].from = s /\ list[i].nonce = n
        BY <4>1, <1>c
      <4> QED
        BY <4>2
    <3> QED
      BY <3>1, <3>2
  <2> QED
    BY <2>1, <2>2, <2>3 DEF Reached
<1> QED
  BY <1>8, <1>9 DEF then

Zero == [s \in Address |-> 0]
InOrder(list) ==
  \A i, j \in 1..Len(list) :
    i < j /\ list[i].from = list[j].from => list[i].nonce < list[j].nonce

\* A block that follows what was committed, committed.
LEMMA Commits ==
  ASSUME NEW c \in Seq(TxFields), NEW b \in Seq(TxFields),
         NEW base \in [Address -> Nat], NEW now \in [Address -> Nat],
         InOrder(c), Reached(c, Len(c), Zero, base),
         Follows(b, base), Reached(b, Len(b), base, now)
  PROVE  InOrder(c \o b) /\ Reached(c \o b, Len(c \o b), Zero, now)
<1> DEFINE k == Len(c)
           m == Len(b)
           all == c \o b
<1>1. /\ k \in Nat /\ m \in Nat /\ Len(all) = k + m
      /\ \A i \in 1..k : all[i] = c[i]
      /\ \A i \in 1..m : all[k + i] = b[i]
  OBVIOUS
<1>2. (\A i \in 1..k : c[i] \in TxFields) /\ (\A i \in 1..m : b[i] \in TxFields)
  OBVIOUS
<1>3. /\ \A i \in 1..k : c[i].from \in Address /\ c[i].nonce \in Nat
      /\ \A i \in 1..m : b[i].from \in Address /\ b[i].nonce \in Nat
  BY <1>2 DEF TxFields
<1>4. \A s \in Address : base[s] \in Nat /\ now[s] \in Nat /\ Zero[s] = 0
  BY DEF Zero
<1>5. /\ \A i \in 1..k : c[i].nonce < base[c[i].from]
      /\ \A s \in Address : \A n \in 0..(base[s] - 1) :
           \E i \in 1..k : c[i].from = s /\ c[i].nonce = n
      /\ \A i, j \in 1..k : i < j /\ c[i].from = c[j].from => c[i].nonce < c[j].nonce
  BY <1>4 DEF Reached, InOrder
<1>6. /\ \A i \in 1..m : b[i].nonce < now[b[i].from]
      /\ \A s \in Address : base[s] <= now[s]
      /\ \A s \in Address : \A n \in base[s]..(now[s] - 1) :
           \E i \in 1..m : b[i].from = s /\ b[i].nonce = n
  BY DEF Reached
<1>7. /\ \A i \in 1..m : b[i].nonce >= base[b[i].from]
      /\ \A i, j \in 1..m : i < j /\ b[i].from = b[j].from => b[i].nonce < b[j].nonce
  BY DEF Follows
<1> HIDE DEF all, k, m
<1>8. \A i \in 1..(k + m) : \/ i \in 1..k
                            \/ i - k \in 1..m /\ i = k + (i - k) /\ all[i] = b[i - k]
  <2> SUFFICES ASSUME NEW i \in 1..(k + m), i \notin 1..k
               PROVE  i - k \in 1..m /\ i = k + (i - k) /\ all[i] = b[i - k]
    OBVIOUS
  <2>1. i - k \in 1..m /\ i = k + (i - k)
    BY <1>1
  <2> QED
    BY <1>1, <2>1
<1>9. InOrder(all)
  <2> SUFFICES ASSUME NEW i \in 1..(k + m), NEW j \in 1..(k + m), i < j, all[i].from = all[j].from
               PROVE  all[i].nonce < all[j].nonce
    BY <1>1 DEF InOrder
  <2>1. CASE j \in 1..k
    <3>1. i \in 1..k
      BY <1>1, <2>1
    <3> QED
      BY <1>1, <1>5, <2>1, <3>1
  <2>2. CASE i \in 1..k /\ j \notin 1..k
    <3>1. all[i] = c[i] /\ all[j] = b[j - k] /\ j - k \in 1..m
      BY <1>1, <1>8, <2>2
    <3>2. c[i].nonce < base[c[i].from] /\ b[j - k].nonce >= base[b[j - k].from]
      BY <1>5, <1>7, <2>2, <3>1
    <3>3. /\ c[i].from = b[j - k].from /\ base[c[i].from] \in Nat
          /\ c[i].nonce \in Nat /\ b[j - k].nonce \in Nat
      BY <1>3, <1>4, <2>2, <3>1
    <3> QED
      BY <3>1, <3>2, <3>3
  <2>3. CASE i \notin 1..k
    <3>1. j \notin 1..k
      BY <1>1, <2>3
    <3>2. all[i] = b[i - k] /\ all[j] = b[j - k] /\ i - k \in 1..m /\ j - k \in 1..m
      BY <1>8, <2>3, <3>1
    <3>3. i - k < j - k
      BY <1>1
    <3> QED
      BY <1>7, <3>2, <3>3
  <2> QED
    BY <2>1, <2>2, <2>3
<1>10. Reached(all, k + m, Zero, now)
  <2>1. ASSUME NEW i \in 1..(k + m) PROVE all[i].nonce < now[all[i].from]
    <3>1. CASE i \in 1..k
      <4>1. all[i] = c[i] /\ c[i].nonce < base[c[i].from] /\ base[c[i].from] <= now[c[i].from]
        BY <1>1, <1>3, <1>5, <1>6, <3>1
      <4> QED
        BY <1>3, <1>4, <3>1, <4>1
    <3>2. CASE i \notin 1..k
      BY <1>6, <1>8, <2>1, <3>2
    <3> QED
      BY <3>1, <3>2
  <2>2. ASSUME NEW s \in Address PROVE Zero[s] <= now[s]
    <3>1. Zero[s] = 0 /\ now[s] \in Nat
      BY <1>4
    <3> QED
      BY <3>1
  <2>3. ASSUME NEW s \in Address, NEW n \in Zero[s]..(now[s] - 1)
        PROVE  \E i \in 1..(k + m) : all[i].from = s /\ all[i].nonce = n
    <3>1. CASE n < base[s]
      <4>1. PICK i \in 1..k : c[i].from = s /\ c[i].nonce = n
        BY <1>4, <1>5, <2>3, <3>1
      <4> QED
        BY <1>1, <4>1
    <3>2. CASE n >= base[s]
      <4>1. PICK i \in 1..m : b[i].from = s /\ b[i].nonce = n
        BY <1>4, <1>6, <2>3, <3>2, SMTT(30)
      <4>2. k + i \in 1..(k + m) /\ all[k + i] = b[i]
        BY <1>1
      <4> QED
        BY <4>1, <4>2
    <3> QED
      BY <1>4, <2>3, <3>1, <3>2
  <2> QED
    BY <2>1, <2>2, <2>3 DEF Reached
<1> QED
  BY <1>1, <1>9, <1>10 DEF all

-----------------------------------------------------------------------------
\* The processor's part.
ProcTypes ==
  /\ world \in Worlds /\ start \in Worlds /\ saved \in Seq(Worlds)
  /\ blockRev \in Nat /\ todo \in Seq(TxFields)

\* The block's snapshot is below the running transaction's, which has its nonces.
Snapshots ==
  /\ proc # "idle" => blockRev + 1 <= Len(saved) /\ saved[blockRev + 1] = start
  /\ proc = "running" => /\ blockRev + 2 <= Len(saved)
                         /\ saved[Len(saved)].nonce = world.nonce
                         /\ todo # <<>>

\* How many of the block's transactions have raised their nonces.
Done == (Len(batch) - Len(todo)) + (IF proc = "running" THEN 1 ELSE 0)

\* What is left to do is the end of the batch, and what is done accounts for the
\* nonces the world has beyond those the block began with.
Running ==
  proc # "idle" =>
    /\ Len(todo) <= Len(batch)
    /\ \A i \in 1..Len(todo) : todo[i] = batch[(Len(batch) - Len(todo)) + i]
    /\ Follows(batch, start.nonce)
    /\ Reached(batch, Done, start.nonce, world.nonce)

\* The end of a transaction either aborts the block or keeps the nonces and the
\* block's snapshot.
Ended ==
  /\ world' \in Worlds /\ world'.nonce = world.nonce
  /\ saved' \in Seq(Worlds) /\ blockRev + 1 <= Len(saved')
  /\ saved'[blockRev + 1] = saved[blockRev + 1]
  /\ todo' = Tail(todo) /\ proc' = "next"

\* A run that succeeded ends its transaction so.
LEMMA RunOKEnds ==
  ASSUME ProcTypes, Snapshots, NEW left \in Nat, NEW refund \in Refunds,
         NEW b \in Address, NEW v \in Moves, NEW gone \in SUBSET Ephemeral,
         RunOK(left, refund, b, v, gone)
  PROVE  AbortBlock \/ Ended
<1> DEFINE tx == Head(todo)
           paid == Transfer(world, tx.from, tx.to, tx.value)
           w == Transfer(paid, tx.to, b, v)
           l == LeftAfterRefund(tx, left, refund)
<1>1. proc = "running" /\ todo # <<>> /\ blockRev \in Nat /\ blockRev + 2 <= Len(saved)
  BY DEF RunOK, Snapshots, ProcTypes
<1>2. tx \in TxFields
  BY <1>1 DEF ProcTypes
<1>3. tx.from \in Address /\ tx.to \in Address /\ tx.value \in Nat /\ tx.gas \in Nat
  BY <1>2 DEF TxFields
<1>4. v \in Nat /\ refund \in Nat
  BY ProcAssumption
<1>5. tx.value <= world.balance[tx.from] /\ v <= paid.balance[tx.to]
  <2>1. world.balance[tx.from] >= tx.value /\ v <= paid.balance[tx.to]
    BY DEF RunOK
  <2>2. world.balance[tx.from] \in Int
    <3>1. world \in Worlds
      BY DEF ProcTypes
    <3>2. world.balance \in [Address -> 0..(Word - 1)]
      BY <3>1 DEF Worlds
    <3> HIDE DEF tx
    <3> QED
      BY <1>3, <3>2, ProcAssumption
  <2> HIDE DEF tx
  <2> QED
    BY <1>3, <2>1, <2>2
<1>6. paid \in Worlds /\ paid.nonce = world.nonce
  BY <1>3, <1>5, TransferTyped DEF ProcTypes
<1>7. w \in Worlds /\ w.nonce = world.nonce
  <2> HIDE DEF paid, tx
  <2> QED
    BY <1>3, <1>4, <1>5, <1>6, TransferTyped
<1>8. l \in Int
  <2>1. (tx.gas - left) \div 5 \in Int
    BY <1>3
  <2> QED
    BY <1>4, <2>1 DEF LeftAfterRefund
<1>9. Settled(w, tx, l) \in Worlds /\ Settled(w, tx, l).nonce = w.nonce
  <2> HIDE DEF w, tx, l
  <2> QED
    BY <1>2, <1>7, <1>8, SettledTyped
<1>10. \/ AbortBlock
       \/ /\ world' = Swept(Settled(w, tx, l), gone)
          /\ saved' = saved /\ todo' = Tail(todo) /\ proc' = "next"
  BY DEF RunOK, EndTx
<1>11. /\ Swept(Settled(w, tx, l), gone) \in Worlds
       /\ Swept(Settled(w, tx, l), gone).nonce = world.nonce
  <2>1. gone \in SUBSET Address
    BY ProcAssumption
  <2> HIDE DEF w, tx, l
  <2> QED
    BY <1>7, <1>9, <2>1, SweptTyped
<1> QED
  <2> HIDE DEF w, l, tx
  <2> QED
    BY <1>1, <1>10, <1>11 DEF Ended, ProcTypes

\* So does a run that failed: its snapshot has the nonces the world has.
LEMMA RunFailedEnds ==
  ASSUME ProcTypes, Snapshots, NEW left \in Nat, NEW refund \in Refunds, RunFailed(left, refund)
  PROVE  AbortBlock \/ Ended
<1> DEFINE tx == Head(todo)
           rev == Len(saved) - 1
           w == saved[rev + 1]
           snaps == SubSeq(saved, 1, rev)
           l == LeftAfterRefund(tx, left, refund)
<1>1. /\ proc = "running" /\ todo # <<>> /\ blockRev \in Nat /\ blockRev + 2 <= Len(saved)
      /\ saved[Len(saved)].nonce = world.nonce /\ saved \in Seq(Worlds)
  BY DEF RunFailed, Snapshots, ProcTypes
<1>2. tx \in TxFields
  BY <1>1 DEF ProcTypes
<1>3. tx.gas \in Nat
  BY <1>2 DEF TxFields
<1>4. refund \in Nat
  BY ProcAssumption
<1>5. w \in Worlds /\ w.nonce = world.nonce
  BY <1>1
<1>6. snaps \in Seq(Worlds) /\ blockRev + 1 <= Len(snaps) /\ snaps[blockRev + 1] = saved[blockRev + 1]
  BY <1>1
<1>7. l \in Int
  <2>1. (tx.gas - left) \div 5 \in Int
    BY <1>3
  <2> QED
    BY <1>4, <2>1 DEF LeftAfterRefund
<1>8. Settled(w, tx, l) \in Worlds /\ Settled(w, tx, l).nonce = w.nonce
  <2> HIDE DEF w, tx, l
  <2> QED
    BY <1>2, <1>5, <1>7, SettledTyped
<1>9. \/ AbortBlock
      \/ /\ world' = Swept(Settled(w, tx, l), {})
         /\ saved' = snaps /\ todo' = Tail(todo) /\ proc' = "next"
  BY DEF RunFailed, EndTx
<1>10. /\ Swept(Settled(w, tx, l), {}) \in Worlds
       /\ Swept(Settled(w, tx, l), {}).nonce = world.nonce
  <2> HIDE DEF w, tx, l
  <2> QED
    BY <1>5, <1>8, SweptTyped
<1> QED
  <2> HIDE DEF w, l, snaps, tx
  <2> QED
    BY <1>6, <1>9, <1>10 DEF Ended

\* A step of the processor ends the block with an error and the world it began
\* with, or with all its nonces taken, or goes on.
LEMMA ProcessorStep ==
  ASSUME ProcTypes, Snapshots, Running, proc \in {"next", "running"}, RunStep,
         batch \in Seq(TxFields)
  PROVE  /\ ProcTypes'
         /\ start' = start
         /\ proc' \in {"idle", "next", "running"}
         /\ proc' = "idle" => \/ result' = "error" /\ world' = start
                              \/ /\ result' = "ok" /\ world' = world
                                 /\ Reached(batch, Len(batch), start.nonce, world.nonce)
         /\ proc' # "idle" /\ batch' = batch => Snapshots' /\ Running'
<1> DEFINE Goal ==
         /\ ProcTypes'
         /\ start' = start
         /\ proc' \in {"idle", "next", "running"}
         /\ proc' = "idle" => \/ result' = "error" /\ world' = start
                              \/ /\ result' = "ok" /\ world' = world
                                 /\ Reached(batch, Len(batch), start.nonce, world.nonce)
         /\ proc' # "idle" /\ batch' = batch => Snapshots' /\ Running'
<1>0. /\ world \in Worlds /\ start \in Worlds /\ saved \in Seq(Worlds) /\ blockRev \in Nat
      /\ todo \in Seq(TxFields) /\ Len(batch) \in Nat /\ Len(todo) \in Nat /\ Len(saved) \in Nat
      /\ blockRev + 1 <= Len(saved) /\ saved[blockRev + 1] = start
      /\ Len(todo) <= Len(batch)
      /\ \A i \in 1..Len(todo) : todo[i] = batch[(Len(batch) - Len(todo)) + i]
      /\ Follows(batch, start.nonce)
      /\ Reached(batch, Done, start.nonce, world.nonce)
  <2>1. /\ world \in Worlds /\ start \in Worlds /\ saved \in Seq(Worlds) /\ blockRev \in Nat
        /\ todo \in Seq(TxFields)
    BY DEF ProcTypes
  <2>2. Len(batch) \in Nat /\ Len(todo) \in Nat /\ Len(saved) \in Nat
    BY <2>1
  <2>3. proc # "idle"
    OBVIOUS
  <2>4. blockRev + 1 <= Len(saved) /\ saved[blockRev + 1] = start
    BY <2>3 DEF Snapshots
  <2>5. /\ Len(todo) <= Len(batch)
        /\ \A i \in 1..Len(todo) : todo[i] = batch[(Len(batch) - Len(todo)) + i]
        /\ Follows(batch, start.nonce)
        /\ Reached(batch, Done, start.nonce, world.nonce)
    BY <2>3 DEF Running
  <2> QED
    BY <2>1, <2>2, <2>4, <2>5
<1>1. ASSUME AbortBlock, UNCHANGED <<blockRev, start>> PROVE Goal
  <2>1. world' = start /\ saved' \in Seq(Worlds) /\ todo' = <<>> /\ proc' = "idle" /\ result' = "error"
    BY <1>0, <1>1 DEF AbortBlock
  <2> QED
    BY <1>0, <1>1, <2>1 DEF ProcTypes
<1>2. ASSUME Ended, proc = "running", UNCHANGED <<blockRev, start>> PROVE Goal
  <2>1. todo # <<>>
    BY <1>2 DEF Snapshots
  <2>2. /\ Len(todo') = Len(todo) - 1 /\ todo' \in Seq(TxFields)
        /\ \A i \in 1..Len(todo') : todo'[i] = todo[i + 1]
    BY <1>0, <1>2, <2>1 DEF Ended
  <2>3. ProcTypes'
    BY <1>0, <1>2, <2>2 DEF ProcTypes, Ended
  <2>4. ASSUME batch' = batch PROVE Snapshots' /\ Running'
    <3>1. Done' = Done
      BY <1>0, <1>2, <2>2, <2>4 DEF Done, Ended
    <3>2. \A i \in 1..Len(todo') : todo'[i] = batch'[(Len(batch') - Len(todo')) + i]
      <4> SUFFICES ASSUME NEW i \in 1..Len(todo')
                   PROVE  todo'[i] = batch[(Len(batch) - Len(todo')) + i]
        BY <2>4
      <4>1. i + 1 \in 1..Len(todo) /\ todo'[i] = todo[i + 1]
        BY <1>0, <2>2, SMTT(30)
      <4>2. (Len(batch) - Len(todo')) + i = (Len(batch) - Len(todo)) + (i + 1)
        BY <1>0, <2>2
      <4> QED
        BY <1>0, <4>1, <4>2
    <3>3. Running'
      BY <1>0, <1>2, <2>2, <2>4, <3>1, <3>2 DEF Running, Ended
    <3>4. Snapshots'
      BY <1>0, <1>2 DEF Snapshots, Ended
    <3> QED
      BY <3>3, <3>4
  <2> QED
    BY <1>2, <2>3, <2>4 DEF Ended
<1>3. CASE RejectTx
  BY <1>1, <1>3 DEF RejectTx
<1>4. CASE BeginTx
  <2> DEFINE tx == Head(todo)
             k == Len(batch) - Len(todo)
  <2>1. proc = "next" /\ todo # <<>> /\ ~Rejected(tx)
    BY <1>4 DEF BeginTx
  <2>2. tx \in TxFields /\ tx = todo[1] /\ 1 \in 1..Len(todo)
    BY <1>0, <2>1
  <2>3. k \in Nat /\ k < Len(batch) /\ tx = batch[k + 1] /\ Done = k
    BY <1>0, <2>1, <2>2 DEF Done
  <2>4. start.nonce \in [Address -> Nat] /\ world.nonce \in [Address -> Nat]
    BY <1>0 DEF Worlds
  <2>5. Reached(batch, k + 1, start.nonce, [world.nonce EXCEPT ![tx.from] = tx.nonce + 1])
    <3> HIDE DEF k, tx
    <3> QED
      BY <1>0, <2>3, <2>4, NextFits
  <2>6. Bought(tx) \in Worlds /\ Bought(tx).nonce = [world.nonce EXCEPT ![tx.from] = tx.nonce + 1]
    BY <1>0, <2>1, <2>2, BoughtTyped
  <2>7. /\ world' = Bought(tx) /\ saved' = Append(saved, Bought(tx)) /\ proc' = "running"
        /\ UNCHANGED <<blockRev, todo, start>>
    BY <1>4 DEF BeginTx
  <2> HIDE DEF tx
  <2>8. ProcTypes'
    BY <1>0, <2>6, <2>7 DEF ProcTypes
  <2>9. Snapshots'
    BY <1>0, <2>1, <2>6, <2>7 DEF Snapshots
  <2>10. ASSUME batch' = batch PROVE Running'
    <3>1. Done' = k + 1
      BY <1>0, <2>7, <2>10 DEF Done
    <3> QED
      BY <1>0, <2>5, <2>6, <2>7, <2>10, <3>1 DEF Running
  <2> QED
    BY <2>7, <2>8, <2>9, <2>10
<1>5. ASSUME NEW left \in 0..(IF todo = <<>> THEN 0 ELSE Head(todo).gas), NEW refund \in Refunds,
             \/ RunFailed(left, refund)
             \/ \E b \in Address, v \in Moves, gone \in SUBSET Ephemeral : RunOK(left, refund, b, v, gone)
      PROVE  Goal
  <2>1. left \in Nat
    OBVIOUS
  <2>2. AbortBlock \/ Ended
    BY <1>5, <2>1, RunFailedEnds, RunOKEnds
  <2>3. proc = "running" /\ UNCHANGED <<blockRev, start>>
    BY <1>5 DEF RunFailed, RunOK
  <2> QED
    BY <1>1, <1>2, <2>2, <2>3
<1>6. CASE CommitBlock
  <2>1. /\ proc = "next" /\ todo = <<>> /\ saved' = <<>> /\ proc' = "idle" /\ result' = "ok"
        /\ UNCHANGED <<world, blockRev, todo, start>>
    BY <1>6 DEF CommitBlock
  <2>2. Done = Len(batch)
    BY <1>0, <2>1 DEF Done
  <2> QED
    BY <1>0, <2>1, <2>2 DEF ProcTypes
<1> QED
  BY <1>3, <1>4, <1>5, <1>6 DEF RunStep

-----------------------------------------------------------------------------
\* A deadline is the window's end, or the last moment a clock can show.
LEMMA DeadlineIs ==
  ASSUME NEW now \in Times
  PROVE  /\ Deadline(now) = IF now + window > MaxUint64 THEN MaxUint64 ELSE now + window
         /\ Deadline(now) \in 0..MaxUint64
<1>1. now \in Nat /\ now <= MaxUint64 /\ window \in Nat /\ MaxUint64 \in Nat
  BY SeqAssumption
<1> DEFINE n == now + window
           m == MaxUint64 + 1
<1>2. ASSUME ~(n > MaxUint64) PROVE n % m = n
  <2>1. n \in Nat /\ m \in Nat \ {0} /\ n < m
    BY <1>1, <1>2
  <2> HIDE DEF n, m
  <2> QED
    BY <2>1
<1>3. Deadline(now) = IF n > MaxUint64 THEN MaxUint64 ELSE n % m
  BY DEF Deadline, Sum64
<1> QED
  BY <1>1, <1>2, <1>3

\* The inductive invariant.
SeqTypes ==
  /\ inbox \in Seq(Posted) /\ kept \in Seq(Posted)
  /\ ready \in Seq(Message)
  /\ express \in Seq(ExpressItem)
  /\ cands \in Seq(TxFields) /\ batch \in Seq(TxFields) /\ committed \in Seq(TxFields)
  /\ seen \in [Address -> Nat \cup {Unseen}]

Phases == proc \in {"idle", "next", "running"} /\ (pc = "running" <=> proc # "idle")

Collecting == {"inbox", "deliver", "drain", "pool", "popping"}
NoneSeen == [s \in Address |-> Unseen]
Wanted == [s \in Address |-> want(s)]

\* What the filter has kept takes up the nonces from the world's to the wanted ones.
Filtering ==
  /\ pc \in Collecting => batch = <<>> /\ seen = NoneSeen
  /\ pc = "filter" => /\ Follows(batch, world.nonce)
                      /\ Reached(batch, Len(batch), world.nonce, Wanted)

\* What is committed takes up the nonces from 0 to the ones the running block
\* began with, or to the world's if none is running.
Settlement == IF proc = "idle" THEN world.nonce ELSE start.nonce
Chained == InOrder(committed) /\ Reached(committed, Len(committed), Zero, Settlement)

NonceInv ==
  /\ ProcTypes /\ PoolLists /\ SeqTypes
  /\ Phases /\ Filtering /\ Snapshots /\ Running /\ Chained

\* An empty list takes up nothing.
LEMMA Nothing ==
  ASSUME NEW base \in [Address -> Nat]
  PROVE  /\ Follows(<<>>, base)
         /\ \A list : Reached(list, 0, base, base)
BY DEF Follows, Reached

\* Init establishes it.
LEMMA InitNonceInv == Init => NonceInv
<1> SUFFICES ASSUME Init PROVE NonceInv
  OBVIOUS
<1>1. /\ world = [balance |-> Funds, nonce |-> Zero, burnt |-> 0] /\ start = world
      /\ saved = <<>> /\ blockRev = 0 /\ todo = <<>> /\ proc = "idle"
  BY DEF Init, ProcInit, Zero
<1>2. Zero \in [Address -> Nat]
  BY DEF Zero
<1>3. ProcTypes
  BY <1>1, <1>2, ProcAssumption DEF ProcTypes, Worlds
<1>4. PoolLists
  BY DEF Init, PoolInit, PoolLists
<1>5. SeqTypes
  BY DEF Init, SeqTypes, Unseen
<1>6. Phases /\ Filtering /\ Snapshots /\ Running
  BY <1>1 DEF Init, Phases, Filtering, Snapshots, Running, Collecting
<1>7. Chained
  <2>1. committed = <<>> /\ Settlement = Zero
    BY <1>1 DEF Init, Settlement
  <2> QED
    BY <1>2, <2>1, Nothing DEF Chained, InOrder
<1> QED
  BY <1>3, <1>4, <1>5, <1>6, <1>7 DEF NonceInv

\* A step that leaves the world, the batch and what was seen alone keeps it, where
\* it goes on to the filter too: nothing was seen before.
LEMMA Quiet ==
  ASSUME NonceInv, PoolLists', SeqTypes',
         UNCHANGED <<world, saved, blockRev, todo, proc, start, batch, seen, committed>>,
         \/ pc' = pc
         \/ pc \in Collecting /\ pc' \in Collecting \cup {"filter"}
  PROVE  NonceInv'
<1>1. ProcTypes'
  BY DEF NonceInv, ProcTypes
<1>2. Snapshots' /\ Running' /\ Chained'
  BY DEF NonceInv, Snapshots, Running, Done, Chained, Settlement
<1>3. Phases'
  BY DEF NonceInv, Phases, Collecting
<1>4. Filtering'
  <2>1. CASE pc' = pc
    BY <2>1 DEF NonceInv, Filtering, Wanted, want
  <2>2. CASE pc \in Collecting /\ pc' \in Collecting
    BY <2>2 DEF NonceInv, Filtering, Collecting
  <2>3. CASE pc \in Collecting /\ pc' = "filter"
    <3>1. batch' = <<>> /\ seen' = NoneSeen
      BY <2>3 DEF NonceInv, Filtering
    <3>2. world.nonce \in [Address -> Nat]
      BY DEF NonceInv, ProcTypes, Worlds
    <3>3. Wanted' = world.nonce
      BY <3>1, <3>2 DEF Wanted, want, NoneSeen
    <3> QED
      BY <2>3, <3>1, <3>2, <3>3, Nothing DEF Filtering, Collecting
  <2> QED
    BY <2>1, <2>2, <2>3
<1> QED
  BY <1>1, <1>2, <1>3, <1>4 DEF NonceInv


\* The clients' steps.
LEMMA ClientKeeps == ASSUME NonceInv, Client PROVE NonceInv'
<1>0. PoolLists /\ SeqTypes
  BY DEF NonceInv
<1>1. ASSUME NEW tx \in Tx, Submit(tx) PROVE NonceInv'
  <2>1. AddTx(tx) /\ UNCHANGED <<procVars, seqVars>>
    BY <1>1 DEF Submit
  <2>2. PoolLists'
    BY <1>0, <2>1, AddTxLists
  <2>3. SeqTypes'
    BY <1>0, <2>1 DEF SeqTypes, seqVars, localVars, histVars
  <2> QED
    BY <2>1, <2>2, <2>3, Quiet DEF procVars, seqVars, localVars, histVars
<1>2. ASSUME NEW msg \in Message, NEW t \in Times, Enqueue(msg, t) PROVE NonceInv'
  <2> DEFINE item == [msg |-> msg, postedAt |-> t]
  <2>1. /\ inbox' = Append(inbox, item)
        /\ UNCHANGED <<poolVars, procVars, express, pc, localVars, committed>>
    BY <1>2 DEF Enqueue
  <2>2. item \in Posted
    BY DEF Posted
  <2>3. SeqTypes'
    <3> HIDE DEF item
    <3> QED
      BY <1>0, <2>1, <2>2 DEF SeqTypes, localVars
  <2>4. PoolLists'
    BY <1>0, <2>1 DEF PoolLists, poolVars
  <2> QED
    BY <2>1, <2>3, <2>4, Quiet DEF procVars, localVars
<1>3. ASSUME NEW tx \in Tx, NEW now \in Times, PushExpress(tx, now) PROVE NonceInv'
  <2> DEFINE d == Deadline(now)
             item == [tx |-> tx, deadline |-> d, pushedAt |-> now]
  <2>1. /\ express' = Append(express, item)
        /\ UNCHANGED <<poolVars, procVars, inbox, pc, localVars, histVars>>
    BY <1>3 DEF PushExpress
  <2>2. d \in 0..MaxUint64
    BY DeadlineIs
  <2>3. item \in ExpressItem
    <3> HIDE DEF d
    <3> QED
      BY <2>2, TxAssumption DEF ExpressItem
  <2>4. SeqTypes'
    <3> HIDE DEF item
    <3> QED
      BY <1>0, <2>1, <2>3 DEF SeqTypes, localVars, histVars
  <2>5. PoolLists'
    BY <1>0, <2>1 DEF PoolLists, poolVars
  <2> QED
    BY <2>1, <2>4, <2>5, Quiet DEF procVars, localVars, histVars
<1> QED
  BY <1>1, <1>2, <1>3 DEF Client

\* ProduceBlock's call, and its steps up to the filter.
LEMMA CollectKeeps ==
  ASSUME NonceInv,
         \/ PopReadyOne \/ PopReadyEnd \/ DeliverRetryable
         \/ DrainBegin \/ DrainOne \/ DrainEnd
         \/ AskPool \/ PoolStep \/ PoolDone
  PROVE  NonceInv'
<1>0. PoolLists /\ SeqTypes
  BY DEF NonceInv
<1>w. world \in Worlds
  BY DEF NonceInv, ProcTypes
<1> USE DEF localVars, histVars
<1>1. CASE PopReadyOne
  <2>1. /\ inbox # <<>> /\ inbox' = Tail(inbox)
        /\ \/ ready' = Append(ready, Head(inbox).msg) /\ kept' = kept
           \/ kept' = Append(kept, Head(inbox)) /\ ready' = ready
        /\ UNCHANGED <<poolVars, procVars, express, pc, cands, batch, seen, committed>>
    BY <1>1 DEF PopReadyOne
  <2>2. Head(inbox) \in Posted /\ Tail(inbox) \in Seq(Posted)
    BY <1>0, <2>1 DEF SeqTypes
  <2>3. Head(inbox).msg \in Message
    BY <2>2 DEF Posted
  <2>4. SeqTypes'
    <3>1. ready \in Seq(Message) /\ kept \in Seq(Posted)
      BY <1>0 DEF SeqTypes
    <3>2. Append(ready, Head(inbox).msg) \in Seq(Message) /\ Append(kept, Head(inbox)) \in Seq(Posted)
      BY <2>2, <2>3, <3>1
    <3>3. ready' \in Seq(Message) /\ kept' \in Seq(Posted) /\ inbox' \in Seq(Posted)
      BY <2>1, <2>2, <3>1, <3>2
    <3> QED
      BY <1>0, <2>1, <3>3 DEF SeqTypes
  <2>5. PoolLists'
    BY <1>0, <2>1 DEF PoolLists, poolVars
  <2> QED
    BY <2>1, <2>4, <2>5, Quiet DEF procVars
<1>2. CASE PopReadyEnd
  <2>1. /\ pc = "inbox" /\ pc' = "deliver" /\ inbox' = kept /\ kept' = <<>>
        /\ UNCHANGED <<poolVars, procVars, express, ready, cands, batch, seen, committed>>
    BY <1>2 DEF PopReadyEnd
  <2>2. SeqTypes'
    BY <1>0, <2>1 DEF SeqTypes
  <2>3. PoolLists'
    BY <1>0, <2>1 DEF PoolLists, poolVars
  <2> QED
    BY <2>1, <2>2, <2>3, Quiet DEF procVars, Collecting
<1>3. CASE DeliverRetryable
  <2> DEFINE m == Head(ready)
             tx == [m.tx EXCEPT !.nonce = world.nonce[m.tx.from]]
  <2>1. /\ ready # <<>> /\ ready' = Tail(ready)
        /\ cands' = Append(cands, tx) \/ cands' = cands
        /\ UNCHANGED <<poolVars, procVars, inbox, express, pc, kept, batch, seen, committed>>
    BY <1>3 DEF DeliverRetryable
  <2>2. m \in Message /\ Tail(ready) \in Seq(Message)
    BY <1>0, <2>1 DEF SeqTypes
  <2>3. m \in MessageFields
    BY <2>2, SeqAssumption
  <2>4. m.tx \in TxFields
    BY <2>3 DEF MessageFields
  <2>5. world.nonce[m.tx.from] \in Nat
    <3>1. m.tx.from \in Address
      BY <2>4 DEF TxFields
    <3> HIDE DEF m
    <3> QED
      BY <1>w, <3>1 DEF Worlds
  <2>6. tx \in TxFields
    <3> HIDE DEF m
    <3> QED
      BY <2>4, <2>5 DEF TxFields
  <2>7. SeqTypes'
    <3> HIDE DEF tx, m
    <3>1. cands \in Seq(TxFields)
      BY <1>0 DEF SeqTypes
    <3>2. cands' \in Seq(TxFields) /\ ready' \in Seq(Message)
      BY <2>1, <2>2, <2>6, <3>1
    <3> QED
      BY <1>0, <2>1, <3>2 DEF SeqTypes
  <2>8. PoolLists'
    BY <1>0, <2>1 DEF PoolLists, poolVars
  <2> HIDE DEF tx, m
  <2> QED
    BY <2>1, <2>7, <2>8, Quiet DEF procVars
<1>4. CASE DrainBegin \/ DrainEnd
  <2>1. /\ pc \in Collecting /\ pc' \in Collecting
        /\ UNCHANGED <<poolVars, procVars, inbox, express, localVars, histVars>>
    BY <1>4 DEF DrainBegin, DrainEnd, Collecting
  <2>2. SeqTypes'
    BY <1>0, <2>1 DEF SeqTypes
  <2>3. PoolLists'
    BY <1>0, <2>1 DEF PoolLists, poolVars
  <2> QED
    BY <2>1, <2>2, <2>3, Quiet DEF procVars
<1>5. CASE DrainOne
  <2> DEFINE item == Head(express)
  <2>1. /\ express # <<>> /\ express' = Tail(express)
        /\ cands' = cands \/ cands' = Append(cands, item.tx)
        /\ UNCHANGED <<poolVars, procVars, inbox, pc, kept, ready, batch, seen, committed>>
    BY <1>5 DEF DrainOne
  <2>2. item \in ExpressItem /\ Tail(express) \in Seq(ExpressItem)
    BY <1>0, <2>1 DEF SeqTypes
  <2>3. item.tx \in TxFields
    BY <2>2 DEF ExpressItem
  <2>4. SeqTypes'
    <3> HIDE DEF item
    <3>1. cands \in Seq(TxFields)
      BY <1>0 DEF SeqTypes
    <3>2. cands' \in Seq(TxFields) /\ express' \in Seq(ExpressItem)
      <4>1. Append(cands, item.tx) \in Seq(TxFields)
        BY <2>3, <3>1
      <4> QED
        BY <2>1, <2>2, <3>1, <4>1, Zenon
    <3> QED
      BY <1>0, <2>1, <3>2 DEF SeqTypes
  <2>5. PoolLists'
    BY <1>0, <2>1 DEF PoolLists, poolVars
  <2> QED
    BY <2>1, <2>4, <2>5, Quiet DEF procVars
<1>6. CASE AskPool
  <2>1. /\ pc = "pool" /\ pc' \in {"popping", "filter"}
        /\ UNCHANGED <<procVars, inbox, express, localVars, histVars>>
    BY <1>6 DEF AskPool
  <2>2. SeqTypes'
    BY <1>0, <2>1 DEF SeqTypes
  <2>3. PoolLists'
    <3>1. CASE PopBegin(RemainGas, RemainCount)
      <4>1. bySender' = bySender /\ out' = <<>>
        BY <3>1 DEF PopBegin
      <4> QED
        BY <1>0, <4>1 DEF PoolLists
    <3>2. CASE UNCHANGED poolVars
      BY <1>0, <3>2 DEF PoolLists, poolVars
    <3>3. PopBegin(RemainGas, RemainCount) \/ UNCHANGED poolVars
      BY <1>6 DEF AskPool
    <3> QED
      BY <3>1, <3>2, <3>3
  <2> QED
    BY <2>1, <2>2, <2>3, Quiet DEF procVars, Collecting
<1>7. CASE PoolStep
  <2>1. PopOne /\ UNCHANGED <<procVars, seqVars>>
    BY <1>7 DEF PoolStep
  <2>2. SeqTypes'
    BY <1>0, <2>1 DEF SeqTypes, seqVars
  <2>3. PoolLists'
    BY <1>0, <2>1, PopOneLists
  <2> QED
    BY <2>1, <2>2, <2>3, Quiet DEF procVars, seqVars
<1>8. CASE PoolDone
  <2>1. /\ pc = "popping" /\ pc' = "filter" /\ cands' = cands \o out /\ PopEnd
        /\ UNCHANGED <<procVars, inbox, express, kept, ready, batch, seen, committed>>
    BY <1>8 DEF PoolDone
  <2>2. out \in Seq(TxFields)
    BY <1>0, TxAssumption DEF PoolLists
  <2>3. SeqTypes'
    BY <1>0, <2>1, <2>2 DEF SeqTypes
  <2>4. PoolLists'
    BY <1>0, <2>1 DEF PoolLists, PopEnd
  <2> QED
    BY <2>1, <2>3, <2>4, Quiet DEF procVars, Collecting
<1> QED
  BY <1>1, <1>2, <1>3, <1>4, <1>5, <1>6, <1>7, <1>8


\* The call of ProduceBlock.
LEMMA ProduceBlockKeeps ==
  ASSUME NonceInv, NEW t \in Times, ProduceBlock(t)
  PROVE  NonceInv'
<1>1. /\ pc = "idle" /\ pc' = "inbox" /\ batch' = <<>> /\ cands' = <<>> /\ seen' = NoneSeen
      /\ UNCHANGED <<poolVars, procVars, inbox, express, kept, ready, committed>>
  BY DEF ProduceBlock, NoneSeen
<1>2. proc = "idle"
  BY <1>1 DEF NonceInv, Phases
<1>3. NoneSeen \in [Address -> Nat \cup {Unseen}]
  BY DEF NoneSeen
<1>4. SeqTypes'
  BY <1>1, <1>3 DEF NonceInv, SeqTypes
<1>5. ProcTypes'
  BY <1>1 DEF NonceInv, ProcTypes, procVars
<1>6. PoolLists'
  BY <1>1 DEF NonceInv, PoolLists, poolVars
<1>7. Phases' /\ Filtering' /\ Snapshots' /\ Running'
  BY <1>1, <1>2 DEF Phases, Filtering, Snapshots, Running, procVars
<1>8. Chained'
  BY <1>1 DEF NonceInv, Chained, Settlement, procVars
<1> QED
  BY <1>4, <1>5, <1>6, <1>7, <1>8 DEF NonceInv

\* A deposit changes balances only.
LEMMA DeliverDepositKeeps == ASSUME NonceInv, DeliverDeposit PROVE NonceInv'
<1> DEFINE m == Head(ready)
<1>1. /\ pc = "deliver" /\ pc' = pc /\ ready # <<>> /\ ready' = Tail(ready)
      /\ UNCHANGED <<poolVars, inbox, express, kept, cands, batch, seen, committed>>
  BY DEF DeliverDeposit, histVars
<1>2. proc = "idle" /\ world \in Worlds /\ ready \in Seq(Message)
  BY <1>1 DEF NonceInv, Phases, ProcTypes, SeqTypes
<1>3. m \in Message
  BY <1>1, <1>2
<1>4. m \in MessageFields
  BY <1>3, SeqAssumption
<1>5. m.to \in Address \cup {NoAddress} /\ m.value \in Nat
  BY <1>4 DEF MessageFields
<1>6. /\ world' \in Worlds /\ world'.nonce = world.nonce
      /\ UNCHANGED <<saved, blockRev, todo, proc, start>>
  <2>1. CASE m.to = NoAddress
    BY <1>2, <2>1 DEF DeliverDeposit, procVars
  <2>2. CASE m.to # NoAddress
    <3>1. Deposit(m.to, m.value) /\ m.to \in Address
      BY <1>5, <2>2 DEF DeliverDeposit
    <3>2. world' = Credit(world, m.to, m.value) /\ UNCHANGED <<saved, blockRev, todo, proc, start>>
      BY <3>1 DEF Deposit
    <3>3. m.value \in Int
      BY <1>5
    <3> HIDE DEF m
    <3> QED
      BY <1>2, <3>1, <3>2, <3>3, CreditTyped
  <2> QED
    BY <2>1, <2>2
<1>7. ProcTypes'
  BY <1>6 DEF NonceInv, ProcTypes
<1>8. PoolLists'
  BY <1>1 DEF NonceInv, PoolLists, poolVars
<1>9. SeqTypes'
  BY <1>1, <1>2 DEF NonceInv, SeqTypes
<1>10. Phases' /\ Snapshots' /\ Running'
  BY <1>1, <1>2, <1>6 DEF Phases, Snapshots, Running
<1>11. Filtering'
  BY <1>1 DEF NonceInv, Filtering, Collecting
<1>12. Chained'
  BY <1>1, <1>2, <1>6 DEF NonceInv, Chained, Settlement
<1> QED
  BY <1>7, <1>8, <1>9, <1>10, <1>11, <1>12 DEF NonceInv


\* The nonces wanted are numbers.
LEMMA WantedTyped == ASSUME NonceInv PROVE Wanted \in [Address -> Nat]
<1>1. seen \in [Address -> Nat \cup {Unseen}] /\ world.nonce \in [Address -> Nat]
  BY DEF NonceInv, SeqTypes, ProcTypes, Worlds
<1>2. ASSUME NEW s \in Address PROVE want(s) \in Nat
  <2>1. seen[s] \in Nat \cup {Unseen} /\ world.nonce[s] \in Nat
    BY <1>1
  <2> QED
    BY <2>1 DEF want
<1> QED
  BY <1>2 DEF Wanted

\* Keeping a candidate: its nonce is the one wanted, so the batch goes on following.
LEMMA KeepKeeps == ASSUME NonceInv, Keep PROVE NonceInv'
<1> DEFINE tx == Head(cands)
<1>1. /\ pc = "filter" /\ pc' = pc /\ cands # <<>> /\ tx.nonce = want(tx.from)
      /\ batch' = Append(batch, tx) /\ cands' = Tail(cands)
      /\ seen' = [seen EXCEPT ![tx.from] = want(tx.from) + 1]
      /\ UNCHANGED <<poolVars, procVars, inbox, express, kept, ready, committed>>
  BY DEF Keep, histVars
<1>2. /\ cands \in Seq(TxFields) /\ batch \in Seq(TxFields)
      /\ seen \in [Address -> Nat \cup {Unseen}]
  BY DEF NonceInv, SeqTypes
<1>3. tx \in TxFields
  BY <1>1, <1>2
<1>4. tx.from \in Address /\ tx.nonce \in Nat
  BY <1>3 DEF TxFields
<1>5. world.nonce \in [Address -> Nat] /\ proc = "idle"
  BY <1>1 DEF NonceInv, ProcTypes, Worlds, Phases
<1>6. Follows(batch, world.nonce) /\ Reached(batch, Len(batch), world.nonce, Wanted)
  BY <1>1 DEF NonceInv, Filtering
<1> HIDE DEF tx
<1>7. Wanted[tx.from] = tx.nonce
  BY <1>1, <1>4 DEF Wanted
<1>8. Wanted' = [Wanted EXCEPT ![tx.from] = tx.nonce + 1]
  <2>1. world' = world
    BY <1>1 DEF procVars
  <2>2. ASSUME NEW s \in Address PROVE want(s)' = IF s = tx.from THEN tx.nonce + 1 ELSE want(s)
    <3>1. seen'[s] = IF s = tx.from THEN tx.nonce + 1 ELSE seen[s]
      BY <1>1, <1>2, <1>4
    <3>2. tx.nonce + 1 # Unseen
      BY <1>4 DEF Unseen
    <3> QED
      BY <2>1, <3>1, <3>2 DEF want
  <2> QED
    BY <2>2 DEF Wanted
<1>9. /\ Follows(batch', world.nonce)
      /\ Reached(batch', Len(batch) + 1, world.nonce, Wanted')
  <2>1. Wanted \in [Address -> Nat]
    BY WantedTyped
  <2> QED
    BY <1>1, <1>2, <1>3, <1>5, <1>6, <1>7, <1>8, <2>1, Extend
<1>10. batch' \in Seq(TxFields) /\ Len(batch') = Len(batch) + 1 /\ cands' \in Seq(TxFields)
  BY <1>1, <1>2, <1>3
<1>11. seen' \in [Address -> Nat \cup {Unseen}]
  BY <1>1, <1>2, <1>4
<1>12. SeqTypes'
  BY <1>1, <1>10, <1>11 DEF NonceInv, SeqTypes
<1>13. Filtering'
  BY <1>1, <1>9, <1>10 DEF Filtering, Collecting, procVars
<1>14. ProcTypes'
  BY <1>1 DEF NonceInv, ProcTypes, procVars
<1>15. PoolLists'
  BY <1>1 DEF NonceInv, PoolLists, poolVars
<1>16. Phases' /\ Snapshots' /\ Running'
  BY <1>1, <1>5 DEF Phases, Snapshots, Running, procVars
<1>17. Chained'
  BY <1>1 DEF NonceInv, Chained, Settlement, procVars
<1> QED
  BY <1>12, <1>13, <1>14, <1>15, <1>16, <1>17 DEF NonceInv

\* Skipping one: the nonces wanted stay the same, noted or not.
LEMMA SkipKeeps == ASSUME NonceInv, Skip PROVE NonceInv'
<1> DEFINE tx == Head(cands)
<1>1. /\ pc = "filter" /\ pc' = pc /\ cands # <<>> /\ cands' = Tail(cands)
      /\ \/ seen' = [seen EXCEPT ![tx.from] = want(tx.from)]
         \/ seen' = seen
      /\ UNCHANGED <<poolVars, procVars, inbox, express, kept, ready, batch, committed>>
  BY DEF Skip, histVars
<1>2. cands \in Seq(TxFields) /\ seen \in [Address -> Nat \cup {Unseen}]
  BY DEF NonceInv, SeqTypes
<1>3. tx \in TxFields /\ cands' \in Seq(TxFields)
  BY <1>1, <1>2
<1>4. tx.from \in Address
  BY <1>3 DEF TxFields
<1>5. world.nonce \in [Address -> Nat] /\ proc = "idle" /\ world' = world
  BY <1>1 DEF NonceInv, ProcTypes, Worlds, Phases, procVars
<1> HIDE DEF tx
<1>6. want(tx.from) \in Nat
  BY <1>4, WantedTyped DEF Wanted
<1>7. Wanted' = Wanted /\ seen' \in [Address -> Nat \cup {Unseen}]
  <2>1. CASE seen' = seen
    BY <1>2, <1>5, <2>1 DEF Wanted, want
  <2>2. CASE seen' = [seen EXCEPT ![tx.from] = want(tx.from)]
    <3>1. ASSUME NEW s \in Address PROVE want(s)' = want(s)
      <4>1. seen'[s] = IF s = tx.from THEN want(tx.from) ELSE seen[s]
        BY <1>2, <1>4, <2>2
      <4>2. want(tx.from) # Unseen
        BY <1>6 DEF Unseen
      <4>3. CASE s = tx.from
        <5>1. want(s)' = want(tx.from)
          BY <1>5, <4>1, <4>2, <4>3 DEF want
        <5> QED
          BY <4>3, <5>1
      <4>4. CASE s # tx.from
        BY <1>5, <4>1, <4>4 DEF want
      <4> QED
        BY <4>3, <4>4
    <3>2. seen' \in [Address -> Nat \cup {Unseen}]
      BY <1>2, <1>4, <1>6, <2>2
    <3> QED
      BY <3>1, <3>2 DEF Wanted
  <2> QED
    BY <1>1, <2>1, <2>2
<1>8. SeqTypes'
  BY <1>1, <1>3, <1>7 DEF NonceInv, SeqTypes
<1>9. Filtering'
  BY <1>1, <1>5, <1>7 DEF NonceInv, Filtering, Collecting
<1>10. ProcTypes'
  BY <1>1 DEF NonceInv, ProcTypes, procVars
<1>11. PoolLists'
  BY <1>1 DEF NonceInv, PoolLists, poolVars
<1>12. Phases' /\ Snapshots' /\ Running'
  BY <1>1, <1>5 DEF Phases, Snapshots, Running, procVars
<1>13. Chained'
  BY <1>1 DEF NonceInv, Chained, Settlement, procVars
<1> QED
  BY <1>8, <1>9, <1>10, <1>11, <1>12, <1>13 DEF NonceInv


\* The block begins with its snapshot and nothing done.
LEMMA StartBlockKeeps == ASSUME NonceInv, StartBlock PROVE NonceInv'
<1>1. /\ pc = "filter" /\ pc' = "running" /\ cands' = <<>> /\ seen' = NoneSeen
      /\ UNCHANGED <<poolVars, inbox, express, kept, ready, batch, committed>>
  BY DEF StartBlock, NoneSeen, histVars
<1>2. /\ proc = "idle" /\ proc' = "next" /\ todo' = batch
      /\ blockRev' = Len(saved) /\ saved' = Append(saved, world)
      /\ start' = world /\ world' = world
  BY DEF StartBlock, ProcessBlock
<1>3. /\ world \in Worlds /\ saved \in Seq(Worlds) /\ batch \in Seq(TxFields)
  BY DEF NonceInv, ProcTypes, SeqTypes
<1>4. world.nonce \in [Address -> Nat]
  BY <1>3 DEF Worlds
<1>5. Follows(batch, world.nonce)
  BY <1>1 DEF NonceInv, Filtering
<1>6. ProcTypes'
  BY <1>2, <1>3 DEF ProcTypes
<1>7. PoolLists'
  BY <1>1 DEF NonceInv, PoolLists, poolVars
<1>8. NoneSeen \in [Address -> Nat \cup {Unseen}]
  BY DEF NoneSeen
<1>9. SeqTypes'
  BY <1>1, <1>8 DEF NonceInv, SeqTypes
<1>10. Phases' /\ Filtering'
  BY <1>1, <1>2 DEF Phases, Filtering, Collecting
<1>11. Snapshots'
  BY <1>2, <1>3 DEF Snapshots
<1>12. Running'
  <2>1. Done' = 0 /\ Len(batch) \in Nat
    BY <1>1, <1>2, <1>3 DEF Done
  <2>2. Reached(batch, 0, world.nonce, world.nonce)
    BY <1>4, Nothing
  <2>3. \A i \in 1..Len(batch) : (Len(batch) - Len(batch)) + i = i
    BY <2>1
  <2> QED
    BY <1>1, <1>2, <1>5, <2>1, <2>2, <2>3 DEF Running
<1>13. Chained'
  BY <1>1, <1>2 DEF NonceInv, Chained, Settlement
<1> QED
  BY <1>6, <1>7, <1>9, <1>10, <1>11, <1>12, <1>13 DEF NonceInv

\* A step of the processor: an aborted block leaves the nonces it began with, a
\* committed one continues what was committed before.
LEMMA BlockStepKeeps == ASSUME NonceInv, BlockStep PROVE NonceInv'
<1>1. /\ pc = "running" /\ RunStep
      /\ pc' = IF proc' # "idle" THEN pc ELSE IF result' = "error" THEN "idle" ELSE "pack"
      /\ committed' = IF pc' = "pack" THEN committed \o batch ELSE committed
      /\ batch' = IF pc' = "idle" THEN <<>> ELSE batch
      /\ UNCHANGED <<poolVars, inbox, express, kept, ready, cands, seen>>
  BY DEF BlockStep
<1>2. /\ ProcTypes /\ Snapshots /\ Running /\ proc \in {"next", "running"}
      /\ batch \in Seq(TxFields) /\ committed \in Seq(TxFields)
  BY <1>1 DEF NonceInv, Phases, SeqTypes
<1>3. /\ ProcTypes' /\ start' = start /\ proc' \in {"idle", "next", "running"}
      /\ proc' = "idle" => \/ result' = "error" /\ world' = start
                           \/ /\ result' = "ok" /\ world' = world
                              /\ Reached(batch, Len(batch), start.nonce, world.nonce)
      /\ proc' # "idle" /\ batch' = batch => Snapshots' /\ Running'
  BY <1>1, <1>2, ProcessorStep
<1>4. /\ InOrder(committed) /\ Reached(committed, Len(committed), Zero, start.nonce)
      /\ Follows(batch, start.nonce)
  BY <1>2 DEF NonceInv, Chained, Settlement, Running
<1>5. start.nonce \in [Address -> Nat] /\ world.nonce \in [Address -> Nat]
  BY <1>2 DEF ProcTypes, Worlds
<1>6. PoolLists'
  BY <1>1 DEF NonceInv, PoolLists, poolVars
<1>7. SeqTypes'
  <2>1. batch' \in Seq(TxFields)
    BY <1>1, <1>2
  <2>2. committed' \in Seq(TxFields)
    BY <1>1, <1>2
  <2> QED
    BY <1>1, <2>1, <2>2 DEF NonceInv, SeqTypes
<1>8. CASE proc' # "idle"
  <2>1. pc' = "running" /\ batch' = batch /\ committed' = committed
    BY <1>1, <1>8
  <2>2. Snapshots' /\ Running'
    BY <1>3, <1>8, <2>1
  <2>3. Phases' /\ Filtering'
    BY <1>3, <1>8, <2>1 DEF Phases, Filtering, Collecting
  <2>4. Chained'
    BY <1>3, <1>4, <1>8, <2>1 DEF Chained, Settlement
  <2> QED
    BY <1>3, <1>6, <1>7, <2>2, <2>3, <2>4 DEF NonceInv
<1>9. CASE proc' = "idle"
  <2>1. pc' \in {"idle", "pack"}
    BY <1>1, <1>9
  <2>2. Snapshots' /\ Running' /\ Phases' /\ Filtering'
    BY <1>9, <2>1 DEF Snapshots, Running, Phases, Filtering, Collecting
  <2>3. Chained'
    <3>1. CASE result' = "error" /\ world' = start
      <4>1. pc' = "idle" /\ committed' = committed
        BY <1>1, <1>9, <3>1
      <4> QED
        BY <1>4, <1>9, <3>1, <4>1 DEF Chained, Settlement
    <3>2. CASE /\ result' = "ok" /\ world' = world
               /\ Reached(batch, Len(batch), start.nonce, world.nonce)
      <4>1. pc' = "pack" /\ committed' = committed \o batch
        BY <1>1, <1>9, <3>2
      <4>2. /\ InOrder(committed \o batch)
            /\ Reached(committed \o batch, Len(committed \o batch), Zero, world.nonce)
        BY <1>2, <1>4, <1>5, <3>2, Commits
      <4> QED
        BY <1>9, <3>2, <4>1, <4>2 DEF Chained, Settlement
    <3> QED
      BY <1>3, <1>9, <3>1, <3>2
  <2> QED
    BY <1>3, <1>6, <1>7, <2>2, <2>3 DEF NonceInv
<1> QED
  BY <1>8, <1>9

\* The batch is sealed, or Pack fails: the world stays.
LEMMA PackKeeps == ASSUME NonceInv, Seal \/ PackFails PROVE NonceInv'
<1>1. /\ pc = "pack" /\ pc' = "idle" /\ batch' = <<>>
      /\ UNCHANGED <<world, saved, blockRev, todo, proc, start>>
      /\ UNCHANGED <<bySender, out, inbox, express, kept, ready, cands, seen, committed>>
  BY DEF Seal, PackFails, procVars, poolVars, histVars
<1>2. proc = "idle"
  BY <1>1 DEF NonceInv, Phases
<1>3. ProcTypes' /\ PoolLists'
  BY <1>1 DEF NonceInv, ProcTypes, PoolLists
<1>4. SeqTypes'
  BY <1>1 DEF NonceInv, SeqTypes
<1>5. Phases' /\ Filtering' /\ Snapshots' /\ Running'
  BY <1>1, <1>2 DEF Phases, Filtering, Collecting, Snapshots, Running
<1>6. Chained'
  BY <1>1 DEF NonceInv, Chained, Settlement
<1> QED
  BY <1>3, <1>4, <1>5, <1>6 DEF NonceInv

\* Stuttering.
LEMMA StutterKeeps == ASSUME NonceInv, UNCHANGED vars PROVE NonceInv'
<1>1. UNCHANGED <<procVars, poolVars, seqVars>>
  BY DEF vars
<1>2. PoolLists' /\ SeqTypes'
  BY <1>1 DEF NonceInv, PoolLists, SeqTypes, poolVars, seqVars, localVars, histVars
<1> QED
  BY <1>1, <1>2, Quiet DEF procVars, seqVars, localVars, histVars

-----------------------------------------------------------------------------
\* The sequencer keeps the inductive invariant.
THEOREM NonceInvariance == Spec => []NonceInv
<1>1. ASSUME NonceInv, [Next]_vars PROVE NonceInv'
  <2>1. CASE Client
    BY <1>1, <2>1, ClientKeeps
  <2>2. ASSUME NEW t \in Times, ProduceBlock(t) PROVE NonceInv'
    BY <1>1, <2>2, ProduceBlockKeeps
  <2>3. CASE Step
    BY <1>1, <2>3, CollectKeeps, DeliverDepositKeeps, KeepKeeps, SkipKeeps, StartBlockKeeps,
       BlockStepKeeps, PackKeeps DEF Step
  <2>4. CASE UNCHANGED vars
    BY <1>1, <2>4, StutterKeeps
  <2> QED
    BY <1>1, <2>1, <2>2, <2>3, <2>4 DEF Next
<1> QED
  BY InitNonceInv, <1>1, PTL DEF Spec

\* No transaction is executed twice and a sender's transactions run in the order
\* of their nonces, over all the blocks ever committed.
THEOREM NeverTwice == Spec => []NoDoubleExecution
<1>1. ASSUME NonceInv PROVE NoDoubleExecution
  <2>1. InOrder(committed) /\ committed \in Seq(TxFields)
    BY <1>1 DEF NonceInv, Chained, SeqTypes
  <2>2. DOMAIN committed = 1..Len(committed)
    BY <2>1
  <2> QED
    BY <2>1, <2>2 DEF NoDoubleExecution, InOrder
<1> QED
  BY <1>1, NonceInvariance, PTL

\* The nonces of the world are exactly those of the transactions committed.
THEOREM NoncesMatch == Spec => []NoncesAccounted
<1>1. ASSUME NonceInv PROVE NoncesAccounted
  <2> SUFFICES ASSUME proc = "idle"
               PROVE  /\ \A i \in DOMAIN committed :
                           committed[i].nonce < world.nonce[committed[i].from]
                      /\ \A s \in Address : \A n \in 0..(world.nonce[s] - 1) :
                           \E i \in DOMAIN committed : committed[i].from = s /\ committed[i].nonce = n
    BY DEF NoncesAccounted
  <2>1. Reached(committed, Len(committed), Zero, world.nonce) /\ committed \in Seq(TxFields)
    BY <1>1 DEF NonceInv, Chained, SeqTypes, Settlement
  <2>2. DOMAIN committed = 1..Len(committed)
    BY <2>1
  <2>3. \A s \in Address : Zero[s] = 0
    BY DEF Zero
  <2> QED
    BY <2>1, <2>2, <2>3 DEF Reached
<1> QED
  BY <1>1, NonceInvariance, PTL

\* The processor never meets a nonce it did not expect in a block of the sequencer.
THEOREM NoErrNonce == Spec => []NoncesFollow
<1>1. ASSUME NonceInv PROVE NoncesFollow
  <2> SUFFICES ASSUME proc = "next", todo # <<>>
               PROVE  Head(todo).nonce = world.nonce[Head(todo).from]
    BY DEF NoncesFollow
  <2> DEFINE k == Len(batch) - Len(todo)
  <2>1. /\ batch \in Seq(TxFields) /\ todo \in Seq(TxFields)
        /\ world.nonce \in [Address -> Nat] /\ start.nonce \in [Address -> Nat]
    BY <1>1 DEF NonceInv, SeqTypes, ProcTypes, Worlds
  <2>2. /\ Len(todo) <= Len(batch)
        /\ \A i \in 1..Len(todo) : todo[i] = batch[k + i]
        /\ Follows(batch, start.nonce) /\ Reached(batch, Done, start.nonce, world.nonce)
    BY <1>1 DEF NonceInv, Running
  <2>3. Len(todo) \in Nat /\ Len(batch) \in Nat /\ Len(todo) # 0 /\ Head(todo) = todo[1]
    BY <2>1
  <2>4. k \in Nat /\ k < Len(batch) /\ Done = k /\ todo[1] = batch[k + 1]
    BY <2>2, <2>3 DEF Done
  <2>5. batch[k + 1].nonce = world.nonce[batch[k + 1].from]
    <3> HIDE DEF k
    <3> QED
      BY <2>1, <2>2, <2>4, NextFits
  <2> QED
    BY <2>3, <2>4, <2>5
<1> QED
  BY <1>1, NonceInvariance, PTL

\* At any moment of a block, an abort would restore the world it began with.
THEOREM BlockUndoable == Spec => []BlockSnapshotIntact
<1>1. ASSUME NonceInv PROVE BlockSnapshotIntact
  <2>1. blockRev \in Nat /\ Len(saved) \in Nat
    BY <1>1 DEF NonceInv, ProcTypes
  <2> QED
    BY <1>1, <2>1 DEF NonceInv, Snapshots, BlockSnapshotIntact
<1> QED
  BY <1>1, NonceInvariance, PTL

\* The block's revision is the number of snapshots there were before it.
SameDepth == proc # "idle" => depth0 = blockRev

\* The steps that concern neither.
LEMMA OnlyBlockSteps ==
  ASSUME [Next]_vars
  PROVE  \/ proc' = proc /\ depth0' = depth0 /\ blockRev' = blockRev
         \/ StartBlock \/ BlockStep
<1>1. CASE Client
  BY <1>1 DEF Client, Submit, Enqueue, PushExpress, procVars
<1>2. ASSUME NEW t \in Times, ProduceBlock(t)
      PROVE  proc' = proc /\ depth0' = depth0 /\ blockRev' = blockRev
  BY <1>2 DEF ProduceBlock, procVars
<1>3. CASE PopReadyOne \/ PopReadyEnd \/ DeliverRetryable \/ DrainBegin \/ DrainOne \/ DrainEnd
  BY <1>3 DEF PopReadyOne, PopReadyEnd, DeliverRetryable, DrainBegin, DrainOne, DrainEnd, procVars
<1>4. CASE DeliverDeposit
  BY <1>4 DEF DeliverDeposit, Deposit, procVars
<1>5. CASE AskPool \/ PoolStep \/ PoolDone \/ Keep \/ Skip
  BY <1>5 DEF AskPool, PoolStep, PoolDone, Keep, Skip, procVars
<1>6. CASE Seal \/ PackFails
  BY <1>6 DEF Seal, PackFails, procVars
<1>7. CASE UNCHANGED vars
  BY <1>7 DEF vars, procVars
<1> QED
  BY <1>1, <1>2, <1>3, <1>4, <1>5, <1>6, <1>7 DEF Next, Step

\* It stays so until the block ends.
LEMMA SameDepthKept == Spec => []SameDepth
<1>1. Init => SameDepth
  BY DEF Init, ProcInit, SameDepth
<1>2. ASSUME SameDepth, [Next]_vars PROVE SameDepth'
  <2>1. CASE StartBlock
    BY <2>1 DEF StartBlock, ProcessBlock, SameDepth
  <2>2. CASE BlockStep
    <3>1. proc # "idle" /\ depth0' = depth0 /\ blockRev' = blockRev
      BY <2>2 DEF BlockStep, RunStep, RejectTx, BeginTx, RunFailed, RunOK, CommitBlock
    <3> QED
      BY <1>2, <3>1 DEF SameDepth
  <2>3. CASE proc' = proc /\ depth0' = depth0 /\ blockRev' = blockRev
    BY <1>2, <2>3 DEF SameDepth
  <2> QED
    BY <1>2, <2>1, <2>2, <2>3, OnlyBlockSteps
<1> QED
  BY <1>1, <1>2, PTL DEF Spec

\* A block that fails leaves the world and the snapshots as it found them.
THEOREM BlockAtomicity == Spec => FailedBlockUndone
<1>1. ASSUME NonceInv, SameDepth, [Next]_vars
      PROVE  proc # "idle" /\ proc' = "idle" /\ result' = "error" =>
               world' = start /\ Len(saved') = depth0
  <2> SUFFICES ASSUME proc # "idle", proc' = "idle", result' = "error"
               PROVE  world' = start /\ Len(saved') = depth0
    OBVIOUS
  <2>1. BlockStep
    <3>1. ~StartBlock
      BY DEF StartBlock, ProcessBlock
    <3> QED
      BY <1>1, <3>1, OnlyBlockSteps
  <2>2. RunStep
    BY <2>1 DEF BlockStep
  <2>3. AbortBlock
    BY <2>2 DEF RunStep, RejectTx, BeginTx, RunFailed, RunOK, EndTx, CommitBlock
  <2>4. /\ blockRev \in Nat /\ saved \in Seq(Worlds) /\ blockRev + 1 <= Len(saved)
        /\ saved[blockRev + 1] = start /\ depth0 = blockRev
    BY <1>1 DEF NonceInv, ProcTypes, Snapshots, SameDepth
  <2> QED
    BY <2>3, <2>4 DEF AbortBlock
<1>2. ASSUME NonceInv, SameDepth, [Next]_vars
      PROVE  [proc # "idle" /\ proc' = "idle" /\ result' = "error" =>
                world' = start /\ Len(saved') = depth0]_procVars
  BY <1>1, <1>2
<1> QED
  BY <1>2, NonceInvariance, SameDepthKept, PTL DEF Spec, FailedBlockUndone
-----------------------------------------------------------------------------
\* Gas.  What the filter reserves is the gas of the batch it keeps, and within the
\* limit; what a block has used and what its transactions left to run may still
\* use stays within it too.
Numbers ==
  /\ pc \in Phase
  /\ number \in Nat /\ reserved \in Nat /\ cum \in Nat /\ posted \in Nat
  /\ stamp \in Times \cup {0}
  /\ chain \in Seq([number : Nat, txs : Seq(TxFields)])
  /\ first \in [Address -> Nat]
Reserving ==
  pc \in Collecting \cup {"filter"} =>
    /\ reserved = GasOf(batch)
    /\ GasLimit # 0 => reserved <= GasLimit
Spending == proc # "idle" /\ GasLimit # 0 => cum + GasOf(todo) <= GasLimit
GasInv == Numbers /\ Reserving /\ Spending

\* Init establishes it.
LEMMA InitGasInv == Init => GasInv
<1> SUFFICES ASSUME Init PROVE GasInv
  OBVIOUS
<1>1. /\ pc = "idle" /\ proc = "idle" /\ cum = 0 /\ number = 0 /\ stamp = 0 /\ reserved = 0
      /\ chain = <<>> /\ first = [s \in Address |-> 0] /\ posted = 0
  BY DEF Init, ProcInit
<1>2. Numbers
  BY <1>1 DEF Numbers, Phase
<1> QED
  BY <1>1, <1>2 DEF GasInv, Reserving, Spending, Collecting

\* The gas a run leaves, refund included, is a part of the transaction's.
LEMMA LeftBounded ==
  ASSUME NEW tx \in TxFields, NEW left \in Nat, NEW refund \in Nat,
         left <= tx.gas - tx.intrinsic
  PROVE  /\ LeftAfterRefund(tx, left, refund) \in Nat
         /\ LeftAfterRefund(tx, left, refund) <= tx.gas
<1> DEFINE g == tx.gas
           n == g - left
           limit == n \div 5
<1>1. g \in Nat /\ tx.intrinsic \in Nat
  BY DEF TxFields
<1>2. n \in Nat /\ left + n = g
  BY <1>1
<1>3. limit \in Nat /\ limit <= n
  <2> HIDE DEF n
  <2> QED
    BY <1>2
<1>4. LeftAfterRefund(tx, left, refund) = left + (IF refund > limit THEN limit ELSE refund)
  BY DEF LeftAfterRefund
<1> HIDE DEF g, n, limit
<1>5. /\ left + (IF refund > limit THEN limit ELSE refund) \in Nat
      /\ left + (IF refund > limit THEN limit ELSE refund) <= g
  BY <1>1, <1>2, <1>3
<1> QED
  BY <1>4, <1>5 DEF g

\* A run that does not abort the block uses no more than its transaction's gas.
Charged ==
  \E used \in Nat : used <= Head(todo).gas /\ cum' = cum + used /\ todo' = Tail(todo)

\* Runs charge so, whether they succeed or fail.
LEMMA RunCharges ==
  ASSUME ProcTypes, Snapshots, NEW left \in Nat, NEW refund \in Refunds,
         \/ RunFailed(left, refund)
         \/ \E b \in Address, v \in Moves, gone \in SUBSET Ephemeral : RunOK(left, refund, b, v, gone)
  PROVE  /\ proc = "running" /\ todo # <<>>
         /\ AbortBlock \/ (Charged /\ proc' = "next")
<1> DEFINE tx == Head(todo)
           l == LeftAfterRefund(tx, left, refund)
           used == tx.gas - l
<1>1. proc = "running" /\ left <= tx.gas - tx.intrinsic
  BY DEF RunFailed, RunOK
<1>2. todo # <<>> /\ tx \in TxFields
  BY <1>1 DEF Snapshots, ProcTypes
<1>3. tx.gas \in Nat /\ refund \in Nat
  BY <1>2, ProcAssumption DEF TxFields
<1>4. l \in Nat /\ l <= tx.gas
  <2> HIDE DEF tx
  <2> QED
    BY <1>1, <1>2, <1>3, LeftBounded
<1>5. used \in Nat /\ used <= tx.gas
  <2> HIDE DEF tx, l
  <2> QED
    BY <1>3, <1>4
<1>6. AbortBlock \/ (cum' = cum + used /\ todo' = Tail(todo) /\ proc' = "next")
  BY DEF RunFailed, RunOK, EndTx
<1> HIDE DEF used
<1> QED
  BY <1>1, <1>2, <1>5, <1>6 DEF Charged

\* A step that concerns neither the batch nor the block.
LEMMA GasQuiet ==
  ASSUME GasInv, UNCHANGED <<proc, todo, cum, batch, reserved, number, stamp, chain, first>>,
         posted' \in Nat,
         \/ pc' = pc
         \/ pc \in Collecting /\ pc' \in Collecting \cup {"filter"}
  PROVE  GasInv'
<1>1. Numbers'
  BY DEF GasInv, Numbers, Collecting, Phase
<1>2. Reserving'
  BY DEF GasInv, Reserving
<1>3. Spending'
  BY DEF GasInv, Spending
<1> QED
  BY <1>1, <1>2, <1>3 DEF GasInv

\* What delivering a message credits is a number.
LEMMA CreditedTyped == ASSUME NEW msg \in Message PROVE Credited(msg) \in Nat
<1>1. msg.value \in Nat
  BY SeqAssumption DEF MessageFields
<1> QED
  BY <1>1 DEF Credited

\* The steps of clients, of collecting, and of skipping a candidate.
LEMMA QuietGas ==
  ASSUME GasInv,
         \/ Client
         \/ PopReadyOne \/ PopReadyEnd \/ DeliverRetryable \/ DeliverDeposit
         \/ DrainBegin \/ DrainOne \/ DrainEnd
         \/ AskPool \/ PoolStep \/ PoolDone \/ Skip
         \/ UNCHANGED vars
  PROVE  GasInv'
<1> DEFINE Still == UNCHANGED <<proc, todo, cum, batch, reserved, number, stamp, chain, first>>
<1> USE DEF procVars, seqVars, localVars, histVars
<1>p. posted \in Nat
  BY DEF GasInv, Numbers
<1>1. CASE Client
  <2>1. ASSUME NEW tx \in Tx, Submit(tx) PROVE GasInv'
    <3>1. Still /\ pc' = pc /\ posted' = posted
      BY <2>1 DEF Submit
    <3> QED
      BY <1>p, <3>1, GasQuiet
  <2>2. ASSUME NEW msg \in Message, NEW t \in Times, Enqueue(msg, t) PROVE GasInv'
    <3>1. Still /\ pc' = pc /\ posted' = posted + Credited(msg)
      BY <2>2 DEF Enqueue
    <3>2. posted' \in Nat
      BY <1>p, <3>1, CreditedTyped
    <3> QED
      BY <3>1, <3>2, GasQuiet
  <2>3. ASSUME NEW tx \in Tx, NEW now \in Times, PushExpress(tx, now) PROVE GasInv'
    <3>1. Still /\ pc' = pc /\ posted' = posted
      BY <2>3 DEF PushExpress
    <3> QED
      BY <1>p, <3>1, GasQuiet
  <2> QED
    BY <1>1, <2>1, <2>2, <2>3 DEF Client
<1>2. CASE PopReadyOne \/ DeliverRetryable \/ DrainOne \/ PoolStep \/ Skip
  <2>1. Still /\ pc' = pc /\ posted' = posted
    BY <1>2 DEF PopReadyOne, DeliverRetryable, DrainOne, PoolStep, Skip
  <2> QED
    BY <1>p, <2>1, GasQuiet
<1>3. CASE DeliverDeposit
  <2>1. Still /\ pc' = pc /\ posted' = posted
    BY <1>3 DEF DeliverDeposit, Deposit
  <2> QED
    BY <1>p, <2>1, GasQuiet
<1>4. CASE PopReadyEnd \/ DrainBegin \/ DrainEnd \/ AskPool \/ PoolDone
  <2>1. /\ Still /\ posted' = posted
        /\ pc \in Collecting /\ pc' \in Collecting \cup {"filter"}
    BY <1>4 DEF PopReadyEnd, DrainBegin, DrainEnd, AskPool, PoolDone, Collecting
  <2> QED
    BY <1>p, <2>1, GasQuiet
<1>5. CASE UNCHANGED vars
  <2>1. Still /\ pc' = pc /\ posted' = posted
    BY <1>5 DEF vars
  <2> QED
    BY <1>p, <2>1, GasQuiet
<1> QED
  BY <1>1, <1>2, <1>3, <1>4, <1>5

\* The steps that choose the batch.
LEMMA BatchGas ==
  ASSUME NonceInv, GasInv, (\E t \in Times : ProduceBlock(t)) \/ Keep
  PROVE  GasInv'
<1>n. Numbers
  BY DEF GasInv
<1>1. ASSUME NEW t \in Times, ProduceBlock(t) PROVE GasInv'
  <2>1. /\ pc = "idle" /\ pc' = "inbox" /\ batch' = <<>> /\ reserved' = 0
        /\ stamp' = t /\ number' = number + 1 /\ first' = world.nonce
        /\ UNCHANGED <<proc, cum, chain, posted>>
    BY <1>1 DEF ProduceBlock, procVars
  <2>2. proc = "idle" /\ world.nonce \in [Address -> Nat]
    BY <2>1 DEF NonceInv, Phases, ProcTypes, Worlds
  <2>3. GasOf(<<>>) = 0
    BY EmptySeq, GasOfList, Zenon
  <2>4. Numbers'
    BY <1>n, <2>1, <2>2 DEF Numbers, Phase
  <2>5. Reserving'
    BY <2>1, <2>3, ProcAssumption DEF Reserving
  <2>6. Spending'
    BY <2>1, <2>2 DEF Spending
  <2> QED
    BY <2>4, <2>5, <2>6 DEF GasInv
<1>2. CASE Keep
  <2> DEFINE tx == Head(cands)
  <2>1. /\ pc = "filter" /\ pc' = pc /\ cands # <<>> /\ HasRoom(tx)
        /\ batch' = Append(batch, tx) /\ reserved' = reserved + tx.gas
        /\ UNCHANGED <<proc, cum, number, stamp, chain, first, posted>>
    BY <1>2 DEF Keep, procVars, histVars
  <2>2. cands \in Seq(TxFields) /\ batch \in Seq(TxFields) /\ proc = "idle"
    BY <2>1 DEF NonceInv, SeqTypes, Phases
  <2>3. tx \in TxFields
    BY <2>1, <2>2
  <2> HIDE DEF tx
  <2>4. tx.gas \in Nat /\ reserved \in Nat /\ GasLimit \in Nat
    BY <1>n, <2>3, ProcAssumption DEF TxFields, Numbers
  <2>5. GasOf(batch') = GasOf(batch) + tx.gas
    BY <2>1, <2>2, <2>3, GasOfList
  <2>6. reserved = GasOf(batch)
    BY <2>1 DEF GasInv, Reserving
  <2>7. GasLimit # 0 => reserved + tx.gas <= GasLimit
    <3>1. GasLimit # 0 => tx.gas <= GasLimit - reserved
      BY <2>1 DEF HasRoom
    <3> QED
      BY <2>4, <3>1
  <2>8. reserved' \in Nat
    BY <2>1, <2>4
  <2>9. Numbers'
    BY <1>n, <2>1, <2>8 DEF Numbers
  <2>10. Reserving'
    BY <2>1, <2>5, <2>6, <2>7 DEF Reserving
  <2>11. Spending'
    BY <2>1, <2>2 DEF Spending
  <2> QED
    BY <2>9, <2>10, <2>11 DEF GasInv
<1> QED
  BY <1>1, <1>2

\* The steps of the block, and of its end.
LEMMA BlockGas ==
  ASSUME NonceInv, GasInv, StartBlock \/ BlockStep \/ Seal \/ PackFails
  PROVE  GasInv'
<1>n. Numbers
  BY DEF GasInv
<1>1. CASE StartBlock
  <2>1. /\ pc = "filter" /\ pc' = "running" /\ proc' = "next" /\ todo' = batch /\ cum' = 0
        /\ reserved' = 0 /\ UNCHANGED <<number, stamp, chain, first, posted>>
    BY <1>1 DEF StartBlock, ProcessBlock, histVars
  <2>2. /\ reserved = GasOf(batch) /\ reserved \in Nat
        /\ GasLimit # 0 => reserved <= GasLimit
    BY <1>n, <2>1 DEF GasInv, Reserving, Numbers
  <2>3. Numbers'
    BY <1>n, <2>1 DEF Numbers, Phase
  <2>4. Reserving'
    BY <2>1 DEF Reserving, Collecting
  <2>5. Spending'
    BY <2>1, <2>2 DEF Spending
  <2> QED
    BY <2>3, <2>4, <2>5 DEF GasInv
<1>2. CASE BlockStep
  <2>1. /\ pc = "running" /\ RunStep
        /\ pc' = IF proc' # "idle" THEN pc ELSE IF result' = "error" THEN "idle" ELSE "pack"
        /\ UNCHANGED <<number, stamp, reserved, chain, first, posted>>
    BY <1>2 DEF BlockStep
  <2>2. /\ ProcTypes /\ Snapshots /\ proc # "idle" /\ todo \in Seq(TxFields)
        /\ cum \in Nat
    BY <1>n, <2>1 DEF NonceInv, Phases, ProcTypes, Numbers
  <2>3. pc' \in {"running", "idle", "pack"}
    BY <2>1
  <2>4. Reserving'
    BY <2>3 DEF Reserving, Collecting
  <2>5. ASSUME cum' \in Nat PROVE Numbers'
    BY <1>n, <2>1, <2>3, <2>5 DEF Numbers, Phase
  <2>6. CASE proc' = "idle" /\ cum' = 0
    BY <2>4, <2>5, <2>6 DEF GasInv, Spending
  <2>7. CASE UNCHANGED <<todo, cum>>
    <3>1. Spending'
      BY <2>2, <2>7 DEF GasInv, Spending
    <3> QED
      BY <2>2, <2>4, <2>5, <2>7, <3>1 DEF GasInv
  <2>8. CASE Charged /\ todo # <<>>
    <3>1. PICK used \in Nat : used <= Head(todo).gas /\ cum' = cum + used /\ todo' = Tail(todo)
      BY <2>8 DEF Charged
    <3> DEFINE g == Head(todo).gas
               all == GasOf(todo)
               rest == GasOf(Tail(todo))
    <3>2. Head(todo) \in TxFields /\ Tail(todo) \in Seq(TxFields) /\ all = g + rest
      BY <2>2, <2>8, GasOfList
    <3>3. g \in Nat /\ rest \in Nat /\ all \in Nat
      BY <2>2, <3>2, GasOfList DEF TxFields
    <3>4. GasLimit # 0 => cum + all <= GasLimit
      BY <2>2 DEF GasInv, Spending
    <3>5. cum' \in Nat /\ (GasLimit # 0 => cum' + rest <= GasLimit)
      <4>1. used <= g /\ cum' = cum + used /\ GasLimit \in Nat
        BY <3>1, ProcAssumption
      <4> HIDE DEF g, all, rest
      <4> QED
        BY <2>2, <3>2, <3>3, <3>4, <4>1
    <3>6. Spending'
      BY <3>1, <3>5 DEF Spending
    <3> QED
      BY <2>4, <2>5, <3>5, <3>6 DEF GasInv
  <2>9. CASE RejectTx \/ CommitBlock
    BY <2>6, <2>9 DEF RejectTx, AbortBlock, CommitBlock
  <2>10. CASE BeginTx
    BY <2>7, <2>10 DEF BeginTx
  <2>11. ASSUME NEW left \in 0..(IF todo = <<>> THEN 0 ELSE Head(todo).gas), NEW refund \in Refunds,
                \/ RunFailed(left, refund)
                \/ \E b \in Address, v \in Moves, gone \in SUBSET Ephemeral : RunOK(left, refund, b, v, gone)
         PROVE  GasInv'
    <3>1. left \in Nat
      OBVIOUS
    <3>2. todo # <<>> /\ (AbortBlock \/ Charged)
      BY <2>2, <2>11, <3>1, RunCharges
    <3> QED
      BY <2>6, <2>8, <3>2 DEF AbortBlock
  <2> QED
    BY <2>1, <2>9, <2>10, <2>11 DEF RunStep
<1>3. CASE Seal \/ PackFails
  <2>1. /\ pc = "pack" /\ pc' = "idle"
        /\ UNCHANGED <<proc, cum, number, stamp, reserved, first, posted>>
        /\ chain' = chain \/ chain' = Append(chain, [number |-> number, txs |-> batch])
    BY <1>3 DEF Seal, PackFails, procVars, histVars
  <2>2. proc = "idle" /\ batch \in Seq(TxFields)
    BY <2>1 DEF NonceInv, Phases, SeqTypes
  <2>3. chain' \in Seq([number : Nat, txs : Seq(TxFields)])
    <3>1. [number |-> number, txs |-> batch] \in [number : Nat, txs : Seq(TxFields)]
      BY <1>n, <2>2 DEF Numbers
    <3> DEFINE block == [number |-> number, txs |-> batch]
               Blocks == [number : Nat, txs : Seq(TxFields)]
    <3>2. chain \in Seq(Blocks)
      BY <1>n DEF Numbers
    <3> HIDE DEF block, Blocks
    <3>3. Append(chain, block) \in Seq(Blocks)
      BY <3>1, <3>2 DEF block, Blocks
    <3>4. chain' = chain \/ chain' = Append(chain, block)
      BY <2>1 DEF block
    <3>5. chain' \in Seq(Blocks)
      BY <3>2, <3>3, <3>4
    <3> QED
      BY <3>5 DEF Blocks
  <2>4. Numbers'
    BY <1>n, <2>1, <2>3 DEF Numbers, Phase
  <2>5. Reserving' /\ Spending'
    BY <2>1, <2>2 DEF Reserving, Spending, Collecting
  <2> QED
    BY <2>4, <2>5 DEF GasInv
<1> QED
  BY <1>1, <1>2, <1>3

\* The sequencer keeps it.
THEOREM GasInvariance == Spec => []GasInv
<1>1. ASSUME NonceInv, GasInv, [Next]_vars PROVE GasInv'
  BY <1>1, QuietGas, BatchGas, BlockGas DEF Next, Step
<1> QED
  BY InitGasInv, <1>1, NonceInvariance, PTL DEF Spec

\* The state of the sequencer keeps its types: no candidate, message or block is
\* ever anything else, through every interleaving of clients and blocks.
THEOREM SequencerTyped == Spec => []SeqTypeOK
<1>1. NonceInv /\ GasInv => SeqTypeOK
  BY DEF NonceInv, GasInv, SeqTypes, Numbers, SeqTypeOK
<1> QED
  BY <1>1, NonceInvariance, GasInvariance, PTL

\* Every item in the lane carries the deadline of its push.
Dated == \A i \in 1..Len(express) : express[i].deadline = Deadline(express[i].pushedAt)

\* Pushes, and the lane's emptying, keep it so.
LEMMA DatedKept == ASSUME SeqTypeOK, Dated, [Next]_vars PROVE Dated'
<1>0. express \in Seq(ExpressItem) /\ express \in [1..Len(express) -> ExpressItem]
  BY DEF SeqTypeOK
<1>1. CASE UNCHANGED express
  BY <1>1 DEF Dated
<1>2. ASSUME NEW tx \in Tx, NEW now \in Times, PushExpress(tx, now) PROVE Dated'
  <2> DEFINE item == [tx |-> tx, deadline |-> Deadline(now), pushedAt |-> now]
  <2>1. express' = Append(express, item)
    BY <1>2 DEF PushExpress
  <2>2. item.deadline = Deadline(item.pushedAt)
    OBVIOUS
  <2> HIDE DEF item
  <2>3. ASSUME NEW i \in 1..Len(express') PROVE express'[i].deadline = Deadline(express'[i].pushedAt)
    <3>1. CASE i = Len(express) + 1
      <4>1. express'[i] = item
        BY <1>0, <2>1, <3>1
      <4> QED
        BY <2>2, <4>1
    <3>2. CASE i # Len(express) + 1
      <4>1. i \in 1..Len(express) /\ express'[i] = express[i]
        BY <1>0, <2>1, <2>3, <3>2
      <4> QED
        BY <4>1 DEF Dated
    <3> QED
      BY <3>1, <3>2
  <2> QED
    BY <2>3 DEF Dated
<1>3. CASE DrainOne
  <2>1. express # <<>> /\ express' = Tail(express)
    BY <1>3 DEF DrainOne
  <2>2. ASSUME NEW i \in 1..Len(express') PROVE express'[i].deadline = Deadline(express'[i].pushedAt)
    <3>1. i + 1 \in 1..Len(express) /\ express'[i] = express[i + 1]
      BY <1>0, <2>1, <2>2
    <3> QED
      BY <3>1 DEF Dated
  <2> QED
    BY <2>2 DEF Dated
<1>4. CASE \/ \E tx \in Tx : Submit(tx)
           \/ \E msg \in Message, t \in Times : Enqueue(msg, t)
           \/ \E t \in Times : ProduceBlock(t)
  BY <1>1, <1>4 DEF Submit, Enqueue, ProduceBlock, seqVars
<1>5. CASE \/ PopReadyOne \/ PopReadyEnd \/ DeliverRetryable \/ DeliverDeposit
           \/ DrainBegin \/ DrainEnd \/ AskPool \/ PoolStep \/ PoolDone
           \/ Keep \/ Skip \/ StartBlock \/ BlockStep \/ Seal \/ PackFails
  BY <1>1, <1>5 DEF PopReadyOne, PopReadyEnd, DeliverRetryable, DeliverDeposit, DrainBegin, DrainEnd,
       AskPool, PoolStep, PoolDone, Keep, Skip, StartBlock, BlockStep, Seal, PackFails, seqVars
<1>6. CASE UNCHANGED vars
  BY <1>1, <1>6 DEF vars, seqVars
<1> QED
  BY <1>2, <1>3, <1>4, <1>5, <1>6 DEF Next, Client, Step

\* Messages leave the inbox, and the lane's transactions their lane, on time, also
\* with clocks next to the largest there is.
THEOREM OnTime == Spec => TakenOnTime
<1>1. ASSUME SeqTypeOK, Dated, [Next]_vars
      PROVE  [/\ pc = "inbox" /\ inbox # <<>> /\ inbox' = Tail(inbox) =>
                   (ready' # ready <=> stamp >= Head(inbox).postedAt + delay)
              /\ pc = "drain" /\ express # <<>> /\ express' = Tail(express) =>
                   (cands' # cands <=> stamp <= Head(express).pushedAt + window)]_vars
  <2>0. /\ inbox \in Seq(Posted) /\ express \in Seq(ExpressItem) /\ ready \in Seq(Message)
        /\ cands \in Seq(TxFields) /\ stamp \in Nat /\ stamp <= MaxUint64
        /\ MaxUint64 \in Nat /\ delay \in Nat /\ window \in Nat
    BY <1>1, SeqAssumption DEF SeqTypeOK
  <2> SUFFICES ASSUME Next
               PROVE  /\ pc = "inbox" /\ inbox # <<>> /\ inbox' = Tail(inbox) =>
                           (ready' # ready <=> stamp >= Head(inbox).postedAt + delay)
                      /\ pc = "drain" /\ express # <<>> /\ express' = Tail(express) =>
                           (cands' # cands <=> stamp <= Head(express).pushedAt + window)
    BY <1>1
  <2>1. ASSUME pc = "inbox", inbox # <<>>, inbox' = Tail(inbox)
        PROVE  ready' # ready <=> stamp >= Head(inbox).postedAt + delay
    <3> DEFINE item == Head(inbox)
    <3>1. inbox' # inbox
      BY <2>0, <2>1
    <3>2. PopReadyOne
      BY <2>1, <3>1 DEF Next, Client, Step, Submit, Enqueue, PushExpress, ProduceBlock, PopReadyEnd,
           DeliverRetryable, DeliverDeposit, DrainBegin, DrainOne, DrainEnd, AskPool, PoolStep,
           PoolDone, Keep, Skip, StartBlock, BlockStep, Seal, PackFails, seqVars
    <3>3. item \in Posted
      BY <2>0, <2>1
    <3>4. item.msg \in Message /\ item.postedAt \in Nat /\ item.postedAt <= MaxUint64
      <4>1. item.msg \in Message /\ item.postedAt \in Times
        BY <3>3 DEF Posted
      <4>2. \A t \in Times : t \in Nat /\ t <= MaxUint64
        BY SeqAssumption
      <4> QED
        BY <4>1, <4>2, Zenon
    <3>5. ready' = IF Matured(item) THEN Append(ready, item.msg) ELSE ready
      BY <3>2 DEF PopReadyOne
    <3> HIDE DEF item
    <3>6. Append(ready, item.msg) # ready
      BY <2>0, <3>4
    <3>7. Matured(item) <=> stamp >= item.postedAt + delay
      <4>1. PICK p \in Nat : p = item.postedAt /\ p <= MaxUint64
        BY <3>4
      <4>2. Matured(item) <=> stamp >= p /\ (stamp - p) % (MaxUint64 + 1) >= delay
        BY <4>1 DEF Matured, Diff64
      <4>3. ASSUME stamp >= p PROVE (stamp - p) % (MaxUint64 + 1) = stamp - p
        <5> DEFINE d == stamp - p
                   m == MaxUint64 + 1
        <5>1. d \in Nat /\ m \in Nat \ {0} /\ d < m
          BY <2>0, <4>1, <4>3
        <5> HIDE DEF d, m
        <5>2. d % m = d
          BY <5>1
        <5> QED
          BY <5>2 DEF d, m
      <4>4. Matured(item) <=> stamp >= p /\ stamp - p >= delay
        BY <4>2, <4>3, Zenon
      <4>5. stamp >= p /\ stamp - p >= delay <=> stamp >= p + delay
        BY <2>0, <4>1
      <4> QED
        BY <4>1, <4>4, <4>5, Zenon
    <3> QED
      BY <3>5, <3>6, <3>7, Zenon DEF item
  <2>2. ASSUME pc = "drain", express # <<>>, express' = Tail(express)
        PROVE  cands' # cands <=> stamp <= Head(express).pushedAt + window
    <3> DEFINE item == Head(express)
    <3>1. express' # express
      BY <2>0, <2>2
    <3>2. DrainOne
      BY <2>2, <3>1 DEF Next, Client, Step, Submit, Enqueue, PushExpress, ProduceBlock, PopReadyOne,
           PopReadyEnd, DeliverRetryable, DeliverDeposit, DrainBegin, DrainEnd, AskPool, PoolStep,
           PoolDone, Keep, Skip, StartBlock, BlockStep, Seal, PackFails, seqVars
    <3>3. item \in ExpressItem /\ item.deadline = Deadline(item.pushedAt)
      <4>1. 1 \in 1..Len(express) /\ item = express[1] /\ express[1] \in ExpressItem
        BY <2>0, <2>2
      <4> QED
        BY <1>1, <4>1 DEF Dated
    <3>4. item.tx \in TxFields /\ item.pushedAt \in Times
      BY <3>3 DEF ExpressItem
    <3>5. cands' = IF stamp > item.deadline THEN cands ELSE Append(cands, item.tx)
      BY <3>2 DEF DrainOne
    <3> HIDE DEF item
    <3>6. Append(cands, item.tx) # cands
      BY <2>0, <3>4
    <3>7. PICK p \in Times : p = item.pushedAt
      BY <3>4
    <3>8. item.deadline = IF p + window > MaxUint64 THEN MaxUint64 ELSE p + window
      BY <3>3, <3>7, DeadlineIs
    <3>9. stamp > item.deadline <=> ~(stamp <= p + window)
      <4>1. p \in Nat
        BY SeqAssumption
      <4> QED
        BY <2>0, <3>8, <4>1
    <3> QED
      BY <3>5, <3>6, <3>7, <3>9, Zenon DEF item
  <2> QED
    BY <2>1, <2>2
<1>2. Init => Dated
  BY DEF Init, Dated
<1>3. SeqTypeOK /\ Dated /\ [Next]_vars => Dated'
  BY DatedKept
<1> QED
  BY <1>1, <1>2, <1>3, SequencerTyped, PTL DEF Spec, TakenOnTime

\* No block of the sequencer fails with ErrGasLimit, whatever its transactions use.
THEOREM NoErrGasLimit == Spec => []GasSuffices
<1>1. ASSUME NonceInv, GasInv PROVE GasSuffices
  <2> SUFFICES ASSUME proc = "next", todo # <<>>, GasLimit # 0
               PROVE  cum + Head(todo).gas <= GasLimit
    BY DEF GasSuffices
  <2>1. todo \in Seq(TxFields) /\ cum \in Nat /\ cum + GasOf(todo) <= GasLimit
    BY <1>1 DEF NonceInv, ProcTypes, GasInv, Numbers, Spending
  <2> DEFINE g == Head(todo).gas
             rest == GasOf(Tail(todo))
  <2>2. Head(todo) \in TxFields /\ Tail(todo) \in Seq(TxFields) /\ GasOf(todo) = g + rest
    BY <2>1, GasOfList
  <2>3. g \in Nat /\ rest \in Nat
    BY <2>2, GasOfList DEF TxFields
  <2>4. cum + (g + rest) <= GasLimit /\ GasLimit \in Nat
    BY <2>1, <2>2, ProcAssumption
  <2> HIDE DEF g, rest
  <2>5. cum + g <= GasLimit
    BY <2>1, <2>3, <2>4
  <2> QED
    BY <2>5 DEF g
<1> QED
  BY <1>1, NonceInvariance, GasInvariance, PTL
-----------------------------------------------------------------------------
\* Coins.  The totals of worlds.

\* The total is a number that no balance exceeds.
LEMMA TotalTyped ==
  ASSUME NEW w \in Worlds
  PROVE  /\ w.balance \in [Address -> 0..(Word - 1)]
         /\ Total(w) = Over(w.balance, Address) /\ Total(w) \in Nat
         /\ \A a \in Address : w.balance[a] \in Nat /\ w.balance[a] <= Total(w)
<1>1. w.balance \in [Address -> 0..(Word - 1)]
  BY DEF Worlds
<1>2. \A a \in Address : w.balance[a] \in Nat
  BY <1>1, ProcAssumption
<1>3. Total(w) = Over(w.balance, Address)
  BY DEF Total, Over
<1> DEFINE f == w.balance
<1>4. \A a \in Address : f[a] \in Nat
  BY <1>2
<1> HIDE DEF f
<1>5. Over(f, Address) \in Nat /\ \A a \in Address : f[a] <= Over(f, Address)
  BY <1>4, SumBounds, AddressAssumption
<1> QED
  BY <1>1, <1>2, <1>3, <1>5, Zenon DEF f

\* A balance set changes it by the difference.
LEMMA TotalSet ==
  ASSUME NEW w \in Worlds, NEW a \in Address, NEW n \in 0..(Word - 1)
  PROVE  Total([w EXCEPT !.balance = [w.balance EXCEPT ![a] = n]]) = Total(w) + n - w.balance[a]
<1> DEFINE f == w.balance
           h == [f EXCEPT ![a] = n]
           u == [w EXCEPT !.balance = h]
<1>1. f \in [Address -> 0..(Word - 1)] /\ Total(w) = Over(f, Address)
  BY TotalTyped
<1>2. u \in Worlds /\ u.balance = h
  BY <1>1 DEF Worlds
<1>3. Total(u) = Over(h, Address)
  <2> HIDE DEF u, h
  <2> QED
    BY <1>2, TotalTyped
<1>4. \A x \in Address : f[x] \in Int /\ h[x] \in Int
  BY <1>1, ProcAssumption
<1>5. h[a] = n /\ \A x \in Address \ {a} : h[x] = f[x]
  BY <1>1
<1> HIDE DEF f, h
<1>6. Over(h, Address) = Over(f, Address) + h[a] - f[a]
  <2>1. \A x \in Address \ {a} : h[x] = f[x]
    BY <1>5
  <2> QED
    BY <1>4, <2>1, SumUpdate, AddressAssumption
<1>7. Total(u) = Total(w) + n - f[a]
  BY <1>1, <1>3, <1>5, <1>6, Zenon
<1> QED
  BY <1>7, Zenon DEF u, h, f

\* A credit the supply has room for is not cut to a word.
LEMMA CreditTotal ==
  ASSUME NEW w \in Worlds, NEW a \in Address, NEW v \in Nat, Total(w) + v < Word
  PROVE  Total(Credit(w, a, v)) = Total(w) + v
<1> DEFINE b == w.balance[a]
           t == Total(w)
           n == (b + v) % Word
<1>1. b \in Nat /\ t \in Nat /\ b <= t /\ Word \in Nat \ {0}
  BY TotalTyped, ProcAssumption
<1>2. Total(w) + v < Word
  OBVIOUS
<1>3. n = b + v /\ n \in 0..(Word - 1)
  <2>1. t + v < Word
    BY <1>2
  <2> HIDE DEF b, t
  <2> QED
    BY <1>1, <2>1
<1>4. Total(Credit(w, a, v)) = t + n - b
  <2>1. Credit(w, a, v) = [w EXCEPT !.balance = [w.balance EXCEPT ![a] = n]]
    BY DEF Credit
  <2> HIDE DEF n
  <2> QED
    BY <1>3, <2>1, TotalSet
<1>5. t + (b + v) - b = t + v
  <2> HIDE DEF b, t
  <2> QED
    BY <1>1
<1> QED
  BY <1>3, <1>4, <1>5, Zenon

\* A debit the balance covers.
LEMMA DebitTotal ==
  ASSUME NEW w \in Worlds, NEW a \in Address, NEW v \in Nat, v <= w.balance[a]
  PROVE  Total(Debit(w, a, v)) = Total(w) - v
<1> DEFINE b == w.balance[a]
           t == Total(w)
           n == b - v
<1>1. b \in 0..(Word - 1) /\ t \in Nat /\ v <= b /\ Word \in Nat
  BY TotalTyped, ProcAssumption
<1>2. n \in 0..(Word - 1) /\ t + n - b = t - v
  <2> HIDE DEF b, t
  <2> QED
    BY <1>1
<1>3. Debit(w, a, v) = [w EXCEPT !.balance = [w.balance EXCEPT ![a] = n]]
  BY DEF Debit
<1>4. Total(Debit(w, a, v)) = t + n - b
  <2> HIDE DEF n
  <2> QED
    BY <1>2, <1>3, TotalSet
<1> QED
  BY <1>2, <1>4, Zenon

\* A transfer the balance covers moves coins and makes none.
LEMMA TransferTotal ==
  ASSUME NEW w \in Worlds, NEW a \in Address, NEW b \in Address, NEW v \in Nat,
         v <= w.balance[a], Total(w) < Word
  PROVE  Total(Transfer(w, a, b, v)) = Total(w)
<1> DEFINE u == Debit(w, a, v)
           t == Total(w)
<1>1. u \in Worlds /\ Total(u) = t - v /\ t \in Nat /\ t < Word /\ v <= t
  <2>1. w.balance[a] \in Nat /\ w.balance[a] <= Total(w) /\ Total(w) \in Nat
    BY TotalTyped
  <2>2. v <= Total(w)
    BY <2>1
  <2> QED
    BY <2>1, <2>2, DebitTyped, DebitTotal
<1> HIDE DEF u
<1>2. Total(u) + v = t /\ Total(u) + v < Word
  <2> HIDE DEF t
  <2> QED
    BY <1>1, ProcAssumption
<1>3. Total(Credit(u, b, v)) = Total(u) + v
  BY <1>1, <1>2, CreditTotal
<1> QED
  BY <1>2, <1>3 DEF Transfer, u

\* What a world accounts for.
LEMMA HeldTyped ==
  ASSUME NEW w \in Worlds
  PROVE  /\ Total(w) \in Nat /\ w.burnt \in Nat /\ Held(w) \in Nat
         /\ Held(w) = Total(w) + w.burnt /\ Total(w) <= Held(w)
<1>1. Total(w) \in Nat /\ w.burnt \in Nat
  BY TotalTyped DEF Worlds
<1>2. Held(w) = Total(w) + w.burnt
  BY DEF Held
<1> QED
  BY <1>1, <1>2

\* What gas costs is taken from it, exactly.
LEMMA BoughtHeld ==
  ASSUME world \in Worlds, NEW tx \in TxFields, ~Rejected(tx)
  PROVE  gasCost(tx) \in Nat /\ Held(Bought(tx)) = Held(world) - gasCost(tx)
<1> DEFINE c == gasCost(tx)
           w == Debit(world, tx.from, c)
           n == [w.nonce EXCEPT ![tx.from] = tx.nonce + 1]
<1>1. tx.from \in Address /\ world.balance[tx.from] \in Nat /\ Word \in Nat
  BY TotalTyped, ProcAssumption DEF TxFields
<1>2. c \in 0..(Word - 1) /\ ~(world.balance[tx.from] < c)
  BY PricesTyped DEF Rejected
<1> HIDE DEF c
<1>3. c \in Nat /\ c <= world.balance[tx.from]
  BY <1>1, <1>2
<1>4. w \in Worlds /\ Total(w) = Total(world) - c /\ w.burnt = world.burnt
  BY <1>1, <1>3, DebitTyped, DebitTotal
<1>5. Bought(tx) = [w EXCEPT !.nonce = n]
  BY DEF Bought, c
<1> HIDE DEF w, n
<1>6. Bought(tx).balance = w.balance /\ Bought(tx).burnt = w.burnt
  BY <1>4, <1>5 DEF Worlds
<1>7. Held(Bought(tx)) = Total(w) + w.burnt
  BY <1>6 DEF Held, Total
<1>8. Held(world) = Total(world) + world.burnt /\ Total(world) \in Nat /\ world.burnt \in Nat
  BY HeldTyped
<1>9. Held(Bought(tx)) = Held(world) - c
  BY <1>3, <1>4, <1>7, <1>8
<1> QED
  BY <1>3, <1>9 DEF c

-----------------------------------------------------------------------------
\* The prices, while they stay below a word.
Price(tx) == BaseFee + tipOf(tx)

\* With a fee cap that covers the base fee the tip is a number.
LEMMA PriceTyped ==
  ASSUME NEW tx \in TxFields, FeeCapOK(tx)
  PROVE  tipOf(tx) \in Nat /\ Price(tx) \in Nat
<1>1. /\ tx.tipCap \in Nat /\ tx.feeCap \in Nat /\ tx.gasPrice \in Nat /\ BaseFee \in Nat
  BY ProcAssumption DEF TxFields
<1>2. tipOf(tx) \in Nat
  BY <1>1 DEF tipOf, FeeCapOK
<1> QED
  BY <1>1, <1>2 DEF Price

\* Products of natural numbers.
LEMMA Products ==
  ASSUME NEW x \in Nat, NEW y \in Nat, NEW z \in Nat
  PROVE  /\ x * y \in Nat
         /\ z <= y => x * z \in Nat /\ x * z <= x * y
         /\ y # 0 => x <= x * y
         /\ x * (y + z) = x * y + x * z
         /\ (x + y) * z = x * z + y * z
<1>1. x * y \in Nat
  OBVIOUS
<1>2. ASSUME z <= y PROVE x * z \in Nat /\ x * z <= x * y
  <2>1. PICK d \in Nat : y = z + d
    <3>1. y - z \in Nat /\ y = z + (y - z)
      BY <1>2
    <3> QED
      BY <3>1
  <2>2. x * (z + d) = x * z + x * d /\ x * z \in Nat /\ x * d \in Nat
    OBVIOUS
  <2> QED
    BY <2>1, <2>2
<1>3. ASSUME y # 0 PROVE x <= x * y
  <2>1. PICK d \in Nat : y = 1 + d
    <3>1. y - 1 \in Nat /\ y = 1 + (y - 1)
      BY <1>3
    <3> QED
      BY <3>1
  <2>2. x * (1 + d) = x + x * d /\ x * d \in Nat
    OBVIOUS
  <2> QED
    BY <2>1, <2>2
<1> QED
  BY <1>1, <1>2, <1>3

\* The gas bought costs its price, and a part of it is paid back at that price.
LEMMA PriceExact ==
  ASSUME NEW tx \in TxFields, FeeCapOK(tx), Price(tx) * tx.gas < Word,
         NEW left \in Nat, left <= tx.gas
  PROVE  /\ (effective(tx) * left) % Word = Price(tx) * left
         /\ (effective(tx) * tx.gas) % Word = Price(tx) * tx.gas
         /\ Price(tx) * left \in Nat /\ Price(tx) * tx.gas \in Nat
<1> DEFINE p == Price(tx)
           g == tx.gas
           e == effective(tx)
<1>1. p \in Nat /\ g \in Nat /\ Word \in Nat \ {0} /\ e = p % Word
  BY PriceTyped, ProcAssumption DEF TxFields, effective, Price
<1>2. p * g < Word /\ left <= g
  OBVIOUS
<1> HIDE DEF p, g, e
<1>3. p * left \in Nat /\ p * left <= p * g /\ p * g \in Nat
  BY <1>1, <1>2, Products
<1> DEFINE pl == p * left
           pg == p * g
<1>4. pl \in Nat /\ pg \in Nat /\ pl < Word /\ pg < Word /\ pl % Word = pl /\ pg % Word = pg
  <2>1. pl \in Nat /\ pg \in Nat /\ pl <= pg /\ pg < Word
    BY <1>2, <1>3
  <2> HIDE DEF pl, pg
  <2> QED
    BY <1>1, <2>1
<1>5. CASE g = 0
  <2>1. left = 0 /\ e \in Int
    BY <1>1, <1>2, <1>5
  <2>2. e * left = 0 /\ e * g = 0 /\ p * left = 0 /\ p * g = 0
    BY <1>1, <1>5, <2>1
  <2>3. 0 % Word = 0
    BY <1>1
  <2> QED
    BY <1>4, <2>2, <2>3 DEF p, g, e
<1>6. CASE g # 0
  <2>1. p <= p * g
    BY <1>1, <1>6, Products
  <2>2. p < Word
    BY <1>1, <1>4, <2>1
  <2>3. e = p
    BY <1>1, <2>2
  <2> QED
    BY <1>4, <2>3, Zenon DEF p, g, e, pl, pg
<1> QED
  BY <1>5, <1>6

\* Settling a transaction brings back what its gas cost, but for the base fee of
\* the gas that was used.
LEMMA SettledTotal ==
  ASSUME NEW w \in Worlds, NEW tx \in TxFields, FeeCapOK(tx), NEW left \in Nat, left <= tx.gas,
         Total(w) + Price(tx) * tx.gas < Word
  PROVE  Total(Settled(w, tx, left)) + BaseFee * (tx.gas - left) = Total(w) + Price(tx) * tx.gas
<1> DEFINE p == Price(tx)
           g == tx.gas
           used == g - left
           tip == tipOf(tx)
           t == Total(w)
           pl == p * left
           pg == p * g
           tu == tip * used
           bu == BaseFee * used
           back == (effective(tx) * left) % Word
           fee == (tip * used) % Word
           u == Credit(w, tx.from, back)
<1>1. /\ p \in Nat /\ tip \in Nat /\ g \in Nat /\ t \in Nat /\ BaseFee \in Nat /\ Word \in Nat \ {0}
      /\ p = BaseFee + tip /\ tx.from \in Address /\ Coinbase \in Address
  BY PriceTyped, TotalTyped, ProcAssumption DEF TxFields, Price
<1>2. used \in Nat /\ left + used = g
  <2>1. left <= g
    OBVIOUS
  <2> HIDE DEF g
  <2> QED
    BY <1>1, <2>1
<1>3. t + pg < Word
  OBVIOUS
<1>4. pl \in Nat /\ pg \in Nat /\ tu \in Nat /\ bu \in Nat /\ pg = pl + (bu + tu)
  <2>1. g = left + used
    BY <1>2
  <2> HIDE DEF p, used, tip, g
  <2>2. /\ p * left \in Nat /\ p * used \in Nat /\ tip * used \in Nat /\ BaseFee * used \in Nat
        /\ p * (left + used) = p * left + p * used
        /\ (BaseFee + tip) * used = BaseFee * used + tip * used
    BY <1>1, <1>2, Products
  <2>3. p * used = BaseFee * used + tip * used
    BY <1>1, <2>2, Zenon
  <2>4. p * g = p * left + (BaseFee * used + tip * used)
    BY <2>1, <2>2, <2>3, Zenon
  <2> QED
    BY <2>2, <2>4
<1>5. back = pl
  <2>1. p * g < Word
    <3> HIDE DEF pg, t
    <3>1. pg < Word
      BY <1>1, <1>3, <1>4
    <3> QED
      BY <3>1 DEF pg
  <2> QED
    BY <2>1, PriceExact
<1>6. fee = tu
  <2>1. tu \in Nat /\ tu < Word
    <3> HIDE DEF pl, pg, tu, bu, t
    <3> QED
      BY <1>1, <1>3, <1>4
  <2> HIDE DEF tu
  <2>2. tu % Word = tu
    BY <1>1, <2>1
  <2> QED
    BY <2>2 DEF tu
<1> HIDE DEF pl, pg, tu, bu, back, fee, t
<1>7. u \in Worlds /\ Total(u) = t + pl
  <2>1. back \in Nat /\ back \in Int /\ Total(w) + back < Word
    BY <1>1, <1>3, <1>4, <1>5 DEF t
  <2>2. Credit(w, tx.from, back) \in Worlds /\ Total(Credit(w, tx.from, back)) = Total(w) + back
    BY <1>1, <2>1, CreditTyped, CreditTotal
  <2> QED
    BY <1>5, <2>2 DEF t
<1> HIDE DEF u
<1>8. Total(Credit(u, Coinbase, fee)) = Total(u) + fee
  <2>1. fee \in Nat /\ Total(u) + fee < Word
    BY <1>1, <1>3, <1>4, <1>6, <1>7
  <2> QED
    BY <1>1, <1>7, <2>1, CreditTotal
<1>9. Settled(w, tx, left) = Credit(u, Coinbase, fee)
  BY DEF Settled, u, back, fee
<1>10. (t + pl + tu) + bu = t + pg
  BY <1>1, <1>4
<1>11. Total(Settled(w, tx, left)) + bu = t + pg
  BY <1>6, <1>7, <1>8, <1>9, <1>10, Zenon
<1> QED
  BY <1>11 DEF bu, t, pg
-----------------------------------------------------------------------------
\* The processor by itself, given blocks of any transactions, as a peer may send
\* them, and deposits at any time in between.
ProcNext ==
  \/ \E txs \in Seq(TxFields) : ProcessBlock(txs)
  \/ RunStep
  \/ \E a \in Address, v \in Nat : Deposit(a, v)
ProcSpec == ProcInit /\ [][ProcNext]_procVars

CoinTypes ==
  /\ proc \in {"idle", "next", "running"}
  /\ cum \in Nat /\ burntGas \in Nat /\ minted \in Nat /\ wrapped \in BOOLEAN

\* What a transaction that runs has paid for its gas, at a price that is exact, is
\* kept for it; its snapshot is the world it runs on.
Escrowed(tx) ==
  /\ FeeCapOK(tx)
  /\ Held(world) + Price(tx) * tx.gas + BaseFee * (burntGas + cum) = minted
  /\ saved[Len(saved)] = world

Coins ==
  ~wrapped =>
    /\ minted < Word
    /\ proc = "idle" => cum = 0 /\ Held(world) + BaseFee * burntGas = minted
    /\ proc # "idle" => Held(start) + BaseFee * burntGas = minted
    /\ proc = "next" => Held(world) + BaseFee * (burntGas + cum) = minted
    /\ proc = "running" => Escrowed(Head(todo))

ProcInv == ProcTypes /\ Snapshots /\ CoinTypes /\ Coins

\* The variables it is about.
coinVars == <<world, saved, blockRev, todo, cum, proc, start, minted, burntGas, wrapped>>

\* The processor starts with it.
LEMMA ProcInitInv == ProcInit => ProcInv
<1> SUFFICES ASSUME ProcInit PROVE ProcInv
  OBVIOUS
<1>1. /\ world = [balance |-> Funds, nonce |-> Zero, burnt |-> 0] /\ start = world
      /\ saved = <<>> /\ blockRev = 0 /\ todo = <<>> /\ proc = "idle"
      /\ cum = 0 /\ burntGas = 0 /\ minted = Total(world) /\ wrapped = (minted >= Word)
  BY DEF ProcInit, Zero
<1>2. Zero \in [Address -> Nat]
  BY DEF Zero
<1>3. ProcTypes
  BY <1>1, <1>2, ProcAssumption DEF ProcTypes, Worlds
<1>4. Snapshots
  BY <1>1 DEF Snapshots
<1>5. minted \in Nat
  BY <1>1, <1>3, TotalTyped DEF ProcTypes
<1>6. CoinTypes
  BY <1>1, <1>5 DEF CoinTypes
<1>7. Coins
  <2>1. ASSUME ~wrapped PROVE minted < Word
    <3>1. ~(minted >= Word)
      BY <1>1, <2>1, Zenon
    <3> QED
      BY <1>5, <3>1, ProcAssumption
  <2>2. BaseFee * burntGas = 0 /\ minted + 0 = minted
    BY <1>1, <1>5, ProcAssumption
  <2>3. Held(world) = minted
    <3>1. world.burnt = 0
      BY <1>1
    <3> QED
      BY <1>1, <2>2, <3>1, Zenon DEF Held
  <2> QED
    BY <1>1, <2>1, <2>2, <2>3 DEF Coins
<1> QED
  BY <1>3, <1>4, <1>6, <1>7 DEF ProcInv

\* A run, whether it succeeds or fails, is settled on a world that accounts for as
\* much.
LEMMA RunSettles ==
  ASSUME ProcInv, ~wrapped, NEW left \in Nat, NEW refund \in Refunds,
         \/ RunFailed(left, refund)
         \/ \E b \in Address, v \in Moves, gone \in SUBSET Ephemeral : RunOK(left, refund, b, v, gone)
  PROVE  \/ AbortBlock
         \/ \E w \in Worlds, l \in Nat, gone \in SUBSET Address :
              /\ Held(w) = Held(world) /\ l <= Head(todo).gas
              /\ world' = Swept(Settled(w, Head(todo), l), gone)
              /\ cum' = cum + (Head(todo).gas - l)
<1> DEFINE tx == Head(todo)
           l == LeftAfterRefund(tx, left, refund)
<1>1. /\ ProcTypes /\ Snapshots /\ proc = "running"
      /\ left <= tx.gas - tx.intrinsic
  BY DEF ProcInv, RunFailed, RunOK
<1>2. todo # <<>> /\ tx \in TxFields /\ world \in Worlds /\ saved \in Seq(Worlds)
  BY <1>1 DEF Snapshots, ProcTypes
<1>3. refund \in Nat
  BY ProcAssumption
<1>4. l \in Nat /\ l <= tx.gas
  <2> HIDE DEF tx
  <2> QED
    BY <1>1, <1>2, <1>3, LeftBounded
<1>5. /\ FeeCapOK(tx) /\ Held(world) + Price(tx) * tx.gas + BaseFee * (burntGas + cum) = minted
      /\ saved[Len(saved)] = world /\ minted < Word
  BY <1>1 DEF ProcInv, Coins, Escrowed
<1>6. CASE RunFailed(left, refund)
  <2>1. Len(saved) \in Nat /\ (Len(saved) - 1) + 1 = Len(saved)
    BY <1>2
  <2>2. \/ AbortBlock
        \/ /\ world' = Swept(Settled(saved[(Len(saved) - 1) + 1], tx, l), {})
           /\ cum' = cum + (tx.gas - l)
    BY <1>6 DEF RunFailed, EndTx
  <2>3. AbortBlock \/ (world' = Swept(Settled(world, tx, l), {}) /\ cum' = cum + (tx.gas - l))
    BY <1>5, <2>1, <2>2, Zenon
  <2> HIDE DEF tx, l
  <2>4. {} \in SUBSET Address
    OBVIOUS
  <2>5. AbortBlock \/ \E w \in Worlds, k \in Nat, gone \in SUBSET Address :
              /\ Held(w) = Held(world) /\ k <= tx.gas
              /\ world' = Swept(Settled(w, tx, k), gone) /\ cum' = cum + (tx.gas - k)
    BY <1>2, <1>4, <2>3, <2>4, Zenon
  <2> QED
    BY <2>5 DEF tx
<1>7. ASSUME NEW b \in Address, NEW v \in Moves, NEW gone \in SUBSET Ephemeral,
             RunOK(left, refund, b, v, gone)
      PROVE  AbortBlock \/ \E w \in Worlds, k \in Nat, g \in SUBSET Address :
              /\ Held(w) = Held(world) /\ k <= tx.gas
              /\ world' = Swept(Settled(w, tx, k), g) /\ cum' = cum + (tx.gas - k)
  <2> DEFINE paid == Transfer(world, tx.from, tx.to, tx.value)
             w == Transfer(paid, tx.to, b, v)
  <2>1. tx.from \in Address /\ tx.to \in Address /\ tx.value \in Nat /\ tx.gas \in Nat /\ v \in Nat
    BY <1>2, ProcAssumption DEF TxFields
  <2>2. world.balance[tx.from] >= tx.value /\ v <= paid.balance[tx.to]
    BY <1>7 DEF RunOK
  <2>3. Total(world) < Word
    <3> DEFINE t == Total(world)
               h == Held(world)
               pg == Price(tx) * tx.gas
               bf == BaseFee * (burntGas + cum)
    <3>1. /\ t \in Nat /\ h \in Nat /\ t <= h /\ pg \in Nat /\ bf \in Nat
          /\ h + pg + bf = minted /\ minted < Word
      <4>1. t \in Nat /\ h \in Nat /\ t <= h /\ Price(tx) \in Nat
        BY <1>2, <1>5, HeldTyped, PriceTyped
      <4>2. BaseFee \in Nat /\ burntGas + cum \in Nat
        BY ProcAssumption DEF ProcInv, CoinTypes
      <4> HIDE DEF tx
      <4> QED
        BY <1>5, <2>1, <4>1, <4>2, Products
    <3> HIDE DEF t, h, pg, bf
    <3>2. t < Word
      BY <3>1, ProcAssumption
    <3> QED
      BY <3>2 DEF t
  <2>4. tx.value <= world.balance[tx.from]
    <3>1. world.balance[tx.from] \in Nat
      BY <1>2, <2>1, TotalTyped
    <3> HIDE DEF tx
    <3> QED
      BY <2>1, <2>2, <3>1
  <2> HIDE DEF tx, l
  <2>5. paid \in Worlds /\ Total(paid) = Total(world) /\ paid.burnt = world.burnt
    BY <1>2, <2>1, <2>3, <2>4, TransferTyped, TransferTotal
  <2>6. \/ AbortBlock
        \/ world' = Swept(Settled(w, tx, l), gone) /\ cum' = cum + (tx.gas - l)
    BY <1>7 DEF RunOK, EndTx, tx, l
  <2> HIDE DEF paid
  <2>7. w \in Worlds /\ Total(w) = Total(world) /\ w.burnt = world.burnt
    BY <2>1, <2>2, <2>3, <2>5, TransferTyped, TransferTotal
  <2> HIDE DEF w
  <2>8. Held(w) = Held(world)
    BY <2>7 DEF Held
  <2>9. gone \in SUBSET Address
    BY ProcAssumption
  <2> QED
    BY <1>4, <2>6, <2>7, <2>8, <2>9, Zenon
<1> QED
  BY <1>6, <1>7

\* So the coins of a transaction add up when it is settled and swept.
LEMMA RunCoins ==
  ASSUME ProcInv, ~wrapped, NEW left \in Nat, NEW refund \in Refunds,
         \/ RunFailed(left, refund)
         \/ \E b \in Address, v \in Moves, gone \in SUBSET Ephemeral : RunOK(left, refund, b, v, gone)
  PROVE  AbortBlock \/ Held(world') + BaseFee * (burntGas + cum') = minted
<1> SUFFICES ASSUME ~AbortBlock PROVE Held(world') + BaseFee * (burntGas + cum') = minted
  OBVIOUS
<1> DEFINE tx == Head(todo)
<1>1. PICK w \in Worlds, l \in Nat, gone \in SUBSET Address :
              /\ Held(w) = Held(world) /\ l <= tx.gas
              /\ world' = Swept(Settled(w, tx, l), gone)
              /\ cum' = cum + (tx.gas - l)
  BY RunSettles
<1>2. proc = "running"
  BY DEF RunFailed, RunOK
<1>3. tx \in TxFields
  BY <1>2 DEF ProcInv, Snapshots, ProcTypes
<1>4. /\ FeeCapOK(tx) /\ Held(world) + Price(tx) * tx.gas + BaseFee * (burntGas + cum) = minted
      /\ minted < Word
  BY <1>2 DEF ProcInv, Coins, Escrowed
<1>5. tx.gas \in Nat /\ BaseFee \in Nat /\ burntGas + cum \in Nat /\ cum \in Nat /\ burntGas \in Nat
  BY <1>3, ProcAssumption DEF TxFields, ProcInv, CoinTypes
<1> HIDE DEF tx
<1> DEFINE t == Total(w)
           h == Held(w)
           lost == w.burnt
           pg == Price(tx) * tx.gas
           used == tx.gas - l
           old == BaseFee * (burntGas + cum)
           bu == BaseFee * used
           new == Total(Settled(w, tx, l))
<1>6. used \in Nat
  BY <1>1, <1>5
<1>7. /\ t \in Nat /\ h \in Nat /\ lost \in Nat /\ h = t + lost
      /\ pg \in Nat /\ old \in Nat /\ bu \in Nat
  BY <1>3, <1>4, <1>5, <1>6, HeldTyped, PriceTyped, Products
<1>8. h + pg + old = minted /\ minted < Word
  BY <1>1, <1>4
<1>9. t + pg < Word
  <2> HIDE DEF t, h, lost, pg, old
  <2> QED
    BY <1>7, <1>8, ProcAssumption
<1>10. new + bu = t + pg
  BY <1>1, <1>3, <1>4, <1>9, SettledTotal
<1>11. new \in Nat /\ Held(world') = new + lost
  <2>1. Settled(w, tx, l) \in Worlds /\ Settled(w, tx, l).burnt = w.burnt
    BY <1>1, <1>3, SettledTyped
  <2>2. new \in Nat /\ Held(Settled(w, tx, l)) = new + lost
    BY <2>1, HeldTyped
  <2>3. Held(world') = Held(Settled(w, tx, l))
    BY <1>1, <2>1, SweptTyped
  <2> QED
    BY <2>2, <2>3
<1>12. BaseFee * (burntGas + cum') = old + bu
  <2>1. burntGas + cum' = (burntGas + cum) + used
    <3> HIDE DEF used
    <3>1. cum' = cum + used
      BY <1>1 DEF used
    <3> QED
      BY <1>5, <1>6, <3>1
  <2> DEFINE m == burntGas + cum
  <2>2. m \in Nat /\ burntGas + cum' = m + used
    BY <1>5, <2>1
  <2> HIDE DEF m, used
  <2>3. BaseFee * (m + used) = BaseFee * m + BaseFee * used
    BY <1>5, <1>6, <2>2, Products
  <2> QED
    BY <2>2, <2>3, Zenon DEF m
<1>13. (new + lost) + (old + bu) = minted
  <2> HIDE DEF new, old, bu, t, pg, h, lost
  <2> QED
    BY <1>7, <1>8, <1>10, <1>11
<1> QED
  BY <1>11, <1>12, <1>13, Zenon

\* An abort brings back the world the block began with, and its coins.
LEMMA AbortCoins ==
  ASSUME ProcInv, proc # "idle", AbortBlock, UNCHANGED <<blockRev, start, minted, burntGas, wrapped>>
  PROVE  ProcInv'
<1>1. /\ world \in Worlds /\ start \in Worlds /\ saved \in Seq(Worlds) /\ blockRev \in Nat
      /\ blockRev + 1 <= Len(saved) /\ saved[blockRev + 1] = start
  BY DEF ProcInv, ProcTypes, Snapshots
<1>2. world' = start /\ saved' \in Seq(Worlds) /\ todo' = <<>> /\ proc' = "idle" /\ cum' = 0
  BY <1>1 DEF AbortBlock
<1>3. ProcTypes' /\ Snapshots'
  BY <1>1, <1>2 DEF ProcTypes, Snapshots
<1>4. CoinTypes'
  BY <1>2 DEF ProcInv, CoinTypes
<1>5. Coins'
  BY <1>2 DEF ProcInv, Coins
<1> QED
  BY <1>3, <1>4, <1>5 DEF ProcInv

\* A transaction that begins has paid for its gas.
LEMMA BeginCoins == ASSUME ProcInv, BeginTx PROVE ProcInv'
<1> DEFINE tx == Head(todo)
           cost0 == Price(tx) * tx.gas
<1>1. /\ proc = "next" /\ todo # <<>> /\ ~Rejected(tx)
      /\ world' = Bought(tx) /\ saved' = Append(saved, Bought(tx)) /\ proc' = "running"
      /\ wrapped' = (wrapped \/ (BaseFee + tipOf(tx)) * tx.gas + tx.value >= Word)
      /\ UNCHANGED <<blockRev, todo, cum, start, minted, burntGas>>
  BY DEF BeginTx
<1>2. /\ world \in Worlds /\ start \in Worlds /\ saved \in Seq(Worlds) /\ blockRev \in Nat
      /\ todo \in Seq(TxFields) /\ blockRev + 1 <= Len(saved) /\ saved[blockRev + 1] = start
  BY <1>1 DEF ProcInv, ProcTypes, Snapshots
<1>3. tx \in TxFields /\ Head(todo') = tx
  BY <1>1, <1>2
<1>4. Bought(tx) \in Worlds
  BY <1>1, <1>2, <1>3, BoughtTyped
<1>5. /\ saved' \in Seq(Worlds) /\ Len(saved') = Len(saved) + 1 /\ saved'[Len(saved')] = world'
      /\ saved'[blockRev + 1] = start /\ blockRev + 2 <= Len(saved')
  <2> HIDE DEF tx
  <2> QED
    BY <1>1, <1>2, <1>4
<1>6. ProcTypes'
  <2> HIDE DEF tx
  <2> QED
    BY <1>1, <1>2, <1>4, <1>5 DEF ProcTypes
<1>7. Snapshots'
  <2>1. Len(saved') \in Nat
    BY <1>5
  <2> HIDE DEF tx
  <2> QED
    BY <1>1, <1>2, <1>5, <2>1 DEF Snapshots
<1>8. CoinTypes'
  <2>1. wrapped' \in BOOLEAN
    BY <1>1
  <2> QED
    BY <1>1, <2>1 DEF ProcInv, CoinTypes
<1>9. ASSUME ~wrapped' PROVE ~wrapped /\ ~(cost0 + tx.value >= Word)
  BY <1>1, <1>9, Zenon DEF Price
<1>10. ASSUME ~wrapped'
       PROVE  /\ FeeCapOK(tx) /\ saved'[Len(saved')] = world'
              /\ Held(world') + cost0 + BaseFee * (burntGas' + cum') = minted'
  <2>1. /\ FeeCapOK(tx) /\ ~(world.balance[tx.from] < gasCost(tx))
    BY <1>1 DEF Rejected
  <2>2. /\ tx.from \in Address /\ tx.gas \in Nat /\ tx.value \in Nat /\ tx.nonce \in Nat
        /\ Word \in Nat \ {0} /\ Price(tx) \in Nat
    BY <1>3, <2>1, ProcAssumption, PriceTyped DEF TxFields
  <2>3. cost0 \in Nat /\ cost0 < Word
    <3>1. cost0 \in Nat
      <4> HIDE DEF tx
      <4> QED
        BY <2>2, Products
    <3>2. ~(cost0 + tx.value >= Word)
      BY <1>9, <1>10
    <3> HIDE DEF cost0, tx
    <3> QED
      BY <2>2, <3>1, <3>2
  <2>4. gasCost(tx) = cost0
    <3>1. tx.gas <= tx.gas
      BY <2>2
    <3>2. (effective(tx) * tx.gas) % Word = cost0
      <4> HIDE DEF tx
      <4> QED
        BY <1>3, <2>1, <2>2, <2>3, <3>1, PriceExact
    <3> QED
      BY <3>2 DEF gasCost
  <2>8. Held(world') = Held(world) - cost0
    BY <1>1, <1>2, <1>3, <2>4, BoughtHeld
  <2>9. Held(world) + BaseFee * (burntGas + cum) = minted
    BY <1>1, <1>9, <1>10 DEF ProcInv, Coins
  <2>10. Held(world') + cost0 + BaseFee * (burntGas' + cum') = minted'
    <3> DEFINE t == Held(world)
               f == BaseFee * (burntGas + cum)
    <3>1. t \in Nat /\ f \in Nat
      <4>1. BaseFee \in Nat /\ burntGas + cum \in Nat
        BY ProcAssumption DEF ProcInv, CoinTypes
      <4> QED
        BY <1>2, <4>1, HeldTyped, Products
    <3>2. t + f = minted /\ Held(world') = t - cost0
      BY <2>8, <2>9
    <3>3. BaseFee * (burntGas' + cum') = f /\ minted' = minted
      BY <1>1
    <3> HIDE DEF t, f, cost0
    <3>4. (t - cost0) + cost0 + f = minted
      BY <2>3, <3>1, <3>2
    <3> QED
      BY <3>2, <3>3, <3>4, Zenon
  <2>11. saved'[Len(saved')] = world'
    BY <1>5
  <2> QED
    BY <2>1, <2>10, <2>11
<1>11. Coins'
  <2> SUFFICES ASSUME ~wrapped' PROVE
        /\ minted' < Word
        /\ proc' = "idle" => cum' = 0 /\ Held(world') + BaseFee * burntGas' = minted'
        /\ proc' # "idle" => Held(start') + BaseFee * burntGas' = minted'
        /\ proc' = "next" => Held(world') + BaseFee * (burntGas' + cum') = minted'
        /\ proc' = "running" => Escrowed(Head(todo))'
    BY DEF Coins
  <2>1. ~wrapped
    BY <1>9
  <2>2. minted < Word /\ Held(start) + BaseFee * burntGas = minted
    BY <1>1, <2>1 DEF ProcInv, Coins
  <2>3. Escrowed(Head(todo))'
    <3>1. /\ FeeCapOK(tx) /\ saved'[Len(saved')] = world'
          /\ Held(world') + cost0 + BaseFee * (burntGas' + cum') = minted'
      BY <1>10
    <3>2. todo' = todo
      BY <1>1
    <3> QED
      BY <3>1, <3>2 DEF Escrowed
  <2> QED
    BY <1>1, <2>2, <2>3
<1> QED
  BY <1>6, <1>7, <1>8, <1>11 DEF ProcInv

\* A run's end.
LEMMA EndCoins ==
  ASSUME ProcInv, NEW left \in Nat, NEW refund \in Refunds,
         \/ RunFailed(left, refund)
         \/ \E b \in Address, v \in Moves, gone \in SUBSET Ephemeral : RunOK(left, refund, b, v, gone)
  PROVE  ProcInv'
<1>1. proc = "running" /\ UNCHANGED <<blockRev, start, minted, burntGas, wrapped>>
  BY DEF RunFailed, RunOK
<1>2. CASE AbortBlock
  BY <1>1, <1>2, AbortCoins
<1>3. CASE ~AbortBlock
  <2>0. ProcTypes /\ Snapshots /\ cum \in Nat
    BY DEF ProcInv, CoinTypes
  <2>1. Ended
    BY <1>3, <2>0, RunFailedEnds, RunOKEnds
  <2>2. todo # <<>> /\ Charged
    BY <1>3, <2>0, RunCharges
  <2>3. /\ world' \in Worlds /\ saved' \in Seq(Worlds) /\ blockRev + 1 <= Len(saved')
        /\ saved'[blockRev + 1] = saved[blockRev + 1] /\ todo' = Tail(todo) /\ proc' = "next"
    BY <2>1 DEF Ended
  <2>4. ProcTypes'
    <3>1. todo' \in Seq(TxFields)
      BY <2>0, <2>2, <2>3 DEF ProcTypes
    <3> QED
      BY <1>1, <2>0, <2>3, <3>1 DEF ProcTypes
  <2>5. Snapshots'
    BY <1>1, <2>0, <2>3 DEF Snapshots
  <2>6. cum' \in Nat
    <3>1. PICK used \in Nat : cum' = cum + used
      BY <2>2 DEF Charged
    <3> QED
      BY <2>0, <3>1
  <2>7. CoinTypes'
    BY <1>1, <2>3, <2>6 DEF ProcInv, CoinTypes
  <2>8. ASSUME ~wrapped PROVE Held(world') + BaseFee * (burntGas + cum') = minted
    BY <1>3, <2>8, RunCoins
  <2>9. Coins'
    BY <1>1, <2>3, <2>8 DEF ProcInv, Coins
  <2> QED
    BY <2>4, <2>5, <2>7, <2>9 DEF ProcInv
<1> QED
  BY <1>2, <1>3

\* A block's begin, its commit, and a deposit.
LEMMA OutsideCoins ==
  ASSUME ProcInv,
         \/ \E list \in Seq(TxFields) : ProcessBlock(list)
         \/ CommitBlock
         \/ \E a \in Address, v \in Nat : Deposit(a, v)
  PROVE  ProcInv'
<1>0. /\ world \in Worlds /\ start \in Worlds /\ saved \in Seq(Worlds) /\ blockRev \in Nat
      /\ todo \in Seq(TxFields) /\ cum \in Nat /\ burntGas \in Nat /\ minted \in Nat
      /\ wrapped \in BOOLEAN /\ BaseFee \in Nat /\ Word \in Nat
  BY ProcAssumption DEF ProcInv, ProcTypes, CoinTypes
<1>1. ASSUME NEW list \in Seq(TxFields), ProcessBlock(list) PROVE ProcInv'
  <2>1. /\ proc = "idle" /\ proc' = "next" /\ todo' = list /\ cum' = 0
        /\ blockRev' = Len(saved) /\ saved' = Append(saved, world) /\ start' = world
        /\ UNCHANGED <<world, minted, burntGas, wrapped>>
    BY <1>1 DEF ProcessBlock
  <2>2. ProcTypes' /\ Snapshots'
    BY <1>0, <2>1 DEF ProcTypes, Snapshots
  <2>3. CoinTypes'
    BY <1>0, <2>1 DEF CoinTypes
  <2>4. burntGas' + cum' = burntGas
    BY <1>0, <2>1
  <2>5. Coins'
    BY <2>1, <2>4 DEF ProcInv, Coins
  <2> QED
    BY <2>2, <2>3, <2>5 DEF ProcInv
<1>2. CASE CommitBlock
  <2>1. /\ proc = "next" /\ proc' = "idle" /\ saved' = <<>> /\ cum' = 0
        /\ burntGas' = burntGas + cum
        /\ UNCHANGED <<world, blockRev, todo, start, minted, wrapped>>
    BY <1>2 DEF CommitBlock
  <2>2. ProcTypes' /\ Snapshots'
    BY <1>0, <2>1 DEF ProcTypes, Snapshots
  <2>3. CoinTypes'
    BY <1>0, <2>1 DEF CoinTypes
  <2>4. Coins'
    BY <2>1 DEF ProcInv, Coins
  <2> QED
    BY <2>2, <2>3, <2>4 DEF ProcInv
<1>3. ASSUME NEW a \in Address, NEW v \in Nat, Deposit(a, v) PROVE ProcInv'
  <2>1. /\ proc = "idle" /\ world' = Credit(world, a, v) /\ minted' = minted + v
        /\ wrapped' = (wrapped \/ minted + v >= Word)
        /\ UNCHANGED <<saved, blockRev, todo, cum, proc, start, burntGas>>
    BY <1>3 DEF Deposit
  <2>2. world' \in Worlds
    BY <1>0, <2>1, CreditTyped
  <2>3. ProcTypes' /\ Snapshots'
    BY <1>0, <2>1, <2>2 DEF ProcTypes, Snapshots
  <2>4. CoinTypes'
    <3>1. wrapped' \in BOOLEAN /\ minted' \in Nat
      BY <1>0, <2>1
    <3> QED
      BY <1>0, <2>1, <3>1 DEF CoinTypes
  <2>5. ASSUME ~wrapped' PROVE minted' < Word /\ cum = 0 /\ Held(world') + BaseFee * burntGas = minted'
    <3>1. ~wrapped /\ ~(minted + v >= Word)
      BY <2>1, <2>5, Zenon
    <3>2. cum = 0 /\ Held(world) + BaseFee * burntGas = minted
      BY <2>1, <3>1 DEF ProcInv, Coins
    <3> DEFINE t == Held(world)
               f == BaseFee * burntGas
               m == Total(world)
    <3>3. t \in Nat /\ f \in Nat /\ t + f = minted /\ m \in Nat /\ m <= t
      BY <1>0, <3>2, HeldTyped, Products
    <3> HIDE DEF f
    <3>4. m + v < Word /\ minted + v < Word
      <4> HIDE DEF t, m
      <4> QED
        BY <1>0, <3>1, <3>3
    <3>5. Held(world') = t + v
      <4>1. Total(world') = m + v /\ world'.burnt = world.burnt
        <5>1. Total(world) + v < Word /\ v \in Int
          BY <3>4
        <5>2. Total(Credit(world, a, v)) = Total(world) + v
          BY <1>0, <5>1, CreditTotal
        <5>3. Credit(world, a, v).burnt = world.burnt
          BY <1>0, <5>1, CreditTyped
        <5> QED
          BY <2>1, <5>2, <5>3
      <4> QED
        BY <1>0, <2>2, <4>1, HeldTyped
    <3> HIDE DEF t
    <3>6. (t + v) + f = minted + v
      BY <1>0, <3>3
    <3> QED
      BY <2>1, <3>2, <3>4, <3>5, <3>6 DEF f
  <2>6. Coins'
    BY <2>1, <2>5 DEF Coins
  <2> QED
    BY <2>3, <2>4, <2>6 DEF ProcInv
<1> QED
  BY <1>1, <1>2, <1>3

\* Every step of the processor keeps the coins.
LEMMA ProcKeeps == ASSUME ProcInv, ProcNext \/ UNCHANGED coinVars PROVE ProcInv'
<1>1. CASE UNCHANGED coinVars
  BY <1>1 DEF coinVars, ProcInv, ProcTypes, Snapshots, CoinTypes, Coins, Escrowed
<1>2. CASE RejectTx
  <2>1. proc # "idle" /\ AbortBlock /\ UNCHANGED <<blockRev, start, minted, burntGas, wrapped>>
    BY <1>2 DEF RejectTx
  <2> QED
    BY <2>1, AbortCoins
<1>3. CASE BeginTx
  BY <1>3, BeginCoins
<1>4. ASSUME NEW left \in 0..(IF todo = <<>> THEN 0 ELSE Head(todo).gas), NEW refund \in Refunds,
             \/ RunFailed(left, refund)
             \/ \E b \in Address, v \in Moves, gone \in SUBSET Ephemeral : RunOK(left, refund, b, v, gone)
      PROVE  ProcInv'
  <2>1. left \in Nat
    OBVIOUS
  <2> QED
    BY <1>4, <2>1, EndCoins
<1> QED
  BY <1>1, <1>2, <1>3, <1>4, OutsideCoins DEF ProcNext, RunStep

-----------------------------------------------------------------------------
\* Coins whose amounts wrap.  Numbers that differ by words.
Same(x, y) == \E k \in Int : x = y + k * Word

\* They add up.
LEMMA SameSum ==
  ASSUME NEW x \in Int, NEW y \in Int, NEW u \in Int, NEW v \in Int, Same(x, y), Same(u, v)
  PROVE  Same(x + u, y + v)
<1>1. PICK k \in Int : x = y + k * Word
  BY DEF Same
<1>2. PICK l \in Int : u = v + l * Word
  BY DEF Same
<1>3. Word \in Int
  BY ProcAssumption
<1>4. (k + l) * Word = k * Word + l * Word /\ k * Word \in Int /\ l * Word \in Int
  BY <1>3
<1> DEFINE a == k * Word
           b == l * Word
<1>5. a \in Int /\ b \in Int /\ x = y + a /\ u = v + b
  BY <1>1, <1>2, <1>4
<1> HIDE DEF a, b
<1>6. x + u = (y + v) + (a + b)
  BY <1>5
<1>7. a + b = (k + l) * Word /\ k + l \in Int
  BY <1>4 DEF a, b
<1> QED
  BY <1>6, <1>7 DEF Same

\* And follow each other.
LEMMA SameChain ==
  ASSUME NEW x \in Int, NEW y \in Int, NEW z \in Int
  PROVE  /\ Same(x, x)
         /\ Same(x, y) => Same(y, x)
         /\ Same(x, y) /\ Same(y, z) => Same(x, z)
<1>0. Word \in Int
  BY ProcAssumption
<1>1. Same(x, x)
  <2>1. 0 * Word = 0 /\ x = x + 0
    BY <1>0
  <2> QED
    BY <2>1 DEF Same
<1>2. ASSUME Same(x, y) PROVE Same(y, x)
  <2>1. PICK k \in Int : x = y + k * Word
    BY <1>2 DEF Same
  <2>2. (-k) * Word = -(k * Word) /\ k * Word \in Int
    BY <1>0
  <2> DEFINE a == k * Word
  <2>3. a \in Int /\ x = y + a
    BY <2>1, <2>2
  <2> HIDE DEF a
  <2>4. y = x + (-a)
    BY <2>3
  <2>5. -a = (-k) * Word /\ -k \in Int
    BY <2>2 DEF a
  <2> QED
    BY <2>4, <2>5 DEF Same
<1>3. ASSUME Same(x, y), Same(y, z) PROVE Same(x, z)
  <2>1. PICK k \in Int : x = y + k * Word
    BY <1>3 DEF Same
  <2>2. PICK l \in Int : y = z + l * Word
    BY <1>3 DEF Same
  <2>3. (k + l) * Word = k * Word + l * Word /\ k * Word \in Int /\ l * Word \in Int
    BY <1>0
  <2> DEFINE a == k * Word
             b == l * Word
  <2>4. a \in Int /\ b \in Int /\ x = y + a /\ y = z + b
    BY <2>1, <2>2, <2>3
  <2> HIDE DEF a, b
  <2>5. x = z + (a + b)
    BY <2>4
  <2>6. a + b = (k + l) * Word /\ k + l \in Int
    BY <2>3 DEF a, b
  <2> QED
    BY <2>5, <2>6 DEF Same
<1> QED
  BY <1>1, <1>2, <1>3

\* Multiples of them differ by words too.
LEMMA SameTimes ==
  ASSUME NEW x \in Int, NEW y \in Int, NEW n \in Int, Same(x, y)
  PROVE  Same(x * n, y * n)
<1>1. PICK k \in Int : x = y + k * Word
  BY DEF Same
<1>2. PICK w \in Int : w = Word
  BY ProcAssumption
<1>3. (y + k * w) * n = y * n + (k * n) * w
  OBVIOUS
<1>4. k * n \in Int
  OBVIOUS
<1> QED
  BY <1>1, <1>2, <1>3, <1>4 DEF Same

\* A remainder is such a number.
LEMMA SameRest == ASSUME NEW x \in Int PROVE x % Word \in Int /\ Same(x % Word, x)
<1>1. PICK w \in Nat \ {0} : w = Word
  BY ProcAssumption
<1>2. PICK q \in Int : q = x \div w
  <2>1. x \div w \in Int
    BY <1>1
  <2> QED
    BY <2>1
<1>3. x = w * q + (x % w) /\ x % w \in Int
  BY <1>1, <1>2
<1>4. w * q = q * w /\ (-q) * w = -(q * w) /\ q * w \in Int
  BY <1>1
<1> DEFINE r == x % w
           a == q * w
<1>5. r \in Int /\ a \in Int /\ x = a + r
  BY <1>3, <1>4
<1> HIDE DEF r, a
<1>6. r = x + (-a)
  BY <1>5
<1>7. -a = (-q) * w /\ -q \in Int
  BY <1>4 DEF a
<1>8. Same(r, x)
  BY <1>1, <1>6, <1>7 DEF Same
<1> QED
  BY <1>1, <1>5, <1>8 DEF r

\* The remainder of their difference is zero.
LEMMA SameIsRest == ASSUME NEW x \in Int, NEW y \in Int, Same(x, y) PROVE (x - y) % Word = 0
<1>1. PICK w \in Nat \ {0} : w = Word
  BY ProcAssumption
<1>2. PICK k \in Int : x = y + k * w
  BY <1>1 DEF Same
<1>3. PICK d \in Int : d = x - y
  OBVIOUS
<1>4. d = k * w
  <2>1. k * w \in Int
    BY <1>1
  <2> DEFINE a == k * w
  <2>2. a \in Int /\ x = y + a
    BY <1>2, <2>1
  <2> HIDE DEF a
  <2>3. d = a
    BY <1>3, <2>2
  <2> QED
    BY <2>3 DEF a
<1>5. PICK q \in Int : q = d \div w
  <2>1. d \div w \in Int
    BY <1>1, <1>3
  <2> QED
    BY <2>1
<1>6. PICK r \in Int : r = d % w
  <2>1. d % w \in Int
    BY <1>1, <1>3
  <2> QED
    BY <2>1
<1>7. d = w * q + r /\ 0 <= r /\ r < w
  BY <1>1, <1>5, <1>6
<1>8. PICK e \in Int : e = k - q
  OBVIOUS
<1>9. r = e * w
  <2>1. (k - q) * w = k * w - w * q /\ k * w \in Int /\ w * q \in Int
    BY <1>1
  <2> DEFINE a == k * w
             b == w * q
  <2>2. a \in Int /\ b \in Int /\ d = a /\ d = b + r
    BY <1>4, <1>7, <2>1
  <2> HIDE DEF a, b
  <2>3. r = a - b
    BY <2>2
  <2> QED
    BY <1>8, <2>1, <2>3 DEF a, b
<1>10. CASE e = 0
  BY <1>1, <1>3, <1>6, <1>9, <1>10
<1>11. CASE e >= 1
  <2>1. PICK f \in Nat : e = 1 + f
    <3>1. e - 1 \in Nat /\ e = 1 + (e - 1)
      BY <1>11
    <3> QED
      BY <3>1
  <2>2. (1 + f) * w = w + f * w /\ f * w \in Nat
    BY <1>1
  <2> DEFINE a == f * w
  <2>3. a \in Nat /\ r = w + a
    BY <1>9, <2>1, <2>2
  <2> HIDE DEF a
  <2> QED
    BY <1>1, <1>7, <2>3
<1>12. CASE e <= -1
  <2>1. PICK f \in Nat : e = (-1) - f
    <3>1. (-1) - e \in Nat /\ e = (-1) - ((-1) - e)
      BY <1>12
    <3> QED
      BY <3>1
  <2>2. ((-1) - f) * w = (-w) - f * w /\ f * w \in Nat
    BY <1>1
  <2> DEFINE a == f * w
  <2>3. a \in Nat /\ r = (-w) - a
    BY <1>9, <2>1, <2>2
  <2> HIDE DEF a
  <2> QED
    BY <1>1, <1>7, <2>3
<1> QED
  BY <1>10, <1>11, <1>12

\* A credit adds its amount, up to words.
LEMMA CreditSame ==
  ASSUME NEW w \in Worlds, NEW a \in Address, NEW v \in Int
  PROVE  Same(Held(Credit(w, a, v)), Held(w) + v)
<1> DEFINE b == w.balance[a]
           n == (b + v) % Word
           t == Total(w)
           k == w.burnt
           u == Credit(w, a, v)
<1>1. b \in Nat /\ t \in Nat /\ k \in Nat /\ Word \in Nat \ {0} /\ Held(w) = t + k
  BY TotalTyped, HeldTyped, ProcAssumption
<1>2. b + v \in Int
  BY <1>1
<1>3. n \in 0..(Word - 1) /\ n \in Int /\ Same(n, b + v)
  <2> DEFINE x == b + v
  <2>1. x \in Int
    BY <1>2
  <2> HIDE DEF x
  <2>2. x % Word \in 0..(Word - 1)
    BY <1>1, <2>1
  <2>3. x % Word \in Int /\ Same(x % Word, x)
    BY <2>1, SameRest
  <2> QED
    BY <2>2, <2>3 DEF x
<1>4. Total(u) = t + n - b
  <2>1. u = [w EXCEPT !.balance = [w.balance EXCEPT ![a] = n]]
    BY DEF Credit
  <2> HIDE DEF n, u
  <2> QED
    BY <1>3, <2>1, TotalSet
<1>5. u \in Worlds /\ u.burnt = k
  BY CreditTyped
<1> HIDE DEF n, u, b, t, k
<1>6. Held(u) = n + (t + k - b)
  <2>1. Held(u) = Total(u) + u.burnt
    BY <1>5, HeldTyped
  <2> QED
    BY <1>1, <1>3, <1>4, <1>5, <2>1
<1>7. t + k - b \in Int /\ (b + v) + (t + k - b) = Held(w) + v
  BY <1>1
<1>8. Same(n + (t + k - b), (b + v) + (t + k - b))
  <2> DEFINE c == t + k - b
             x == b + v
  <2>1. c \in Int /\ x \in Int /\ Same(n, x)
    BY <1>2, <1>3, <1>7
  <2> HIDE DEF c, x
  <2>2. Same(n + c, x + c)
    BY <1>3, <2>1, SameSum, SameChain
  <2> QED
    BY <2>2 DEF c, x
<1> QED
  BY <1>6, <1>7, <1>8, Zenon DEF u

\* A transfer the balance covers makes none.
LEMMA TransferSame ==
  ASSUME NEW w \in Worlds, NEW a \in Address, NEW b \in Address, NEW v \in Nat, v <= w.balance[a]
  PROVE  Same(Held(Transfer(w, a, b, v)), Held(w))
<1> DEFINE u == Debit(w, a, v)
<1>1. u \in Worlds /\ Total(u) = Total(w) - v /\ u.burnt = w.burnt
  BY DebitTyped, DebitTotal
<1> HIDE DEF u
<1>2. Held(u) + v = Held(w)
  <2>1. /\ Held(u) = Total(u) + u.burnt /\ Held(w) = Total(w) + w.burnt
        /\ Total(u) \in Nat /\ u.burnt \in Nat /\ Total(w) \in Nat
    BY <1>1, HeldTyped
  <2> QED
    BY <1>1, <2>1
<1>3. Same(Held(Credit(u, b, v)), Held(u) + v)
  <2>1. v \in Int
    OBVIOUS
  <2> QED
    BY <1>1, <2>1, CreditSame
<1> QED
  BY <1>2, <1>3 DEF Transfer, u

\* Settling a transaction brings back what its gas cost, but for the base fee of
\* the gas that was used, also where price and cost are cut to a word.
LEMMA SettledSame ==
  ASSUME NEW w \in Worlds, NEW tx \in TxFields, FeeCapOK(tx), NEW left \in Nat, left <= tx.gas
  PROVE  Same(Held(Settled(w, tx, left)) + BaseFee * (tx.gas - left), Held(w) + gasCost(tx))
<1>1. PICK p \in Nat : p = Price(tx)
  BY PriceTyped
<1>2. PICK tip \in Nat : tip = tipOf(tx)
  BY PriceTyped
<1>3. PICK g \in Nat : g = tx.gas
  BY DEF TxFields
<1>4. PICK used \in Nat : used = g - left /\ g = left + used
  <2>1. g - left \in Nat /\ g = left + (g - left)
    BY <1>3
  <2> QED
    BY <2>1
<1>5. PICK bf \in Nat : bf = BaseFee
  BY ProcAssumption
<1>6. p = bf + tip
  BY <1>1, <1>2, <1>5 DEF Price
<1>7. PICK e \in Int : e = effective(tx) /\ Same(e, p)
  <2>1. p % Word \in Int /\ Same(p % Word, p)
    BY SameRest
  <2>2. effective(tx) = p % Word
    BY <1>1 DEF effective, Price
  <2> QED
    BY <2>1, <2>2
<1> DEFINE back == (e * left) % Word
           fee == (tip * used) % Word
           cost0 == (e * g) % Word
           u == Credit(w, tx.from, back)
<1>8. e * left \in Int /\ tip * used \in Int /\ e * g \in Int /\ p * left \in Int /\ p * g \in Int
      /\ bf * used \in Int
  OBVIOUS
<1>9. back \in Int /\ Same(back, p * left)
  <2>1. (e * left) % Word \in Int /\ Same((e * left) % Word, e * left)
    BY <1>8, SameRest
  <2>2. Same(e * left, p * left)
    BY <1>7, SameTimes
  <2> QED
    BY <1>8, <2>1, <2>2, SameChain
<1>10. fee \in Int /\ Same(fee, tip * used)
  BY <1>8, SameRest
<1>11. cost0 \in Int /\ Same(p * g, cost0)
  <2>1. (e * g) % Word \in Int /\ Same((e * g) % Word, e * g)
    BY <1>8, SameRest
  <2>2. Same(e * g, p * g)
    BY <1>7, SameTimes
  <2> QED
    BY <1>8, <2>1, <2>2, SameChain
<1>12. tx.from \in Address /\ Coinbase \in Address
  BY ProcAssumption DEF TxFields
<1>13. u \in Worlds /\ Same(Held(u), Held(w) + back)
  <2> HIDE DEF back
  <2> QED
    BY <1>9, <1>12, CreditTyped, CreditSame
<1>14. gasCost(tx) = cost0
  BY <1>3, <1>7 DEF gasCost
<1>15. Settled(w, tx, left) = Credit(u, Coinbase, fee)
  BY <1>2, <1>3, <1>4, <1>7 DEF Settled
<1> HIDE DEF back, fee, cost0, u
<1> DEFINE v == Credit(u, Coinbase, fee)
<1>16. v \in Worlds /\ Same(Held(v), Held(u) + fee)
  BY <1>10, <1>12, <1>13, CreditTyped, CreditSame
<1> HIDE DEF v
<1> DEFINE h == Held(w)
           hu == Held(u)
           hv == Held(v)
           pl == p * left
           tu == tip * used
           bu == bf * used
           pg == p * g
<1>17. h \in Int /\ hu \in Int /\ hv \in Int
  BY <1>13, <1>16, HeldTyped
<1>18. pl \in Int /\ tu \in Int /\ bu \in Int /\ pg \in Int /\ pg = pl + tu + bu
  <2>1. p * (left + used) = p * left + p * used
    OBVIOUS
  <2>2. (bf + tip) * used = bf * used + tip * used
    OBVIOUS
  <2>3. p * used = bf * used + tip * used
    BY <1>6, <2>2
  <2>4. p * g = p * left + (bf * used + tip * used)
    BY <1>4, <2>1, <2>3
  <2> QED
    BY <1>8, <2>4
<1>19. Same(hu, h + back) /\ Same(hv, hu + fee) /\ Same(back, pl) /\ Same(fee, tu) /\ Same(pg, cost0)
  BY <1>9, <1>10, <1>11, <1>13, <1>16
<1> HIDE DEF h, hu, hv, pl, tu, bu, pg
<1>20. h + back \in Int /\ h + pl \in Int /\ hu + fee \in Int /\ (h + pl) + tu \in Int
       /\ (hu + tu) \in Int /\ h + cost0 \in Int
  BY <1>9, <1>10, <1>11, <1>17, <1>18
<1>21. Same(hu, h + pl)
  <2>1. Same(h + back, h + pl)
    BY <1>9, <1>17, <1>18, <1>19, SameSum, SameChain
  <2> QED
    BY <2>1, <1>17, <1>19, <1>20, SameChain
<1>22. Same(hv, (h + pl) + tu)
  <2>1. Same(hu + fee, (h + pl) + tu)
    BY <1>10, <1>17, <1>18, <1>19, <1>20, <1>21, SameSum
  <2> QED
    BY <2>1, <1>17, <1>19, <1>20, SameChain
<1>23. Same(hv + bu, ((h + pl) + tu) + bu)
  BY <1>17, <1>18, <1>20, <1>22, SameSum, SameChain
<1>24. ((h + pl) + tu) + bu = h + pg
  BY <1>17, <1>18
<1>25. Same(h + pg, h + cost0)
  BY <1>11, <1>17, <1>18, <1>19, SameSum, SameChain
<1>26. hv + bu \in Int /\ h + pg \in Int
  BY <1>17, <1>18
<1>27. Same(hv + bu, h + cost0)
  <2>1. Same(hv + bu, h + pg)
    BY <1>23, <1>24
  <2> QED
    BY <2>1, <1>20, <1>25, <1>26, SameChain
<1> QED
  BY <1>27, <1>3, <1>4, <1>5, <1>14, <1>15 DEF h, hv, bu, v

\* The invariant: as Coins, up to words, and whatever has wrapped.
ModCoins ==
  /\ proc = "idle" => cum = 0 /\ Same(Held(world) + BaseFee * burntGas, minted)
  /\ proc # "idle" => Same(Held(start) + BaseFee * burntGas, minted)
  /\ proc = "next" => Same(Held(world) + BaseFee * (burntGas + cum), minted)
  /\ proc = "running" =>
       /\ FeeCapOK(Head(todo)) /\ saved[Len(saved)] = world
       /\ Same((Held(world) + gasCost(Head(todo))) + BaseFee * (burntGas + cum), minted)

\* The processor starts with it.
LEMMA ModInit == ASSUME ProcInit PROVE ModCoins
<1>1. world \in Worlds /\ minted = Total(world) /\ world.burnt = 0 /\ cum = 0 /\ burntGas = 0
      /\ proc = "idle"
  <2>1. ProcInv
    BY ProcInitInv
  <2> QED
    BY <2>1 DEF ProcInv, ProcTypes, ProcInit
<1>2. Held(world) + BaseFee * burntGas = minted /\ minted \in Int
  <2>1. Held(world) = Total(world) + world.burnt /\ Total(world) \in Nat /\ BaseFee \in Nat
    BY <1>1, HeldTyped, ProcAssumption
  <2> QED
    BY <1>1, <2>1
<1>3. Same(minted, minted)
  BY <1>2, SameChain
<1> QED
  BY <1>1, <1>2, <1>3 DEF ModCoins

\* A run is settled on a world that accounts for as much, up to words.
LEMMA RunSettlesSame ==
  ASSUME ProcInv, ModCoins, NEW left \in Nat, NEW refund \in Refunds,
         \/ RunFailed(left, refund)
         \/ \E b \in Address, v \in Moves, gone \in SUBSET Ephemeral : RunOK(left, refund, b, v, gone)
  PROVE  \/ AbortBlock
         \/ \E w \in Worlds, l \in Nat, gone \in SUBSET Address :
              /\ Same(Held(w), Held(world)) /\ l <= Head(todo).gas
              /\ world' = Swept(Settled(w, Head(todo), l), gone)
              /\ cum' = cum + (Head(todo).gas - l)
<1> DEFINE tx == Head(todo)
           l == LeftAfterRefund(tx, left, refund)
           Settles(w, gone) ==
             /\ Same(Held(w), Held(world)) /\ l <= tx.gas
             /\ world' = Swept(Settled(w, tx, l), gone)
             /\ cum' = cum + (tx.gas - l)
<1>1. /\ ProcTypes /\ Snapshots /\ proc = "running"
      /\ left <= tx.gas - tx.intrinsic
  BY DEF ProcInv, RunFailed, RunOK
<1>2. todo # <<>> /\ tx \in TxFields /\ world \in Worlds /\ saved \in Seq(Worlds)
  BY <1>1 DEF Snapshots, ProcTypes
<1>3. refund \in Nat /\ saved[Len(saved)] = world
  BY <1>1, ProcAssumption DEF ModCoins
<1>4. l \in Nat /\ l <= tx.gas
  <2> HIDE DEF tx
  <2> QED
    BY <1>1, <1>2, <1>3, LeftBounded
<1>5. CASE RunFailed(left, refund)
  <2>1. Len(saved) \in Nat /\ (Len(saved) - 1) + 1 = Len(saved)
    BY <1>2
  <2>2. \/ AbortBlock
        \/ /\ world' = Swept(Settled(saved[(Len(saved) - 1) + 1], tx, l), {})
           /\ cum' = cum + (tx.gas - l)
    BY <1>5 DEF RunFailed, EndTx
  <2>3. Same(Held(world), Held(world))
    <3>1. Held(world) \in Int
      BY <1>2, HeldTyped
    <3> QED
      BY <3>1, SameChain
  <2>4. AbortBlock \/ Settles(world, {})
    BY <1>3, <1>4, <2>1, <2>2, <2>3, Zenon
  <2>5. {} \in SUBSET Address
    OBVIOUS
  <2> HIDE DEF tx, l
  <2> QED
    BY <1>2, <1>4, <2>4, <2>5, Zenon DEF tx
<1>6. ASSUME NEW b \in Address, NEW v \in Moves, NEW gone \in SUBSET Ephemeral,
             RunOK(left, refund, b, v, gone)
      PROVE  AbortBlock \/ \E w \in Worlds, g \in SUBSET Address : Settles(w, g)
  <2> DEFINE paid == Transfer(world, tx.from, tx.to, tx.value)
             w == Transfer(paid, tx.to, b, v)
  <2>1. tx.from \in Address /\ tx.to \in Address /\ tx.value \in Nat /\ tx.gas \in Nat /\ v \in Nat
    BY <1>2, ProcAssumption DEF TxFields
  <2>2. world.balance[tx.from] >= tx.value /\ v <= paid.balance[tx.to]
    BY <1>6 DEF RunOK
  <2>3. tx.value <= world.balance[tx.from]
    <3>1. world.balance[tx.from] \in Nat
      BY <1>2, <2>1, TotalTyped
    <3> HIDE DEF tx
    <3> QED
      BY <2>1, <2>2, <3>1
  <2>4. AbortBlock \/ (world' = Swept(Settled(w, tx, l), gone) /\ cum' = cum + (tx.gas - l))
    BY <1>6 DEF RunOK, EndTx
  <2> HIDE DEF tx, l
  <2>5. paid \in Worlds /\ Same(Held(paid), Held(world))
    BY <1>2, <2>1, <2>3, TransferTyped, TransferSame
  <2> HIDE DEF paid
  <2>6. w \in Worlds /\ Same(Held(w), Held(paid))
    BY <2>1, <2>2, <2>5, TransferTyped, TransferSame
  <2> HIDE DEF w
  <2>7. Same(Held(w), Held(world))
    <3>1. Held(w) \in Int /\ Held(paid) \in Int /\ Held(world) \in Int
      BY <1>2, <2>5, <2>6, HeldTyped
    <3> QED
      BY <2>5, <2>6, <3>1, SameChain
  <2>8. gone \in SUBSET Address
    BY ProcAssumption
  <2> QED
    BY <1>4, <2>4, <2>6, <2>7, <2>8, Zenon
<1> HIDE DEF l
<1> QED
  BY <1>4, <1>5, <1>6

\* So its coins add up, up to words, when it is settled and swept.
LEMMA RunSame ==
  ASSUME ProcInv, ModCoins, NEW left \in Nat, NEW refund \in Refunds,
         \/ RunFailed(left, refund)
         \/ \E b \in Address, v \in Moves, gone \in SUBSET Ephemeral : RunOK(left, refund, b, v, gone)
  PROVE  AbortBlock \/ Same(Held(world') + BaseFee * (burntGas + cum'), minted)
<1> SUFFICES ASSUME ~AbortBlock PROVE Same(Held(world') + BaseFee * (burntGas + cum'), minted)
  OBVIOUS
<1> DEFINE tx == Head(todo)
<1>1. PICK w \in Worlds, l \in Nat, gone \in SUBSET Address :
              /\ Same(Held(w), Held(world)) /\ l <= tx.gas
              /\ world' = Swept(Settled(w, tx, l), gone)
              /\ cum' = cum + (tx.gas - l)
  BY RunSettlesSame
<1>2. proc = "running"
  BY DEF RunFailed, RunOK
<1>3. tx \in TxFields /\ world \in Worlds
  BY <1>2 DEF ProcInv, Snapshots, ProcTypes
<1>4. /\ FeeCapOK(tx)
      /\ Same((Held(world) + gasCost(tx)) + BaseFee * (burntGas + cum), minted)
  BY <1>2 DEF ModCoins
<1>5. /\ tx.gas \in Nat /\ BaseFee \in Nat /\ burntGas + cum \in Nat /\ cum \in Nat
      /\ burntGas \in Nat /\ minted \in Int
  BY <1>3, ProcAssumption DEF TxFields, ProcInv, CoinTypes
<1> HIDE DEF tx
<1>6. PICK used \in Nat : used = tx.gas - l
  BY <1>1, <1>5
<1>7. Same(Held(Settled(w, tx, l)) + BaseFee * (tx.gas - l), Held(w) + gasCost(tx))
  BY <1>1, <1>3, <1>4, SettledSame
<1>8. Settled(w, tx, l) \in Worlds /\ Held(world') = Held(Settled(w, tx, l))
  <2>1. Settled(w, tx, l) \in Worlds
    BY <1>1, <1>3, SettledTyped
  <2> QED
    BY <1>1, <2>1, SweptTyped
<1> DEFINE h == Held(world)
           hw == Held(w)
           hs == Held(Settled(w, tx, l))
           c == gasCost(tx)
           bu == BaseFee * used
           old == BaseFee * (burntGas + cum)
<1>9. h \in Int /\ hw \in Int /\ hs \in Int /\ bu \in Int /\ old \in Int
  BY <1>3, <1>5, <1>8, HeldTyped, Products
<1>10. c \in Int
  BY <1>3, PricesTyped
<1>11. Same(hw, h) /\ Same(hs + bu, hw + c) /\ Same((h + c) + old, minted)
  BY <1>1, <1>4, <1>6, <1>7
<1>12. BaseFee * (burntGas + cum') = old + bu
  <2>1. PICK m \in Nat : m = burntGas + cum
    BY <1>5
  <2>2. burntGas + cum' = m + used
    BY <1>1, <1>5, <1>6, <2>1
  <2>3. BaseFee * (m + used) = BaseFee * m + BaseFee * used
    BY <1>5, Products
  <2> QED
    BY <2>1, <2>2, <2>3, Zenon
<1> HIDE DEF h, hw, hs, c, bu, old
<1>13. Same(hw + c, h + c)
  BY <1>9, <1>10, <1>11, SameSum, SameChain
<1>14. /\ hs + bu \in Int /\ hw + c \in Int /\ h + c \in Int /\ (hs + bu) + old \in Int
       /\ (h + c) + old \in Int
  BY <1>9, <1>10
<1>15. Same(hs + bu, h + c)
  BY <1>11, <1>13, <1>14, SameChain
<1>16. Same((hs + bu) + old, (h + c) + old)
  BY <1>9, <1>14, <1>15, SameSum, SameChain
<1>17. Same((hs + bu) + old, minted)
  BY <1>5, <1>11, <1>14, <1>16, SameChain
<1>18. (hs + bu) + old = hs + (old + bu)
  BY <1>9
<1>19. Held(world') = hs
  BY <1>8 DEF hs
<1> QED
  BY <1>12, <1>17, <1>18, <1>19, Zenon

\* Every step of the processor keeps the coins up to words.
LEMMA ModKeeps == ASSUME ProcInv, ModCoins, ProcNext \/ UNCHANGED coinVars PROVE ModCoins'
<1>0. /\ world \in Worlds /\ start \in Worlds /\ saved \in Seq(Worlds) /\ blockRev \in Nat
      /\ todo \in Seq(TxFields) /\ cum \in Nat /\ burntGas \in Nat /\ minted \in Nat
      /\ BaseFee \in Nat /\ Word \in Nat
  BY ProcAssumption DEF ProcInv, ProcTypes, CoinTypes
<1>1. CASE UNCHANGED coinVars
  BY <1>1 DEF coinVars, ModCoins
<1>2. ASSUME proc # "idle", AbortBlock, UNCHANGED <<minted, burntGas>> PROVE ModCoins'
  <2>1. world' = start /\ proc' = "idle" /\ cum' = 0
    BY <1>0, <1>2 DEF ProcInv, Snapshots, AbortBlock
  <2> QED
    BY <1>2, <2>1 DEF ModCoins
<1>3. CASE RejectTx
  BY <1>2, <1>3 DEF RejectTx
<1>4. CASE BeginTx
  <2> DEFINE tx == Head(todo)
  <2>1. /\ proc = "next" /\ todo # <<>> /\ ~Rejected(tx)
        /\ world' = Bought(tx) /\ saved' = Append(saved, Bought(tx)) /\ proc' = "running"
        /\ UNCHANGED <<blockRev, todo, cum, start, minted, burntGas>>
    BY <1>4 DEF BeginTx
  <2>2. tx \in TxFields /\ FeeCapOK(tx)
    BY <1>0, <2>1 DEF Rejected
  <2>3. Bought(tx) \in Worlds /\ gasCost(tx) \in Nat /\ Held(Bought(tx)) = Held(world) - gasCost(tx)
    BY <1>0, <2>1, <2>2, BoughtTyped, BoughtHeld
  <2>4. saved'[Len(saved')] = world'
    <3> HIDE DEF tx
    <3> QED
      BY <1>0, <2>1, <2>3
  <2>5. Held(world') + gasCost(tx) = Held(world)
    <3>1. Held(world) \in Nat
      BY <1>0, HeldTyped
    <3> HIDE DEF tx
    <3> QED
      BY <2>1, <2>3, <3>1
  <2>6. /\ Same(Held(world) + BaseFee * (burntGas + cum), minted)
        /\ Same(Held(start) + BaseFee * burntGas, minted)
    BY <2>1 DEF ModCoins
  <2>7. Head(todo') = tx
    BY <2>1
  <2> HIDE DEF tx
  <2> QED
    BY <2>1, <2>2, <2>4, <2>5, <2>6, <2>7 DEF ModCoins
<1>5. ASSUME NEW left \in 0..(IF todo = <<>> THEN 0 ELSE Head(todo).gas), NEW refund \in Refunds,
             \/ RunFailed(left, refund)
             \/ \E b \in Address, v \in Moves, gone \in SUBSET Ephemeral : RunOK(left, refund, b, v, gone)
      PROVE  ModCoins'
  <2>1. left \in Nat
    OBVIOUS
  <2>2. proc = "running" /\ UNCHANGED <<blockRev, start, minted, burntGas, wrapped>>
    BY <1>5 DEF RunFailed, RunOK
  <2>3. CASE AbortBlock
    BY <1>2, <2>2, <2>3
  <2>4. CASE ~AbortBlock
    <3>1. Same(Held(world') + BaseFee * (burntGas + cum'), minted)
      BY <1>5, <2>1, <2>4, RunSame
    <3>2. proc' = "next"
      BY <1>5, <2>4 DEF RunFailed, RunOK, EndTx
    <3> QED
      BY <2>2, <3>1, <3>2 DEF ModCoins
  <2> QED
    BY <2>3, <2>4
<1>6. ASSUME NEW list \in Seq(TxFields), ProcessBlock(list) PROVE ModCoins'
  <2>1. /\ proc = "idle" /\ proc' = "next" /\ cum' = 0 /\ start' = world
        /\ UNCHANGED <<world, minted, burntGas>>
    BY <1>6 DEF ProcessBlock
  <2>2. burntGas' + cum' = burntGas
    BY <1>0, <2>1
  <2> QED
    BY <2>1, <2>2 DEF ModCoins
<1>7. CASE CommitBlock
  BY <1>7 DEF CommitBlock, ModCoins
<1>8. ASSUME NEW a \in Address, NEW v \in Nat, Deposit(a, v) PROVE ModCoins'
  <2>1. /\ proc = "idle" /\ world' = Credit(world, a, v) /\ minted' = minted + v
        /\ UNCHANGED <<cum, proc, burntGas>>
    BY <1>8 DEF Deposit
  <2> DEFINE t == Held(world)
             u == Held(world')
             f == BaseFee * burntGas
  <2>2. world' \in Worlds /\ Same(u, t + v)
    <3>1. v \in Int
      OBVIOUS
    <3> QED
      BY <1>0, <2>1, <3>1, CreditTyped, CreditSame
  <2>3. t \in Int /\ u \in Int /\ f \in Int /\ v \in Int /\ minted \in Int
    BY <1>0, <2>2, HeldTyped, Products
  <2>4. cum = 0 /\ Same(t + f, minted)
    BY <2>1 DEF ModCoins
  <2> HIDE DEF t, u, f
  <2>9. Same(f, f) /\ Same(v, v)
    BY <2>3, SameChain
  <2>10. t + v \in Int /\ t + f \in Int
    BY <2>3
  <2>5. Same(u + f, (t + v) + f)
    BY <2>2, <2>3, <2>9, <2>10, SameSum
  <2>6. Same((t + f) + v, minted + v)
    BY <2>3, <2>4, <2>9, <2>10, SameSum
  <2>7. (t + v) + f = (t + f) + v /\ (t + f) + v \in Int /\ u + f \in Int /\ minted + v \in Int
    BY <2>3
  <2>8. Same(u + f, minted + v)
    BY <2>5, <2>6, <2>7, SameChain
  <2> QED
    BY <2>1, <2>4, <2>8 DEF ModCoins, u, f
<1> QED
  BY <1>1, <1>3, <1>4, <1>5, <1>6, <1>7, <1>8 DEF ProcNext, RunStep

\* The coins held and burnt are those minted, up to words; exactly, if none wrapped.
LEMMA CoinsConserved == ASSUME ProcInv, ModCoins PROVE Conservation
<1> SUFFICES ASSUME proc # "running"
             PROVE  /\ ((Held(world) + BaseFee * (burntGas + cum)) - minted) % Word = 0
                    /\ ~wrapped => Held(world) + BaseFee * (burntGas + cum) = minted
  BY DEF Conservation
<1>1. proc \in {"idle", "next"} /\ burntGas \in Nat
  BY DEF ProcInv, CoinTypes
<1>2. /\ Same(Held(world) + BaseFee * (burntGas + cum), minted)
      /\ ~wrapped => Held(world) + BaseFee * (burntGas + cum) = minted
  <2>1. CASE proc = "idle"
    <3>1. cum = 0 /\ burntGas + cum = burntGas
      BY <1>1, <2>1 DEF ModCoins
    <3> QED
      BY <2>1, <3>1 DEF ProcInv, Coins, ModCoins
  <2>2. CASE proc = "next"
    BY <2>2 DEF ProcInv, Coins, ModCoins
  <2> QED
    BY <1>1, <2>1, <2>2
<1>3. Held(world) + BaseFee * (burntGas + cum) \in Int /\ minted \in Int
  <2>1. Held(world) \in Nat
    BY HeldTyped DEF ProcInv, ProcTypes
  <2>2. BaseFee \in Nat /\ burntGas + cum \in Nat /\ minted \in Int
    BY ProcAssumption DEF ProcInv, CoinTypes
  <2> QED
    BY <2>1, <2>2
<1> DEFINE known == Held(world) + BaseFee * (burntGas + cum)
<1>4. known \in Int /\ Same(known, minted)
  BY <1>2, <1>3
<1> HIDE DEF known
<1>5. (known - minted) % Word = 0
  BY <1>3, <1>4, SameIsRest
<1> QED
  BY <1>2, <1>5 DEF known

\* The block processor makes and loses no coins whatever blocks it is given: of any
\* transactions, with any nonces, prices and gas, run or aborted.
THEOREM AnyBlockConserves == ProcSpec => []Conservation
<1>1. ProcInv /\ ModCoins /\ [ProcNext]_procVars => ProcInv' /\ ModCoins'
  BY ProcKeeps, ModKeeps DEF procVars, coinVars
<1>2. ProcInit => ProcInv /\ ModCoins
  BY ProcInitInv, ModInit
<1>3. ProcInv /\ ModCoins => Conservation
  BY CoinsConserved
<1> QED
  BY <1>1, <1>2, <1>3, PTL DEF ProcSpec

\* At any moment of any block an abort would restore the world it began with: the
\* snapshots that runs take and give back lie above the block's.
THEOREM AnyBlockUndoable == ProcSpec => []BlockSnapshotIntact
<1>1. ProcInv /\ [ProcNext]_procVars => ProcInv'
  BY ProcKeeps DEF procVars, coinVars
<1>2. ASSUME ProcInv PROVE BlockSnapshotIntact
  <2>1. blockRev \in Nat /\ Len(saved) \in Nat
    BY <1>2 DEF ProcInv, ProcTypes
  <2> QED
    BY <1>2, <2>1 DEF ProcInv, Snapshots, BlockSnapshotIntact
<1> QED
  BY ProcInitInv, <1>1, <1>2, PTL DEF ProcSpec

\* ProcessBlock undoes all of a block it refuses, also one that no sequencer has
\* filtered: it may fail at any transaction, for its nonce, price, funds or gas.
THEOREM AnyBlockAtomicity == ProcSpec => FailedBlockUndone
<1>1. ProcInit => SameDepth
  BY DEF ProcInit, SameDepth
<1>2. ASSUME SameDepth, [ProcNext]_procVars PROVE SameDepth'
  <2>1. ASSUME NEW txs \in Seq(TxFields), ProcessBlock(txs) PROVE SameDepth'
    BY <2>1 DEF ProcessBlock, SameDepth
  <2>2. CASE RunStep
    <3>1. proc # "idle" /\ depth0' = depth0 /\ blockRev' = blockRev
      BY <2>2 DEF RunStep, RejectTx, BeginTx, RunFailed, RunOK, CommitBlock
    <3> QED
      BY <1>2, <3>1 DEF SameDepth
  <2>3. ASSUME NEW a \in Address, NEW v \in Nat, Deposit(a, v) PROVE SameDepth'
    BY <1>2, <2>3 DEF Deposit, SameDepth
  <2>4. CASE UNCHANGED procVars
    BY <1>2, <2>4 DEF procVars, SameDepth
  <2> QED
    BY <1>2, <2>1, <2>2, <2>3, <2>4 DEF ProcNext
<1>3. ProcInv /\ [ProcNext]_procVars => ProcInv'
  BY ProcKeeps DEF procVars, coinVars
<1>4. ASSUME ProcInv, SameDepth, [ProcNext]_procVars
      PROVE  [proc # "idle" /\ proc' = "idle" /\ result' = "error" =>
                world' = start /\ Len(saved') = depth0]_procVars
  <2> SUFFICES ASSUME ProcNext, proc # "idle", proc' = "idle", result' = "error"
               PROVE  world' = start /\ Len(saved') = depth0
    BY <1>4
  <2>1. RunStep
    BY DEF ProcNext, ProcessBlock, Deposit
  <2>2. AbortBlock
    BY <2>1 DEF RunStep, RejectTx, BeginTx, RunFailed, RunOK, EndTx, CommitBlock
  <2>3. /\ blockRev \in Nat /\ saved \in Seq(Worlds) /\ blockRev + 1 <= Len(saved)
        /\ saved[blockRev + 1] = start /\ depth0 = blockRev
    BY <1>4 DEF ProcInv, ProcTypes, Snapshots, SameDepth
  <2> QED
    BY <2>2, <2>3 DEF AbortBlock
<1> QED
  BY <1>1, <1>2, <1>3, <1>4, ProcInitInv, PTL DEF ProcSpec, FailedBlockUndone

\* To the processor, a step of the sequencer is one of its own, or none.
LEMMA SequencerDrives ==
  ASSUME NonceInv, [Next]_vars
  PROVE  ProcNext \/ UNCHANGED coinVars
<1> USE DEF procVars, coinVars
<1>1. CASE Client
  BY <1>1 DEF Client, Submit, Enqueue, PushExpress
<1>2. ASSUME NEW t \in Times, ProduceBlock(t) PROVE UNCHANGED coinVars
  BY <1>2 DEF ProduceBlock
<1>3. CASE PopReadyOne \/ PopReadyEnd \/ DeliverRetryable \/ DrainBegin \/ DrainOne \/ DrainEnd
  BY <1>3 DEF PopReadyOne, PopReadyEnd, DeliverRetryable, DrainBegin, DrainOne, DrainEnd
<1>4. CASE DeliverDeposit
  <2> DEFINE m == Head(ready)
  <2>1. ready # <<>> /\ (UNCHANGED procVars \/ (m.to # NoAddress /\ Deposit(m.to, m.value)))
    BY <1>4 DEF DeliverDeposit
  <2>2. m \in MessageFields
    BY <2>1, SeqAssumption DEF NonceInv, SeqTypes
  <2>3. m.to \in Address \cup {NoAddress} /\ m.value \in Nat
    BY <2>2 DEF MessageFields
  <2> HIDE DEF m
  <2>4. UNCHANGED procVars \/ \E a \in Address, v \in Nat : Deposit(a, v)
    BY <2>1, <2>3
  <2> QED
    BY <2>4 DEF ProcNext
<1>5. CASE AskPool \/ PoolStep \/ PoolDone \/ Keep \/ Skip
  BY <1>5 DEF AskPool, PoolStep, PoolDone, Keep, Skip
<1>6. CASE StartBlock
  <2>1. ProcessBlock(batch) /\ batch \in Seq(TxFields)
    BY <1>6 DEF StartBlock, NonceInv, SeqTypes
  <2> QED
    BY <2>1 DEF ProcNext
<1>7. CASE BlockStep
  BY <1>7 DEF BlockStep, ProcNext
<1>8. CASE Seal \/ PackFails
  BY <1>8 DEF Seal, PackFails
<1>9. CASE UNCHANGED vars
  BY <1>9 DEF vars
<1> QED
  BY <1>1, <1>2, <1>3, <1>4, <1>5, <1>6, <1>7, <1>8, <1>9 DEF Next, Step

\* The sequencer keeps the processor's invariant.
LEMMA CoinInvariance == Spec => [](ProcInv /\ ModCoins)
<1>1. ASSUME NonceInv, ProcInv, ModCoins, [Next]_vars PROVE ProcInv' /\ ModCoins'
  BY <1>1, SequencerDrives, ProcKeeps, ModKeeps
<1>2. Init => ProcInv /\ ModCoins
  BY ProcInitInv, ModInit DEF Init
<1> QED
  BY <1>1, <1>2, NonceInvariance, PTL DEF Spec

\* Deposits, blocks and failed blocks of the sequencer make no coins and lose none.
THEOREM SequencerConserves == Spec => []Conservation
BY CoinInvariance, CoinsConserved, PTL

-----------------------------------------------------------------------------
\* Deposits.  What is waiting, as sums along the lists it waits in.
CreditOf == [msg \in Message |-> Credited(msg)]
CreditOfItem == [item \in Posted |-> Credited(item.msg)]

\* Messages taken from the inbox.
LEMMA WaitingList ==
  ASSUME NEW msgs \in Seq(Message)
  PROVE  /\ Waiting(msgs) \in Nat
         /\ msgs = <<>> => Waiting(msgs) = 0
         /\ \A m \in Message : Waiting(Append(msgs, m)) = Waiting(msgs) + Credited(m)
         /\ msgs # <<>> => /\ Head(msgs) \in Message /\ Tail(msgs) \in Seq(Message)
                           /\ Waiting(msgs) = Credited(Head(msgs)) + Waiting(Tail(msgs))
<1>1. /\ CreditOf \in [Message -> Nat] /\ CreditOf \in [Message -> Int]
      /\ \A m \in Message : CreditOf[m] = Credited(m)
  <2>1. \A m \in Message : Credited(m) \in Nat
    BY CreditedTyped
  <2>2. \A m \in Message : Credited(m) \in Int
    BY <2>1
  <2> QED
    BY <2>1, <2>2, Zenon DEF CreditOf
<1>2. ASSUME NEW list \in Seq(Message) PROVE Waiting(list) = Along(Each(CreditOf, list))
  <2> DEFINE credit == [i \in 1..Len(list) |-> Credited(list[i])]
  <2>1. credit = Each(CreditOf, list)
    BY <1>1 DEF Each
  <2>2. Len(credit) = Len(list)
    OBVIOUS
  <2>3. Waiting(list) = Over(credit, 1..Len(list))
    BY DEF Waiting, Over
  <2> HIDE DEF credit
  <2> QED
    BY <2>1, <2>2, <2>3 DEF Along
<1>3. Waiting(msgs) \in Nat /\ (msgs = <<>> => Waiting(msgs) = 0)
  BY <1>1, <1>2, EachTyped
<1>4. ASSUME NEW m \in Message PROVE Waiting(Append(msgs, m)) = Waiting(msgs) + Credited(m)
  <2>1. Append(msgs, m) \in Seq(Message)
    OBVIOUS
  <2>2. Along(Each(CreditOf, Append(msgs, m))) = Along(Each(CreditOf, msgs)) + CreditOf[m]
    BY <1>1, EachAppend
  <2> QED
    BY <1>1, <1>2, <2>1, <2>2, Zenon
<1>5. ASSUME msgs # <<>>
      PROVE  /\ Head(msgs) \in Message /\ Tail(msgs) \in Seq(Message)
             /\ Waiting(msgs) = Credited(Head(msgs)) + Waiting(Tail(msgs))
  <2>1. /\ Head(msgs) \in Message /\ Tail(msgs) \in Seq(Message)
        /\ Along(Each(CreditOf, msgs)) = CreditOf[Head(msgs)] + Along(Each(CreditOf, Tail(msgs)))
    BY <1>1, <1>5, EachTail
  <2> QED
    BY <1>1, <1>2, <2>1, Zenon
<1> QED
  BY <1>3, <1>4, <1>5

\* Messages of the inbox, with the times they were posted.
Queued(items) == Waiting(Messages(items))

\* The same for them.
LEMMA QueuedList ==
  ASSUME NEW items \in Seq(Posted)
  PROVE  /\ Queued(items) \in Nat
         /\ items = <<>> => Queued(items) = 0
         /\ \A p \in Posted : Queued(Append(items, p)) = Queued(items) + Credited(p.msg)
         /\ items # <<>> => /\ Head(items) \in Posted /\ Tail(items) \in Seq(Posted)
                            /\ Queued(items) = Credited(Head(items).msg) + Queued(Tail(items))
<1>0. \A p \in Posted : p.msg \in Message
  BY DEF Posted
<1>1. /\ CreditOfItem \in [Posted -> Nat] /\ CreditOfItem \in [Posted -> Int]
      /\ \A p \in Posted : CreditOfItem[p] = Credited(p.msg)
  <2>1. \A p \in Posted : Credited(p.msg) \in Nat
    BY <1>0, CreditedTyped
  <2>2. \A p \in Posted : Credited(p.msg) \in Int
    BY <2>1
  <2> QED
    BY <2>1, <2>2, Zenon DEF CreditOfItem
<1>2. ASSUME NEW list \in Seq(Posted) PROVE Queued(list) = Along(Each(CreditOfItem, list))
  <2> DEFINE msgs == Messages(list)
             credit == [i \in 1..Len(msgs) |-> Credited(msgs[i])]
  <2>0. msgs \in Seq(Message) /\ Len(msgs) = Len(list) /\ \A i \in 1..Len(list) : msgs[i] = list[i].msg
    BY <1>0 DEF Messages
  <2> HIDE DEF msgs
  <2>1. credit = Each(CreditOfItem, list)
    <3>1. \A i \in 1..Len(list) : Credited(msgs[i]) = CreditOfItem[list[i]]
      <4> SUFFICES ASSUME NEW i \in 1..Len(list) PROVE Credited(msgs[i]) = CreditOfItem[list[i]]
        OBVIOUS
      <4>1. list[i] \in Posted /\ msgs[i] = list[i].msg
        BY <2>0
      <4> QED
        BY <1>1, <4>1
    <3> QED
      BY <2>0, <3>1 DEF Each
  <2>2. Len(credit) = Len(msgs)
    BY <2>0
  <2>3. Queued(list) = Over(credit, 1..Len(msgs))
    BY DEF Queued, Waiting, Over, msgs
  <2> HIDE DEF credit
  <2> QED
    BY <2>1, <2>2, <2>3 DEF Along
<1>3. Queued(items) \in Nat /\ (items = <<>> => Queued(items) = 0)
  BY <1>1, <1>2, EachTyped
<1>4. ASSUME NEW p \in Posted PROVE Queued(Append(items, p)) = Queued(items) + Credited(p.msg)
  <2>1. Append(items, p) \in Seq(Posted)
    OBVIOUS
  <2>2. /\ Along(Each(CreditOfItem, Append(items, p)))
             = Along(Each(CreditOfItem, items)) + CreditOfItem[p]
    BY <1>1, EachAppend
  <2> QED
    BY <1>1, <1>2, <2>1, <2>2, Zenon
<1>5. ASSUME items # <<>>
      PROVE  /\ Head(items) \in Posted /\ Tail(items) \in Seq(Posted)
             /\ Queued(items) = Credited(Head(items).msg) + Queued(Tail(items))
  <2>1. /\ Head(items) \in Posted /\ Tail(items) \in Seq(Posted)
        /\ Along(Each(CreditOfItem, items))
             = CreditOfItem[Head(items)] + Along(Each(CreditOfItem, Tail(items)))
    BY <1>1, <1>5, EachTail
  <2> QED
    BY <1>1, <1>2, <2>1, Zenon
<1> QED
  BY <1>3, <1>4, <1>5

\* The numbers the account is about.
LEMMA AccountTyped ==
  ASSUME NonceInv, GasInv, ProcInv
  PROVE  /\ inbox \in Seq(Posted) /\ kept \in Seq(Posted) /\ ready \in Seq(Message)
         /\ minted \in Nat /\ posted \in Nat
         /\ Waiting(ready) \in Nat /\ Queued(kept) \in Nat /\ Queued(inbox) \in Nat
<1>1. inbox \in Seq(Posted) /\ kept \in Seq(Posted) /\ ready \in Seq(Message)
  BY DEF NonceInv, SeqTypes
<1>2. minted \in Nat /\ posted \in Nat
  BY DEF ProcInv, CoinTypes, GasInv, Numbers
<1> QED
  BY <1>1, <1>2, WaitingList, QueuedList

\* The account, in these terms.
LEMMA AccountRead ==
  /\ DepositsAccounted <=> minted + Waiting(ready) + Queued(kept) + Queued(inbox) = Endowment + posted
  /\ DepositsAccounted' <=>
       minted' + Waiting(ready') + Queued(kept') + Queued(inbox') = Endowment + posted'
BY DEF DepositsAccounted, Queued

\* The initial balances are a number.
LEMMA EndowmentTyped ==
  /\ Endowment \in Nat
  /\ \A w \in Worlds : w.balance = Funds => Total(w) = Endowment
<1>1. \A s \in Address : Funds[s] \in Nat
  BY ProcAssumption
<1>2. Endowment = Over(Funds, Address)
  BY DEF Endowment, Over
<1>3. Over(Funds, Address) \in Nat
  BY <1>1, SumBounds, AddressAssumption
<1> QED
  BY <1>2, <1>3, TotalTyped

\* Every step moves deposits on, and loses and doubles none.
LEMMA DepositsKept ==
  ASSUME NonceInv, GasInv, ProcInv, DepositsAccounted, [Next]_vars
  PROVE  DepositsAccounted'
<1> DEFINE r == Waiting(ready)
           k == Queued(kept)
           q == Queued(inbox)
<1>0. /\ inbox \in Seq(Posted) /\ kept \in Seq(Posted) /\ ready \in Seq(Message)
      /\ minted \in Nat /\ posted \in Nat /\ r \in Nat /\ k \in Nat /\ q \in Nat
      /\ Endowment \in Nat /\ minted + r + k + q = Endowment + posted
  BY AccountTyped, AccountRead, EndowmentTyped
<1> USE DEF localVars, histVars, procVars, seqVars
<1>1. CASE UNCHANGED <<minted, posted, ready, kept, inbox>>
  BY <1>1 DEF DepositsAccounted
<1>2. ASSUME NEW msg \in Message, NEW t \in Times, Enqueue(msg, t) PROVE DepositsAccounted'
  <2> DEFINE item == [msg |-> msg, postedAt |-> t]
             c == Credited(msg)
  <2>1. /\ inbox' = Append(inbox, item) /\ posted' = posted + c
        /\ UNCHANGED <<minted, ready, kept>>
    BY <1>2 DEF Enqueue
  <2>2. item \in Posted /\ item.msg = msg
    BY DEF Posted
  <2> HIDE DEF item
  <2>3. c \in Nat /\ Queued(inbox') = q + c
    BY <1>0, <2>1, <2>2, CreditedTyped, QueuedList
  <2>4. Waiting(ready') = r /\ Queued(kept') = k
    BY <2>1
  <2> HIDE DEF r, k, q, c
  <2>5. minted + r + k + (q + c) = Endowment + (posted + c)
    BY <1>0, <2>3
  <2> QED
    BY <2>1, <2>3, <2>4, <2>5, AccountRead, Zenon
<1>3. CASE PopReadyOne
  <2> DEFINE item == Head(inbox)
             c == Credited(item.msg)
             rest == Queued(Tail(inbox))
  <2>1. /\ inbox # <<>> /\ inbox' = Tail(inbox) /\ UNCHANGED <<minted, posted>>
        /\ \/ ready' = Append(ready, item.msg) /\ kept' = kept
           \/ kept' = Append(kept, item) /\ ready' = ready
    BY <1>3 DEF PopReadyOne
  <2>2. item \in Posted /\ Tail(inbox) \in Seq(Posted) /\ q = c + rest
    BY <1>0, <2>1, QueuedList
  <2>3. item.msg \in Message
    BY <2>2 DEF Posted
  <2>4. c \in Nat /\ rest \in Nat
    BY <2>2, <2>3, CreditedTyped, QueuedList
  <2>5. CASE ready' = Append(ready, item.msg) /\ kept' = kept
    <3>1. Waiting(ready') = r + c /\ Queued(kept') = k /\ Queued(inbox') = rest
      BY <1>0, <2>1, <2>3, <2>5, WaitingList
    <3> HIDE DEF r, k, q, c, rest, item
    <3>2. minted + (r + c) + k + rest = Endowment + posted
      BY <1>0, <2>2, <2>4
    <3> QED
      BY <2>1, <3>1, <3>2, AccountRead, Zenon
  <2>6. CASE kept' = Append(kept, item) /\ ready' = ready
    <3>1. Waiting(ready') = r /\ Queued(kept') = k + c /\ Queued(inbox') = rest
      BY <1>0, <2>1, <2>2, <2>6, QueuedList
    <3> HIDE DEF r, k, q, c, rest, item
    <3>2. minted + r + (k + c) + rest = Endowment + posted
      BY <1>0, <2>2, <2>4
    <3> QED
      BY <2>1, <3>1, <3>2, AccountRead, Zenon
  <2> QED
    BY <2>1, <2>5, <2>6
<1>4. CASE PopReadyEnd
  <2>1. inbox = <<>> /\ inbox' = kept /\ kept' = <<>> /\ UNCHANGED <<minted, posted, ready>>
    BY <1>4 DEF PopReadyEnd
  <2>2. q = 0 /\ Queued(kept') = 0 /\ Queued(inbox') = k /\ Waiting(ready') = r
    BY <1>0, <2>1, QueuedList
  <2> HIDE DEF r, k, q
  <2>3. minted + r + 0 + k = Endowment + posted
    BY <1>0, <2>2
  <2> QED
    BY <2>1, <2>2, <2>3, AccountRead, Zenon
<1>5. CASE DeliverRetryable \/ DeliverDeposit
  <2> DEFINE m == Head(ready)
             c == Credited(m)
             rest == Waiting(Tail(ready))
  <2>1. ready # <<>> /\ ready' = Tail(ready) /\ UNCHANGED <<inbox, kept, posted>>
    BY <1>5 DEF DeliverRetryable, DeliverDeposit
  <2>2. m \in Message /\ Tail(ready) \in Seq(Message) /\ r = c + rest
    BY <1>0, <2>1, WaitingList
  <2>3. c \in Nat /\ rest \in Nat
    BY <2>2, CreditedTyped, WaitingList
  <2>4. minted' = minted + c
    <3>1. CASE DeliverRetryable
      <4>1. c = 0 /\ minted' = minted
        BY <3>1 DEF DeliverRetryable, Credited
      <4> QED
        BY <1>0, <4>1
    <3>2. CASE DeliverDeposit
      <4>1. CASE m.to = NoAddress
        <5>1. c = 0 /\ minted' = minted
          BY <3>2, <4>1 DEF DeliverDeposit, Credited
        <5> QED
          BY <1>0, <5>1
      <4>2. CASE m.to # NoAddress
        BY <3>2, <4>2 DEF DeliverDeposit, Deposit, Credited
      <4> QED
        BY <4>1, <4>2
    <3> QED
      BY <1>5, <3>1, <3>2
  <2>5. Waiting(ready') = rest /\ Queued(kept') = k /\ Queued(inbox') = q
    BY <2>1
  <2> HIDE DEF r, k, q, c, rest, m
  <2>6. (minted + c) + rest + k + q = Endowment + posted
    BY <1>0, <2>2, <2>3
  <2> QED
    BY <2>1, <2>4, <2>5, <2>6, AccountRead, Zenon
<1>6. CASE (\E tx \in Tx : Submit(tx)) \/ \E tx \in Tx, now \in Times : PushExpress(tx, now)
  BY <1>1, <1>6 DEF Submit, PushExpress
<1>7. ASSUME NEW t \in Times, ProduceBlock(t) PROVE DepositsAccounted'
  BY <1>1, <1>7 DEF ProduceBlock
<1>8. CASE DrainBegin \/ DrainOne \/ DrainEnd \/ AskPool \/ PoolStep \/ PoolDone \/ Keep \/ Skip
  BY <1>1, <1>8 DEF DrainBegin, DrainOne, DrainEnd, AskPool, PoolStep, PoolDone, Keep, Skip
<1>9. CASE StartBlock
  BY <1>1, <1>9 DEF StartBlock, ProcessBlock
<1>10. CASE BlockStep
  <2>1. minted' = minted
    BY <1>10 DEF BlockStep, RunStep, RejectTx, BeginTx, RunFailed, RunOK, CommitBlock
  <2> QED
    BY <1>1, <1>10, <2>1 DEF BlockStep
<1>11. CASE Seal \/ PackFails
  BY <1>1, <1>11 DEF Seal, PackFails
<1>12. CASE UNCHANGED vars
  BY <1>1, <1>12 DEF vars
<1> QED
  BY <1>2, <1>3, <1>4, <1>5, <1>6, <1>7, <1>8, <1>9, <1>10, <1>11, <1>12
     DEF Next, Step, Client

\* Every deposit enqueued is waiting or was credited, exactly once, whatever
\* becomes of the blocks: none is lost between the inbox and the balances.
THEOREM DepositsSafe == Spec => []DepositsAccounted
<1>1. Init => DepositsAccounted
  <2> SUFFICES ASSUME Init PROVE DepositsAccounted
    OBVIOUS
  <2>1. /\ inbox = <<>> /\ kept = <<>> /\ ready = <<>> /\ posted = 0
        /\ minted = Total(world) /\ world.balance = Funds
    BY DEF Init, ProcInit
  <2>2. world \in Worlds
    BY InitNonceInv DEF NonceInv, ProcTypes
  <2>3. minted = Endowment /\ Endowment \in Nat
    BY <2>1, <2>2, EndowmentTyped
  <2>4. Waiting(ready) = 0 /\ Queued(kept) = 0 /\ Queued(inbox) = 0
    <3>1. <<>> \in Seq(Message) /\ <<>> \in Seq(Posted)
      BY EmptySeq
    <3> QED
      BY <2>1, <3>1, WaitingList, QueuedList, Zenon
  <2>5. Endowment + 0 + 0 + 0 = Endowment + 0
    BY <2>3
  <2> QED
    BY <2>1, <2>3, <2>4, <2>5, AccountRead, Zenon
<1>2. ASSUME NonceInv, GasInv, ProcInv, DepositsAccounted, [Next]_vars PROVE DepositsAccounted'
  BY <1>2, DepositsKept
<1> QED
  BY <1>1, <1>2, NonceInvariance, GasInvariance, CoinInvariance, PTL DEF Spec
=============================================================================
