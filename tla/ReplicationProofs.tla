-------------------------- MODULE ReplicationProofs --------------------------
(***************************************************************************)
(* For every set of nodes and connections, every batch and every capacity: *)
(* the nodes execute the leader's batches in the leader's order, whatever  *)
(* the network does; together they implement ReplicatedLog; and until a    *)
(* block of the leader fails, a deposit reaches it or the wire changes one *)
(* of its transactions, they have its hashes and its state.                *)
(*                                                                         *)
(* The argument: every block in any message has the number and the batch   *)
(* of a block of the leader (Carried), the leader's numbers only grow, and *)
(* a node takes a block only if its number is one more than its last.  So  *)
(* the block a node takes is the one at the next index of the leader's     *)
(* chain, although nothing compares indices or hashes.                     *)
(***************************************************************************)
EXTENDS Replication, TLAPS

-----------------------------------------------------------------------------
\* A batch as another node reads it from the wire.
Wired(txs) == [i \in DOMAIN txs |-> Wire(txs[i])]

\* A block some message holds has the number and the batch of a block of the
\* leader's chain L.
Carried(L, b) ==
  \E i \in DOMAIN L : b.number = L[i].number /\ b.txs = Wired(L[i].txs)

ChainType ==
  /\ blocks \in [Node -> Seq(Blocks)]
  /\ \A n \in Node : blocks[n] # <<>>
  /\ world \in [Node -> Worlds]
  /\ number \in [Node -> Nat]

\* The leader's chain: its numbers grow, by more than one where a block has failed.
LeaderChain ==
  /\ \A i, j \in DOMAIN blocks[Leader] : i < j => blocks[Leader][i].number < blocks[Leader][j].number
  /\ \A i \in DOMAIN blocks[Leader] :
       /\ blocks[Leader][i].number <= number[Leader]
       /\ blocks[Leader][i].txs \in Batches
  /\ number[Leader] <= MaxNumber
  /\ Len(blocks[Leader]) - 1 <= number[Leader]

\* Every chain is the beginning of the leader's, up to what the wire changes.
Copies ==
  \A n \in Node :
    /\ Len(blocks[n]) <= Len(blocks[Leader])
    /\ blocks[n][1].number = 0 /\ blocks[n][1].txs = <<>>
    /\ \A i \in DOMAIN blocks[n] :
         /\ blocks[n][i].number = blocks[Leader][i].number
         /\ Wired(blocks[n][i].txs) = Wired(blocks[Leader][i].txs)

ChainInv == ChainType /\ LeaderChain /\ Copies

Messages == [kind : Kinds, from : Nat, list : Seq(Blocks)]
Calls == [msg : Messages, to : SUBSET Node]
Reading == [kind : {"idle", "reply", "import"}, list : Seq(Blocks)]

\* A list of carried blocks; some messages cannot be without one.
SoundList(L, list) == \A k \in DOMAIN list : Carried(L, list[k])
SoundMessage(L, msg) ==
  SoundList(L, msg.list) /\ (msg.kind \in {"hello", "new_block"} => msg.list # <<>>)

QueueInv(L, q) ==
  /\ q \in [Pairs -> Seq(Messages)]
  /\ \A l \in Pairs : \A k \in DOMAIN q[l] : SoundMessage(L, q[l][k])
CallerInv(L, c) ==
  /\ c \in [Node -> Calls]
  /\ \A n \in Node : c[n].to # {} => SoundMessage(L, c[n].msg)
ReaderInv(L, r) ==
  /\ r \in [Pairs -> Reading]
  /\ \A l \in Pairs : SoundList(L, r[l].list) /\ (r[l].kind = "import" => r[l].list # <<>>)

WireInv ==
  /\ QueueInv(blocks[Leader], queue) /\ QueueInv(blocks[Leader], waiting)
  /\ CallerInv(blocks[Leader], caller)
  /\ ReaderInv(blocks[Leader], reader)

IInv == ChainInv /\ WireInv

\* The chain L is only extended.
Keeps(L, M) == \A i \in DOMAIN L : i \in DOMAIN M /\ M[i] = L[i]

-----------------------------------------------------------------------------
\* What fromWire makes of a transaction is one, with its id, and a second trip
\* changes nothing more.
LEMMA WireTyped ==
  ASSUME NEW t \in TxFields
  PROVE  Wire(t) \in TxFields /\ Wire(t).id = t.id /\ Wire(Wire(t)) = Wire(t)
BY DEF Wire, TxFields

\* The fields of a block.
LEMMA BlockFields ==
  ASSUME NEW b \in Blocks
  PROVE  b.number \in Nat /\ b.txs \in Seq(TxFields) /\ b.hash \in Seq(Headers)
BY DEF Blocks

\* The same of a batch.
LEMMA WiredTyped ==
  ASSUME NEW txs \in Seq(TxFields)
  PROVE  /\ Wired(txs) \in Seq(TxFields)
         /\ Len(Wired(txs)) = Len(txs)
         /\ \A i \in DOMAIN txs : Wired(txs)[i] = Wire(txs[i])
         /\ Wired(Wired(txs)) = Wired(txs)
<1>1. /\ Wired(txs) \in Seq(TxFields) /\ Len(Wired(txs)) = Len(txs)
      /\ DOMAIN Wired(txs) = DOMAIN txs
      /\ \A i \in DOMAIN txs : Wired(txs)[i] = Wire(txs[i])
  BY WireTyped DEF Wired
<1>2. \A i \in DOMAIN txs : Wire(Wired(txs)[i]) = Wired(txs)[i]
  BY <1>1, WireTyped
<1>3. Wired(Wired(txs)) = [i \in DOMAIN txs |-> Wired(txs)[i]]
  BY <1>1, <1>2, Zenon DEF Wired
<1>4. Wired(txs) = [i \in DOMAIN txs |-> Wired(txs)[i]]
  BY <1>1, Zenon DEF Wired
<1> QED
  BY <1>1, <1>3, <1>4

\* The block on the wire.
LEMMA OnWireTyped ==
  ASSUME NEW b \in Blocks
  PROVE  /\ OnWire(b) \in Blocks
         /\ OnWire(b).number = b.number /\ OnWire(b).txs = Wired(b.txs) /\ OnWire(b).hash = b.hash
<1>1. b.txs \in Seq(TxFields)
  BY DEF Blocks
<1>2. OnWire(b) = [b EXCEPT !.txs = Wired(b.txs)]
  BY DEF OnWire, Wired
<1> QED
  BY <1>1, <1>2, WiredTyped DEF Blocks

\* A batch of the leader is a sequence of transactions.
LEMMA BatchTyped ==
  ASSUME NEW txs \in Batches
  PROVE  txs \in Seq(TxFields) /\ \A i \in DOMAIN txs : txs[i] \in Tx
<1>1. CASE txs = <<>>
  BY <1>1
<1>2. CASE \E t \in Tx : txs = <<t>>
  <2>1. PICK t \in Tx : txs = <<t>>
    BY <1>2
  <2>2. t \in TxFields
    BY NodeAssumption
  <2> HIDE DEF TxFields
  <2> QED
    BY <2>1, <2>2
<1> QED
  BY <1>1, <1>2 DEF Batches

\* Taking one element out of a sequence leaves a sequence of the others.
LEMMA RemoveAtTyped ==
  ASSUME NEW S, NEW s \in Seq(S), NEW i \in DOMAIN s
  PROVE  /\ RemoveAt(s, i) \in Seq(S)
         /\ \A k \in DOMAIN RemoveAt(s, i) : \E j \in DOMAIN s : RemoveAt(s, i)[k] = s[j]
<1> DEFINE a == SubSeq(s, 1, i - 1)
           c == SubSeq(s, i + 1, Len(s))
<1>1. a \in Seq(S) /\ Len(a) = i - 1 /\ \A k \in 1..(i - 1) : a[k] = s[k]
  OBVIOUS
<1>2. c \in Seq(S) /\ Len(c) = Len(s) - i /\ \A k \in 1..(Len(s) - i) : c[k] = s[k + i]
  OBVIOUS
<1>3. RemoveAt(s, i) = a \o c
  BY DEF RemoveAt
<1> HIDE DEF a, c
<1>4. /\ a \o c \in Seq(S) /\ Len(a \o c) = Len(s) - 1
      /\ \A k \in 1..(Len(s) - 1) : (a \o c)[k] = IF k < i THEN s[k] ELSE s[k + 1]
  BY <1>1, <1>2, SMTT(30)
<1>5. DOMAIN (a \o c) = 1..(Len(s) - 1)
  BY <1>4
<1>6. ASSUME NEW k \in 1..(Len(s) - 1) PROVE \E j \in DOMAIN s : (a \o c)[k] = s[j]
  <2>1. k \in DOMAIN s /\ k + 1 \in DOMAIN s
    OBVIOUS
  <2> QED
    BY <1>4, <2>1
<1> QED
  BY <1>3, <1>4, <1>5, <1>6

\* What follows an index of a sequence.
LEMMA SuffixTyped ==
  ASSUME NEW S, NEW s \in Seq(S), NEW m \in Nat
  PROVE  /\ SubSeq(s, m + 1, Len(s)) \in Seq(S)
         /\ \A i \in DOMAIN SubSeq(s, m + 1, Len(s)) :
              i + m \in DOMAIN s /\ SubSeq(s, m + 1, Len(s))[i] = s[i + m]
<1> DEFINE p == SubSeq(s, m + 1, Len(s))
<1>1. CASE m + 1 > Len(s)
  <2>1. p = <<>>
    BY <1>1
  <2> QED
    BY <2>1
<1>2. CASE m + 1 <= Len(s)
  <2>1. p \in Seq(S) /\ Len(p) = Len(s) - m /\ DOMAIN p = 1..(Len(s) - m)
    BY <1>2
  <2>2. \A i \in 1..(Len(s) - m) : p[i] = s[i + m]
    BY <1>2
  <2> HIDE DEF p
  <2>3. \A i \in DOMAIN p : i + m \in DOMAIN s /\ p[i] = s[i + m]
    BY <2>1, <2>2
  <2> QED
    BY <2>1, <2>3 DEF p
<1> QED
  BY <1>1, <1>2

\* What a batch that can run leaves is a world, with all that was there before.
LEMMA ExecutedTyped ==
  ASSUME NEW w \in Worlds, NEW txs \in Seq(TxFields), Executable(w, txs)
  PROVE  Executed(w, txs) \in Worlds /\ \A k \in DOMAIN w : Executed(w, txs)[k] = w[k]
<1> DEFINE e == [i \in DOMAIN txs |-> Effect(txs[i])]
<1>1. ASSUME NEW i \in DOMAIN txs PROVE Effect(txs[i]) \in Effects
  <2>1. /\ txs[i].id \in Nat /\ txs[i].access \in Nat /\ txs[i].tip \in Nat /\ txs[i].price \in Nat
        /\ txs[i].price >= BaseFee /\ BaseFee \in Nat
    <3>1. txs[i] \in TxFields
      OBVIOUS
    <3> QED
      BY <3>1, NodeAssumption DEF TxFields, Executable
  <2>2. txs[i].price - BaseFee \in Nat
    BY <2>1
  <2> QED
    BY <2>1, <2>2 DEF Effect, Effects
<1>2. e \in Seq(Effects \cup {Credit})
  BY <1>1
<1> HIDE DEF e
<1>3. w \o e \in Seq(Effects \cup {Credit}) /\ \A k \in DOMAIN w : (w \o e)[k] = w[k]
  BY <1>2 DEF Worlds
<1> QED
  BY <1>3 DEF Executed, Worlds, e

\* A block sealed on a parent is a block.
LEMMA SealedTyped ==
  ASSUME NEW p \in Blocks, NEW num \in Nat, NEW txs \in Seq(TxFields), NEW w \in Worlds
  PROVE  Sealed(p, num, txs, w) \in Blocks
<1>1. p.hash \in Seq(Headers) /\ [number |-> num, root |-> w] \in Headers
  BY DEF Blocks, Headers
<1>2. Append(p.hash, [number |-> num, root |-> w]) \in Seq(Headers)
  BY <1>1
<1> QED
  BY <1>2 DEF Sealed, Blocks

-----------------------------------------------------------------------------
\* A block that is carried stays so.
LEMMA CarriedStays ==
  ASSUME NEW L, NEW M, Keeps(L, M), NEW b, Carried(L, b)
  PROVE  Carried(M, b)
BY DEF Keeps, Carried

\* A node's own block, put on the wire, is carried.
LEMMA OwnIsCarried ==
  ASSUME ChainInv, NEW n \in Node, NEW i \in DOMAIN blocks[n]
  PROVE  OnWire(blocks[n][i]) \in Blocks /\ Carried(blocks[Leader], OnWire(blocks[n][i]))
<1>1. blocks[n][i] \in Blocks
  BY DEF ChainInv, ChainType
<1>2. /\ i \in DOMAIN blocks[Leader]
      /\ blocks[n][i].number = blocks[Leader][i].number
      /\ Wired(blocks[n][i].txs) = Wired(blocks[Leader][i].txs)
  BY NodeAssumption DEF ChainInv, ChainType, Copies
<1> QED
  BY <1>1, <1>2, OnWireTyped DEF Carried

\* importLocked takes the block at the next index of the leader's chain.
LEMMA ImportTakesNext ==
  ASSUME ChainInv, NEW n \in Node, NEW b \in Blocks, Carried(blocks[Leader], b), Follows(n, b)
  PROVE  /\ n # Leader
         /\ Len(blocks[n]) + 1 \in DOMAIN blocks[Leader]
         /\ b.number = blocks[Leader][Len(blocks[n]) + 1].number
         /\ b.txs = Wired(blocks[Leader][Len(blocks[n]) + 1].txs)
<1> DEFINE L == blocks[Leader]
           k == Len(blocks[n])
<1>1. /\ L \in Seq(Blocks) /\ blocks[n] \in Seq(Blocks) /\ k \in 1..Len(L)
      /\ \A i \in 1..Len(L) : L[i].number \in Int
  <2>1. Leader \in Node
    BY NodeAssumption
  <2>2. L \in Seq(Blocks) /\ blocks[n] \in Seq(Blocks) /\ blocks[n] # <<>>
    BY <2>1 DEF ChainInv, ChainType
  <2>3. Len(blocks[n]) <= Len(L)
    BY DEF ChainInv, Copies
  <2>4. \A i \in 1..Len(L) : L[i].number \in Int
    <3>1. \A i \in 1..Len(L) : L[i] \in Blocks
      BY <2>2
    <3> QED
      BY <3>1, BlockFields
  <2> QED
    BY <2>2, <2>3, <2>4
<1>2. PICK i \in 1..Len(L) : b.number = L[i].number /\ b.txs = Wired(L[i].txs)
  BY <1>1 DEF Carried
<1>3. b.number = L[k].number + 1
  BY <1>1 DEF Follows, Height, Last, ChainInv, Copies
<1>4. \A p, q \in 1..Len(L) : p < q => L[p].number < L[q].number
  BY <1>1 DEF ChainInv, LeaderChain
<1> HIDE DEF L
<1>5. i = k + 1
  <2>0. L[k].number \in Int /\ L[i].number = L[k].number + 1 /\ i \in Int /\ k \in Int
    BY <1>1, <1>2, <1>3
  <2>1. ~(i < k) /\ i # k
    <3>1. ~(i < k)
      <4>1. i < k => L[i].number < L[k].number
        BY <1>1, <1>4
      <4> QED
        BY <2>0, <4>1
    <3>2. i # k
      BY <2>0
    <3> QED
      BY <3>1, <3>2
  <2>2. ~(i > k + 1)
    <3>1. SUFFICES ASSUME i > k + 1 PROVE FALSE
      OBVIOUS
    <3>2. k + 1 \in 1..Len(L)
      BY <1>1, <3>1
    <3>3. L[k].number < L[k + 1].number /\ L[k + 1].number < L[i].number
      BY <1>1, <1>4, <3>1, <3>2
    <3> QED
      BY <1>1, <1>2, <1>3, <3>2, <3>3
  <2> QED
    BY <1>1, <2>1, <2>2
<1> QED
  BY <1>1, <1>2, <1>5 DEF L

\* So an import extends a chain that copies the leader's to one that does.
LEMMA ImportKeepsChain ==
  ASSUME ChainInv, NEW n \in Node, NEW b \in Blocks, Carried(blocks[Leader], b), importLocked(n, b)
  PROVE  ChainInv' /\ Keeps(blocks[Leader], blocks'[Leader])
<1>1. CASE UNCHANGED chainVars
  BY <1>1 DEF ChainInv, ChainType, LeaderChain, Copies, chainVars, Keeps
<1>2. CASE Follows(n, b) /\ Executable(world[n], b.txs) /\ Extend(n, b)
  <2> DEFINE k == Len(blocks[n])
             w == Executed(world[n], b.txs)
             block == Sealed(Last(blocks[n]), b.number, b.txs, w)
  <2>1. /\ n # Leader /\ k + 1 \in DOMAIN blocks[Leader]
        /\ b.number = blocks[Leader][k + 1].number
        /\ b.txs = Wired(blocks[Leader][k + 1].txs)
    BY <1>2, ImportTakesNext
  <2>2. /\ world' = [world EXCEPT ![n] = w]
        /\ number' = [number EXCEPT ![n] = b.number]
        /\ blocks' = [blocks EXCEPT ![n] = Append(blocks[n], block)]
    BY <1>2 DEF Extend
  <2>3. blocks[n] \in Seq(Blocks) /\ k \in Nat \ {0} /\ blocks[n][k] \in Blocks
    BY DEF ChainInv, ChainType
  <2>4. w \in Worlds /\ block \in Blocks
    <3>1. b.txs \in Seq(TxFields) /\ b.number \in Nat /\ world[n] \in Worlds
      BY DEF Blocks, ChainInv, ChainType
    <3>2. w \in Worlds
      BY <1>2, <3>1, ExecutedTyped
    <3> QED
      BY <2>3, <3>1, <3>2, SealedTyped DEF Last
  <2>5. /\ block.number = b.number /\ block.txs = b.txs
        /\ Wired(b.txs) = Wired(blocks[Leader][k + 1].txs)
    <3>1. blocks[Leader][k + 1] \in Blocks
      BY <2>1, NodeAssumption DEF ChainInv, ChainType
    <3> QED
      BY <2>1, <3>1, BlockFields, WiredTyped DEF Sealed
  <2> HIDE DEF w, block
  <2>6. ChainType'
    <3>1. Append(blocks[n], block) \in Seq(Blocks) /\ Append(blocks[n], block) # <<>>
      BY <2>3, <2>4
    <3>2. b.number \in Nat
      BY BlockFields
    <3> QED
      BY <2>2, <2>4, <3>1, <3>2 DEF ChainInv, ChainType
  <2>7. /\ blocks'[Leader] = blocks[Leader] /\ number'[Leader] = number[Leader]
    BY <2>1, <2>2, NodeAssumption DEF ChainInv, ChainType
  <2>8. LeaderChain' /\ Keeps(blocks[Leader], blocks'[Leader])
    BY <2>7 DEF ChainInv, LeaderChain, Keeps
  <2>9. Copies'
    <3> SUFFICES ASSUME NEW m \in Node
                 PROVE  /\ Len(blocks'[m]) <= Len(blocks[Leader])
                        /\ blocks'[m][1].number = 0 /\ blocks'[m][1].txs = <<>>
                        /\ \A i \in DOMAIN blocks'[m] :
                             /\ blocks'[m][i].number = blocks[Leader][i].number
                             /\ Wired(blocks'[m][i].txs) = Wired(blocks[Leader][i].txs)
      BY <2>7 DEF Copies
    <3>1. CASE m # n
      BY <2>2, <3>1 DEF ChainInv, ChainType, Copies
    <3>2. CASE m = n
      <4>1. blocks'[m] = Append(blocks[n], block)
        BY <2>2, <3>2 DEF ChainInv, ChainType
      <4>2. /\ Len(blocks'[m]) = k + 1 /\ blocks'[m][k + 1] = block
            /\ \A i \in 1..k : blocks'[m][i] = blocks[n][i]
        BY <2>3, <4>1
      <4>3. \A i \in 1..k : /\ blocks[n][i].number = blocks[Leader][i].number
                             /\ Wired(blocks[n][i].txs) = Wired(blocks[Leader][i].txs)
        BY <2>3 DEF ChainInv, Copies
      <4>4. DOMAIN blocks'[m] = 1..(k + 1) /\ k + 1 <= Len(blocks[Leader])
        <5>1. blocks[Leader] \in Seq(Blocks)
          BY NodeAssumption DEF ChainInv, ChainType
        <5> QED
          BY <2>1, <2>3, <4>1, <5>1
      <4>5. blocks[n][1].number = 0 /\ blocks[n][1].txs = <<>>
        BY DEF ChainInv, Copies
      <4>6. ASSUME NEW i \in 1..(k + 1)
            PROVE  /\ blocks'[m][i].number = blocks[Leader][i].number
                   /\ Wired(blocks'[m][i].txs) = Wired(blocks[Leader][i].txs)
        <5>1. CASE i \in 1..k
          BY <4>2, <4>3, <5>1
        <5>2. CASE i = k + 1
          BY <2>1, <2>5, <4>2, <5>2
        <5> QED
          BY <2>3, <5>1, <5>2
      <4>7. 1 \in 1..k
        BY <2>3
      <4> QED
        BY <4>2, <4>4, <4>5, <4>6, <4>7
    <3> QED
      BY <3>1, <3>2
  <2> QED
    BY <2>6, <2>8, <2>9 DEF ChainInv
<1> QED
  BY <1>1, <1>2 DEF importLocked

\* Mine seals a block with a number above all before, or none.
LEMMA MineKeepsChain ==
  ASSUME ChainInv, NEW txs \in Batches, NEW gift \in BOOLEAN, Mine(txs, gift)
  PROVE  ChainInv' /\ Keeps(blocks[Leader], blocks'[Leader])
<1> DEFINE L == blocks[Leader]
           k == Len(L)
           w == IF gift THEN Append(world[Leader], Credit) ELSE world[Leader]
           num == number[Leader] + 1
           block == Sealed(Last(L), num, txs, SealedRoot(w, txs))
           runs == Executable(w, txs)
           fits == \A i \in DOMAIN txs : ~txs[i].big
<1>1. /\ number' = [number EXCEPT ![Leader] = num]
      /\ world' = [world EXCEPT ![Leader] = IF runs THEN Executed(w, txs) ELSE w]
      /\ blocks' = IF runs /\ fits THEN [blocks EXCEPT ![Leader] = Append(L, block)] ELSE blocks
      /\ number[Leader] < MaxNumber
  BY DEF Mine, produceLocked
<1>2. /\ Leader \in Node /\ L \in Seq(Blocks) /\ k \in Nat \ {0} /\ L[k] \in Blocks
      /\ number[Leader] \in Nat /\ world[Leader] \in Worlds /\ MaxNumber \in Nat
  BY NodeAssumption DEF ChainInv, ChainType
<1>3. txs \in Seq(TxFields)
  BY BatchTyped
<1>4. w \in Worlds
  BY <1>2 DEF Worlds
<1>5. world' \in [Node -> Worlds] /\ number' \in [Node -> Nat]
      /\ number'[Leader] = num /\ num <= MaxNumber
  <2> HIDE DEF w
  <2>1. runs => Executed(w, txs) \in Worlds
    BY <1>3, <1>4, ExecutedTyped
  <2> HIDE DEF runs
  <2> QED
    BY <1>1, <1>2, <1>4, <2>1 DEF ChainInv, ChainType
<1>6. CASE ~(runs /\ fits)
  <2>1. blocks' = blocks
    BY <1>1, <1>6
  <2>2. LeaderChain'
    <3>1. \A i \in DOMAIN L : L[i].number \in Nat
      BY <1>2, BlockFields
    <3> QED
      BY <1>2, <1>5, <2>1, <3>1 DEF ChainInv, LeaderChain
  <2> QED
    BY <1>5, <2>1, <2>2 DEF ChainInv, ChainType, Copies, Keeps
<1>7. CASE runs /\ fits
  <2>1. block \in Blocks /\ block.number = num /\ block.txs = txs
    <3> HIDE DEF w
    <3>1. Executed(w, txs) \in Worlds
      BY <1>3, <1>4, <1>7, ExecutedTyped
    <3> QED
      BY <1>2, <1>3, <3>1, SealedTyped DEF Sealed, SealedRoot, Last
  <2> HIDE DEF block
  <2>2. blocks'[Leader] = Append(L, block) /\ \A n \in Node \ {Leader} : blocks'[n] = blocks[n]
    BY <1>1, <1>2, <1>7 DEF ChainInv, ChainType
  <2>3. /\ DOMAIN Append(L, block) = 1..(k + 1) /\ DOMAIN L = 1..k
        /\ Append(L, block)[k + 1] = block
        /\ \A i \in 1..k : Append(L, block)[i] = L[i]
    BY <1>2
  <2>4. ChainType'
    <3>1. Append(L, block) \in Seq(Blocks) /\ Append(L, block) # <<>>
      BY <1>2, <2>1
    <3> QED
      BY <1>1, <1>2, <1>5, <1>7, <2>2, <3>1 DEF ChainInv, ChainType
  <2>5. \A i \in 1..k : /\ L[i].number \in Nat /\ L[i].number <= number[Leader]
                         /\ L[i].txs \in Batches
    <3>1. \A i \in 1..k : L[i] \in Blocks
      BY <1>2
    <3> QED
      BY <2>3, <3>1, BlockFields DEF ChainInv, LeaderChain
  <2>6. LeaderChain'
    <3>1. ASSUME NEW i \in 1..(k + 1), NEW j \in 1..(k + 1), i < j
          PROVE  Append(L, block)[i].number < Append(L, block)[j].number
      <4>1. i \in 1..k
        BY <1>2, <3>1
      <4>2. CASE j = k + 1
        BY <1>2, <2>1, <2>3, <2>5, <4>1, <4>2
      <4>3. CASE j \in 1..k
        BY <2>3, <3>1, <4>1, <4>3 DEF ChainInv, LeaderChain
      <4> QED
        BY <1>2, <4>2, <4>3
    <3>2. ASSUME NEW i \in 1..(k + 1)
          PROVE  /\ Append(L, block)[i].number <= num
                 /\ Append(L, block)[i].txs \in Batches
      <4>1. CASE i = k + 1
        BY <1>2, <2>1, <2>3, <4>1
      <4>2. CASE i \in 1..k
        BY <1>2, <2>3, <2>5, <4>2
      <4> QED
        BY <1>2, <4>1, <4>2
    <3>3. Len(Append(L, block)) - 1 <= num
      BY <1>2 DEF ChainInv, LeaderChain
    <3> QED
      BY <1>5, <2>2, <2>3, <3>1, <3>2, <3>3 DEF LeaderChain
  <2>7. Copies'
    <3> SUFFICES ASSUME NEW n \in Node
                 PROVE  /\ Len(blocks'[n]) <= k + 1
                        /\ blocks'[n][1].number = 0 /\ blocks'[n][1].txs = <<>>
                        /\ \A i \in DOMAIN blocks'[n] :
                             /\ blocks'[n][i].number = Append(L, block)[i].number
                             /\ Wired(blocks'[n][i].txs) = Wired(Append(L, block)[i].txs)
      BY <1>2, <2>2, <2>3 DEF Copies
    <3>1. CASE n = Leader
      <4>1. L[1].number = 0 /\ L[1].txs = <<>> /\ 1 \in 1..k
        BY <1>2 DEF ChainInv, Copies
      <4> QED
        BY <1>2, <2>2, <2>3, <3>1, <4>1, SMTT(30)
    <3>2. CASE n # Leader
      <4>1. blocks[n] \in Seq(Blocks) /\ Len(blocks[n]) <= k
        BY DEF ChainInv, ChainType, Copies
      <4>2. \A i \in DOMAIN blocks[n] : i \in 1..k
        BY <1>2, <4>1
      <4> QED
        BY <1>2, <2>2, <2>3, <3>2, <4>1, <4>2 DEF ChainInv, Copies
    <3> QED
      BY <3>1, <3>2
  <2>8. Keeps(L, blocks'[Leader])
    BY <1>2, <2>2, <2>3 DEF Keeps
  <2> QED
    BY <2>4, <2>6, <2>7, <2>8 DEF ChainInv
<1> QED
  BY <1>6, <1>7

-----------------------------------------------------------------------------
\* What is on its way stays sound when the leader's chain grows.
LEMMA WireStays ==
  ASSUME WireInv, Keeps(blocks[Leader], blocks'[Leader])
  PROVE  /\ QueueInv(blocks'[Leader], queue) /\ QueueInv(blocks'[Leader], waiting)
         /\ CallerInv(blocks'[Leader], caller) /\ ReaderInv(blocks'[Leader], reader)
<1> DEFINE L == blocks[Leader]
           M == blocks'[Leader]
<1>1. \A list : SoundList(L, list) => SoundList(M, list)
  BY CarriedStays DEF SoundList
<1>2. \A msg : SoundMessage(L, msg) => SoundMessage(M, msg)
  BY <1>1 DEF SoundMessage
<1> QED
  BY <1>1, <1>2 DEF WireInv, QueueInv, CallerInv, ReaderInv

\* One more sound message in a queue.
LEMMA AppendSound ==
  ASSUME NEW L, NEW q, QueueInv(L, q), NEW l \in Pairs, NEW msg \in Messages, SoundMessage(L, msg)
  PROVE  QueueInv(L, [q EXCEPT ![l] = Append(q[l], msg)])
<1> DEFINE p == [q EXCEPT ![l] = Append(q[l], msg)]
<1>1. q[l] \in Seq(Messages) /\ DOMAIN q = Pairs
  BY DEF QueueInv
<1>2. p[l] = Append(q[l], msg) /\ \A m \in Pairs \ {l} : p[m] = q[m]
  BY <1>1
<1>3. Append(q[l], msg) \in Seq(Messages)
  BY <1>1
<1>4. p \in [Pairs -> Seq(Messages)]
  BY <1>1, <1>3 DEF QueueInv
<1>5. ASSUME NEW k \in DOMAIN Append(q[l], msg)
      PROVE  SoundMessage(L, Append(q[l], msg)[k])
  <2>1. CASE k = Len(q[l]) + 1
    BY <1>1, <2>1
  <2>2. CASE k \in DOMAIN q[l]
    <3>1. Append(q[l], msg)[k] = q[l][k]
      BY <1>1, <2>2
    <3> QED
      BY <2>2, <3>1 DEF QueueInv
  <2> QED
    BY <1>1, <2>1, <2>2
<1> HIDE DEF p
<1>6. QueueInv(L, p)
  BY <1>2, <1>4, <1>5 DEF QueueInv
<1> QED
  BY <1>6 DEF p

\* write puts a sound message into one of the two queues.
LEMMA WriteSound ==
  ASSUME NEW L, QueueInv(L, queue), QueueInv(L, waiting), NEW l \in Pairs,
         NEW msg \in Messages, SoundMessage(L, msg), write(l, msg)
  PROVE  QueueInv(L, queue') /\ QueueInv(L, waiting')
<1>1. CASE Queue(l, msg)
  BY <1>1, AppendSound DEF Queue
<1>2. CASE waiting' = [waiting EXCEPT ![l] = Append(waiting[l], msg)] /\ UNCHANGED queue
  BY <1>2, AppendSound
<1> QED
  BY <1>1, <1>2 DEF write

\* A part of a queue is sound.
LEMMA PartSound ==
  ASSUME NEW L, NEW q, QueueInv(L, q), NEW l \in Pairs, NEW s \in Seq(Messages),
         \A k \in DOMAIN s : \E j \in DOMAIN q[l] : s[k] = q[l][j]
  PROVE  QueueInv(L, [q EXCEPT ![l] = s])
<1> DEFINE p == [q EXCEPT ![l] = s]
<1>1. DOMAIN q = Pairs
  BY DEF QueueInv
<1>2. p[l] = s /\ \A m \in Pairs \ {l} : p[m] = q[m]
  BY <1>1
<1>3. p \in [Pairs -> Seq(Messages)]
  BY DEF QueueInv
<1>4. \A k \in DOMAIN s : SoundMessage(L, s[k])
  BY DEF QueueInv
<1> HIDE DEF p
<1>5. QueueInv(L, p)
  BY <1>2, <1>3, <1>4 DEF QueueInv
<1> QED
  BY <1>5 DEF p

\* The steps of goroutines that only move messages.
LEMMA MovesKeepWire ==
  ASSUME IInv, NEW l \in Pairs, UNCHANGED chainVars,
         \/ Unblock(l) \/ Greet(l) \/ CallerWrites(l[1], l[2]) \/ Reply(l)
  PROVE  WireInv'
<1> DEFINE L == blocks[Leader]
<1>1. UNCHANGED blocks /\ l[1] \in Node /\ l[2] \in Node /\ Back(l) \in Pairs
  BY DEF chainVars, Pairs, Back
<1>2. ChainInv /\ QueueInv(L, queue) /\ QueueInv(L, waiting) /\ CallerInv(L, caller) /\ ReaderInv(L, reader)
  BY DEF IInv, WireInv
<1>3. SUFFICES /\ QueueInv(L, queue') /\ QueueInv(L, waiting')
               /\ CallerInv(L, caller') /\ ReaderInv(L, reader')
  BY <1>1 DEF WireInv
<1>4. CASE Unblock(l)
  <2>1. PICK i \in DOMAIN waiting[l] :
          /\ queue' = [queue EXCEPT ![l] = Append(queue[l], waiting[l][i])]
          /\ waiting' = [waiting EXCEPT ![l] = RemoveAt(waiting[l], i)]
    BY <1>4 DEF Unblock
  <2>2. waiting[l] \in Seq(Messages) /\ waiting[l][i] \in Messages /\ SoundMessage(L, waiting[l][i])
    BY <1>2 DEF QueueInv
  <2>3. QueueInv(L, queue')
    BY <1>2, <2>1, <2>2, AppendSound
  <2>4. QueueInv(L, waiting')
    <3>1. /\ RemoveAt(waiting[l], i) \in Seq(Messages)
          /\ \A k \in DOMAIN RemoveAt(waiting[l], i) :
               \E j \in DOMAIN waiting[l] : RemoveAt(waiting[l], i)[k] = waiting[l][j]
      BY <2>2, RemoveAtTyped
    <3> QED
      BY <1>2, <2>1, <3>1, PartSound
  <2> QED
    BY <1>2, <1>4, <2>3, <2>4 DEF Unblock
<1>5. CASE Greet(l)
  <2> DEFINE b == OnWire(blocks[l[1]][1])
             msg == [kind |-> "hello", from |-> 0, list |-> <<b>>]
  <2>1. b \in Blocks /\ Carried(L, b)
    <3>1. 1 \in DOMAIN blocks[l[1]]
      BY <1>1, <1>2 DEF ChainInv, ChainType
    <3> QED
      BY <1>1, <1>2, <3>1, OwnIsCarried
  <2> HIDE DEF b
  <2>2. msg \in Messages /\ SoundMessage(L, msg)
    BY <2>1 DEF Messages, Kinds, SoundMessage, SoundList
  <2>3. write(l, msg) /\ UNCHANGED <<caller, reader>>
    BY <1>5 DEF Greet, b
  <2> QED
    BY <1>2, <2>2, <2>3, WriteSound
<1>6. CASE CallerWrites(l[1], l[2])
  <2> DEFINE n == l[1]
  <2>1. l[2] \in caller[n].to /\ write(l, caller[n].msg)
        /\ caller' = [caller EXCEPT ![n] = [caller[n] EXCEPT !.to = caller[n].to \ {l[2]}]]
        /\ UNCHANGED reader
    <3>1. <<l[1], l[2]>> = l
      BY DEF Pairs
    <3> QED
      BY <1>6, <3>1 DEF CallerWrites
  <2>2. caller[n] \in Calls /\ caller[n].msg \in Messages /\ SoundMessage(L, caller[n].msg)
    BY <1>1, <1>2, <2>1 DEF CallerInv, Calls
  <2>3. QueueInv(L, queue') /\ QueueInv(L, waiting')
    BY <1>2, <2>1, <2>2, WriteSound
  <2>4. CallerInv(L, caller')
    <3>1. /\ [caller[n] EXCEPT !.to = caller[n].to \ {l[2]}] \in Calls
          /\ [caller[n] EXCEPT !.to = caller[n].to \ {l[2]}].msg = caller[n].msg
      BY <2>2 DEF Calls
    <3> QED
      BY <1>1, <1>2, <2>1, <2>2, <3>1 DEF CallerInv
  <2> QED
    BY <1>2, <2>1, <2>3, <2>4
<1>7. CASE Reply(l)
  <2> DEFINE msg == [kind |-> "blocks", from |-> 0, list |-> reader[l].list]
  <2>1. reader[l].list \in Seq(Blocks) /\ SoundList(L, reader[l].list)
    BY <1>2 DEF ReaderInv, Reading
  <2>2. msg \in Messages /\ SoundMessage(L, msg)
    BY <2>1 DEF Messages, Kinds, SoundMessage
  <2>3. QueueInv(L, queue') /\ QueueInv(L, waiting')
    BY <1>1, <1>2, <1>7, <2>2, WriteSound DEF Reply
  <2>4. ReaderInv(L, reader')
    <3>1. Idle \in Reading /\ SoundList(L, Idle.list) /\ Idle.kind # "import"
      BY DEF Idle, Reading, SoundList
    <3> QED
      BY <1>2, <1>7, <3>1 DEF Reply, ReaderInv
  <2> QED
    BY <1>2, <1>7, <2>3, <2>4 DEF Reply
<1> QED
  BY <1>4, <1>5, <1>6, <1>7

\* The head of a queue, and what is left without it.
LEMMA HeadSound ==
  ASSUME NEW L, NEW q, QueueInv(L, q), NEW l \in Pairs, q[l] # <<>>
  PROVE  /\ Head(q[l]) \in Messages /\ SoundMessage(L, Head(q[l]))
         /\ QueueInv(L, [q EXCEPT ![l] = Tail(q[l])])
<1>1. q[l] \in Seq(Messages) /\ 1 \in DOMAIN q[l] /\ Head(q[l]) = q[l][1]
  BY DEF QueueInv
<1>2. /\ Tail(q[l]) \in Seq(Messages)
      /\ \A k \in DOMAIN Tail(q[l]) : k + 1 \in DOMAIN q[l] /\ Tail(q[l])[k] = q[l][k + 1]
  BY <1>1
<1>3. \A k \in DOMAIN Tail(q[l]) : \E j \in DOMAIN q[l] : Tail(q[l])[k] = q[l][j]
  BY <1>2
<1>4. QueueInv(L, [q EXCEPT ![l] = Tail(q[l])])
  BY <1>2, <1>3, PartSound
<1> QED
  BY <1>1, <1>4 DEF QueueInv

\* A list of sound blocks: the first is one of them, and so is the rest.
LEMMA FirstOfList ==
  ASSUME NEW L, NEW list \in Seq(Blocks), list # <<>>, SoundList(L, list)
  PROVE  /\ list[1] \in Blocks /\ Carried(L, list[1]) /\ Head(list) = list[1]
         /\ Tail(list) \in Seq(Blocks) /\ SoundList(L, Tail(list))
<1>1. 1 \in DOMAIN list /\ list[1] \in Blocks /\ Head(list) = list[1]
  OBVIOUS
<1>2. /\ Tail(list) \in Seq(Blocks)
      /\ \A k \in DOMAIN Tail(list) : k + 1 \in DOMAIN list /\ Tail(list)[k] = list[k + 1]
  OBVIOUS
<1> QED
  BY <1>1, <1>2 DEF SoundList

\* What the read loop may be busy with.
LEMMA ReaderSound ==
  ASSUME NEW L, NEW r, ReaderInv(L, r), NEW l \in Pairs, NEW x \in Reading,
         SoundList(L, x.list), x.kind = "import" => x.list # <<>>
  PROVE  ReaderInv(L, [r EXCEPT ![l] = x])
<1> DEFINE p == [r EXCEPT ![l] = x]
<1>1. p[l] = x /\ \A m \in Pairs \ {l} : p[m] = r[m]
  BY DEF ReaderInv
<1>2. p \in [Pairs -> Reading]
  BY DEF ReaderInv
<1> HIDE DEF p
<1>3. ReaderInv(L, p)
  BY <1>1, <1>2 DEF ReaderInv
<1> QED
  BY <1>3 DEF p

\* An idle read loop.
LEMMA IdleSound ==
  ASSUME NEW L
  PROVE  Idle \in Reading /\ SoundList(L, Idle.list) /\ Idle.kind # "import"
BY DEF Idle, Reading, SoundList

\* handle: what it imports is carried, and so is what it will answer.
LEMMA HandleKeepsInv ==
  ASSUME IInv, NEW l \in Pairs, handle(l)
  PROVE  IInv' /\ Keeps(blocks[Leader], blocks'[Leader])
<1> DEFINE n == l[2]
           L == blocks[Leader]
           M == blocks'[Leader]
           msg == Head(queue[l])
<1>1. n \in Node
  BY DEF Pairs
<1>2. /\ queue[l] # <<>> /\ queue' = [queue EXCEPT ![l] = Tail(queue[l])]
      /\ UNCHANGED <<caller, waiting>>
  BY DEF handle
<1>3. ChainInv /\ WireInv /\ QueueInv(L, queue)
  BY DEF IInv, WireInv
<1>4. msg \in Messages /\ SoundMessage(L, msg) /\ QueueInv(L, queue')
  BY <1>2, <1>3, HeadSound
<1>5. msg.list \in Seq(Blocks) /\ msg.from \in Nat /\ SoundList(L, msg.list)
  BY <1>4 DEF Messages, SoundMessage
<1>6. CASE UNCHANGED <<chainVars, reader>>
  <2>1. Keeps(L, M) /\ ChainInv' /\ blocks' = blocks
    BY <1>3, <1>6 DEF Keeps, chainVars, ChainInv, ChainType, LeaderChain, Copies
  <2> QED
    BY <1>2, <1>3, <1>4, <1>6, <2>1 DEF IInv, WireInv
<1>7. CASE msg.kind = "new_block" /\ importLocked(n, msg.list[1]) /\ UNCHANGED reader
  <2>1. msg.list[1] \in Blocks /\ Carried(L, msg.list[1])
    BY <1>4, <1>5, <1>7, FirstOfList DEF SoundMessage
  <2>2. ChainInv' /\ Keeps(L, M)
    BY <1>1, <1>3, <1>7, <2>1, ImportKeepsChain
  <2>3. /\ QueueInv(M, waiting) /\ CallerInv(M, caller) /\ ReaderInv(M, reader)
        /\ QueueInv(M, queue)
    BY <1>3, <2>2, WireStays
  <2>4. QueueInv(M, queue')
    BY <1>2, <2>3, HeadSound
  <2> QED
    BY <1>2, <1>7, <2>2, <2>3, <2>4 DEF IInv, WireInv
<1>8. CASE UNCHANGED chainVars /\ \E x \in Reading :
             /\ reader' = [reader EXCEPT ![l] = x]
             /\ SoundList(L, x.list) /\ (x.kind = "import" => x.list # <<>>)
  <2>1. Keeps(L, M) /\ ChainInv' /\ blocks' = blocks
    BY <1>3, <1>8 DEF Keeps, chainVars, ChainInv, ChainType, LeaderChain, Copies
  <2>2. ReaderInv(L, reader')
    <3>1. PICK x \in Reading :
            /\ reader' = [reader EXCEPT ![l] = x]
            /\ SoundList(L, x.list) /\ (x.kind = "import" => x.list # <<>>)
      BY <1>8
    <3>2. ReaderInv(L, [reader EXCEPT ![l] = x])
      BY <1>3, <3>1, ReaderSound DEF WireInv
    <3> QED
      BY <3>1, <3>2
  <2> QED
    BY <1>2, <1>3, <1>4, <2>1, <2>2 DEF IInv, WireInv
<1>9. ASSUME msg.kind = "get_blocks",
             reader' = [reader EXCEPT ![l] =
               [kind |-> "reply", list |-> [i \in DOMAIN replyBlocks(n, msg.from) |->
                                              OnWire(replyBlocks(n, msg.from)[i])]]],
             UNCHANGED chainVars
      PROVE  IInv' /\ Keeps(L, M)
  <2> DEFINE part == replyBlocks(n, msg.from)
             list == [i \in DOMAIN part |-> OnWire(part[i])]
  <2>1. \A i \in DOMAIN part : i + msg.from \in DOMAIN blocks[n] /\ part[i] = blocks[n][i + msg.from]
    <3> DEFINE s == blocks[n]
               m == msg.from
    <3>1. s \in Seq(Blocks) /\ m \in Nat
      BY <1>1, <1>3, <1>5 DEF ChainInv, ChainType
    <3>2. part = SubSeq(s, m + 1, Len(s))
      BY DEF replyBlocks
    <3> HIDE DEF s, m, part
    <3>3. \A i \in DOMAIN part : i + m \in DOMAIN s /\ part[i] = s[i + m]
      BY <3>1, <3>2, SuffixTyped
    <3> QED
      BY <3>3 DEF s, m
  <2>2. part \in Seq(Blocks)
    BY <1>1, <1>3, <1>5, SuffixTyped DEF replyBlocks, ChainInv, ChainType
  <2> HIDE DEF part
  <2>3. \A i \in DOMAIN part : OnWire(part[i]) \in Blocks /\ Carried(L, OnWire(part[i]))
    BY <1>1, <1>3, <2>1, OwnIsCarried
  <2>4. list \in Seq(Blocks) /\ SoundList(L, list)
    BY <2>2, <2>3 DEF SoundList
  <2> HIDE DEF list
  <2>5. [kind |-> "reply", list |-> list] \in Reading
    BY <2>4 DEF Reading
  <2> QED
    BY <1>8, <1>9, <2>4, <2>5 DEF list, part
<1>10. ASSUME msg.kind = "blocks", UNCHANGED chainVars,
              reader' = [reader EXCEPT ![l] =
                IF msg.list = <<>> THEN Idle ELSE [kind |-> "import", list |-> msg.list]]
       PROVE  IInv' /\ Keeps(L, M)
  <2>1. [kind |-> "import", list |-> msg.list] \in Reading
    BY <1>5 DEF Reading
  <2> QED
    BY <1>5, <1>8, <1>10, <2>1, IdleSound
<1> QED
  BY <1>6, <1>7, <1>9, <1>10 DEF handle

\* ImportNext: the same for the next block of a list.
LEMMA ImportNextKeepsInv ==
  ASSUME IInv, NEW l \in Pairs, ImportNext(l)
  PROVE  IInv' /\ Keeps(blocks[Leader], blocks'[Leader])
<1> DEFINE n == l[2]
           L == blocks[Leader]
           M == blocks'[Leader]
           list == reader[l].list
<1>1. n \in Node
  BY DEF Pairs
<1>2. ChainInv /\ WireInv
  BY DEF IInv
<1>3. reader[l].kind = "import" /\ importLocked(n, Head(list)) /\ UNCHANGED <<queue, waiting, caller>>
  BY DEF ImportNext, wireVars
<1>4. list \in Seq(Blocks) /\ list # <<>> /\ SoundList(L, list)
  BY <1>2, <1>3 DEF WireInv, ReaderInv, Reading
<1>5. /\ Head(list) \in Blocks /\ Carried(L, Head(list))
      /\ Tail(list) \in Seq(Blocks) /\ SoundList(L, Tail(list))
  BY <1>4, FirstOfList
<1>6. ChainInv' /\ Keeps(L, M)
  BY <1>1, <1>2, <1>3, <1>5, ImportKeepsChain
<1>7. /\ QueueInv(M, queue) /\ QueueInv(M, waiting) /\ CallerInv(M, caller)
      /\ ReaderInv(M, reader)
  BY <1>2, <1>6, WireStays
<1>8. ReaderInv(M, reader')
  <2>1. SoundList(M, Tail(list))
    BY <1>5, <1>6, CarriedStays DEF SoundList
  <2>2. [kind |-> "import", list |-> Tail(list)] \in Reading
    BY <1>5 DEF Reading
  <2>3. \/ reader' = [reader EXCEPT ![l] = Idle]
        \/ /\ reader' = [reader EXCEPT ![l] = [kind |-> "import", list |-> Tail(list)]]
           /\ Tail(list) # <<>>
    BY DEF ImportNext
  <2>4. CASE reader' = [reader EXCEPT ![l] = Idle]
    BY <1>7, <2>4, IdleSound, ReaderSound
  <2>5. ASSUME reader' = [reader EXCEPT ![l] = [kind |-> "import", list |-> Tail(list)]],
               Tail(list) # <<>>
        PROVE  ReaderInv(M, reader')
    <3> DEFINE x == [kind |-> "import", list |-> Tail(list)]
    <3>1. x \in Reading /\ SoundList(M, x.list) /\ x.list # <<>>
      BY <2>1, <2>2, <2>5
    <3> HIDE DEF x
    <3>2. ReaderInv(M, [reader EXCEPT ![l] = x])
      BY <1>7, <3>1, ReaderSound
    <3> QED
      BY <2>5, <3>2 DEF x
  <2> QED
    BY <2>3, <2>4, <2>5
<1> QED
  BY <1>3, <1>6, <1>7, <1>8 DEF IInv, WireInv

\* BroadcastLatest and CatchUp prepare a message.
LEMMA CallsKeepInv ==
  ASSUME IInv, BroadcastLatest \/ \E n \in Node : CatchUp(n)
  PROVE  IInv'
<1> DEFINE L == blocks[Leader]
<1>1. ChainInv /\ QueueInv(L, queue) /\ QueueInv(L, waiting) /\ CallerInv(L, caller) /\ ReaderInv(L, reader)
  BY DEF IInv, WireInv
<1>2. UNCHANGED <<chainVars, queue, waiting, reader>>
  BY DEF BroadcastLatest, CatchUp, wireVars
<1>3. ChainInv' /\ blocks' = blocks
  BY <1>1, <1>2 DEF chainVars, ChainInv, ChainType, LeaderChain, Copies
<1>4. SUFFICES CallerInv(L, caller')
  BY <1>1, <1>2, <1>3 DEF IInv, WireInv
<1>5. ASSUME NEW n \in Node, NEW msg \in Messages, NEW to \in SUBSET Node, SoundMessage(L, msg),
             caller' = [caller EXCEPT ![n] = [msg |-> msg, to |-> to]]
      PROVE  CallerInv(L, caller')
  <2>1. [msg |-> msg, to |-> to] \in Calls
    BY DEF Calls
  <2> QED
    BY <1>1, <1>5, <2>1 DEF CallerInv
<1>6. \A n \in Node : Peers(n) \in SUBSET Node
  BY DEF Peers
<1>7. CASE BroadcastLatest
  <2> DEFINE b == OnWire(Last(L))
             msg == [kind |-> "new_block", from |-> 0, list |-> <<b>>]
  <2>1. b \in Blocks /\ Carried(L, b)
    <3>1. Leader \in Node /\ Len(L) \in DOMAIN L
      BY <1>1, NodeAssumption DEF ChainInv, ChainType
    <3> QED
      BY <1>1, <3>1, OwnIsCarried DEF Last
  <2> HIDE DEF b
  <2>2. msg \in Messages /\ SoundMessage(L, msg)
    BY <2>1 DEF Messages, Kinds, SoundMessage, SoundList
  <2>3. caller' = [caller EXCEPT ![Leader] = [msg |-> msg, to |-> Peers(Leader)]]
    BY <1>7 DEF BroadcastLatest, b
  <2> HIDE DEF msg
  <2> QED
    BY <1>5, <1>6, <2>2, <2>3, NodeAssumption
<1>8. ASSUME NEW n \in Node, CatchUp(n) PROVE CallerInv(L, caller')
  <2> DEFINE msg == [kind |-> "get_blocks", from |-> Height(n) + 1, list |-> <<>>]
  <2>1. Height(n) \in Nat
    <3>1. Last(blocks[n]) \in Blocks
      BY <1>1 DEF ChainInv, ChainType, Last
    <3> QED
      BY <3>1, BlockFields DEF Height
  <2>2. msg \in Messages /\ SoundMessage(L, msg)
    BY <2>1 DEF Messages, Kinds, SoundMessage, SoundList
  <2>3. caller' = [caller EXCEPT ![n] = [msg |-> msg, to |-> Peers(n)]]
    BY <1>8 DEF CatchUp
  <2> HIDE DEF msg
  <2> QED
    BY <1>5, <1>6, <2>2, <2>3
<1> QED
  BY <1>7, <1>8

\* The first state.
LEMMA InitInv == Init => IInv
<1> SUFFICES ASSUME Init PROVE IInv
  OBVIOUS
<1>0. Leader \in Node /\ MaxNumber \in Nat
  BY NodeAssumption
<1>1. \A n \in Node : Genesis(n) \in Blocks /\ Genesis(n).number = 0 /\ Genesis(n).txs = <<>>
  <2> SUFFICES ASSUME NEW n \in Node
               PROVE  Genesis(n) \in Blocks /\ Genesis(n).number = 0 /\ Genesis(n).txs = <<>>
    OBVIOUS
  <2>1. [number |-> 0, root |-> Origin[n]] \in Headers
    BY OriginAssumption DEF Headers
  <2>2. <<[number |-> 0, root |-> Origin[n]]>> \in Seq(Headers)
    BY <2>1
  <2> QED
    BY <2>2 DEF Genesis, Blocks
<1>2. \A n \in Node : /\ blocks[n] = <<Genesis(n)>> /\ blocks[n] \in Seq(Blocks)
                      /\ Len(blocks[n]) = 1 /\ DOMAIN blocks[n] = {1} /\ blocks[n][1] = Genesis(n)
                      /\ blocks[n] # <<>>
  BY <1>1 DEF Init
<1>3. ChainType
  BY <1>2, OriginAssumption DEF Init, ChainType
<1>4. LeaderChain
  BY <1>0, <1>1, <1>2 DEF Init, LeaderChain, Batches
<1>5. Copies
  BY <1>0, <1>1, <1>2 DEF Copies
<1>6. WireInv
  <2>1. Silence \in Messages
    BY DEF Silence, Messages, Kinds
  <2>2. [msg |-> Silence, to |-> {}] \in Calls
    BY <2>1 DEF Calls
  <2>3. CallerInv(blocks[Leader], caller)
    BY <2>2 DEF Init, CallerInv
  <2>4. QueueInv(blocks[Leader], queue) /\ QueueInv(blocks[Leader], waiting)
    BY DEF Init, QueueInv
  <2>5. ReaderInv(blocks[Leader], reader)
    BY IdleSound DEF Init, ReaderInv
  <2> QED
    BY <2>3, <2>4, <2>5 DEF WireInv
<1> QED
  BY <1>3, <1>4, <1>5, <1>6 DEF IInv, ChainInv

\* Every step keeps the invariant.
LEMMA NextInv == IInv /\ [Next]_vars => IInv'
<1> SUFFICES ASSUME IInv, [Next]_vars PROVE IInv'
  OBVIOUS
<1>1. ASSUME UNCHANGED chainVars PROVE ChainInv'
  BY <1>1 DEF IInv, ChainInv, chainVars, ChainType, LeaderChain, Copies
<1>2. CASE UNCHANGED vars
  BY <1>1, <1>2 DEF vars, chainVars, wireVars, IInv, WireInv
<1>3. ASSUME NEW txs \in Batches, NEW gift \in BOOLEAN, Mine(txs, gift) PROVE IInv'
  <2>1. ChainInv' /\ Keeps(blocks[Leader], blocks'[Leader])
    BY <1>3, MineKeepsChain DEF IInv
  <2>2. UNCHANGED <<caller, queue, waiting, reader>>
    BY <1>3 DEF Mine, wireVars
  <2> QED
    BY <2>1, <2>2, WireStays DEF IInv, WireInv
<1>4. CASE BroadcastLatest \/ \E n \in Node : CatchUp(n)
  BY <1>4, CallsKeepInv
<1>5. ASSUME NEW l \in Pairs, addPeer(l) PROVE IInv'
  BY <1>1, <1>5 DEF addPeer, chainVars, wireVars, IInv, WireInv
<1>6. ASSUME NEW l \in Pairs, Unblock(l) \/ Greet(l) \/ CallerWrites(l[1], l[2]) \/ Reply(l)
      PROVE  IInv'
  <2>1. UNCHANGED chainVars
    BY <1>6 DEF Unblock, Greet, CallerWrites, Reply
  <2> QED
    BY <1>1, <1>6, <2>1, MovesKeepWire DEF IInv
<1>7. ASSUME NEW l \in Pairs, handle(l) \/ ImportNext(l) PROVE IInv'
  BY <1>7, HandleKeepsInv, ImportNextKeepsInv
<1>8. ASSUME NEW l \in Pairs, TooLarge(l) PROVE IInv'
  BY <1>1, <1>8 DEF TooLarge, chainVars, wireVars, IInv, WireInv
<1> QED
  BY <1>2, <1>3, <1>4, <1>5, <1>6, <1>7, <1>8 DEF Next, Goroutine, readLoop

\* The invariant of replication.
THEOREM Invariance == Spec => []IInv
<1> QED
  BY InitInv, NextInv, PTL DEF Spec

-----------------------------------------------------------------------------
\* The entry of a log that stands for a block, and the log of a chain.
EntryOf(b) == [number |-> b.number, ids |-> [k \in DOMAIN b.txs |-> b.txs[k].id]]
LogOf(c) == [i \in 1..(Len(c) - 1) |-> EntryOf(c[i + 1])]

\* A log has an entry for each block but the genesis.
LEMMA LogTyped ==
  ASSUME NEW c \in Seq(Blocks), c # <<>>
  PROVE  /\ LogOf(c) \in Seq({EntryOf(b) : b \in Blocks})
         /\ Len(LogOf(c)) = Len(c) - 1
         /\ \A i \in 1..(Len(c) - 1) : LogOf(c)[i] = EntryOf(c[i + 1])
<1>1. Len(c) - 1 \in Nat /\ \A i \in 1..(Len(c) - 1) : c[i + 1] \in Blocks
  OBVIOUS
<1> QED
  BY <1>1 DEF LogOf

\* One more block is one more entry.
LEMMA LogAppend ==
  ASSUME NEW c \in Seq(Blocks), c # <<>>, NEW b \in Blocks
  PROVE  LogOf(Append(c, b)) = Append(LogOf(c), EntryOf(b))
<1> DEFINE E == {EntryOf(x) : x \in Blocks}
           d == Append(c, b)
<1>1. /\ d \in Seq(Blocks) /\ d # <<>> /\ Len(d) = Len(c) + 1 /\ d[Len(c) + 1] = b
      /\ \A i \in 1..Len(c) : d[i] = c[i]
  OBVIOUS
<1>2. /\ LogOf(c) \in Seq(E) /\ Len(LogOf(c)) = Len(c) - 1
      /\ \A i \in 1..(Len(c) - 1) : LogOf(c)[i] = EntryOf(c[i + 1])
  BY LogTyped
<1> HIDE DEF d
<1>3. /\ LogOf(d) \in Seq(E) /\ Len(LogOf(d)) = Len(c)
      /\ \A i \in 1..Len(c) : LogOf(d)[i] = EntryOf(d[i + 1])
  <2>1. /\ LogOf(d) \in Seq({EntryOf(x) : x \in Blocks})
        /\ Len(LogOf(d)) = Len(d) - 1
        /\ \A i \in 1..(Len(d) - 1) : LogOf(d)[i] = EntryOf(d[i + 1])
    BY <1>1, LogTyped
  <2>2. Len(d) - 1 = Len(c)
    BY <1>1
  <2> QED
    BY <2>1, <2>2
<1>4. EntryOf(b) \in E /\ Len(c) \in Nat \ {0}
  OBVIOUS
<1> HIDE DEF E
<1>5. /\ Append(LogOf(c), EntryOf(b)) \in Seq(E) /\ Len(Append(LogOf(c), EntryOf(b))) = Len(c)
      /\ Append(LogOf(c), EntryOf(b))[Len(c)] = EntryOf(b)
      /\ \A i \in 1..(Len(c) - 1) : Append(LogOf(c), EntryOf(b))[i] = LogOf(c)[i]
  BY <1>2, <1>4
<1>6. ASSUME NEW i \in 1..Len(c) PROVE LogOf(d)[i] = Append(LogOf(c), EntryOf(b))[i]
  <2>1. CASE i = Len(c)
    <3>1. LogOf(d)[Len(c)] = EntryOf(d[Len(c) + 1])
      BY <1>3, <1>4
    <3> QED
      BY <1>1, <1>5, <2>1, <3>1
  <2>2. CASE i \in 1..(Len(c) - 1)
    <3>1. i + 1 \in 1..Len(c)
      BY <1>4, <2>2
    <3>2. LogOf(d)[i] = EntryOf(d[i + 1]) /\ d[i + 1] = c[i + 1]
      BY <1>1, <1>3, <3>1
    <3>3. Append(LogOf(c), EntryOf(b))[i] = EntryOf(c[i + 1])
      BY <1>2, <1>5, <2>2
    <3> QED
      BY <3>2, <3>3
  <2>3. i = Len(c) \/ i \in 1..(Len(c) - 1)
    BY <1>4
  <2> QED
    BY <2>1, <2>2, <2>3
<1> HIDE DEF EntryOf
<1>7. LogOf(d) = Append(LogOf(c), EntryOf(b))
  BY <1>3, <1>5, <1>6
<1> QED
  BY <1>7 DEF d

\* The wire changes no id, so the entries of a node are the leader's.
LEMMA EntriesAgree ==
  ASSUME NEW b \in Blocks, NEW c \in Blocks, b.number = c.number, Wired(b.txs) = Wired(c.txs)
  PROVE  EntryOf(b) = EntryOf(c)
<1>1. b.txs \in Seq(TxFields) /\ c.txs \in Seq(TxFields)
  BY BlockFields
<1>2. DOMAIN b.txs = DOMAIN c.txs
  BY <1>1, WiredTyped
<1>3. \A k \in DOMAIN b.txs : b.txs[k].id = c.txs[k].id
  <2> SUFFICES ASSUME NEW k \in DOMAIN b.txs PROVE b.txs[k].id = c.txs[k].id
    OBVIOUS
  <2>1. Wire(b.txs[k]) = Wire(c.txs[k])
    BY <1>1, <1>2, WiredTyped
  <2>2. b.txs[k] \in TxFields /\ c.txs[k] \in TxFields
    BY <1>1, <1>2
  <2> QED
    BY <2>1, <2>2, WireTyped
<1> QED
  BY <1>2, <1>3 DEF EntryOf

\* A log that agrees with the leader's as far as it goes.
LEMMA LogsAgree ==
  ASSUME ChainInv, NEW n \in Node
  PROVE  /\ Len(LogOf(blocks[n])) <= Len(LogOf(blocks[Leader]))
         /\ \A i \in 1..Len(LogOf(blocks[n])) : LogOf(blocks[n])[i] = LogOf(blocks[Leader])[i]
<1> DEFINE c == blocks[n]
           L == blocks[Leader]
<1>1. /\ c \in Seq(Blocks) /\ L \in Seq(Blocks) /\ Len(c) <= Len(L) /\ c # <<>> /\ L # <<>>
  BY NodeAssumption DEF ChainInv, ChainType, Copies
<1>2. ASSUME NEW i \in 1..(Len(c) - 1)
      PROVE  EntryOf(c[i + 1]) = EntryOf(L[i + 1])
  <2>1. i + 1 \in DOMAIN c /\ i + 1 \in DOMAIN L
    BY <1>1
  <2>2. c[i + 1].number = L[i + 1].number /\ Wired(c[i + 1].txs) = Wired(L[i + 1].txs)
    BY <2>1 DEF ChainInv, Copies
  <2>3. c[i + 1] \in Blocks /\ L[i + 1] \in Blocks
    BY <1>1, <2>1
  <2> QED
    BY <2>2, <2>3, EntriesAgree
<1> HIDE DEF c, L
<1>3. /\ Len(LogOf(c)) = Len(c) - 1 /\ Len(LogOf(L)) = Len(L) - 1
      /\ \A i \in 1..(Len(c) - 1) : LogOf(c)[i] = EntryOf(c[i + 1])
      /\ \A i \in 1..(Len(L) - 1) : LogOf(L)[i] = EntryOf(L[i + 1])
  BY <1>1, LogTyped
<1>4. \A i \in 1..(Len(c) - 1) : i \in 1..(Len(L) - 1)
  BY <1>1
<1>5. Len(LogOf(c)) <= Len(LogOf(L)) /\ \A i \in 1..Len(LogOf(c)) : LogOf(c)[i] = LogOf(L)[i]
  BY <1>1, <1>2, <1>3, <1>4
<1> QED
  BY <1>5 DEF c, L

\* A node executes the leader's batches in the leader's order, with none skipped
\* and none twice, whatever BroadcastLatest, CatchUp, replyBlocks and importLocked
\* do in which order: SameBatches of the runs, for any number of nodes.
THEOREM BatchesSame == Spec => []SameBatches
<1>1. IInv => SameBatches
  <2> SUFFICES ASSUME ChainInv, NEW n \in Node PROVE IsPrefix(Log(n), Log(Leader))
    BY DEF IInv, SameBatches
  <2> DEFINE E == {EntryOf(b) : b \in Blocks}
             s == LogOf(blocks[n])
             t == LogOf(blocks[Leader])
  <2>1. s \in Seq(E) /\ t \in Seq(E)
    <3>1. /\ blocks[n] \in Seq(Blocks) /\ blocks[n] # <<>>
          /\ blocks[Leader] \in Seq(Blocks) /\ blocks[Leader] # <<>>
      BY NodeAssumption DEF ChainInv, ChainType
    <3> QED
      BY <3>1, LogTyped
  <2>2. Len(s) <= Len(t) /\ \A i \in 1..Len(s) : s[i] = t[i]
    BY LogsAgree
  <2>3. Log(n) = s /\ Log(Leader) = t
    BY DEF Log, LogOf, EntryOf
  <2> HIDE DEF E, s, t
  <2>4. SubSeq(s, 1, Len(s)) = SubSeq(t, 1, Len(s))
    BY <2>1, <2>2
  <2> QED
    BY <2>2, <2>3, <2>4 DEF IsPrefix
<1> QED
  BY <1>1, Invariance, PTL


-----------------------------------------------------------------------------
\* The log of one chain that grew; those of the others stay.
LEMMA GrownLog ==
  ASSUME ChainInv, NEW n \in Node, NEW b \in Blocks,
         blocks' = [blocks EXCEPT ![n] = Append(blocks[n], b)]
  PROVE  [m \in Node |-> LogOf(blocks'[m])] =
           [[m \in Node |-> LogOf(blocks[m])] EXCEPT ![n] = Append(LogOf(blocks[n]), EntryOf(b))]
<1>1. blocks[n] \in Seq(Blocks) /\ blocks[n] # <<>> /\ DOMAIN blocks = Node
  BY DEF ChainInv, ChainType
<1>2. LogOf(Append(blocks[n], b)) = Append(LogOf(blocks[n]), EntryOf(b))
  BY <1>1, LogAppend
<1>3. \A m \in Node : blocks'[m] = IF m = n THEN Append(blocks[n], b) ELSE blocks[m]
  BY <1>1
<1> DEFINE e == Append(LogOf(blocks[n]), EntryOf(b))
           f == [m \in Node |-> LogOf(blocks[m])]
<1>4. ASSUME NEW m \in Node PROVE LogOf(blocks'[m]) = IF m = n THEN e ELSE f[m]
  <2>1. f[m] = LogOf(blocks[m])
    OBVIOUS
  <2>2. CASE m = n
    BY <1>2, <1>3, <2>2
  <2>3. CASE m # n
    BY <1>3, <2>1, <2>3
  <2> QED
    BY <2>2, <2>3
<1>5. [f EXCEPT ![n] = e] = [m \in Node |-> IF m = n THEN e ELSE f[m]]
  OBVIOUS
<1> HIDE DEF e, f
<1>6. [m \in Node |-> LogOf(blocks'[m])] = [m \in Node |-> IF m = n THEN e ELSE f[m]]
  BY <1>4, Zenon
<1>7. [m \in Node |-> LogOf(blocks'[m])] = [f EXCEPT ![n] = e]
  BY <1>5, <1>6, Zenon
<1> QED
  BY <1>7 DEF e, f

\* An import copies the leader's next entry.
LEMMA ImportCopies ==
  ASSUME ChainInv, NEW n \in Node, NEW b \in Blocks, Carried(blocks[Leader], b),
         importLocked(n, b), blocks' # blocks
  PROVE  LET log == [m \in Node |-> LogOf(blocks[m])]
             next == Len(log[n]) + 1 IN
         /\ next <= Len(log[Leader])
         /\ log' = [log EXCEPT ![n] = Append(log[n], log[Leader][next])]
<1> DEFINE L == blocks[Leader]
           k == Len(blocks[n])
           w == Executed(world[n], b.txs)
           block == Sealed(Last(blocks[n]), b.number, b.txs, w)
<1>1. /\ Follows(n, b) /\ Executable(world[n], b.txs)
      /\ blocks' = [blocks EXCEPT ![n] = Append(blocks[n], block)]
  BY DEF importLocked, Extend, chainVars
<1>2. /\ k + 1 \in DOMAIN L /\ b.number = L[k + 1].number /\ b.txs = Wired(L[k + 1].txs)
  BY <1>1, ImportTakesNext
<1>3. /\ L \in Seq(Blocks) /\ L # <<>> /\ blocks[n] \in Seq(Blocks) /\ blocks[n] # <<>>
      /\ k \in Nat \ {0} /\ L[k + 1] \in Blocks /\ Leader \in Node
  BY <1>2, NodeAssumption DEF ChainInv, ChainType
<1>4. block \in Blocks /\ block.number = b.number /\ block.txs = b.txs
  <2>1. b.txs \in Seq(TxFields) /\ b.number \in Nat /\ world[n] \in Worlds /\ blocks[n][k] \in Blocks
    BY <1>3, BlockFields DEF ChainInv, ChainType
  <2>2. w \in Worlds
    BY <1>1, <2>1, ExecutedTyped
  <2> QED
    BY <2>1, <2>2, SealedTyped DEF Last, Sealed
<1> HIDE DEF block
<1>5. EntryOf(block) = EntryOf(L[k + 1])
  <2>1. Wired(block.txs) = Wired(L[k + 1].txs)
    BY <1>2, <1>3, <1>4, BlockFields, WiredTyped
  <2> QED
    BY <1>2, <1>3, <1>4, <2>1, EntriesAgree
<1>6. Len(LogOf(blocks[n])) = k - 1 /\ Len(LogOf(L)) = Len(L) - 1
  BY <1>3, LogTyped
<1>7. k \in 1..(Len(L) - 1)
  BY <1>2, <1>3
<1>8. LogOf(L)[k] = EntryOf(L[k + 1])
  BY <1>3, <1>7, LogTyped
<1>9. [m \in Node |-> LogOf(blocks'[m])] =
        [[m \in Node |-> LogOf(blocks[m])] EXCEPT ![n] = Append(LogOf(blocks[n]), EntryOf(block))]
  BY <1>1, <1>4, GrownLog
<1>10. k = Len(LogOf(blocks[n])) + 1 /\ k <= Len(LogOf(L))
  BY <1>3, <1>6, <1>7
<1> QED
  BY <1>3, <1>5, <1>8, <1>9, <1>10

\* Mine adds an entry for the block it seals.
LEMMA MineExtends ==
  ASSUME ChainInv, NEW txs \in Batches, NEW gift \in BOOLEAN, Mine(txs, gift), blocks' # blocks
  PROVE  LET log == [m \in Node |-> LogOf(blocks[m])] IN
         \E e \in [number : 0..MaxNumber, ids : {<<>>} \cup {<<t.id>> : t \in Tx}] :
           log' = [log EXCEPT ![Leader] = Append(log[Leader], e)]
<1> DEFINE w == IF gift THEN Append(world[Leader], Credit) ELSE world[Leader]
           num == number[Leader] + 1
           block == Sealed(Last(blocks[Leader]), num, txs, SealedRoot(w, txs))
           e == [number |-> num, ids |-> [k \in DOMAIN txs |-> txs[k].id]]
<1>1. /\ blocks' = [blocks EXCEPT ![Leader] = Append(blocks[Leader], block)]
      /\ Executable(w, txs) /\ number[Leader] < MaxNumber
  BY DEF Mine, produceLocked
<1>2. /\ Leader \in Node /\ number[Leader] \in Nat /\ MaxNumber \in Nat /\ world[Leader] \in Worlds
      /\ blocks[Leader] \in Seq(Blocks) /\ blocks[Leader] # <<>> /\ Last(blocks[Leader]) \in Blocks
  BY NodeAssumption DEF ChainInv, ChainType, Last
<1>3. block \in Blocks /\ block.number = num /\ block.txs = txs
  <2>1. w \in Worlds /\ txs \in Seq(TxFields)
    BY <1>2, BatchTyped DEF Worlds
  <2> HIDE DEF w
  <2>2. Executed(w, txs) \in Worlds
    BY <1>1, <2>1, ExecutedTyped
  <2> QED
    BY <1>2, <2>1, <2>2, SealedTyped DEF Sealed, SealedRoot
<1> HIDE DEF block
<1>4. EntryOf(block) = e
  BY <1>3 DEF EntryOf
<1>5. e \in [number : 0..MaxNumber, ids : {<<>>} \cup {<<t.id>> : t \in Tx}]
  <2>1. num \in 0..MaxNumber
    BY <1>1, <1>2
  <2>2. CASE txs = <<>>
    <3>1. [k \in DOMAIN txs |-> txs[k].id] = <<>>
      BY <2>2
    <3> QED
      BY <2>1, <3>1
  <2>3. ASSUME NEW t \in Tx, txs = <<t>> PROVE e.ids = <<t.id>>
    <3>1. DOMAIN txs = 1..1 /\ txs[1] = t
      BY <2>3
    <3> QED
      BY <3>1
  <2> QED
    BY <2>1, <2>2, <2>3 DEF Batches
<1> HIDE DEF e
<1>6. [m \in Node |-> LogOf(blocks'[m])] =
        [[m \in Node |-> LogOf(blocks[m])] EXCEPT ![Leader] = Append(LogOf(blocks[Leader]), e)]
  BY <1>1, <1>2, <1>3, <1>4, GrownLog
<1> QED
  BY <1>2, <1>5, <1>6

\* What handle imports is a carried block.
LEMMA HandleImports ==
  ASSUME WireInv, ~UNCHANGED chainVars, NEW l \in Pairs, handle(l)
  PROVE  \E n \in Node : \E b \in Blocks : Carried(blocks[Leader], b) /\ importLocked(n, b)
<1> DEFINE msg == Head(queue[l])
<1>1. l[2] \in Node
  BY DEF Pairs
<1>2. /\ queue[l] # <<>> /\ msg.kind = "new_block" /\ importLocked(l[2], msg.list[1])
  BY DEF handle
<1>3. msg \in Messages /\ SoundMessage(blocks[Leader], msg)
  BY <1>2, HeadSound DEF WireInv
<1>4. msg.list[1] \in Blocks /\ Carried(blocks[Leader], msg.list[1])
  BY <1>2, <1>3, FirstOfList DEF SoundMessage, Messages
<1> QED
  BY <1>1, <1>2, <1>4

\* So is what ImportNext imports.
LEMMA ImportNextImports ==
  ASSUME WireInv, NEW l \in Pairs, ImportNext(l)
  PROVE  \E n \in Node : \E b \in Blocks : Carried(blocks[Leader], b) /\ importLocked(n, b)
<1> DEFINE list == reader[l].list
<1>1. l[2] \in Node
  BY DEF Pairs
<1>2. reader[l].kind = "import" /\ importLocked(l[2], Head(list))
  BY DEF ImportNext
<1>3. list \in Seq(Blocks) /\ list # <<>> /\ SoundList(blocks[Leader], list)
  BY <1>2 DEF WireInv, ReaderInv, Reading
<1>4. Head(list) \in Blocks /\ Carried(blocks[Leader], Head(list))
  BY <1>3, FirstOfList
<1> QED
  BY <1>1, <1>2, <1>4

\* Every step is a step of the replicated log, or none.
LEMMA StepRefines ==
  ASSUME IInv, [Next]_vars
  PROVE  [Replicated!Next]_([n \in Node |-> Log(n)])
<1> DEFINE log == [m \in Node |-> LogOf(blocks[m])]
           Entry == [number : 0..MaxNumber, ids : {<<>>} \cup {<<t.id>> : t \in Tx}]
<1>1. [n \in Node |-> Log(n)] = log /\ [n \in Node |-> Log(n)]' = log'
  BY DEF Log, LogOf, EntryOf
<1>2. SUFFICES \/ log' = log
               \/ \E e \in Entry : log' = [log EXCEPT ![Leader] = Append(log[Leader], e)]
               \/ \E n \in Node :
                    /\ Len(log[n]) + 1 <= Len(log[Leader])
                    /\ log' = [log EXCEPT ![n] = Append(log[n], log[Leader][Len(log[n]) + 1])]
  <2> HIDE DEF log
  <2> QED
    BY <1>1 DEF Replicated!Next, Replicated!Extend, Replicated!Copy
<1>3. CASE UNCHANGED blocks
  BY <1>3
<1>4. ChainInv /\ WireInv
  BY DEF IInv
<1>5. ASSUME blocks' # blocks, NEW txs \in Batches, NEW gift \in BOOLEAN, Mine(txs, gift)
      PROVE  \E e \in Entry : log' = [log EXCEPT ![Leader] = Append(log[Leader], e)]
  BY <1>4, <1>5, MineExtends
<1>6. ASSUME blocks' # blocks, NEW n \in Node, NEW b \in Blocks, Carried(blocks[Leader], b),
             importLocked(n, b)
      PROVE  /\ Len(log[n]) + 1 <= Len(log[Leader])
             /\ log' = [log EXCEPT ![n] = Append(log[n], log[Leader][Len(log[n]) + 1])]
  BY <1>4, <1>6, ImportCopies
<1> HIDE DEF log, Entry
<1>7. ASSUME blocks' # blocks, NEW l \in Pairs, handle(l) \/ ImportNext(l)
      PROVE  \E n \in Node : \E b \in Blocks : Carried(blocks[Leader], b) /\ importLocked(n, b)
  BY <1>4, <1>7, HandleImports, ImportNextImports DEF chainVars
<1>8. \/ UNCHANGED blocks
      \/ \E txs \in Batches, gift \in BOOLEAN : Mine(txs, gift)
      \/ \E l \in Pairs : handle(l) \/ ImportNext(l)
  BY DEF Next, Goroutine, readLoop, BroadcastLatest, CatchUp, addPeer, Unblock, Greet, CallerWrites,
         Reply, TooLarge, vars, chainVars
<1> QED
  BY <1>3, <1>5, <1>6, <1>7, <1>8

\* The nodes of p2p.go implement a replicated log: the leader alone adds batches,
\* and a node only ever copies the entry after its last.
THEOREM Refinement == Spec => Refines
<1>1. Init => Replicated!Init
  <2> SUFFICES ASSUME Init, NEW n \in Node PROVE Log(n) = <<>>
    BY DEF Replicated!Init
  <2>1. blocks[n] = <<Genesis(n)>>
    BY DEF Init
  <2>2. 1..(Len(blocks[n]) - 1) = {}
    BY <2>1
  <2>3. Log(n) \in [{} -> {}]
    BY <2>2 DEF Log
  <2> QED
    BY <2>3
<1>2. IInv /\ [Next]_vars => [Replicated!Next]_([n \in Node |-> Log(n)])
  BY StepRefines
<1> QED
  BY <1>1, <1>2, Invariance, PTL DEF Spec, Refines, Replicated!Spec

-----------------------------------------------------------------------------
\* Agreement needs more: the hashes hold the roots, and what is executed comes
\* from the wire.
RootOf(b) == Last(b.hash).root

\* A follower's last header holds the root of its world.
FollowersAtRoot ==
  \A n \in Node \ {Leader} : world[n] = RootOf(Last(blocks[n]))

\* So does the leader's, and each of its headers follows from the one before.
LeaderHashes ==
  LET L == blocks[Leader] IN
  /\ world[Leader] = RootOf(Last(L))
  /\ \A i \in 1..(Len(L) - 1) :
       L[i + 1].hash = Append(L[i].hash, [number |-> L[i + 1].number,
                                          root   |-> Executed(RootOf(L[i]), L[i + 1].txs)])

SameHashes ==
  \A n \in Node : Origin[n] = Origin[Leader] =>
    \A i \in DOMAIN blocks[n] : blocks[n][i].hash = blocks[Leader][i].hash

AgreementInv == FollowersAtRoot /\ (Untroubled => LeaderHashes /\ SameHashes)

\* Where the wire keeps what matters, the effect is the same.
LEMMA WireKeepsEffect ==
  ASSUME NEW t \in TxFields, Faithful(t)
  PROVE  Effect(Wire(t)) = Effect(t)
<1>1. /\ t.price \in Nat /\ t.tip \in Nat /\ t.access = 0 /\ BaseFee \in Nat
      /\ t.dynamic => t.tip # 0 \/ t.price = BaseFee
  BY NodeAssumption DEF TxFields, Faithful
<1>2. /\ Wire(t).id = t.id /\ Wire(t).access = 0 /\ Wire(t).price = t.price
      /\ Wire(t).dynamic = t.dynamic /\ Wire(t).tip = IF t.tip = 0 THEN t.price ELSE t.tip
  BY DEF Wire, TxFields
<1> DEFINE room == t.price - BaseFee
           paid == IF t.dynamic /\ t.tip < room THEN t.tip ELSE room
<1>3. paid = IF t.dynamic /\ Wire(t).tip < room THEN Wire(t).tip ELSE room
  <2>1. CASE ~t.dynamic
    BY <2>1
  <2>2. CASE t.tip # 0
    BY <1>2, <2>2
  <2>3. CASE t.tip = 0 /\ t.price = BaseFee
    BY <1>1, <1>2, <2>3
  <2> QED
    BY <1>1, <2>1, <2>2, <2>3
<1> HIDE DEF paid
<1>4. Effect(t) = [id |-> t.id, access |-> 0, paid |-> paid]
  BY <1>1 DEF Effect, paid
<1>5. Effect(Wire(t)) = [id |-> t.id, access |-> 0, paid |-> paid]
  BY <1>2, <1>3 DEF Effect
<1> QED
  BY <1>4, <1>5

\* A batch from the wire leaves the world its original leaves.
LEMMA ExecutedSame ==
  ASSUME NEW w, NEW txs \in Batches, \A i \in DOMAIN txs : Faithful(txs[i])
  PROVE  Executed(w, Wired(txs)) = Executed(w, txs)
<1>1. \A i \in DOMAIN txs : txs[i] \in TxFields
  BY BatchTyped, NodeAssumption
<1>2. DOMAIN Wired(txs) = DOMAIN txs /\ \A i \in DOMAIN txs : Wired(txs)[i] = Wire(txs[i])
  BY DEF Wired
<1>3. \A i \in DOMAIN txs : Effect(Wired(txs)[i]) = Effect(txs[i])
  BY <1>1, <1>2, WireKeepsEffect
<1>4. [i \in DOMAIN Wired(txs) |-> Effect(Wired(txs)[i])] = [i \in DOMAIN txs |-> Effect(txs[i])]
  BY <1>2, <1>3, Zenon
<1> QED
  BY <1>4 DEF Executed

\* The header sealed last holds the root.
LEMMA SealedAtRoot ==
  ASSUME NEW p \in Blocks, NEW num, NEW txs, NEW w
  PROVE  /\ RootOf(Sealed(p, num, txs, w)) = w
         /\ Sealed(p, num, txs, w).hash = Append(p.hash, [number |-> num, root |-> w])
<1> DEFINE h == [number |-> num, root |-> w]
<1>1. p.hash \in Seq(Headers) /\ Sealed(p, num, txs, w).hash = Append(p.hash, h)
  BY BlockFields DEF Sealed
<1>2. h.root = w
  OBVIOUS
<1> HIDE DEF h
<1>3. Last(Append(p.hash, h)) = h
  BY <1>1 DEF Last
<1> QED
  BY <1>1, <1>2, <1>3 DEF RootOf, h

\* An import: the follower seals the leader's next hash.
LEMMA ImportKeepsAgreement ==
  ASSUME ChainInv, AgreementInv, NEW n \in Node, NEW b \in Blocks,
         Carried(blocks[Leader], b), importLocked(n, b)
  PROVE  AgreementInv'
<1>1. CASE UNCHANGED chainVars
  BY <1>1 DEF AgreementInv, FollowersAtRoot, LeaderHashes, SameHashes, Untroubled, chainVars
<1>2. CASE Follows(n, b) /\ Executable(world[n], b.txs) /\ Extend(n, b)
  <2> DEFINE L == blocks[Leader]
             k == Len(blocks[n])
             w == Executed(world[n], b.txs)
             block == Sealed(Last(blocks[n]), b.number, b.txs, w)
  <2>1. /\ n # Leader /\ k + 1 \in DOMAIN L
        /\ b.number = L[k + 1].number /\ b.txs = Wired(L[k + 1].txs)
    BY <1>2, ImportTakesNext
  <2>2. /\ world' = [world EXCEPT ![n] = w]
        /\ number' = [number EXCEPT ![n] = b.number]
        /\ blocks' = [blocks EXCEPT ![n] = Append(blocks[n], block)]
    BY <1>2 DEF Extend
  <2>3. /\ blocks[n] \in Seq(Blocks) /\ k \in Nat \ {0} /\ Last(blocks[n]) \in Blocks
        /\ L \in Seq(Blocks) /\ Leader \in Node /\ Last(blocks[n]) = blocks[n][k]
    BY NodeAssumption DEF ChainInv, ChainType, Last
  <2>4. /\ RootOf(block) = w
        /\ block.hash = Append(blocks[n][k].hash, [number |-> b.number, root |-> w])
    BY <2>3, SealedAtRoot
  <2> HIDE DEF block
  <2>5. /\ blocks'[n] = Append(blocks[n], block) /\ world'[n] = w
        /\ \A m \in Node \ {n} : blocks'[m] = blocks[m] /\ world'[m] = world[m] /\ number'[m] = number[m]
    BY <2>2, <2>3 DEF ChainInv, ChainType
  <2>6. /\ Last(Append(blocks[n], block)) = block /\ DOMAIN Append(blocks[n], block) = 1..(k + 1)
        /\ Append(blocks[n], block)[k + 1] = block
        /\ \A i \in 1..k : Append(blocks[n], block)[i] = blocks[n][i]
    BY <2>3 DEF Last
  <2>7. FollowersAtRoot'
    BY <2>1, <2>4, <2>5, <2>6 DEF AgreementInv, FollowersAtRoot
  <2>8. blocks'[Leader] = L /\ world'[Leader] = world[Leader] /\ number'[Leader] = number[Leader]
    BY <2>1, <2>3, <2>5
  <2>9. SUFFICES ASSUME Untroubled' PROVE LeaderHashes' /\ SameHashes'
    BY <2>7 DEF AgreementInv
  <2>10. Untroubled /\ LeaderHashes /\ SameHashes
    BY <2>8, <2>9 DEF Untroubled, AgreementInv
  <2>11. LeaderHashes'
    BY <2>8, <2>10 DEF LeaderHashes
  <2>12. ASSUME Origin[n] = Origin[Leader] PROVE block.hash = L[k + 1].hash
    <3>1. blocks[n][k].hash = L[k].hash
      BY <2>3, <2>10, <2>12 DEF SameHashes
    <3>2. world[n] = RootOf(blocks[n][k])
      BY <2>1, <2>3 DEF AgreementInv, FollowersAtRoot
    <3>3. world[n] = RootOf(L[k])
      BY <3>1, <3>2 DEF RootOf
    <3>4. w = Executed(RootOf(L[k]), L[k + 1].txs)
      <4>1. L[k + 1].txs \in Batches
        BY <2>1 DEF ChainInv, LeaderChain
      <4>2. \A i \in DOMAIN L[k + 1].txs : Faithful(L[k + 1].txs[i])
        BY <2>1, <2>10 DEF Untroubled
      <4> QED
        BY <2>1, <3>3, <4>1, <4>2, ExecutedSame
    <3>5. k \in 1..(Len(L) - 1)
      BY <2>1, <2>3
    <3>6. L[k + 1].hash = Append(L[k].hash, [number |-> L[k + 1].number,
                                             root |-> Executed(RootOf(L[k]), L[k + 1].txs)])
      BY <2>10, <3>5 DEF LeaderHashes
    <3> HIDE DEF w
    <3> QED
      BY <2>1, <2>4, <3>1, <3>4, <3>6
  <2>13. SameHashes'
    <3> SUFFICES ASSUME NEW m \in Node, Origin[m] = Origin[Leader], NEW i \in DOMAIN blocks'[m]
                 PROVE  blocks'[m][i].hash = L[i].hash
      BY <2>8 DEF SameHashes
    <3>1. CASE m # n
      BY <2>5, <2>10, <3>1 DEF SameHashes
    <3>2. CASE m = n /\ i = k + 1
      BY <2>5, <2>6, <2>12, <3>2
    <3>3. CASE m = n /\ i \in 1..k
      BY <2>3, <2>5, <2>6, <2>10, <3>3 DEF SameHashes
    <3>4. m = n => i = k + 1 \/ i \in 1..k
      BY <2>3, <2>5, <2>6
    <3> QED
      BY <3>1, <3>2, <3>3, <3>4
  <2> QED
    BY <2>11, <2>13
<1> QED
  BY <1>1, <1>2 DEF importLocked

\* What a node's world holds, it keeps: Mine can only end the untroubled time, or
\* seal a block on the world of the last.
LEMMA MineKeepsAgreement ==
  ASSUME ChainInv, AgreementInv, NEW txs \in Batches, NEW gift \in BOOLEAN, Mine(txs, gift)
  PROVE  AgreementInv'
<1> DEFINE L == blocks[Leader]
           k == Len(L)
           w == IF gift THEN Append(world[Leader], Credit) ELSE world[Leader]
           num == number[Leader] + 1
           block == Sealed(Last(L), num, txs, SealedRoot(w, txs))
           runs == Executable(w, txs)
           fits == \A i \in DOMAIN txs : ~txs[i].big
<1>1. /\ number' = [number EXCEPT ![Leader] = num]
      /\ world' = [world EXCEPT ![Leader] = IF runs THEN Executed(w, txs) ELSE w]
      /\ blocks' = IF runs /\ fits THEN [blocks EXCEPT ![Leader] = Append(L, block)] ELSE blocks
  BY DEF Mine, produceLocked
<1>2. /\ Leader \in Node /\ L \in Seq(Blocks) /\ k \in Nat \ {0} /\ Last(L) \in Blocks /\ Last(L) = L[k]
      /\ number[Leader] \in Nat /\ world[Leader] \in Worlds /\ w \in Worlds
      /\ txs \in Seq(TxFields)
  BY NodeAssumption, BatchTyped DEF ChainInv, ChainType, Last, Worlds
<1>3. /\ number'[Leader] = num /\ world'[Leader] = IF runs THEN Executed(w, txs) ELSE w
      /\ \A m \in Node \ {Leader} : blocks'[m] = blocks[m] /\ world'[m] = world[m]
      /\ blocks'[Leader] = IF runs /\ fits THEN Append(L, block) ELSE L
  <2> HIDE DEF block, w, num, runs, fits
  <2> QED
    BY <1>1, <1>2 DEF ChainInv, ChainType
<1>4. FollowersAtRoot'
  BY <1>3 DEF AgreementInv, FollowersAtRoot
<1>5. SUFFICES ASSUME Untroubled' PROVE LeaderHashes' /\ SameHashes'
  BY <1>4 DEF AgreementInv
<1>6. /\ number'[Leader] = Len(blocks'[Leader]) - 1 /\ Credit \notin Range(world'[Leader])
      /\ \A i \in DOMAIN blocks'[Leader] : \A j \in DOMAIN blocks'[Leader][i].txs :
           Faithful(blocks'[Leader][i].txs[j])
  BY <1>5 DEF Untroubled
<1>7. runs /\ fits
  <2>1. SUFFICES ASSUME ~(runs /\ fits) PROVE FALSE
    OBVIOUS
  <2>2. num = k - 1
    BY <1>3, <1>6, <2>1
  <2> QED
    BY <1>2, <2>2 DEF ChainInv, LeaderChain
<1>8. world'[Leader] = Executed(w, txs) /\ blocks'[Leader] = Append(L, block)
  BY <1>3, <1>7
<1>9. Credit \notin Range(w)
  <2>1. Executed(w, txs) \in Worlds /\ \A i \in DOMAIN w : Executed(w, txs)[i] = w[i]
    <3> HIDE DEF w
    <3> QED
      BY <1>2, <1>7, ExecutedTyped
  <2>2. DOMAIN w \subseteq DOMAIN Executed(w, txs)
    <3> HIDE DEF w
    <3>1. Executed(w, txs) = w \o [i \in DOMAIN txs |-> Effect(txs[i])]
      BY DEF Executed
    <3>2. [i \in DOMAIN txs |-> Effect(txs[i])] \in Seq({Effect(txs[i]) : i \in DOMAIN txs})
      BY <1>2
    <3>3. Len(Executed(w, txs)) >= Len(w)
      BY <1>2, <3>1, <3>2 DEF Worlds
    <3> QED
      BY <1>2, <2>1, <3>3 DEF Worlds
  <2> HIDE DEF w
  <2> QED
    BY <1>6, <1>8, <2>1, <2>2 DEF Range
<1>10. ~gift
  <2>1. SUFFICES ASSUME gift PROVE Credit \in Range(w)
    BY <1>9
  <2>2. w = Append(world[Leader], Credit)
    BY <2>1
  <2>3. /\ Len(world[Leader]) + 1 \in DOMAIN Append(world[Leader], Credit)
        /\ Append(world[Leader], Credit)[Len(world[Leader]) + 1] = Credit
    BY <1>2 DEF Worlds
  <2> HIDE DEF w
  <2> QED
    BY <2>2, <2>3 DEF Range
<1>11. w = world[Leader]
  BY <1>10
<1>12. number[Leader] = k - 1
  <2>1. Len(Append(L, block)) = k + 1
    BY <1>2
  <2> QED
    BY <1>2, <1>3, <1>6, <1>8, <2>1, SMTT(30)
<1>13. Untroubled /\ LeaderHashes /\ SameHashes
  <2>1. \A i \in DOMAIN L : i \in DOMAIN blocks'[Leader] /\ blocks'[Leader][i] = L[i]
    <3> HIDE DEF block
    <3> QED
      BY <1>2, <1>8
  <2>2. \A i \in DOMAIN L : \A j \in DOMAIN L[i].txs : Faithful(L[i].txs[j])
    BY <1>6, <2>1
  <2>3. Untroubled
    BY <1>9, <1>11, <1>12, <2>2 DEF Untroubled
  <2> QED
    BY <2>3 DEF AgreementInv
<1>14. /\ RootOf(block) = Executed(w, txs) /\ block.number = num /\ block.txs = txs
       /\ block.hash = Append(L[k].hash, [number |-> num, root |-> Executed(w, txs)])
  <2> HIDE DEF w, num
  <2>1. block = Sealed(L[k], num, txs, Executed(w, txs)) /\ L[k] \in Blocks
    BY <1>2 DEF SealedRoot
  <2>2. /\ RootOf(Sealed(L[k], num, txs, Executed(w, txs))) = Executed(w, txs)
        /\ Sealed(L[k], num, txs, Executed(w, txs)).hash
             = Append(L[k].hash, [number |-> num, root |-> Executed(w, txs)])
    BY <2>1, SealedAtRoot
  <2>3. Sealed(L[k], num, txs, Executed(w, txs)).number = num
        /\ Sealed(L[k], num, txs, Executed(w, txs)).txs = txs
    BY DEF Sealed
  <2> QED
    BY <2>1, <2>2, <2>3
<1> HIDE DEF block
<1>15. /\ Len(Append(L, block)) = k + 1 /\ Last(Append(L, block)) = block
       /\ DOMAIN Append(L, block) = 1..(k + 1) /\ Append(L, block)[k + 1] = block
       /\ DOMAIN L = 1..k
       /\ \A i \in 1..k : Append(L, block)[i] = L[i]
  BY <1>2 DEF Last
<1>16. LeaderHashes'
  <2> DEFINE M == Append(L, block)
  <2>1. world'[Leader] = RootOf(Last(M))
    BY <1>8, <1>14, <1>15
  <2>2. ASSUME NEW i \in 1..k
        PROVE  M[i + 1].hash = Append(M[i].hash, [number |-> M[i + 1].number,
                                                  root   |-> Executed(RootOf(M[i]), M[i + 1].txs)])
    <3>1. CASE i = k
      <4>1. w = RootOf(L[k])
        BY <1>2, <1>11, <1>13 DEF LeaderHashes
      <4>2. M[i + 1] = block /\ M[i] = L[k]
        BY <1>2, <1>15, <3>1
      <4> HIDE DEF M, w
      <4> QED
        BY <1>14, <4>1, <4>2
    <3>2. CASE i \in 1..(k - 1)
      <4>1. M[i] = L[i] /\ M[i + 1] = L[i + 1]
        BY <1>2, <1>15, <3>2
      <4> HIDE DEF M
      <4> QED
        BY <1>13, <3>2, <4>1 DEF LeaderHashes
    <3>3. i = k \/ i \in 1..(k - 1)
      BY <1>2
    <3> QED
      BY <3>1, <3>2, <3>3
  <2>3. Len(M) - 1 = k
    BY <1>2, <1>15
  <2> HIDE DEF M
  <2> QED
    BY <1>8, <2>1, <2>2, <2>3 DEF LeaderHashes, M
<1>17. SameHashes'
  <2> SUFFICES ASSUME NEW m \in Node, Origin[m] = Origin[Leader], NEW i \in DOMAIN blocks'[m]
               PROVE  blocks'[m][i].hash = Append(L, block)[i].hash
    BY <1>8 DEF SameHashes
  <2>1. CASE m = Leader
    BY <1>8, <2>1
  <2>2. CASE m # Leader
    <3>1. blocks'[m] = blocks[m]
      BY <1>3, <2>2
    <3>2. i \in 1..k
      BY <1>2, <3>1 DEF ChainInv, ChainType, Copies
    <3> QED
      BY <1>13, <1>15, <3>1, <3>2 DEF SameHashes
  <2> QED
    BY <2>1, <2>2
<1> QED
  BY <1>16, <1>17

\* Every step keeps the agreement.
LEMMA NextAgreement ==
  ASSUME IInv, AgreementInv, [Next]_vars
  PROVE  AgreementInv'
<1>1. ChainInv /\ WireInv
  BY DEF IInv
<1>2. CASE UNCHANGED chainVars
  BY <1>2 DEF AgreementInv, FollowersAtRoot, LeaderHashes, SameHashes, Untroubled, chainVars
<1>3. CASE \E txs \in Batches, gift \in BOOLEAN : Mine(txs, gift)
  BY <1>1, <1>3, MineKeepsAgreement
<1>4. ASSUME NEW l \in Pairs, handle(l), ~UNCHANGED chainVars PROVE AgreementInv'
  <2>1. PICK n \in Node, b \in Blocks : Carried(blocks[Leader], b) /\ importLocked(n, b)
    BY <1>1, <1>4, HandleImports
  <2> QED
    BY <1>1, <2>1, ImportKeepsAgreement
<1>5. ASSUME NEW l \in Pairs, ImportNext(l) PROVE AgreementInv'
  <2>1. PICK n \in Node, b \in Blocks : Carried(blocks[Leader], b) /\ importLocked(n, b)
    BY <1>1, <1>5, ImportNextImports
  <2> QED
    BY <1>1, <2>1, ImportKeepsAgreement
<1>6. \/ UNCHANGED chainVars
      \/ \E txs \in Batches, gift \in BOOLEAN : Mine(txs, gift)
      \/ \E l \in Pairs : handle(l) \/ ImportNext(l)
  BY DEF Next, Goroutine, readLoop, BroadcastLatest, CatchUp, addPeer, Unblock, Greet, CallerWrites,
         Reply, TooLarge, vars, chainVars
<1> QED
  BY <1>2, <1>3, <1>4, <1>5, <1>6

\* The hashes of a chain are a sequence as long as it.
LEMMA HashesTyped ==
  ASSUME NEW c \in Seq(Blocks)
  PROVE  /\ [i \in DOMAIN c |-> c[i].hash] \in Seq(Seq(Headers))
         /\ Len([i \in DOMAIN c |-> c[i].hash]) = Len(c)
<1>1. \A i \in DOMAIN c : c[i].hash \in Seq(Headers)
  BY BlockFields
<1> QED
  BY <1>1

\* A node that began with the leader's genesis has the leader's hashes and, at its
\* height, its state, until a block of the leader fails or a deposit reaches it
\* (ProduceBlock's two side effects that importLocked does not repeat), or it seals a
\* transaction of which the wire loses what matters: a tip of zero, an access list.
THEOREM AgreementHolds == Spec => []AgreementUntilTrouble
<1>1. Init => AgreementInv
  <2> SUFFICES ASSUME Init PROVE AgreementInv
    OBVIOUS
  <2>1. \A n \in Node : /\ blocks[n] = <<Genesis(n)>> /\ Last(blocks[n]) = Genesis(n)
                        /\ Len(blocks[n]) = 1 /\ DOMAIN blocks[n] = {1} /\ blocks[n][1] = Genesis(n)
    BY DEF Init, Last
  <2>2. \A n \in Node : /\ Genesis(n).hash = <<[number |-> 0, root |-> Origin[n]]>>
                        /\ RootOf(Genesis(n)) = Origin[n]
    BY DEF Genesis, RootOf, Last
  <2>3. Leader \in Node /\ world = Origin
    BY NodeAssumption DEF Init
  <2>4. FollowersAtRoot
    BY <2>1, <2>2, <2>3 DEF FollowersAtRoot
  <2>5. LeaderHashes
    <3>0. Len(blocks[Leader]) = 1
      BY <2>1, <2>3
    <3>1. 1..(Len(blocks[Leader]) - 1) = {}
      BY <3>0
    <3> QED
      BY <2>1, <2>2, <2>3, <3>1 DEF LeaderHashes
  <2>6. SameHashes
    <3> SUFFICES ASSUME NEW n \in Node, Origin[n] = Origin[Leader], NEW i \in DOMAIN blocks[n]
                 PROVE  blocks[n][i].hash = blocks[Leader][i].hash
      BY DEF SameHashes
    <3>1. blocks[n][i] = Genesis(n) /\ blocks[Leader][i] = Genesis(Leader)
      BY <2>1, <2>3
    <3> QED
      BY <2>2, <2>3, <3>1
  <2> QED
    BY <2>4, <2>5, <2>6 DEF AgreementInv
<1>2. IInv /\ AgreementInv /\ [Next]_vars => AgreementInv'
  BY NextAgreement
<1>3. IInv /\ AgreementInv => AgreementUntilTrouble
  <2> SUFFICES ASSUME ChainInv, AgreementInv, Untroubled, NEW n \in Node, Origin[n] = Origin[Leader]
               PROVE  /\ IsPrefix([i \in DOMAIN blocks[n] |-> blocks[n][i].hash],
                                   [i \in DOMAIN blocks[Leader] |-> blocks[Leader][i].hash])
                      /\ Len(blocks[n]) = Len(blocks[Leader]) => world[n] = world[Leader]
    BY DEF IInv, AgreementUntilTrouble, Agreement
  <2> DEFINE s == [i \in DOMAIN blocks[n] |-> blocks[n][i].hash]
             t == [i \in DOMAIN blocks[Leader] |-> blocks[Leader][i].hash]
  <2>1. /\ blocks[n] \in Seq(Blocks) /\ blocks[Leader] \in Seq(Blocks) /\ Leader \in Node
        /\ blocks[n] # <<>> /\ blocks[Leader] # <<>> /\ Len(blocks[n]) <= Len(blocks[Leader])
    BY NodeAssumption DEF ChainInv, ChainType, Copies
  <2>2. \A i \in DOMAIN blocks[n] : blocks[n][i].hash = blocks[Leader][i].hash
    BY DEF AgreementInv, SameHashes
  <2>3. s \in Seq(Seq(Headers)) /\ t \in Seq(Seq(Headers)) /\ Len(s) = Len(blocks[n])
        /\ Len(t) = Len(blocks[Leader]) /\ \A i \in 1..Len(s) : s[i] = t[i]
    <3>2. s \in Seq(Seq(Headers)) /\ Len(s) = Len(blocks[n])
      BY <2>1, HashesTyped
    <3>3. t \in Seq(Seq(Headers)) /\ Len(t) = Len(blocks[Leader])
      BY <2>1, HashesTyped
    <3>4. ASSUME NEW i \in 1..Len(s) PROVE s[i] = t[i]
      <4>1. i \in DOMAIN blocks[n] /\ i \in DOMAIN blocks[Leader]
        BY <2>1, <3>2
      <4> QED
        BY <2>2, <4>1
    <3> QED
      BY <3>2, <3>3, <3>4
  <2> HIDE DEF s, t
  <2>4. IsPrefix(s, t)
    BY <2>1, <2>3 DEF IsPrefix
  <2>5. ASSUME Len(blocks[n]) = Len(blocks[Leader]) PROVE world[n] = world[Leader]
    <3>1. Last(blocks[n]).hash = Last(blocks[Leader]).hash
      BY <2>1, <2>2, <2>5 DEF Last
    <3>2. world[Leader] = RootOf(Last(blocks[Leader]))
      BY DEF AgreementInv, LeaderHashes
    <3>3. n # Leader => world[n] = RootOf(Last(blocks[n]))
      BY DEF AgreementInv, FollowersAtRoot
    <3> QED
      BY <3>1, <3>2, <3>3 DEF RootOf
  <2> QED
    BY <2>4, <2>5 DEF s, t
<1> QED
  BY <1>1, <1>2, <1>3, Invariance, PTL DEF Spec
=============================================================================
