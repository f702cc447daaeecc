----------------------------- MODULE Replication -----------------------------
(***************************************************************************)
(* pkg/c2rpc/p2p.go and the chain of pkg/c2rpc/api.go: a leader seals      *)
(* blocks and announces them, the other nodes import what they are told    *)
(* and ask for what they miss.  Between two nodes there are, each way: the *)
(* peer's channel of Cap messages, drained by its write loop; goroutines   *)
(* that wait for room in it; and the other node's read loop.  queue is the *)
(* message in the write loop's hands, if any, followed by the channel.     *)
(*                                                                         *)
(* A world is the sequence of what was executed on it; its root tells any  *)
(* two worlds apart.  A block's hash is the list of the headers from the   *)
(* genesis on.  The headers hold roots and receipts, not the transactions. *)
(***************************************************************************)
EXTENDS Integers, SequencesExt

CONSTANTS
  Node, Leader,
  Links,             \* the pairs AttachPair is called with
  Origin,            \* the world each node starts with
  Tx,                \* the transactions the leader may put into blocks
  Credit,            \* a deposit from the inbox, in a world
  BaseFee,           \* header.BaseFee
  Cap,               \* the channels' capacity (32)
  MaxFrame,          \* the blocks a frame of maxP2PFrame bytes holds
  MaxNumber,         \* the blocks the leader tries
  MaxDeposits,       \* the deposits its inbox gets
  MaxCatchUps        \* the calls of CatchUp, per node

\* poor: it cannot be paid before a deposit; big: its batch is too large for Pack.
TxFields == [id : Nat, dynamic : BOOLEAN, price : Nat, tip : Nat, access : Nat,
             poor : BOOLEAN, big : BOOLEAN]

ASSUME NodeAssumption ==
  /\ Leader \in Node
  /\ Links \subseteq {l \in Node \X Node : l[1] # l[2]}
  /\ \A l \in Links : <<l[2], l[1]>> \notin Links
  /\ Tx \subseteq TxFields /\ \A t, u \in Tx : t.id = u.id => t = u
  /\ BaseFee \in Nat /\ Cap \in Nat \ {0} /\ MaxFrame \in Nat \ {0}
  /\ MaxNumber \in Nat /\ MaxDeposits \in Nat /\ MaxCatchUps \in Nat

\* What is left of a transaction after ProcessTransaction: what the coinbase got
\* per gas, and the gas of its access list.
Effect(t) ==
  LET room == t.price - BaseFee IN
  [id |-> t.id, access |-> t.access,
   paid |-> IF t.dynamic /\ t.tip < room THEN t.tip ELSE room]

\* Mutant of Wire: the tip is taken from the price whether it is zero or not.
WireDropsTip(t) == [t EXCEPT !.tip = t.price, !.access = 0]

\* fromWire of toWire: a tip of zero becomes the price, the access list is lost.
Wire(t) == [t EXCEPT !.tip = IF t.tip = 0 THEN t.price ELSE t.tip, !.access = 0]
OnWire(b) == [b EXCEPT !.txs = [i \in DOMAIN b.txs |-> Wire(b.txs[i])]]

Effects == [id : Nat, access : Nat, paid : Nat]
Worlds == Seq(Effects \cup {Credit})
Headers == [number : Nat, root : Worlds]
Blocks == [number : Nat, txs : Seq(TxFields), hash : Seq(Headers)]
Kinds == {"hello", "new_block", "get_blocks", "blocks"}

\* A node starts with some state already in its trie (NewEthAPI seals the genesis on it).
ASSUME OriginAssumption == Origin \in [Node -> Worlds]

Pairs == {l \in Node \X Node : l \in Links \/ <<l[2], l[1]>> \in Links}

VARIABLES
  blocks,            \* API.blocks of each node; the genesis first
  world,             \* its state
  number,            \* Seq.Header.Number
  sealed,            \* Mine is between ProduceBlock and BroadcastLatest
  caller,            \* what a node's Mine or CatchUp has yet to write, and to whom
  asked,             \* calls of CatchUp
  peer,              \* "none", "added" to n.peers, "greeted"
  queue, waiting,    \* messages on their way, and goroutines that wait for room
  reader,            \* what the read loop of the second node is doing
  closed,            \* the connections whose read loop has ended
  goal               \* history: the leader's height at a node's last CatchUp

chainVars == <<blocks, world, number>>
wireVars == <<queue, waiting>>
vars == <<chainVars, sealed, caller, asked, peer, wireVars, reader, closed, goal>>

Idle == [kind |-> "idle", list |-> <<>>]

Height(n) == Last(blocks[n]).number
Genesis(n) == [number |-> 0, txs |-> <<>>,
               hash |-> <<[number |-> 0, root |-> Origin[n]]>>]
Sealed(parent, num, txs, w) ==
  [number |-> num, txs |-> txs, hash |-> Append(parent.hash, [number |-> num, root |-> w])]

Silence == [kind |-> "hello", from |-> 0, list |-> <<>>]

Init ==
  /\ blocks = [n \in Node |-> <<Genesis(n)>>]
  /\ world = Origin
  /\ number = [n \in Node |-> 0]
  /\ sealed = FALSE
  /\ caller = [n \in Node |-> [msg |-> Silence, to |-> {}]]
  /\ asked = [n \in Node |-> 0]
  /\ peer = [l \in Pairs |-> "none"]
  /\ queue = [l \in Pairs |-> <<>>] /\ waiting = queue
  /\ reader = [l \in Pairs |-> Idle]
  /\ closed = {}
  /\ goal = [n \in Node |-> 0]

-----------------------------------------------------------------------------
\* ProcessBlock (modules BlockProcessor and CallContext), which either runs every
\* transaction or leaves the world alone.
Executed(w, txs) == w \o [i \in DOMAIN txs |-> Effect(txs[i])]
Executable(w, txs) ==
  \A i \in DOMAIN txs :
    /\ \A k \in DOMAIN w : w[k] # Credit => w[k].id # txs[i].id
    /\ txs[i].poor => Credit \in Range(w)
    /\ txs[i].price >= BaseFee

\* ProcessBlock sets the header's root once the batch has run.
SealedRoot(w, txs) == Executed(w, txs)

\* API.ProduceBlock: the header's number is raised and deposits are credited first,
\* and stay so when the block fails; when only Pack fails, all of it stays.
produceLocked(txs, gift) ==
  LET n == Leader
      w == IF gift THEN Append(world[n], Credit) ELSE world[n]
      num == number[n] + 1
      block == Sealed(Last(blocks[n]), num, txs, SealedRoot(w, txs))
      runs == Executable(w, txs)
      fits == \A i \in DOMAIN txs : ~txs[i].big IN
  /\ number' = [number EXCEPT ![n] = num]
  /\ world' = [world EXCEPT ![n] = IF runs THEN Executed(w, txs) ELSE w]
  /\ blocks' = IF runs /\ fits THEN [blocks EXCEPT ![n] = Append(blocks[n], block)] ELSE blocks
  /\ sealed' = (runs /\ fits)

\* Mine; the sequencer offers no transaction whose nonce has been used.
Mine(txs, gift) ==
  /\ number[Leader] < MaxNumber
  /\ ~sealed /\ caller[Leader].to = {}
  /\ gift => Len(SelectSeq(world[Leader], LAMBDA x : x = Credit)) < MaxDeposits
  /\ \A i \in DOMAIN txs : \A k \in DOMAIN world[Leader] :
       world[Leader][k] # Credit => world[Leader][k].id # txs[i].id
  /\ produceLocked(txs, gift)
  /\ UNCHANGED <<caller, asked, peer, wireVars, reader, closed, goal>>

\* importLocked: a block that does not follow is refused, unless its hash is known.
Follows(n, b) == b.number = Height(n) + 1
Accepts(n, b) ==
  IF Follows(n, b) THEN Executable(world[n], b.txs)
  ELSE \E i \in DOMAIN blocks[n] : blocks[n][i].hash = b.hash

\* The block is executed and sealed anew, on this node's own parent and root.
Extend(n, b) ==
  LET w == Executed(world[n], b.txs) IN
  /\ world' = [world EXCEPT ![n] = w]
  /\ number' = [number EXCEPT ![n] = b.number]
  /\ blocks' = [blocks EXCEPT ![n] = Append(blocks[n], Sealed(Last(blocks[n]), b.number, b.txs, w))]

\* Mutant of importLocked: a block may leave a gap.
ImportAhead(n, b) ==
  IF b.number > Height(n) /\ Executable(world[n], b.txs) THEN Extend(n, b) ELSE UNCHANGED chainVars

\* Mutant of importLocked: the last block may be imported again.
ImportAgain(n, b) ==
  IF b.number \in {Height(n), Height(n) + 1} /\ b.number # 0 /\ Executable(world[n], b.txs)
  THEN Extend(n, b) ELSE UNCHANGED chainVars

importLocked(n, b) ==
  IF Follows(n, b) /\ Executable(world[n], b.txs) THEN Extend(n, b) ELSE UNCHANGED chainVars

-----------------------------------------------------------------------------
Queue(l, msg) == queue' = [queue EXCEPT ![l] = Append(queue[l], msg)] /\ UNCHANGED waiting

\* Mutant of write: what finds no room is dropped.
writeDrops(l, msg) ==
  \/ Len(queue[l]) <= Cap /\ Queue(l, msg)
  \/ Len(queue[l]) >= Cap /\ UNCHANGED <<queue, waiting>>

\* write never blocks: without room in the channel a goroutine waits for it.  With
\* Cap messages on their way the channel is full unless the write loop has one.
write(l, msg) ==
  \/ Len(queue[l]) <= Cap /\ Queue(l, msg)
  \/ Len(queue[l]) >= Cap /\ waiting' = [waiting EXCEPT ![l] = Append(waiting[l], msg)]
                          /\ UNCHANGED queue

\* One of the waiting goroutines finds room.
Unblock(l) ==
  /\ Len(queue[l]) <= Cap
  /\ \E i \in DOMAIN waiting[l] :
       /\ queue' = [queue EXCEPT ![l] = Append(queue[l], waiting[l][i])]
       /\ waiting' = [waiting EXCEPT ![l] = RemoveAt(waiting[l], i)]
  /\ UNCHANGED <<chainVars, sealed, caller, asked, peer, reader, closed, goal>>

\* AttachPair: the first node adds its end and greets, then the second.
addPeer(l) ==
  /\ peer[l] = "none"
  /\ l \in Links \/ peer[<<l[2], l[1]>>] = "greeted"
  /\ peer' = [peer EXCEPT ![l] = "added"]
  /\ UNCHANGED <<chainVars, sealed, caller, asked, wireVars, reader, closed, goal>>

Greet(l) ==
  /\ peer[l] = "added"
  /\ peer' = [peer EXCEPT ![l] = "greeted"]
  /\ write(l, [kind |-> "hello", from |-> 0, list |-> <<OnWire(blocks[l[1]][1])>>])
  /\ UNCHANGED <<chainVars, sealed, caller, asked, reader, closed, goal>>

Peers(n) == {m \in Node : <<n, m>> \in Pairs /\ peer[<<n, m>>] # "none"}

\* The rest of Mine; the peers are those of this moment.
BroadcastLatest ==
  /\ sealed
  /\ sealed' = FALSE
  /\ caller' = [caller EXCEPT ![Leader] =
       [msg |-> [kind |-> "new_block", from |-> 0, list |-> <<OnWire(Last(blocks[Leader]))>>],
        to  |-> Peers(Leader)]]
  /\ UNCHANGED <<chainVars, asked, peer, wireVars, reader, closed, goal>>

CatchUp(n) ==
  /\ n # Leader /\ asked[n] < MaxCatchUps /\ caller[n].to = {}
  /\ asked' = [asked EXCEPT ![n] = asked[n] + 1]
  /\ caller' = [caller EXCEPT ![n] =
       [msg |-> [kind |-> "get_blocks", from |-> Height(n) + 1, list |-> <<>>], to |-> Peers(n)]]
  /\ goal' = IF Leader \in Peers(n) THEN [goal EXCEPT ![n] = Height(Leader)] ELSE goal
  /\ UNCHANGED <<chainVars, sealed, peer, wireVars, reader, closed>>

\* Mine or CatchUp writes to the next peer.
CallerWrites(n, m) ==
  /\ m \in caller[n].to
  /\ write(<<n, m>>, caller[n].msg)
  /\ caller' = [caller EXCEPT ![n] = [caller[n] EXCEPT !.to = caller[n].to \ {m}]]
  /\ UNCHANGED <<chainVars, sealed, asked, peer, reader, closed, goal>>

-----------------------------------------------------------------------------
Back(l) == <<l[2], l[1]>>

\* replyBlocks reads the chain by index, as if that were the block's number.
replyBlocks(n, from) == SubSeq(blocks[n], from + 1, Len(blocks[n]))

\* A peer of another genesis is disconnected.
AfterHello(l, genesis) ==
  IF genesis.hash = blocks[l[2]][1].hash THEN closed ELSE closed \cup {l, Back(l)}

\* A block fits into a frame, as Pack has limited it; a list of blocks may not.
Fits(msg) == Len(msg.list) <= MaxFrame

\* readP2P refuses a frame that is too large: the read loop of l[2] ends, for good,
\* and the write loop of l[1] is left with the frame in its hands.
TooLarge(l) ==
  /\ queue[l] # <<>> /\ reader[l] = Idle /\ l \notin closed
  /\ ~Fits(Head(queue[l]))
  /\ closed' = closed \cup {l}
  /\ UNCHANGED <<chainVars, sealed, caller, asked, peer, wireVars, reader, goal>>

\* The write loop of l[1] hands a message to the read loop of l[2], which handles it.
handle(l) ==
  LET n == l[2]
      msg == Head(queue[l]) IN
  /\ queue[l] # <<>> /\ reader[l] = Idle /\ l \notin closed
  /\ Fits(msg)
  /\ queue' = [queue EXCEPT ![l] = Tail(queue[l])]
  /\ \/ /\ msg.kind = "hello"
        /\ closed' = AfterHello(l, msg.list[1])
        /\ UNCHANGED <<chainVars, reader>>
     \/ /\ msg.kind = "new_block"
        /\ importLocked(n, msg.list[1])
        /\ UNCHANGED <<reader, closed>>
     \/ /\ msg.kind = "get_blocks"
        /\ reader' = [reader EXCEPT ![l] =
             [kind |-> "reply", list |-> [i \in DOMAIN replyBlocks(n, msg.from) |->
                                            OnWire(replyBlocks(n, msg.from)[i])]]]
        /\ UNCHANGED <<chainVars, closed>>
     \/ /\ msg.kind = "blocks"
        /\ reader' = [reader EXCEPT ![l] =
             IF msg.list = <<>> THEN Idle ELSE [kind |-> "import", list |-> msg.list]]
        /\ UNCHANGED <<chainVars, closed>>
  /\ UNCHANGED <<sealed, caller, asked, peer, waiting, goal>>

\* The next block of a list; the first one that is refused ends it.
ImportNext(l) ==
  LET n == l[2]
      b == Head(reader[l].list)
      rest == Tail(reader[l].list) IN
  /\ reader[l].kind = "import"
  /\ importLocked(n, b)
  /\ reader' = [reader EXCEPT ![l] =
       IF Accepts(n, b) /\ rest # <<>> THEN [kind |-> "import", list |-> rest] ELSE Idle]
  /\ UNCHANGED <<sealed, caller, asked, peer, wireVars, closed, goal>>

\* The answer is written after the chain's lock was released.
Reply(l) ==
  /\ reader[l].kind = "reply"
  /\ write(Back(l), [kind |-> "blocks", from |-> 0, list |-> reader[l].list])
  /\ reader' = [reader EXCEPT ![l] = Idle]
  /\ UNCHANGED <<chainVars, sealed, caller, asked, peer, closed, goal>>

readLoop(l) == handle(l) \/ TooLarge(l) \/ ImportNext(l) \/ Reply(l)

Goroutine(l) ==
  Unblock(l) \/ Greet(l) \/ readLoop(l) \/ CallerWrites(l[1], l[2])

Batches == {<<>>} \cup {<<t>> : t \in Tx}

Next ==
  \/ \E txs \in Batches, gift \in BOOLEAN : Mine(txs, gift)
  \/ BroadcastLatest
  \/ \E n \in Node : CatchUp(n)
  \/ \E l \in Pairs : addPeer(l) \/ Goroutine(l)

Spec == Init /\ [][Next]_vars

\* Goroutines run on; nobody has to call Mine, CatchUp or AttachPair.
Fairness ==
  /\ WF_vars(BroadcastLatest)
  /\ \A l \in Pairs :
       /\ WF_vars(Unblock(l)) /\ WF_vars(Greet(l)) /\ WF_vars(CallerWrites(l[1], l[2]))
       /\ WF_vars(readLoop(l))
FairSpec == Spec /\ Fairness

-----------------------------------------------------------------------------
\* What the nodes have executed, block by block; the ids stand for what the users
\* signed, which the wire does not change.
Log(n) == [i \in 1..(Len(blocks[n]) - 1) |->
             [number |-> blocks[n][i + 1].number,
              ids    |-> [k \in DOMAIN blocks[n][i + 1].txs |-> blocks[n][i + 1].txs[k].id]]]

\* A node executes the leader's batches in the leader's order, with none skipped
\* and none twice, whatever is lost, repeated, reordered or refused.
SameBatches == \A n \in Node : IsPrefix(Log(n), Log(Leader))

\* The nodes together implement a replicated log.
Replicated == INSTANCE ReplicatedLog
  WITH log <- [n \in Node |-> Log(n)],
       Entry <- [number : 0..MaxNumber, ids : {<<>>} \cup {<<t.id>> : t \in Tx}]
Refines == Replicated!Spec

\* A node that began with the leader's genesis has the leader's blocks, with the
\* leader's hashes, and at the leader's height the leader's state.
Agreement ==
  \A n \in Node :
    Origin[n] = Origin[Leader] =>
      /\ IsPrefix([i \in DOMAIN blocks[n] |-> blocks[n][i].hash],
                  [i \in DOMAIN blocks[Leader] |-> blocks[Leader][i].hash])
      /\ Len(blocks[n]) = Len(blocks[Leader]) => world[n] = world[Leader]

\* A node that asks the leader gets as far as the leader was when it asked.
CatchUpServes ==
  \A n \in Node \ {Leader} : \A h \in 1..MaxNumber : goal[n] = h ~> Height(n) >= h

\* The wire keeps all of the transaction that its effect depends on.
Faithful(t) == t.access = 0 /\ (t.dynamic => t.tip # 0 \/ t.price = BaseFee)

\* The leader has sealed every block it tried, no deposit has reached it, and its
\* blocks have no dynamic transaction without a tip and none with an access list.
Untroubled ==
  /\ number[Leader] = Len(blocks[Leader]) - 1
  /\ Credit \notin Range(world[Leader])
  /\ \A i \in DOMAIN blocks[Leader] : \A k \in DOMAIN blocks[Leader][i].txs :
       Faithful(blocks[Leader][i].txs[k])

\* Until a block of the leader fails, a deposit reaches it or it seals a transaction
\* that the wire changes, the followers have its hashes and, at its height, its state.
AgreementUntilTrouble == Untroubled => Agreement

\* Until then, a node that asks the leader gets as far as the leader was, unless the
\* leader's chain has outgrown a frame and the node's read loop has met one.
CatchUpServesUntilTrouble ==
  \A n \in Node \ {Leader} : \A h \in 1..MaxNumber :
    goal[n] = h ~> \/ Height(n) >= h
                   \/ ~Untroubled
                   \/ Height(Leader) > MaxFrame /\ <<Leader, n>> \in closed
=============================================================================
