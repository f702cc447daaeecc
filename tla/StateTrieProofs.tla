--------------------------- MODULE StateTrieProofs ---------------------------
(***************************************************************************)
(* For every number of addresses, slots and values: the undo journal of    *)
(* StateTrie always rebuilds the contents its snapshots were taken of, and *)
(* the journal implements a stack of full copies (SnapshotStore).          *)
(***************************************************************************)
EXTENDS StateTrie, TLAPS

\* The loop over slots runs on an address whose account is already gone.
DeletionUnderWay ==
  mu.by = "delete" => mu.at \in Addr /\ accounts[mu.at] = NoAccount

\* The inductive invariant.
IInv == TypeOK /\ DeletionUnderWay /\ SnapshotIndices /\ UndoChain

\* Clearing the upper bits of a word gives an address.
LEMMA NormalizedIsAddr ==
  ASSUME NEW raw \in RawAddr PROVE normalizeAddr(raw) \in Addr
BY SpaceAssumption DEF normalizeAddr, RawAddr, Addr

\* The account entries mutators journal, and the contents they write, are typed.
LEMMA EnsuredIsAccount ==
  ASSUME TypeOK, NEW a \in Addr PROVE ensureAccount(a) \in Account
BY SpaceAssumption DEF TypeOK, ensureAccount, Account, MaybeAccount, Value

\* Initially there is nothing to undo.
LEMMA InitInv == Init => IInv
<1> SUFFICES ASSUME Init PROVE IInv
  OBVIOUS
<1>1. TypeOK
  BY SpaceAssumption DEF Init, TypeOK, MaybeAccount, MaybeValue, Storage, Worlds, World, Free
<1>2. DeletionUnderWay /\ SnapshotIndices
  BY DEF Init, DeletionUnderWay, SnapshotIndices, Free
<1>3. UndoChain
  BY DEF Init, UndoChain, World, Free, Live
<1> QED
  BY <1>1, <1>2, <1>3 DEF IInv

\* What every journalled write has in common: the entry it appends undoes it.
Undoable(e, accs, stor) ==
  /\ e \in Entry
  /\ accs \in [Addr -> MaybeAccount]
  /\ stor \in Storage
  /\ applyRevert(e, [accounts |-> accs, storage |-> stor]) = World

\* A write outside an undo loop whose entry undoes it keeps the invariant.
LEMMA WriteKeepsInv ==
  ASSUME IInv, mu.by # "revert",
         NEW e, NEW accs, NEW stor, Undoable(e, accs, stor),
         Write(e, accs, stor),
         mu' \in [by : {"free", "delete"}, at : Nat, left : Nat],
         mu'.by = "delete" => mu'.at \in Addr /\ accs[mu'.at] = NoAccount
  PROVE  IInv'
<1> DEFINE w == [accounts |-> accs, storage |-> stor]
<1>1. w \in Worlds /\ World' = w
  BY DEF Undoable, Worlds, Write, World
<1>2. mu'.by # "revert" /\ mu' \in [by : {"free", "delete", "revert"}, at : Nat, left : Nat]
  OBVIOUS
<1>3. TypeOK'
  BY <1>1, <1>2 DEF IInv, TypeOK, Undoable, Write
<1>4. DeletionUnderWay'
  BY DEF DeletionUnderWay, Write
<1>5. /\ Len(journal') = Len(journal) + 1
      /\ reverts' = reverts
      /\ journal'[Len(journal) + 1] = e
      /\ \A i \in 1..Len(journal) : journal'[i] = journal[i]
  BY DEF IInv, TypeOK, Write
<1>6. SnapshotIndices'
  BY <1>2, <1>5 DEF IInv, TypeOK, SnapshotIndices
<1>7. /\ Len(hist') = Len(journal) + 2
      /\ hist'[Len(journal) + 2] = w
      /\ \A i \in 1..(Len(journal) + 1) : hist'[i] = hist[i]
  BY DEF IInv, TypeOK, UndoChain, Write
<1>8. Live = Len(journal) /\ Live' = Len(journal) + 1
  BY <1>2, <1>5 DEF Live
<1>9. World = hist[Len(journal) + 1] /\ Len(journal) \in Nat
  BY <1>8 DEF IInv, TypeOK, UndoChain
<1>10. UndoChain'
  <2>1. ASSUME NEW i \in 1..Len(journal')
        PROVE  applyRevert(journal'[i], hist'[i + 1]) = hist'[i]
    <3>1. CASE i \in 1..Len(journal)
      <4>1. journal'[i] = journal[i] /\ hist'[i + 1] = hist[i + 1] /\ hist'[i] = hist[i]
        BY <3>1, <1>5, <1>7, <1>9
      <4> QED
        BY <4>1, <3>1 DEF IInv, UndoChain
    <3>2. CASE i = Len(journal) + 1
      <4>1. journal'[i] = e /\ hist'[i + 1] = w /\ hist'[i] = World
        BY <3>2, <1>5, <1>7, <1>9
      <4> QED
        BY <4>1 DEF Undoable
    <3> QED
      BY <3>1, <3>2, <1>5 DEF IInv, TypeOK
  <2>2. World' = hist'[Live' + 1]
    BY <1>1, <1>7, <1>8 DEF IInv, TypeOK
  <2> QED
    BY <2>1, <2>2, <1>5, <1>7, <1>9 DEF UndoChain
<1> QED
  BY <1>3, <1>4, <1>6, <1>10 DEF IInv

\* The entry of an account undoes the replacement of that account.
LEMMA AccEntryUndoes ==
  ASSUME TypeOK, NEW a \in Addr, NEW acc \in MaybeAccount
  PROVE  Undoable(AccEntry(a), [accounts EXCEPT ![a] = acc], storage)
<1> DEFINE accs == [accounts EXCEPT ![a] = acc]
           e == AccEntry(a)
<1>1. e \in Entry
  BY DEF TypeOK, AccEntry, Entry, MaybeAccount, MaybeValue
<1>2. accs \in [Addr -> MaybeAccount]
  BY DEF TypeOK
<1>3. [accs EXCEPT ![a] = accounts[a]] = accounts
  BY DEF TypeOK
<1>4. applyRevert(e, [accounts |-> accs, storage |-> storage]) = World
  BY <1>3 DEF applyRevert, AccEntry, World
<1> QED
  BY <1>1, <1>2, <1>4 DEF Undoable, TypeOK

\* The entry of a slot undoes the write to that slot.
LEMMA StorEntryUndoes ==
  ASSUME TypeOK, NEW a \in Addr, NEW s \in Slot, NEW v \in MaybeValue
  PROVE  Undoable(StorEntry(a, s), accounts, [storage EXCEPT ![a][s] = v])
<1> DEFINE stor == [storage EXCEPT ![a][s] = v]
           e == StorEntry(a, s)
<1>1. e \in Entry
  BY DEF TypeOK, StorEntry, Entry, MaybeAccount, MaybeValue, Storage
<1>2. stor \in Storage
  BY DEF TypeOK, Storage
<1>3. [stor EXCEPT ![a][s] = storage[a][s]] = storage
  BY DEF TypeOK, Storage
<1>4. applyRevert(e, [accounts |-> accounts, storage |-> stor]) = World
  BY <1>3 DEF applyRevert, StorEntry, World
<1> QED
  BY <1>1, <1>2, <1>4 DEF Undoable, TypeOK

\* Every mutator, and every iteration of the deletion loop, is such a write.
LEMMA MutateKeepsInv == IInv /\ Mutate => IInv'
<1> SUFFICES ASSUME IInv, NEW raw \in RawAddr,
                    \/ \E acc \in Account : SetAccount(raw, acc)
                    \/ DeleteBegin(raw)
                    \/ \E delta \in Value : AddBalance(raw, delta) \/ SubBalance(raw, delta)
                    \/ \E s \in Slot, val \in Value : SetStorage(raw, s, val)
             PROVE  IInv'
  BY DEF Mutate
<1> DEFINE a == normalizeAddr(raw)
<1>0. a \in Addr /\ TypeOK /\ ensureAccount(a) \in Account
  BY NormalizedIsAddr, EnsuredIsAccount DEF IInv
<1> HIDE DEF a
<1>1. ASSUME NEW acc \in MaybeAccount, mu = Free,
             Write(AccEntry(a), [accounts EXCEPT ![a] = acc], storage),
             mu' = mu \/ (mu' = Deleting(a) /\ acc = NoAccount)
      PROVE  IInv'
  <2>1. /\ mu.by # "revert"
        /\ mu' \in [by : {"free", "delete"}, at : Nat, left : Nat]
        /\ mu'.by = "delete" =>
             mu'.at \in Addr /\ [accounts EXCEPT ![a] = acc][mu'.at] = NoAccount
    BY <1>0, <1>1, SpaceAssumption DEF Free, Deleting, TypeOK, Addr
  <2> QED
    BY <1>0, <1>1, <2>1, AccEntryUndoes, WriteKeepsInv
<1>2. ASSUME NEW acc \in Account, SetAccount(raw, acc)
      PROVE  IInv'
  BY <1>1, <1>2 DEF SetAccount, MaybeAccount, a
<1>3. CASE DeleteBegin(raw)
  BY <1>1, <1>3 DEF DeleteBegin, MaybeAccount, a
<1>4. ASSUME NEW bal \in Value, mu = Free, SetBalance(a, bal)
      PROVE  IInv'
  BY <1>0, <1>1, <1>4 DEF SetBalance, MaybeAccount, Account
<1>5. ASSUME NEW delta \in Value, AddBalance(raw, delta)
      PROVE  IInv'
  <2>1. (ensureAccount(a).balance + delta) % Word \in Value
    BY <1>0, SpaceAssumption DEF Account, Value
  <2> QED
    BY <1>4, <1>5, <2>1 DEF AddBalance, a
<1>6. ASSUME NEW delta \in Value, SubBalance(raw, delta)
      PROVE  IInv'
  <2>1. delta <= ensureAccount(a).balance
    BY <1>6 DEF SubBalance, a
  <2>2. ensureAccount(a).balance - delta \in Value
    BY <1>0, <2>1, SpaceAssumption DEF Account, Value
  <2> QED
    BY <1>4, <1>6, <2>2 DEF SubBalance, a
<1>7. ASSUME NEW s \in Slot, NEW val \in Value, SetStorage(raw, s, val)
      PROVE  IInv'
  <2> DEFINE v == IF val = 0 THEN NoValue ELSE val
  <2>1. v \in MaybeValue
    BY DEF MaybeValue
  <2>2. Undoable(StorEntry(a, s), accounts, [storage EXCEPT ![a][s] = v])
    BY <1>0, <2>1, StorEntryUndoes
  <2>3. /\ mu = Free /\ mu' = mu
        /\ Write(StorEntry(a, s), accounts, [storage EXCEPT ![a][s] = v])
    BY <1>7 DEF SetStorage, a
  <2>4. /\ mu.by # "revert" /\ mu'.by # "delete"
        /\ mu' \in [by : {"free", "delete"}, at : Nat, left : Nat]
    BY <2>3 DEF Free
  <2> QED
    BY <2>2, <2>3, <2>4, WriteKeepsInv
<1> QED
  BY <1>2, <1>3, <1>5, <1>6, <1>7

\* The deletion loop journals every slot it deletes.
LEMMA DeleteSlotKeepsInv ==
  ASSUME IInv, NEW s \in Slot, DeleteSlot(s)
  PROVE  IInv'
<1> DEFINE a == mu.at
<1>1. /\ a \in Addr /\ accounts[a] = NoAccount /\ TypeOK /\ NoValue \in MaybeValue
      /\ mu.by = "delete" /\ mu' = mu
      /\ mu' \in [by : {"free", "delete"}, at : Nat, left : Nat]
  BY DEF IInv, TypeOK, DeletionUnderWay, DeleteSlot, MaybeValue
<1>2. Undoable(StorEntry(a, s), accounts, [storage EXCEPT ![a][s] = NoValue])
  BY <1>1, StorEntryUndoes
<1>3. Write(StorEntry(a, s), accounts, [storage EXCEPT ![a][s] = NoValue])
  BY DEF DeleteSlot
<1> QED
  BY <1>1, <1>2, <1>3, WriteKeepsInv

\* Undoing an entry gives typed contents.
LEMMA UndoIsTyped ==
  ASSUME NEW e \in Entry, NEW w \in Worlds
  PROVE  applyRevert(e, w) \in Worlds
BY DEF applyRevert, Entry, Worlds, Storage

\* One iteration of the undo loop moves the contents one entry back.
LEMMA UndoOneKeepsInv ==
  ASSUME IInv, UndoOne
  PROVE  IInv'
<1> DEFINE n == mu.left
           w == applyRevert(journal[n], World)
<1>1. n \in 1..Len(journal) /\ n = Live /\ mu.at \in 0..(Len(reverts) - 1)
  BY DEF IInv, TypeOK, SnapshotIndices, UndoOne, Live
<1>2. World = hist[n + 1] /\ w = hist[n] /\ World \in Worlds
  BY <1>1 DEF IInv, TypeOK, UndoChain, World, Worlds
<1>3. w \in Worlds
  BY <1>1, <1>2, UndoIsTyped DEF IInv, TypeOK
<1>4. /\ accounts' = w.accounts
      /\ storage' = w.storage
      /\ mu' = Undoing(mu.at, n - 1)
      /\ UNCHANGED <<journal, reverts, hist>>
  BY DEF UndoOne
<1>5. World' = w
  BY <1>3, <1>4 DEF World, Worlds
<1>6. TypeOK'
  BY <1>1, <1>3, <1>4 DEF IInv, TypeOK, Undoing, Worlds
<1>7. DeletionUnderWay' /\ Live' = n - 1
  BY <1>4 DEF DeletionUnderWay, Undoing, Live
<1>8. SnapshotIndices'
  BY <1>1, <1>4 DEF IInv, TypeOK, SnapshotIndices, Undoing, UndoOne
<1>9. UndoChain'
  BY <1>1, <1>2, <1>4, <1>5, <1>7 DEF IInv, UndoChain
<1> QED
  BY <1>6, <1>7, <1>8, <1>9 DEF IInv

\* Dropping the undone entries keeps the others consistent.
LEMMA RevertEndKeepsInv ==
  ASSUME IInv, RevertEnd
  PROVE  IInv'
<1> DEFINE j == reverts[mu.at + 1]
<1>1. /\ mu.at \in Nat /\ mu.at < Len(reverts)
      /\ j \in Nat /\ j <= Len(journal) /\ mu.left = j /\ Live = j
  BY DEF IInv, TypeOK, SnapshotIndices, RevertEnd, Live
<1>2. /\ journal' = SubSeq(journal, 1, j)
      /\ reverts' = SubSeq(reverts, 1, mu.at)
      /\ hist' = SubSeq(hist, 1, j + 1)
      /\ mu' = Free /\ World' = World
      /\ accounts' = accounts /\ storage' = storage
  BY DEF RevertEnd, World
<1>0. j = reverts[mu.at + 1] /\ Len(journal) \in Nat /\ Len(reverts) \in Nat
  BY DEF IInv, TypeOK
<1> HIDE DEF j
<1>3. /\ journal' \in Seq(Entry) /\ Len(journal') = j
      /\ \A i \in 1..j : journal'[i] = journal[i]
  BY <1>1, <1>2 DEF IInv, TypeOK
<1>4. /\ reverts' \in Seq(Nat) /\ Len(reverts') = mu.at
      /\ \A i \in 1..mu.at : reverts'[i] = reverts[i]
  BY <1>1, <1>2 DEF IInv, TypeOK
<1>5. /\ hist' \in Seq(Worlds) /\ Len(hist') = j + 1
      /\ \A i \in 1..(j + 1) : hist'[i] = hist[i]
  BY <1>1, <1>2 DEF IInv, TypeOK, UndoChain
<1>6. TypeOK'
  BY <1>2, <1>3, <1>4, <1>5 DEF IInv, TypeOK, Free
<1>7. DeletionUnderWay' /\ Live' = j
  BY <1>2, <1>3 DEF DeletionUnderWay, Live, Free
<1>8. SnapshotIndices'
  <2>1. \A i, k \in 1..Len(reverts) : i <= k => reverts[i] <= reverts[k]
    BY DEF IInv, SnapshotIndices
  <2>2. ASSUME NEW k \in 1..mu.at PROVE reverts'[k] <= Len(journal')
    <3>1. k \in 1..Len(reverts) /\ mu.at + 1 \in 1..Len(reverts) /\ k <= mu.at + 1
      BY <1>0, <1>1
    <3>2. reverts[k] <= j
      BY <3>1, <2>1, <1>0
    <3> QED
      BY <3>2, <1>3, <1>4
  <2>3. ASSUME NEW i \in 1..mu.at, NEW k \in 1..mu.at, i <= k
        PROVE  reverts'[i] <= reverts'[k]
    <3>1. i \in 1..Len(reverts) /\ k \in 1..Len(reverts)
      BY <1>0, <1>1
    <3> QED
      BY <3>1, <2>1, <2>3, <1>4
  <2> QED
    BY <1>2, <1>4, <2>2, <2>3 DEF SnapshotIndices, Free
<1>9. UndoChain'
  <2>1. ASSUME NEW i \in 1..j
        PROVE  applyRevert(journal'[i], hist'[i + 1]) = hist'[i]
    <3>1. i \in 1..(j + 1) /\ i + 1 \in 1..(j + 1) /\ i \in 1..Len(journal)
      BY <1>0, <1>1
    <3>2. journal'[i] = journal[i] /\ hist'[i + 1] = hist[i + 1] /\ hist'[i] = hist[i]
      BY <3>1, <1>3, <1>5
    <3> QED
      BY <3>1, <3>2 DEF IInv, UndoChain
  <2>2. World' = hist'[Live' + 1]
    BY <1>1, <1>2, <1>5, <1>7 DEF IInv, UndoChain
  <2> QED
    BY <2>1, <2>2, <1>3, <1>5 DEF UndoChain
<1> QED
  BY <1>6, <1>7, <1>8, <1>9 DEF IInv

\* With the journal dropped there is nothing to undo and nothing to keep valid.
LEMMA EmptyJournalKeepsInv ==
  ASSUME IInv, mu = Free, mu' = mu, World' = World,
         accounts' = accounts, storage' = storage,
         journal' = <<>>, reverts' = <<>>, hist' = <<World>>
  PROVE  IInv'
<1>1. World \in Worlds
  BY DEF IInv, TypeOK, World, Worlds
<1>2. TypeOK'
  BY <1>1 DEF IInv, TypeOK
<1>3. DeletionUnderWay' /\ SnapshotIndices' /\ Live' = 0
  BY DEF DeletionUnderWay, SnapshotIndices, Free, Live
<1>4. UndoChain'
  BY <1>3 DEF UndoChain
<1> QED
  BY <1>2, <1>3, <1>4 DEF IInv

\* Every step keeps the invariant.
LEMMA NextInv == IInv /\ [Next]_vars => IInv'
<1> SUFFICES ASSUME IInv, [Next]_vars PROVE IInv'
  OBVIOUS
<1>1. CASE Mutate
  BY <1>1, MutateKeepsInv
<1>2. ASSUME NEW s \in Slot, DeleteSlot(s) PROVE IInv'
  BY <1>2, DeleteSlotKeepsInv
<1>3. CASE DeleteEnd
  <2>1. TypeOK' /\ DeletionUnderWay' /\ SnapshotIndices'
    BY <1>3 DEF IInv, TypeOK, DeletionUnderWay, SnapshotIndices, DeleteEnd, Free
  <2>2. World' = World /\ Live' = Live
    BY <1>3 DEF DeleteEnd, World, Live, Free
  <2>3. UndoChain'
    BY <1>3, <2>2 DEF IInv, UndoChain, DeleteEnd
  <2> QED
    BY <2>1, <2>3 DEF IInv
<1>4. CASE UndoOne
  BY <1>4, UndoOneKeepsInv
<1>5. CASE RevertEnd
  BY <1>5, RevertEndKeepsInv
<1>6. CASE Snapshot
  <2>1. /\ Len(reverts') = Len(reverts) + 1
        /\ reverts'[Len(reverts) + 1] = Len(journal)
        /\ \A k \in 1..Len(reverts) : reverts'[k] = reverts[k]
        /\ reverts' \in Seq(Nat) /\ Len(journal) \in Nat /\ Len(reverts) \in Nat
    BY <1>6 DEF IInv, TypeOK, Snapshot
  <2>2. TypeOK' /\ DeletionUnderWay' /\ Live' = Live /\ World' = World
    BY <1>6, <2>1 DEF IInv, TypeOK, DeletionUnderWay, Snapshot, Live, World
  <2>3. SnapshotIndices'
    <3>1. mu' = Free /\ journal' = journal
      BY <1>6 DEF Snapshot
    <3>2. ASSUME NEW k \in 1..Len(reverts') PROVE reverts'[k] <= Len(journal)
      <4>1. CASE k \in 1..Len(reverts)
        BY <4>1, <2>1 DEF IInv, SnapshotIndices
      <4>2. CASE k = Len(reverts) + 1
        BY <4>2, <2>1
      <4> QED
        BY <4>1, <4>2, <2>1
    <3>3. ASSUME NEW i \in 1..Len(reverts'), NEW k \in 1..Len(reverts'), i <= k
          PROVE  reverts'[i] <= reverts'[k]
      <4>1. CASE k \in 1..Len(reverts)
        <5>1. i \in 1..Len(reverts)
          BY <4>1, <3>3, <2>1
        <5> QED
          BY <4>1, <5>1, <3>3, <2>1 DEF IInv, SnapshotIndices
      <4>2. CASE k = Len(reverts) + 1
        BY <4>2, <3>2, <2>1
      <4> QED
        BY <4>1, <4>2, <2>1
    <3> QED
      BY <3>1, <3>2, <3>3 DEF SnapshotIndices, Free
  <2>4. UndoChain'
    BY <1>6, <2>2 DEF IInv, UndoChain, Snapshot
  <2> QED
    BY <2>2, <2>3, <2>4 DEF IInv
<1>7. CASE Commit
  BY <1>7, EmptyJournalKeepsInv DEF Commit, World
<1>8. ASSUME NEW rev \in 0..(Len(reverts) - 1), RevertBegin(rev) PROVE IInv'
  <2>1. TypeOK' /\ DeletionUnderWay' /\ SnapshotIndices'
    BY <1>8 DEF IInv, TypeOK, DeletionUnderWay, SnapshotIndices, RevertBegin, Undoing
  <2>2. World' = World /\ Live' = Live
    BY <1>8 DEF RevertBegin, World, Live, Free, Undoing
  <2>3. UndoChain'
    BY <1>8, <2>2 DEF IInv, UndoChain, RevertBegin
  <2> QED
    BY <2>1, <2>3 DEF IInv
<1>9. ASSUME NEW rev \in 0..(Len(reverts) - 1), DiscardSnapshot(rev) PROVE IInv'
  <2>1. CASE rev = 0
    <3>1. reverts' = <<>>
      BY <1>9, <2>1 DEF DiscardSnapshot, IInv, TypeOK
    <3> QED
      BY <1>9, <2>1, <3>1, EmptyJournalKeepsInv DEF DiscardSnapshot, World
  <2>2. CASE rev # 0
    <3>1. /\ reverts' \in Seq(Nat) /\ Len(reverts') = rev
          /\ \A k \in 1..rev : reverts'[k] = reverts[k]
      <4>1. reverts' = SubSeq(reverts, 1, rev)
        BY <1>9 DEF DiscardSnapshot
      <4>2. reverts \in Seq(Nat) /\ rev \in 0..Len(reverts)
        BY DEF IInv, TypeOK
      <4> QED
        BY <4>1, <4>2
    <3>2. UNCHANGED <<journal, hist, accounts, storage, mu>> /\ mu = Free
      BY <1>9, <2>2 DEF DiscardSnapshot
    <3>3. TypeOK' /\ DeletionUnderWay' /\ World' = World /\ Live' = Live
      BY <3>1, <3>2 DEF IInv, TypeOK, DeletionUnderWay, World, Live
    <3>4. SnapshotIndices'
      <4>1. \A k \in 1..rev : k \in 1..Len(reverts)
        BY DEF IInv, TypeOK
      <4>2. \A k \in 1..rev : reverts'[k] <= Len(journal)
        BY <4>1, <3>1 DEF IInv, SnapshotIndices
      <4>3. \A i, k \in 1..rev : i <= k => reverts'[i] <= reverts'[k]
        BY <4>1, <3>1 DEF IInv, SnapshotIndices
      <4> QED
        BY <4>2, <4>3, <3>1, <3>2 DEF SnapshotIndices, Free
    <3>5. UndoChain'
      BY <3>2, <3>3 DEF IInv, UndoChain
    <3> QED
      BY <3>3, <3>4, <3>5 DEF IInv
  <2> QED
    BY <2>1, <2>2
<1>10. CASE UNCHANGED vars
  <2>1. World' = World /\ Live' = Live
    BY <1>10 DEF vars, World, Live
  <2> QED
    BY <1>10, <2>1 DEF vars, IInv, TypeOK, DeletionUnderWay, SnapshotIndices, UndoChain
<1> QED
  BY <1>1, <1>2, <1>3, <1>4, <1>5, <1>6, <1>7, <1>8, <1>9, <1>10 DEF Next, LoopStep

\* The invariant holds in every reachable state.
THEOREM Invariance == Spec => []IInv
BY InitInv, NextInv, PTL DEF Spec

\* Every variable keeps its type, through wrapping credits and undo loops.
THEOREM TypeCorrect == Spec => []TypeOK
<1>1. IInv => TypeOK
  BY DEF IInv
<1> QED
  BY <1>1, Invariance, PTL

\* RevertToSnapshot rebuilds exactly the contents the snapshot was taken of,
\* whatever was written, deleted or discarded since.
THEOREM RevertCorrect == Spec => []RevertRestores
<1>1. IInv => RevertRestores
  BY DEF IInv, RevertRestores, UndoChain, Live
<1> QED
  BY <1>1, Invariance, PTL

\* The indices of the live snapshots stay valid and ordered.
THEOREM IndicesValid == Spec => []SnapshotIndices
<1>1. IInv => SnapshotIndices
  BY DEF IInv
<1> QED
  BY <1>1, Invariance, PTL

-----------------------------------------------------------------------------
\* A write of non-zero contents with a non-zero entry stores no zero.
LEMMA WriteStoresNoZero ==
  ASSUME TypeOK, NoZeroSlot, NEW e \in Entry, NEW accs, NEW stor,
         e.prevVal # 0, \A a \in Addr, s \in Slot : stor[a][s] # 0,
         Write(e, accs, stor)
  PROVE  NoZeroSlot'
<1>1. /\ Len(journal') = Len(journal) + 1 /\ Len(journal) \in Nat
      /\ journal'[Len(journal) + 1] = e
      /\ \A i \in 1..Len(journal) : journal'[i] = journal[i]
  BY DEF TypeOK, Write
<1>2. \A i \in 1..Len(journal') : journal'[i].prevVal # 0
  BY <1>1 DEF NoZeroSlot
<1> QED
  BY <1>2 DEF NoZeroSlot, Write

\* Zero is not the mark of an absent slot.
LEMMA AbsentIsNotZero == NoValue # 0
BY SpaceAssumption, AbsentAssumption DEF Value

\* Writing an account stores no zero slot, nor does undoing it.
LEMMA AccWriteStoresNoZero ==
  ASSUME TypeOK, NoZeroSlot, NEW a \in Addr, NEW accs, Write(AccEntry(a), accs, storage)
  PROVE  NoZeroSlot'
<1>1. AccEntry(a) \in Entry /\ AccEntry(a).prevVal # 0
  BY AbsentIsNotZero DEF TypeOK, AccEntry, Entry, MaybeAccount, MaybeValue
<1>2. \A b \in Addr, s \in Slot : storage[b][s] # 0
  BY DEF NoZeroSlot
<1> QED
  BY <1>1, <1>2, WriteStoresNoZero

\* Nor does writing a slot with a value that is not zero.
LEMMA StorWriteStoresNoZero ==
  ASSUME TypeOK, NoZeroSlot, NEW a \in Addr, NEW s \in Slot, NEW v, v # 0,
         Write(StorEntry(a, s), accounts, [storage EXCEPT ![a][s] = v])
  PROVE  NoZeroSlot'
<1>1. StorEntry(a, s) \in Entry /\ StorEntry(a, s).prevVal # 0
  BY DEF TypeOK, StorEntry, Entry, MaybeAccount, MaybeValue, Storage, NoZeroSlot
<1>2. \A b \in Addr, t \in Slot : [storage EXCEPT ![a][s] = v][b][t] # 0
  BY DEF NoZeroSlot, TypeOK, Storage
<1> QED
  BY <1>1, <1>2, WriteStoresNoZero

\* No operation of the state stores a zero slot.
LEMMA NextNoZero == IInv /\ NoZeroSlot /\ [Next]_vars => NoZeroSlot'
<1> SUFFICES ASSUME IInv, NoZeroSlot, [Next]_vars PROVE NoZeroSlot'
  OBVIOUS
<1>0. TypeOK
  BY DEF IInv
<1>1. ASSUME NEW raw \in RawAddr, NEW acc, SetAccount(raw, acc) \/ DeleteBegin(raw)
      PROVE  NoZeroSlot'
  BY <1>0, <1>1, NormalizedIsAddr, AccWriteStoresNoZero DEF SetAccount, DeleteBegin
<1>2. ASSUME NEW raw \in RawAddr, NEW delta, AddBalance(raw, delta) \/ SubBalance(raw, delta)
      PROVE  NoZeroSlot'
  BY <1>0, <1>2, NormalizedIsAddr, AccWriteStoresNoZero DEF AddBalance, SubBalance, SetBalance
<1>3. ASSUME NEW raw \in RawAddr, NEW s \in Slot, NEW val \in Value, SetStorage(raw, s, val)
      PROVE  NoZeroSlot'
  <2> DEFINE v == IF val = 0 THEN NoValue ELSE val
  <2>1. v # 0
    BY AbsentIsNotZero
  <2>2. Write(StorEntry(normalizeAddr(raw), s), accounts,
              [storage EXCEPT ![normalizeAddr(raw)][s] = v])
    BY <1>3 DEF SetStorage
  <2> HIDE DEF v
  <2> QED
    BY <1>0, <2>1, <2>2, NormalizedIsAddr, StorWriteStoresNoZero
<1>4. ASSUME NEW s \in Slot, DeleteSlot(s) PROVE NoZeroSlot'
  BY <1>0, <1>4, AbsentIsNotZero, StorWriteStoresNoZero DEF DeleteSlot, IInv, DeletionUnderWay
<1>5. CASE UndoOne
  <2> DEFINE e == journal[mu.left]
  <2>0. mu.left \in 1..Len(journal) /\ journal \in Seq(Entry) /\ mu.left \in DOMAIN journal
    BY <1>5 DEF IInv, TypeOK, SnapshotIndices, UndoOne
  <2>1. e \in Entry /\ e.prevVal # 0
    BY <1>0, <2>0 DEF NoZeroSlot
  <2>2. storage' = storage \/ storage' = [storage EXCEPT ![e.addr][e.slot] = e.prevVal]
    BY <1>5 DEF UndoOne, applyRevert, World
  <2> HIDE DEF e
  <2>3. \A a \in Addr, s \in Slot : storage'[a][s] # 0
    <3>1. storage \in Storage /\ \A a \in Addr, s \in Slot : storage[a][s] # 0
      BY <1>0 DEF TypeOK, NoZeroSlot
    <3>2. CASE storage' = storage
      BY <3>1, <3>2
    <3>3. CASE storage' = [storage EXCEPT ![e.addr][e.slot] = e.prevVal]
      BY <3>1, <3>3, <2>1 DEF Storage
    <3> QED
      BY <2>2, <3>2, <3>3
  <2> QED
    BY <1>5, <2>3 DEF UndoOne, NoZeroSlot
<1>6. CASE RevertEnd
  <2> DEFINE j == reverts[mu.at + 1]
  <2>1. j \in Nat /\ j <= Len(journal) /\ journal' = SubSeq(journal, 1, j) /\ storage' = storage
    BY <1>6 DEF RevertEnd, IInv, TypeOK, SnapshotIndices
  <2> HIDE DEF j
  <2>2. Len(journal') = j /\ \A i \in 1..j : journal'[i] = journal[i] /\ i \in 1..Len(journal)
    BY <2>1 DEF IInv, TypeOK
  <2> QED
    BY <2>1, <2>2 DEF NoZeroSlot
<1>7. CASE DeleteEnd \/ Snapshot \/ UNCHANGED vars
  BY <1>7 DEF DeleteEnd, Snapshot, vars, NoZeroSlot
<1>8. CASE Commit
  BY <1>8 DEF Commit, NoZeroSlot
<1>9. ASSUME NEW rev, RevertBegin(rev) \/ DiscardSnapshot(rev) PROVE NoZeroSlot'
  BY <1>9 DEF RevertBegin, DiscardSnapshot, NoZeroSlot
<1> QED
  BY <1>1, <1>2, <1>3, <1>4, <1>5, <1>6, <1>7, <1>8, <1>9 DEF Next, Mutate, LoopStep

\* No slot ever holds an explicit zero, so equal contents have equal roots.
THEOREM NoZeroStored == Spec => []NoZeroSlot
<1>1. Init => NoZeroSlot
  BY AbsentIsNotZero DEF Init, NoZeroSlot
<1> QED
  BY <1>1, NextNoZero, Invariance, PTL DEF Spec

-----------------------------------------------------------------------------
\* The refinement mapping: the copies are read off the history at the indices
\* the snapshots hold.
Top == hist[Len(hist)]
Saved == [k \in 1..Len(reverts) |-> hist[reverts[k] + 1]]

\* A sequence is the function of its positions.
LEMMA SeqIsFunction ==
  ASSUME NEW S, NEW s \in Seq(S)
  PROVE  s = [k \in 1..Len(s) |-> s[k]]
OBVIOUS

\* The mapped copies are typed, and the mapped contents too.
LEMMA MappedTypes ==
  ASSUME IInv PROVE Top \in Worlds /\ Saved \in Seq(Worlds) /\ Len(Saved) = Len(reverts)
<1>1. Len(hist) = Len(journal) + 1 /\ Len(journal) \in Nat /\ Len(reverts) \in Nat
  BY DEF IInv, TypeOK, UndoChain
<1>2. \A k \in 1..Len(reverts) : reverts[k] + 1 \in 1..Len(hist)
  BY <1>1 DEF IInv, TypeOK, SnapshotIndices
<1>3. \A i \in 1..Len(hist) : hist[i] \in Worlds
  BY DEF IInv, TypeOK
<1>4. Top \in Worlds
  BY <1>1, <1>3 DEF Top
<1>5. Saved \in [1..Len(reverts) -> Worlds]
  BY <1>2, <1>3 DEF Saved
<1> QED
  BY <1>1, <1>4, <1>5 DEF Saved

\* A journalled write is a Write of the abstract store: no copy changes.
LEMMA WriteRefines ==
  ASSUME IInv, IInv', NEW e, NEW accs, NEW stor, Write(e, accs, stor)
  PROVE  Top' \in Worlds /\ Saved' = Saved
<1>1. Len(hist) \in Nat /\ \A i \in 1..Len(hist) : hist'[i] = hist[i]
  BY DEF Write, IInv, TypeOK
<1>2. \A k \in 1..Len(reverts) : reverts[k] + 1 \in 1..Len(hist)
  <2>1. Len(hist) = Len(journal) + 1 /\ Len(journal) \in Nat
    <3>1. TypeOK /\ UndoChain
      BY DEF IInv
    <3> QED
      BY <3>1 DEF TypeOK, UndoChain
  <2>2. \A k \in 1..Len(reverts) : reverts[k] \in Nat /\ reverts[k] <= Len(journal)
    <3>1. TypeOK /\ SnapshotIndices
      BY DEF IInv
    <3>2. reverts \in Seq(Nat)
      BY <3>1 DEF TypeOK
    <3> QED
      BY <3>1, <3>2 DEF SnapshotIndices
  <2> QED
    BY <2>1, <2>2
<1>3. Saved' = Saved
  <2>1. reverts' = reverts
    BY DEF Write
  <2>2. \A k \in 1..Len(reverts) : hist'[reverts[k] + 1] = hist[reverts[k] + 1]
    BY <1>1, <1>2
  <2> QED
    BY <2>1, <2>2, Zenon DEF Saved
<1>4. Top' \in Worlds
  BY <1>1 DEF Top, IInv, TypeOK, Write
<1> QED
  BY <1>3, <1>4

\* Every step is a step of the abstract store, or leaves it as it is.
LEMMA StepRefines ==
  ASSUME IInv, IInv', [Next]_vars
  PROVE  \/ Top' \in Worlds /\ Saved' = Saved
         \/ Top' = Top /\ Saved' = Append(Saved, Top)
         \/ Top' = Top /\ Saved' = <<>>
         \/ \E rev \in 0..(Len(Saved) - 1) :
              /\ Saved' = SubSeq(Saved, 1, rev)
              /\ Top' = Top \/ Top' = Saved[rev + 1]
<1> DEFINE Goal == \/ Top' \in Worlds /\ Saved' = Saved
                   \/ Top' = Top /\ Saved' = Append(Saved, Top)
                   \/ Top' = Top /\ Saved' = <<>>
                   \/ \E rev \in 0..(Len(Saved) - 1) :
                        /\ Saved' = SubSeq(Saved, 1, rev)
                        /\ Top' = Top \/ Top' = Saved[rev + 1]
<1> SUFFICES Goal
  OBVIOUS
<1>0. /\ Top \in Worlds /\ Saved \in Seq(Worlds) /\ Len(Saved) = Len(reverts)
      /\ Len(reverts) \in Nat /\ Len(journal) \in Nat /\ Len(hist) = Len(journal) + 1
      /\ \A k \in 1..Len(reverts) : Saved[k] = hist[reverts[k] + 1]
      /\ \A k \in 1..Len(reverts) : reverts[k] \in 0..Len(journal)
  <2>1. Len(reverts) \in Nat /\ Len(journal) \in Nat /\ Len(hist) = Len(journal) + 1
    <3>1. TypeOK /\ UndoChain
      BY DEF IInv
    <3> QED
      BY <3>1 DEF TypeOK, UndoChain
  <2>2. \A k \in 1..Len(reverts) : reverts[k] \in Nat /\ reverts[k] <= Len(journal)
    <3>1. TypeOK /\ SnapshotIndices
      BY DEF IInv
    <3>2. reverts \in Seq(Nat)
      BY <3>1 DEF TypeOK
    <3> QED
      BY <3>1, <3>2 DEF SnapshotIndices
  <2>3. \A k \in 1..Len(reverts) : Saved[k] = hist[reverts[k] + 1]
    BY DEF Saved
  <2> QED
    BY <2>1, <2>2, <2>3, MappedTypes
<1>w. ASSUME NEW e, NEW accs, NEW stor, Write(e, accs, stor) PROVE Goal
  BY <1>w, WriteRefines
<1>1. CASE Mutate
  <2> HIDE DEF Goal
  <2>1. \E e, accs, stor : Write(e, accs, stor)
    BY <1>1, Zenon DEF Mutate, SetAccount, DeleteBegin, AddBalance, SubBalance, SetBalance, SetStorage
  <2> QED
    BY <2>1, <1>w, Zenon
<1>2. ASSUME NEW s \in Slot, DeleteSlot(s) PROVE Goal
  <2> HIDE DEF Goal
  <2>1. \E e, accs, stor : Write(e, accs, stor)
    BY <1>2, Zenon DEF DeleteSlot
  <2> QED
    BY <2>1, <1>w, Zenon
<1>3. CASE UNCHANGED <<hist, reverts>>
  <2>1. Top' = Top /\ Saved' = Saved
    BY <1>3, Zenon DEF Top, Saved
  <2> QED
    BY <2>1, <1>0, Zenon
<1>4. CASE DeleteEnd \/ UndoOne \/ UNCHANGED vars
  BY <1>3, <1>4 DEF DeleteEnd, UndoOne, vars
<1>5. ASSUME NEW rev, RevertBegin(rev) PROVE Goal
  BY <1>3, <1>5 DEF RevertBegin
<1>6. CASE Snapshot
  <2>1. Top' = Top /\ Top = hist[Len(journal) + 1]
    BY <1>0, <1>6 DEF Snapshot, Top
  <2>2. /\ Len(reverts') = Len(reverts) + 1 /\ hist' = hist
        /\ reverts'[Len(reverts) + 1] = Len(journal)
        /\ \A k \in 1..Len(reverts) : reverts'[k] = reverts[k]
    BY <1>6, <1>0 DEF Snapshot, IInv, TypeOK
  <2>3. Saved' = [k \in 1..(Len(reverts) + 1) |-> hist[reverts'[k] + 1]]
    BY <2>2 DEF Saved
  <2>4. \A k \in 1..(Len(reverts) + 1) : hist[reverts'[k] + 1] = Append(Saved, Top)[k]
    BY <2>1, <2>2, <1>0
  <2>5. Append(Saved, Top) = [k \in 1..(Len(reverts) + 1) |-> Append(Saved, Top)[k]]
    <3>1. Append(Saved, Top) \in Seq(Worlds) /\ Len(Append(Saved, Top)) = Len(reverts) + 1
      BY <1>0
    <3> DEFINE t == Append(Saved, Top)
    <3> HIDE DEF t
    <3>2. t \in Seq(Worlds) /\ Len(t) = Len(reverts) + 1
      BY <3>1 DEF t
    <3>3. t = [k \in 1..(Len(reverts) + 1) |-> t[k]]
      BY <3>2, SeqIsFunction
    <3> QED
      BY <3>3 DEF t
  <2> QED
    BY <2>1, <2>3, <2>4, <2>5
<1>7. ASSUME reverts' = <<>>, hist' = <<World>>, mu = Free
      PROVE  Top' = Top /\ Saved' = <<>>
  <2>1. World = Top /\ Top' = World
    BY <1>0, <1>7 DEF Top, IInv, UndoChain, Live, Free
  <2> QED
    BY <1>7, <2>1 DEF Saved
<1>8. CASE Commit
  BY <1>7, <1>8 DEF Commit
<1>9. ASSUME NEW rev \in 0..(Len(reverts) - 1), reverts' = SubSeq(reverts, 1, rev),
             \A k \in 1..rev : hist'[reverts[k] + 1] = hist[reverts[k] + 1]
      PROVE  Saved' = SubSeq(Saved, 1, rev)
  <2>1. Len(reverts') = rev /\ \A k \in 1..rev : reverts'[k] = reverts[k]
    BY <1>0, <1>9 DEF IInv, TypeOK
  <2>2. Saved' = [k \in 1..rev |-> hist[reverts[k] + 1]]
    BY <2>1, <1>9 DEF Saved
  <2>3. SubSeq(Saved, 1, rev) = [k \in 1..rev |-> Saved[k]]
    BY <1>0
  <2> QED
    BY <2>2, <2>3, <1>0
<1>10. ASSUME NEW rev \in 0..(Len(reverts) - 1), DiscardSnapshot(rev) PROVE Goal
  <2>1. CASE rev = 0
    BY <1>7, <1>10, <2>1 DEF DiscardSnapshot, IInv, TypeOK
  <2>2. CASE rev # 0
    <3>1. hist' = hist /\ Top' = Top /\ reverts' = SubSeq(reverts, 1, rev)
      BY <1>10, <2>2 DEF DiscardSnapshot, Top
    <3> QED
      BY <3>1, <1>9, <1>0
  <2> QED
    BY <2>1, <2>2
<1>11. CASE RevertEnd
  <2> DEFINE rev == mu.at
             j == reverts[rev + 1]
  <2>1. /\ rev \in 0..(Len(reverts) - 1) /\ j \in 0..Len(journal) /\ Saved[rev + 1] = hist[j + 1]
        /\ \A k \in 1..rev : reverts[k] <= j /\ k \in 1..Len(reverts)
    <3>1. rev \in 0..(Len(reverts) - 1)
      BY <1>0, <1>11 DEF RevertEnd, IInv, TypeOK, SnapshotIndices
    <3>2. rev + 1 \in 1..Len(reverts) /\ \A k \in 1..rev : k \in 1..Len(reverts) /\ k <= rev + 1
      BY <3>1, <1>0
    <3> QED
      BY <3>1, <3>2, <1>0 DEF IInv, SnapshotIndices
  <2>2. hist' = SubSeq(hist, 1, j + 1) /\ reverts' = SubSeq(reverts, 1, rev)
    BY <1>11 DEF RevertEnd
  <2> HIDE DEF rev, j
  <2>3. Len(hist') = j + 1 /\ \A i \in 1..(j + 1) : hist'[i] = hist[i]
    BY <2>1, <2>2, <1>0 DEF IInv, TypeOK
  <2>4. Top' = Saved[rev + 1]
    BY <2>1, <2>3 DEF Top
  <2>5. Saved' = SubSeq(Saved, 1, rev)
    <3>1. ASSUME NEW k \in 1..rev PROVE hist'[reverts[k] + 1] = hist[reverts[k] + 1]
      <4>1. reverts[k] + 1 \in 1..(j + 1)
        BY <2>1, <1>0
      <4> QED
        BY <4>1, <2>3
    <3> QED
      BY <3>1, <2>1, <2>2, <1>9
  <2> QED
    BY <2>1, <2>4, <2>5, <1>0
<1> QED
  BY <1>1, <1>2, <1>4, <1>5, <1>6, <1>7, <1>8, <1>10, <1>11 DEF Next, LoopStep

\* The journal implements the stack of full copies.
THEOREM Refinement == Spec => Refines
<1>1. Init => Store!Init
  BY MappedTypes, InitInv DEF Store!Init, Init, Top, Saved
<1>2. IInv /\ IInv' /\ [Next]_vars => [Store!Next]_(Store!vars)
  <2> SUFFICES ASSUME IInv, IInv', [Next]_vars PROVE [Store!Next]_(Store!vars)
    OBVIOUS
  <2>1. Top = hist[Len(hist)] /\ Saved = [k \in 1..Len(reverts) |-> hist[reverts[k] + 1]]
    BY DEF Top, Saved
  <2>2. /\ Top' = hist'[Len(hist')]
        /\ Saved' = [k \in 1..Len(reverts') |-> hist'[reverts'[k] + 1]]
    BY DEF Top, Saved
  <2>3. Len(Saved) \in Nat
    BY MappedTypes
  <2>4. CASE Top' \in Worlds /\ Saved' = Saved
    BY <2>1, <2>2, <2>4 DEF Store!Next, Store!Write
  <2>5. CASE Top' = Top /\ Saved' = Append(Saved, Top)
    BY <2>1, <2>2, <2>5 DEF Store!Next, Store!Snapshot
  <2>6. CASE Top' = Top /\ Saved' = <<>>
    BY <2>1, <2>2, <2>6 DEF Store!Next, Store!Commit
  <2>7. ASSUME NEW rev \in 0..(Len(Saved) - 1), Saved' = SubSeq(Saved, 1, rev),
               Top' = Top \/ Top' = Saved[rev + 1]
        PROVE  Store!Next
    <3>1. rev < Len(Saved)
      BY <2>3
    <3>2. Store!RevertToSnapshot(rev) \/ Store!DiscardSnapshot(rev)
      BY <2>1, <2>2, <2>7, <3>1 DEF Store!RevertToSnapshot, Store!DiscardSnapshot
    <3> QED
      BY <2>1, <3>2 DEF Store!Next
  <2> QED
    BY <2>4, <2>5, <2>6, <2>7, StepRefines
<1> QED
  BY <1>1, <1>2, Invariance, PTL DEF Spec, Refines, Store!Spec
=============================================================================
