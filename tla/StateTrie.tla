------------------------------ MODULE StateTrie ------------------------------
(***************************************************************************)
(* pkg/statetrie/state_trie.go: the world state (accounts and storage      *)
(* slots) with its undo journal and its stack of snapshots.                *)
(*                                                                         *)
(* Every mutator appends to the journal what it is about to overwrite;     *)
(* Snapshot remembers the journal's length; RevertToSnapshot undoes the    *)
(* journal's entries from the last one down to that length.  Two           *)
(* operations are loops, and each iteration is a step here: the deletion   *)
(* of an account, which journals and deletes its slots in the order a Go   *)
(* map iterates (any), and the undo of a revert.  The variable mu is the   *)
(* mutex those loops hold, with the loop's state.                          *)
(*                                                                         *)
(* hist is a history variable: no guard and no other variable depends on   *)
(* it.  hist[i] is the contents the journal's entry i was written over.    *)
(***************************************************************************)
EXTENDS Naturals, Sequences, FiniteSets

CONSTANTS
  AddrSpace,         \* 2^160: the number of addresses
  RawSpace,          \* 2^256: the number of words an address is read from
  Slot,              \* storage slots
  Word,              \* 2^256: balances and storage values are below it
  Body,              \* what an account holds besides its balance (nonce, code)
  EmptyBody,         \* the body ensureAccount gives a new account
  NoAccount,         \* the map accounts has no entry
  NoValue,           \* the map storage has no entry
  MaxJournal,        \* bound: the journal's length
  MaxSnapshots       \* bound: live snapshots

Addr == 0..(AddrSpace - 1)
RawAddr == 0..(RawSpace - 1)
Value == 0..(Word - 1)
Account == [balance : Value, body : Body]

ASSUME SpaceAssumption ==
  /\ AddrSpace \in Nat \ {0}
  /\ RawSpace \in Nat
  /\ Word \in Nat \ {0}
  /\ MaxJournal \in Nat
  /\ MaxSnapshots \in Nat
  /\ EmptyBody \in Body

ASSUME AbsentAssumption ==
  /\ NoAccount \notin Account
  /\ NoValue \notin Value

VARIABLES
  accounts,          \* accounts[a]: the account at a, or NoAccount
  storage,           \* storage[a][s]: the value of slot s of a, or NoValue
  journal,           \* undo entries, oldest first
  reverts,           \* reverts[k]: the journal's length at snapshot k - 1
  mu,                \* the holder of the mutex, and its loop's state
  hist               \* history: the contents before every journal entry

vars == <<accounts, storage, journal, reverts, mu, hist>>

MaybeAccount == Account \cup {NoAccount}
MaybeValue == Value \cup {NoValue}
Storage == [Addr -> [Slot -> MaybeValue]]
Worlds == [accounts : [Addr -> MaybeAccount], storage : Storage]
World == [accounts |-> accounts, storage |-> storage]

\* A journal entry: prevAcc matters for kind "acc", slot and prevVal for "stor".
Entry == [kind : {"acc", "stor"}, addr : Addr, slot : Slot \cup {NoValue},
          prevAcc : MaybeAccount, prevVal : MaybeValue]

AccEntry(a) == [kind |-> "acc", addr |-> a, slot |-> NoValue,
                prevAcc |-> accounts[a], prevVal |-> NoValue]
StorEntry(a, s) == [kind |-> "stor", addr |-> a, slot |-> s,
                    prevAcc |-> NoAccount, prevVal |-> storage[a][s]]

\* The mutex: free, or held by the loop over the slots of account `at`, or by
\* the undo loop of revision `at` with `left` journal entries not yet undone.
Free == [by |-> "free", at |-> 0, left |-> 0]
Deleting(a) == [by |-> "delete", at |-> a, left |-> 0]
Undoing(rev, n) == [by |-> "revert", at |-> rev, left |-> n]

TypeOK ==
  /\ accounts \in [Addr -> MaybeAccount]
  /\ storage \in Storage
  /\ journal \in Seq(Entry)
  /\ reverts \in Seq(Nat)
  /\ mu \in [by : {"free", "delete", "revert"}, at : Nat, left : Nat]
  /\ hist \in Seq(Worlds)

Init ==
  /\ accounts = [a \in Addr |-> NoAccount]
  /\ storage = [a \in Addr |-> [s \in Slot |-> NoValue]]
  /\ journal = <<>>
  /\ reverts = <<>>
  /\ mu = Free
  /\ hist = <<World>>

-----------------------------------------------------------------------------
\* Addresses are read from 256-bit words: the upper 96 bits are cleared.
normalizeAddr(raw) == raw % AddrSpace

\* One journalled write: the undo entry and the new contents.
Write(e, accs, stor) ==
  /\ journal' = Append(journal, e)
  /\ accounts' = accs
  /\ storage' = stor
  /\ hist' = Append(hist, [accounts |-> accs, storage |-> stor])
  /\ UNCHANGED reverts

Room(n) == Len(journal) + n <= MaxJournal

SetAccount(raw, acc) ==
  LET a == normalizeAddr(raw) IN
  /\ mu = Free
  /\ Room(1)
  /\ Write(AccEntry(a), [accounts EXCEPT ![a] = acc], storage)
  /\ UNCHANGED mu

\* SetAccount(addr, nil): the account goes, then its slots one by one, in any
\* order.  The bound leaves room for every slot the loop will journal.
SlotsOf(a) == {s \in Slot : storage[a][s] # NoValue}

DeleteBegin(raw) ==
  LET a == normalizeAddr(raw) IN
  /\ mu = Free
  /\ Room(1 + Cardinality(SlotsOf(a)))
  /\ Write(AccEntry(a), [accounts EXCEPT ![a] = NoAccount], storage)
  /\ mu' = Deleting(a)

DeleteSlot(s) ==
  /\ mu.by = "delete"
  /\ s \in SlotsOf(mu.at)
  /\ Write(StorEntry(mu.at, s), accounts, [storage EXCEPT ![mu.at][s] = NoValue])
  /\ UNCHANGED mu

DeleteEnd ==
  /\ mu.by = "delete"
  /\ SlotsOf(mu.at) = {}
  /\ mu' = Free
  /\ UNCHANGED <<accounts, storage, journal, reverts, hist>>

\* The account a mutator writes to: a new empty one if there is none.
ensureAccount(a) ==
  IF accounts[a] = NoAccount THEN [balance |-> 0, body |-> EmptyBody] ELSE accounts[a]

SetBalance(a, bal) ==
  LET acc == [balance |-> bal, body |-> ensureAccount(a).body] IN
  /\ Write(AccEntry(a), [accounts EXCEPT ![a] = acc], storage)
  /\ UNCHANGED mu

\* Mutant of AddBalance: the sum is not reduced to 256 bits.
AddBalanceNoWrap(raw, delta) ==
  LET a == normalizeAddr(raw) IN
  /\ mu = Free
  /\ Room(1)
  /\ accounts[a] # NoAccount \/ delta # 0
  /\ SetBalance(a, ensureAccount(a).balance + delta)

\* Crediting zero to an absent account leaves it absent; addition wraps.
AddBalance(raw, delta) ==
  LET a == normalizeAddr(raw) IN
  /\ mu = Free
  /\ Room(1)
  /\ accounts[a] # NoAccount \/ delta # 0
  /\ SetBalance(a, (ensureAccount(a).balance + delta) % Word)

\* ErrInsufficientBalance leaves the state as it is: no step.
SubBalance(raw, delta) ==
  LET a == normalizeAddr(raw) IN
  /\ mu = Free
  /\ Room(1)
  /\ delta <= ensureAccount(a).balance
  /\ accounts[a] # NoAccount \/ delta # 0
  /\ SetBalance(a, ensureAccount(a).balance - delta)

\* Writing zero deletes the slot.  The account need not exist.
SetStorage(raw, s, val) ==
  LET a == normalizeAddr(raw) IN
  /\ mu = Free
  /\ Room(1)
  /\ Write(StorEntry(a, s), accounts,
           [storage EXCEPT ![a][s] = IF val = 0 THEN NoValue ELSE val])
  /\ UNCHANGED mu

-----------------------------------------------------------------------------
Snapshot ==
  /\ mu = Free
  /\ Len(reverts) < MaxSnapshots
  /\ reverts' = Append(reverts, Len(journal))
  /\ UNCHANGED <<accounts, storage, journal, mu, hist>>

\* An entry puts back what it recorded, absence included.
applyRevert(e, w) ==
  IF e.kind = "acc"
  THEN [accounts |-> [w.accounts EXCEPT ![e.addr] = e.prevAcc],
        storage |-> w.storage]
  ELSE [accounts |-> w.accounts,
        storage |-> [w.storage EXCEPT ![e.addr][e.slot] = e.prevVal]]

\* RevertToSnapshot with an unknown revision panics before it writes anything.
RevertBegin(rev) ==
  /\ mu = Free
  /\ rev < Len(reverts)
  /\ mu' = Undoing(rev, Len(journal))
  /\ UNCHANGED <<accounts, storage, journal, reverts, hist>>

\* Mutant of UndoOne: the entries are undone oldest first.
UndoOneForward ==
  LET j == reverts[mu.at + 1]
      i == j + 1 + Len(journal) - mu.left
      w == applyRevert(journal[i], World) IN
  /\ mu.by = "revert"
  /\ mu.left > j
  /\ accounts' = w.accounts /\ storage' = w.storage
  /\ mu' = Undoing(mu.at, mu.left - 1)
  /\ UNCHANGED <<journal, reverts, hist>>

UndoOne ==
  /\ mu.by = "revert"
  /\ mu.left > reverts[mu.at + 1]
  /\ LET w == applyRevert(journal[mu.left], World)
     IN  accounts' = w.accounts /\ storage' = w.storage
  /\ mu' = Undoing(mu.at, mu.left - 1)
  /\ UNCHANGED <<journal, reverts, hist>>

\* Mutant of RevertEnd: the reverted snapshot itself is kept.
RevertEndKeepsSnapshot ==
  /\ mu.by = "revert"
  /\ mu.left <= reverts[mu.at + 1]
  /\ journal' = SubSeq(journal, 1, reverts[mu.at + 1])
  /\ reverts' = SubSeq(reverts, 1, mu.at + 1)
  /\ mu' = Free
  /\ hist' = SubSeq(hist, 1, reverts[mu.at + 1] + 1)
  /\ UNCHANGED <<accounts, storage>>

RevertEnd ==
  /\ mu.by = "revert"
  /\ mu.left <= reverts[mu.at + 1]
  /\ journal' = SubSeq(journal, 1, reverts[mu.at + 1])
  /\ reverts' = SubSeq(reverts, 1, mu.at)
  /\ mu' = Free
  /\ hist' = SubSeq(hist, 1, reverts[mu.at + 1] + 1)
  /\ UNCHANGED <<accounts, storage>>

Commit ==
  /\ mu = Free
  /\ journal' = <<>>
  /\ reverts' = <<>>
  /\ hist' = <<World>>
  /\ UNCHANGED <<accounts, storage, mu>>

\* The journal is dropped only with the last snapshot: the ones that stay
\* hold indices into it.
DiscardSnapshot(rev) ==
  /\ mu = Free
  /\ rev < Len(reverts)
  /\ reverts' = SubSeq(reverts, 1, rev)
  /\ IF rev = 0
     THEN journal' = <<>> /\ hist' = <<World>>
     ELSE UNCHANGED <<journal, hist>>
  /\ UNCHANGED <<accounts, storage, mu>>

-----------------------------------------------------------------------------
Mutate ==
  \E raw \in RawAddr :
    \/ \E acc \in Account : SetAccount(raw, acc)
    \/ DeleteBegin(raw)
    \/ \E delta \in Value : AddBalance(raw, delta) \/ SubBalance(raw, delta)
    \/ \E s \in Slot, val \in Value : SetStorage(raw, s, val)

LoopStep ==
  \/ \E s \in Slot : DeleteSlot(s)
  \/ DeleteEnd
  \/ UndoOne
  \/ RevertEnd

Next ==
  \/ Mutate
  \/ LoopStep
  \/ Snapshot
  \/ Commit
  \/ \E rev \in 0..(Len(reverts) - 1) : RevertBegin(rev) \/ DiscardSnapshot(rev)

Spec == Init /\ [][Next]_vars

-----------------------------------------------------------------------------
\* How many journal entries describe the contents: during an undo, the ones
\* that are left.
Live == IF mu.by = "revert" THEN mu.left ELSE Len(journal)

\* Every snapshot holds an index into the journal that is still there, and older
\* snapshots hold smaller ones (DiscardSnapshot's comment: the snapshots that
\* stay keep valid journal indices).
SnapshotIndices ==
  /\ \A k \in 1..Len(reverts) : reverts[k] <= Len(journal)
  /\ \A j, k \in 1..Len(reverts) : j <= k => reverts[j] <= reverts[k]
  /\ mu.by = "revert" =>
       /\ mu.at < Len(reverts)
       /\ mu.left <= Len(journal)
       /\ reverts[mu.at + 1] <= mu.left

\* Undoing entry i on the contents that followed it gives the contents before it,
\* and the present contents are the ones after the last live entry.
UndoChain ==
  /\ Len(hist) = Len(journal) + 1
  /\ \A i \in 1..Len(journal) : applyRevert(journal[i], hist[i + 1]) = hist[i]
  /\ World = hist[Live + 1]

\* An undo loop that reaches its snapshot's index has rebuilt exactly the
\* contents the snapshot was taken of, whatever was written since.
RevertRestores ==
  mu.by = "revert" /\ mu.left = reverts[mu.at + 1] =>
    World = hist[reverts[mu.at + 1] + 1]

\* A slot is never stored with the value zero, neither by a write nor by an undo:
\* the root would not be the one of the same state built from scratch.
NoZeroSlot ==
  /\ \A a \in Addr, s \in Slot : storage[a][s] # 0
  /\ \A i \in 1..Len(journal) : journal[i].prevVal # 0

\* The journal implements the stack of copies: until the undo loop ends readers
\* are locked out, so the contents they can see are the ones it started from.
Store == INSTANCE SnapshotStore WITH
  world <- hist[Len(hist)],
  saved <- [k \in 1..Len(reverts) |-> hist[reverts[k] + 1]]

Refines == Store!Spec
=============================================================================
