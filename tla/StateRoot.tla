------------------------------ MODULE StateRoot ------------------------------
(***************************************************************************)
(* ComputeRoot, GenerateProof and GenerateStorageProof of pkg/statetrie:   *)
(* the tries are built anew at every call, the state's in an arena that    *)
(* the calls share, an account's for a proof in one of its own.            *)
(*                                                                         *)
(* A storage trie is built twice from the same slots: sorted by slot for   *)
(* the state root, in the order of an iteration over a Go map, that is, in *)
(* any order, for a proof.  The writers are the ones of module StateTrie,  *)
(* each a single step here.  GenerateStorageProof does not take mu; its    *)
(* callers have the state to themselves, so it is a single step too.       *)
(*                                                                         *)
(* cert is what the last call answered, with the state it was made from as *)
(* a history; age counts the writes since.                                 *)
(***************************************************************************)
EXTENDS MptProof, FiniteSets

CONSTANTS
  Address,           \* addresses, in their order
  Slot,              \* slots, in their order
  Value,             \* storage values other than zero
  ValueLen,          \* the length of a value's RLP encoding
  AddrKey,           \* the nibbles of the digest of an address
  SlotKey,           \* the nibbles of the digest of a slot
  Cells,             \* the <<address, slot, value>> that callers write
  Account,           \* accounts: nonce and code hash
  ZeroHash,          \* the code hash of an account that was never given one
  EmptyCodeHash,     \* the digest of no code
  MaxAge             \* bound: writes between an answer and its use

KeyType == [1..KeyLen -> 0..15]

ASSUME StateRootAssumption ==
  /\ Address \subseteq Nat /\ Slot \subseteq Nat /\ Value \subseteq Nat \ {0}
  /\ ValueLen \in [Value -> 1..33]
  /\ AddrKey \in [Address -> KeyType] /\ IsInjective(AddrKey)
  /\ SlotKey \in [Slot -> KeyType] /\ IsInjective(SlotKey)
  /\ Account \subseteq [nonce : Nat, codeHash : {ZeroHash, EmptyCodeHash}]
  /\ Cells \subseteq Address \X Slot \X (Value \cup {0})
  /\ MaxAge \in Nat

VARIABLES
  accounts,          \* the map accounts
  storage,           \* the map storage, from <<address, slot>>
  cert,              \* the last answer
  age                \* writes since

vars == <<accounts, storage, cert, age>>

NoCert == [call |-> "none"]
History == [accounts |-> accounts, storage |-> storage]

Init ==
  /\ accounts = <<>> /\ storage = <<>>
  /\ cert = NoCert /\ age = 0

-----------------------------------------------------------------------------
\* Writers.
Wrote == age < MaxAge

\* A proof of a slot outlives the state it was made from; other answers do not.
Older == /\ cert' = IF cert.call = "slot" THEN cert ELSE NoCert
         /\ age' = IF cert.call = "slot" THEN age + 1 ELSE 0

SetAccount(a, acc) ==
  /\ Wrote
  /\ accounts' = With(accounts, a, acc)
  /\ Older
  /\ UNCHANGED storage

\* A nil account: it goes, and its slots with it.
DeleteAccount(a) ==
  /\ Wrote
  /\ accounts' = Restrict(accounts, DOMAIN accounts \ {a})
  /\ storage' = RestrictDomain(storage, LAMBDA k : k[1] # a)
  /\ Older

\* Zero is written by removing the entry.
SetStorage(a, s, v) ==
  /\ Wrote
  /\ storage' = IF v = 0 THEN Restrict(storage, DOMAIN storage \ {<<a, s>>})
                ELSE With(storage, <<a, s>>, v)
  /\ Older
  /\ UNCHANGED accounts

-----------------------------------------------------------------------------
\* Values as the tries hold them.
EncodeStorageValue(v) == IF v = 0 THEN NullRLP ELSE [data |-> <<v>>, len |-> ValueLen[v]]

\* The zero code hash is encoded as the digest of no code.
encodeAccount(acc, storageRoot) ==
  [data |-> <<acc.nonce, IF acc.codeHash = ZeroHash THEN EmptyCodeHash ELSE acc.codeHash, storageRoot>>,
   len |-> 70]

emptyAccount == [nonce |-> 0, codeHash |-> EmptyCodeHash]

\* The pairs a storage trie is built from, for entries of one address.
SlotPairs(entries) ==
  [i \in DOMAIN entries |-> <<SlotKey[entries[i][2]], EncodeStorageValue(storage[entries[i]])>>]

Before(x, y) == x[1] < y[1] \/ (x[1] = y[1] /\ x[2] < y[2])

\* How many of the entries, from the first on, are of address a.
Run(entries, a) == Cardinality({i \in DOMAIN entries : \A j \in 1..i : entries[j][1] = a})

\* buildAccountTrie's loops over the sorted accounts and the sorted slots: slots
\* of an address without an account make an empty account.
RECURSIVE Merge(_, _, _)
Merge(got, accts, entries) ==
  IF accts = <<>> /\ entries = <<>> THEN got
  ELSE LET orphan == entries # <<>> /\ (accts = <<>> \/ entries[1][1] < accts[1])
           a == IF orphan THEN entries[1][1] ELSE accts[1]
           n == Run(entries, a)
           sub == Build(SlotPairs(Upto(entries, n)))
           acc == IF orphan THEN emptyAccount ELSE accounts[a]
           ins == insertNode(got.node, AddrKey[a], encodeAccount(acc, hashRoot(sub.node)))
       IN  Merge(Got(ins.node, got.taken + sub.taken + ins.taken),
                 IF orphan THEN accts ELSE Tail(accts), From(entries, n))

buildAccountTrie ==
  Merge(Got(Nil, 0), SetToSortSeq(DOMAIN accounts, <), SetToSortSeq(DOMAIN storage, Before))

\* Mutant of reserveArena: only the accounts are counted.
reserveForAccounts == 8 * Cardinality(DOMAIN accounts) + 256

\* The nodes the arena has at least: ensureNodes keeps a larger one of an earlier
\* call.  An empty state needs none.
reserveArena ==
  LET n == Cardinality(DOMAIN accounts) + Cardinality(DOMAIN storage)
  IN  IF n = 0 THEN 0 ELSE 8 * n + 256

\* allocNode panics when the arena is used up.  One answer is looked at at a time.
Answered(answer, taken, room) ==
  /\ cert = NoCert
  /\ cert' = IF taken > room THEN [call |-> "panic"]
             ELSE [taken |-> taken, room |-> room] @@ answer
  /\ UNCHANGED <<accounts, storage, age>>

\* Both of these hold mu.
ComputeRoot ==
  LET built == buildAccountTrie
  IN  Answered([call |-> "root", root |-> hashRoot(built.node), at |-> History], built.taken, reserveArena)

\* ErrProofNotFound, with the proof as far as it goes, unless the walk finds the account.
GenerateProof(a) ==
  LET built == buildAccountTrie
  IN  Answered([call |-> "account", addr |-> a, root |-> hashRoot(built.node), at |-> History,
                proof |-> IF built.node = Nil THEN <<>>
                          ELSE collectStorageProof(built.node, AddrKey[a]),
                found |-> Found(built.node, AddrKey[a])], built.taken, reserveArena)

\* An account without slots has the empty root and the proof 0x80.
GenerateStorageProof(a, s) ==
  \E order \in SetToSeqs({k \in DOMAIN storage : k[1] = a}) :
    LET built == Build(SlotPairs(order))
    IN  Answered([call |-> "slot", addr |-> a, slot |-> s, root |-> hashRoot(built.node),
                  at |-> [accounts |-> <<>>, storage |-> RestrictDomain(storage, LAMBDA k : k[1] = a)],
                  proof |-> collectStorageProof(built.node, SlotKey[s])], built.taken, 4 * Len(order) + 64)

Next ==
  \/ \E a \in Address, acc \in Account : SetAccount(a, acc)
  \/ \E a \in Address : DeleteAccount(a)
  \/ \E c \in Cells : SetStorage(c[1], c[2], c[3])
  \/ ComputeRoot
  \/ \E a \in Address : GenerateProof(a)
  \/ \E a \in Address, s \in Slot : GenerateStorageProof(a, s)

Spec == Init /\ [][Next]_vars

-----------------------------------------------------------------------------
\* The trie of a map from keys to values, by what it is and not by how it is built:
\* a leaf for one key, an extension for what all keys share, a branch otherwise.
RECURSIVE Canonical(_)
Canonical(map) ==
  LET keys == DOMAIN map
      one == CHOOSE k \in keys : TRUE
      shared == Upto(one, Min({commonPrefix(one, k) : k \in keys}))
      Below(prefix) ==
        [k \in {From(key, Len(prefix)) : key \in {k \in keys : Upto(k, Len(prefix)) = prefix}} |->
           map[prefix \o k]]
  IN  IF keys = {} THEN Nil
      ELSE IF keys = {one} THEN Leaf(one, map[one])
      ELSE IF shared # <<>> THEN Ext(shared, Canonical(Below(shared)))
      ELSE Branch([x \in {k[1] : k \in keys} |-> Canonical(Below(<<x>>))], NoValue)

\* A state's value at a slot, its storage tries, its accounts and its root.
SlotValue(at, a, s) == IF <<a, s>> \in DOMAIN at.storage THEN at.storage[<<a, s>>] ELSE 0
StorageTrie(at, a) ==
  LET held == {s \in Slot : <<a, s>> \in DOMAIN at.storage}
      slotOf == AntiFunction(Restrict(SlotKey, held))
  IN  Canonical([k \in DOMAIN slotOf |-> EncodeStorageValue(at.storage[<<a, slotOf[k]>>])])
Known(at) == DOMAIN at.accounts \cup {k[1] : k \in DOMAIN at.storage}
AccountAt(at, a) ==
  encodeAccount(IF a \in DOMAIN at.accounts THEN at.accounts[a] ELSE emptyAccount,
                hashRoot(StorageTrie(at, a)))
StateTrieOf(at) ==
  LET addrOf == AntiFunction(Restrict(AddrKey, Known(at)))
  IN  Canonical([k \in DOMAIN addrOf |-> AccountAt(at, addrOf[k])])

\* Every root answered is the one of the state's contents: whatever order the map
\* of slots is iterated in, whatever was in the arena before, and whether or not
\* an address with slots has an account.
RootsAreCanonical ==
  /\ cert.call \in {"root", "account"} => cert.root = hashRoot(StateTrieOf(cert.at))
  /\ cert.call = "slot" => cert.root = hashRoot(StorageTrie(cert.at, cert.addr))

\* Attempts to use the proof: as it is, or behind the root of another state.
Attempts(root) == {cert.proof, <<root>> \o Tail(cert.proof)}

\* A proof shows what it was made for and nothing else.  It verifies for the slot's
\* value, zero when it has none, but for no other value, no other slot's and no
\* later state's, not even when its entries follow the root of a later state.  An
\* account is found exactly when the state has it or slots of it, and is then shown.
ProofsShowExactly ==
  /\ cert.call = "slot" =>
       /\ VerifyStorageProof(cert.root, SlotKey[cert.slot],
                             EncodeStorageValue(SlotValue(cert.at, cert.addr, cert.slot)), cert.proof)
       /\ \A at \in {cert.at, History} :
            LET root == encodeNode(StorageTrie(at, cert.addr)) IN
            \A proof \in Attempts(root), s \in Slot, v \in Value \cup {0} :
              VerifyStorageProof(Keccak256(root), SlotKey[s], EncodeStorageValue(v), proof)
                => v = SlotValue(at, cert.addr, s)
  /\ cert.call = "account" =>
       /\ cert.found <=> cert.addr \in Known(cert.at)
       /\ cert.found => VerifyStorageProof(cert.root, AddrKey[cert.addr],
                                           AccountAt(cert.at, cert.addr), cert.proof)

\* The contract accepts the proofs that the Go verifier accepts, and no others.
VerifiersAgree ==
  cert.call = "slot" =>
    \A at \in {cert.at, History} :
      LET root == encodeNode(StorageTrie(at, cert.addr)) IN
      \A proof \in Attempts(root), s \in Slot, v \in Value \cup {0} :
        VerifyStorageProof(Keccak256(root), SlotKey[s], EncodeStorageValue(v), proof)
          <=> solVerify(Keccak256(root), SlotKey[s], EncodeStorageValue(v), proof)

\* The reservation holds with the margin that reserveArena's comment derives: at
\* most four nodes for an insertion, so that 4A + 256 of the arena stay free, and
\* 64 of the one a proof's trie is built in.
ReservationHolds ==
  /\ cert.call # "panic"
  /\ cert.call \in {"root", "account"} /\ cert.taken > 0 =>
       cert.taken + 4 * Cardinality(DOMAIN cert.at.accounts) + 256 <= cert.room
  /\ cert.call = "slot" => cert.taken + 64 <= cert.room
=============================================================================
