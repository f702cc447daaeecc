-------------------------------- MODULE Mpt --------------------------------
(***************************************************************************)
(* The Merkle-Patricia trie of pkg/statetrie (arena.go, state_trie.go) and *)
(* pkg/c2crypto/mpt.go, and the two verifiers of its proofs: the one of    *)
(* pkg/statetrie/storage_proof.go and contracts/MPTProofVerifier.sol.      *)
(*                                                                         *)
(* A key is a sequence of KeyLen nibbles.  Bytes are abstracted: a value   *)
(* is its content and its length, an RLP item is its content, or its       *)
(* items, and its encoded size, and a Keccak digest is the text it is the  *)
(* digest of.  Sizes are kept because they decide which children a parent  *)
(* holds in place and which by digest.                                     *)
(***************************************************************************)
EXTENDS Integers, Sequences, SequencesExt

CONSTANTS
  KeyLen             \* 64: the nibbles of a Keccak digest

ASSUME KeyLenAssumption == KeyLen \in Nat \ {0}

-----------------------------------------------------------------------------
\* Nodes.  A branch has the children it has; mptEmpty and the nil pointer are Nil.
Nil == [kind |-> "nil"]
Leaf(path, value) == [kind |-> "leaf", path |-> path, value |-> value]
Ext(path, child) == [kind |-> "ext", path |-> path, child |-> child]
Branch(children, value) == [kind |-> "branch", children |-> children, value |-> value]

NoValue == [data |-> <<>>, len |-> 0]

\* The children of n with one more, or another one, at nibble x.
With(children, x, n) == [y \in DOMAIN children \cup {x} |-> IF y = x THEN n ELSE children[y]]

From(s, i) == SubSeq(s, i + 1, Len(s))
Upto(s, i) == SubSeq(s, 1, i)

commonPrefix(a, b) ==
  CHOOSE i \in 0..Min({Len(a), Len(b)}) :
    /\ i = Len(a) \/ i = Len(b) \/ a[i + 1] # b[i + 1]
    /\ \A j \in 1..i : a[j] = b[j]

\* An insertion answers the node that replaces n, and how many nodes it took from
\* the arena.  A node it drops is not given back.
Got(node, taken) == [node |-> node, taken |-> taken]

newLeaf(path, value) == Got(Leaf(path, value), 1)
newExt(path, sub) == Got(Ext(path, sub.node), sub.taken + 1)

\* Two keys part: what was there (a value, or the node oldNode) and the new value
\* become children of a branch, or its value when nothing of the key is left.
splitToBranch(oldRest, oldVal, oldNode, newRest, newVal) ==
  LET old == IF oldRest = <<>> THEN Got(Nil, 0)
             ELSE IF oldNode.node = Nil THEN newLeaf(From(oldRest, 1), oldVal)
             ELSE oldNode
      new == IF newRest = <<>> THEN Got(Nil, 0) ELSE newLeaf(From(newRest, 1), newVal)
      kept == IF oldRest = <<>> THEN <<>> ELSE With(<<>>, oldRest[1], old.node)
  IN  Got(Branch(IF newRest = <<>> THEN kept ELSE With(kept, newRest[1], new.node),
                 IF newRest = <<>> THEN newVal ELSE IF oldRest = <<>> THEN oldVal ELSE NoValue),
          old.taken + new.taken + 1)

\* A branch under the nibbles the two keys share.
Under(prefix, br) == IF prefix = <<>> THEN br ELSE newExt(prefix, br)

insertLeaf(n, key, value) ==
  LET cp == commonPrefix(n.path, key)
  IN  IF n.path = key
      THEN Got([n EXCEPT !.value = value], 0)
      ELSE Under(Upto(key, cp), splitToBranch(From(n.path, cp), n.value, Got(Nil, 0), From(key, cp), value))

RECURSIVE insertNode(_, _, _)

\* Mutant of insertExt: what is left of a split path always becomes an extension.
insertExtKeepsEmpty(n, key, value) ==
  LET cp == commonPrefix(n.path, key)
      rest == From(n.path, cp)
      sub == insertNode(n.child, From(key, cp), value)
  IN  IF rest = <<>>
      THEN Got([n EXCEPT !.child = sub.node], sub.taken)
      ELSE Under(Upto(key, cp),
                 splitToBranch(rest, NoValue, newExt(From(rest, 1), Got(n.child, 0)), From(key, cp), value))

insertExt(n, key, value) ==
  LET cp == commonPrefix(n.path, key)
      rest == From(n.path, cp)
      sub == insertNode(n.child, From(key, cp), value)
      old == IF Len(rest) = 1 THEN Got(n.child, 0) ELSE newExt(From(rest, 1), Got(n.child, 0))
  IN  IF rest = <<>>
      THEN Got([n EXCEPT !.child = sub.node], sub.taken)
      ELSE Under(Upto(key, cp), splitToBranch(rest, NoValue, old, From(key, cp), value))

insertBranch(n, key, value) ==
  LET x == key[1]
      sub == insertNode(IF x \in DOMAIN n.children THEN n.children[x] ELSE Nil, From(key, 1), value)
  IN  IF key = <<>>
      THEN Got([n EXCEPT !.value = value], 0)
      ELSE Got([n EXCEPT !.children = With(n.children, x, sub.node)], sub.taken)

insertNode(n, key, value) ==
  CASE n.kind = "nil" -> newLeaf(key, value)
    [] n.kind = "leaf" -> insertLeaf(n, key, value)
    [] n.kind = "ext" -> insertExt(n, key, value)
    [] n.kind = "branch" -> insertBranch(n, key, value)

\* The trie of the pairs <<key, value>>, inserted in the order given.
Build(pairs) ==
  LET Add(got, pair) ==
        LET sub == insertNode(got.node, pair[1], pair[2]) IN Got(sub.node, got.taken + sub.taken)
  IN  FoldLeft(Add, Got(Nil, 0), pairs)

-----------------------------------------------------------------------------
\* RLP.  A single byte stands for itself: those met here, a small value or the
\* flags of a path of at most one nibble, are below 0x80.
LenBytes(n) == IF n < 256 THEN 1 ELSE 2
Header(len) == IF len < 56 THEN 1 ELSE 1 + LenBytes(len)

RlpBytes(len, data) ==
  [list |-> FALSE, data |-> data, len |-> len, size |-> IF len = 1 THEN 1 ELSE Header(len) + len]
RlpList(items) ==
  LET payload == FoldLeft(LAMBDA sum, item : sum + item.size, 0, items)
  IN  [list |-> TRUE, items |-> items, size |-> Header(payload) + payload]

EmptyString == RlpBytes(0, <<>>)
Keccak256(text) == <<"keccak", text>>
\* Compact encoding: the flags say whether the path is a leaf's and whether it is odd.
MptCompactEncode(path, isLeaf) == RlpBytes(Len(path) \div 2 + 1, <<isLeaf, path>>)

MptEncodeChildRef(child) ==
  IF child.size < 32 THEN child ELSE RlpBytes(32, Keccak256(child))

MptEncodeLeaf(n) == RlpList(<<MptCompactEncode(n.path, TRUE), RlpBytes(n.value.len, n.value.data)>>)
MptEncodeExtension(n, child) == RlpList(<<MptCompactEncode(n.path, FALSE), MptEncodeChildRef(child)>>)
MptEncodeBranch(n, child) ==
  RlpList([i \in 1..17 |->
             IF i = 17 THEN RlpBytes(n.value.len, n.value.data)
             ELSE IF i - 1 \in DOMAIN child THEN MptEncodeChildRef(child[i - 1])
             ELSE EmptyString])

RECURSIVE encodeNode(_)
encodeNode(n) ==
  CASE n.kind = "nil" -> EmptyString
    [] n.kind = "leaf" -> MptEncodeLeaf(n)
    [] n.kind = "ext" -> MptEncodeExtension(n, encodeNode(n.child))
    [] n.kind = "branch" ->
         MptEncodeBranch(n, [x \in DOMAIN n.children |-> encodeNode(n.children[x])])

hashRoot(n) == Keccak256(encodeNode(n))
=============================================================================
