------------------------------ MODULE MptProof ------------------------------
(***************************************************************************)
(* Merkle proofs: the nodes on the way from the root to a key              *)
(* (GenerateProof, collectStorageProof), and their verification in Go      *)
(* (VerifyStorageProof) and in Solidity (MPTProofVerifier).  Both          *)
(* verifiers read RLP items; a text that is no RLP list of two or          *)
(* seventeen items is refused.                                             *)
(***************************************************************************)
EXTENDS Mpt

NullRLP == [data |-> <<0>>, len |-> 1]

-----------------------------------------------------------------------------
\* The child that the walk towards key goes to, and the key that is left; Nil when
\* the walk ends.
Toward(n, key) ==
  CASE n.kind = "ext" /\ IsPrefix(n.path, key) -> <<n.child, From(key, Len(n.path))>>
    [] n.kind = "branch" /\ key # <<>> ->
         <<IF key[1] \in DOMAIN n.children THEN n.children[key[1]] ELSE Nil, From(key, 1)>>
    [] OTHER -> <<Nil, key>>

\* A node's own entry of the proof: none when its parent holds it in place.
Entry(n) == LET text == encodeNode(n) IN IF text.size >= 32 THEN <<text>> ELSE <<>>

RECURSIVE Descendants(_, _)
Descendants(n, key) ==
  LET next == Toward(n, key)
  IN  IF next[1] = Nil THEN <<>> ELSE Entry(next[1]) \o Descendants(next[1], next[2])

collectStorageProof(root, key) == <<encodeNode(root)>> \o Descendants(root, key)

\* GenerateProof's `found`: the walk ends in a leaf with the key, or in a branch
\* that has a value for it.
RECURSIVE Found(_, _)
Found(n, key) ==
  LET next == Toward(n, key)
  IN  \/ n.kind = "leaf" /\ n.path = key
      \/ n.kind = "branch" /\ key = <<>> /\ n.value.len > 0
      \/ next[1] # Nil /\ Found(next[1], next[2])

-----------------------------------------------------------------------------
\* Go.  A node that was reached, at position pos of the key, below entry ptr.
isNullRLP(expected) == expected = NullRLP

pathMatches(path, key, pos) ==
  pos + Len(path) <= KeyLen /\ path = SubSeq(key, pos + 1, pos + Len(path))

Holds(item, expected) == item.len = expected.len /\ item.data = expected.data

RECURSIVE walkProof(_, _, _, _, _, _, _)

\* Mutant of descendProof: the digest of the next entry is not compared.
descendUnchecked(proof, ptr, item, pos, key, expected, depth) ==
  /\ depth <= KeyLen
  /\ IF item.list THEN walkProof(proof, ptr, item, pos, key, expected, depth + 1)
     ELSE IF item.len = 0 THEN isNullRLP(expected)
     ELSE /\ item.len = 32 /\ ptr < Len(proof)
          /\ walkProof(proof, ptr + 1, proof[ptr + 1], pos, key, expected, depth + 1)

descendProof(proof, ptr, item, pos, key, expected, depth) ==
  /\ depth <= KeyLen
  /\ IF item.list THEN walkProof(proof, ptr, item, pos, key, expected, depth + 1)
     ELSE IF item.len = 0 THEN isNullRLP(expected)
     ELSE /\ item.len = 32 /\ ptr < Len(proof)
          /\ Keccak256(proof[ptr + 1]) = item.data
          /\ walkProof(proof, ptr + 1, proof[ptr + 1], pos, key, expected, depth + 1)

\* Two items: a leaf answers; an extension goes on, unless its child is held in
\* place, which is refused.
walkShort(proof, ptr, items, pos, key, expected, depth) ==
  LET isLeaf == items[1].data[1]
      path == items[1].data[2]
      end == pos + Len(path)
  IN  /\ ~items[1].list /\ ~items[2].list /\ items[1].len > 0
      /\ IF isLeaf
         THEN IF end # KeyLen \/ ~pathMatches(path, key, pos) THEN isNullRLP(expected)
              ELSE Holds(items[2], expected)
         ELSE IF end >= KeyLen \/ ~pathMatches(path, key, pos) THEN isNullRLP(expected)
              ELSE descendProof(proof, ptr, items[2], end, key, expected, depth)

\* Seventeen items: the child of the next nibble, or the value at the key's end.
walkBranch(proof, ptr, items, pos, key, expected, depth) ==
  IF pos < KeyLen
  THEN descendProof(proof, ptr, items[key[pos + 1] + 1], pos + 1, key, expected, depth)
  ELSE /\ ~items[17].list /\ pos = KeyLen
       /\ IF items[17].len = 0 THEN isNullRLP(expected) ELSE Holds(items[17], expected)

walkProof(proof, ptr, node, pos, key, expected, depth) ==
  /\ depth <= KeyLen
  /\ node.list
  /\ CASE Len(node.items) = 2 -> walkShort(proof, ptr, node.items, pos, key, expected, depth)
       [] Len(node.items) = 17 -> walkBranch(proof, ptr, node.items, pos, key, expected, depth)
       [] OTHER -> FALSE

VerifyStorageProof(root, key, expected, proof) ==
  /\ proof # <<>>
  /\ Keccak256(proof[1]) = root
  /\ IF proof[1] = EmptyString THEN isNullRLP(expected)
     ELSE walkProof(proof, 1, proof[1], 0, key, expected, 0)

-----------------------------------------------------------------------------
\* Solidity.  A loop over the nodes: what an iteration does is to answer, or to
\* choose an item and the position after it.
Answer(yes) == [done |-> TRUE, yes |-> yes, item |-> EmptyString, pos |-> 0]
Choose(item, pos) == [done |-> FALSE, yes |-> FALSE, item |-> item, pos |-> pos]

\* Mutant of solShort: an extension that ends the key is not looked at.
solShortPastEnd(items, pos, key, expected) ==
  LET isLeaf == items[1].data[1]
      path == items[1].data[2]
      end == pos + Len(path)
  IN  IF items[1].list \/ items[2].list \/ items[1].len = 0 THEN Answer(FALSE)
      ELSE IF ~pathMatches(path, key, pos) THEN Answer(isLeaf /\ isNullRLP(expected))
      ELSE IF isLeaf THEN Answer(Holds(items[2], expected))
      ELSE Choose(items[2], end)

solShort(items, pos, key, expected) ==
  LET isLeaf == items[1].data[1]
      path == items[1].data[2]
      end == pos + Len(path)
  IN  IF items[1].list \/ items[2].list \/ items[1].len = 0 THEN Answer(FALSE)
      ELSE IF isLeaf
      THEN IF end # KeyLen \/ ~pathMatches(path, key, pos) THEN Answer(isNullRLP(expected))
           ELSE Answer(Holds(items[2], expected))
      ELSE IF end >= KeyLen \/ ~pathMatches(path, key, pos) THEN Answer(isNullRLP(expected))
      ELSE Choose(items[2], end)

solBranch(items, pos, key, expected) ==
  IF pos < KeyLen THEN Choose(items[key[pos + 1] + 1], pos + 1)
  ELSE IF items[17].list \/ pos # KeyLen THEN Answer(FALSE)
  ELSE IF items[17].len = 0 THEN Answer(isNullRLP(expected))
  ELSE Answer(Holds(items[17], expected))

\* The loop's bound: 130 of 64 nibbles.
MaxWalk == 2 * KeyLen + 2

RECURSIVE solWalk(_, _, _, _, _, _, _)
solWalk(proof, ptr, node, pos, key, expected, guard) ==
  /\ guard < MaxWalk
  /\ node.list /\ Len(node.items) \in {2, 17}
  /\ LET step == IF Len(node.items) = 2 THEN solShort(node.items, pos, key, expected)
                 ELSE solBranch(node.items, pos, key, expected)
         item == step.item
     IN  IF step.done THEN step.yes
         ELSE IF item.list THEN solWalk(proof, ptr, item, step.pos, key, expected, guard + 1)
         ELSE IF item.len = 0 THEN isNullRLP(expected)
         ELSE /\ item.len = 32 /\ ptr < Len(proof)
              /\ Keccak256(proof[ptr + 1]) = item.data
              /\ solWalk(proof, ptr + 1, proof[ptr + 1], step.pos, key, expected, guard + 1)

solVerify(root, key, expected, proof) ==
  /\ proof # <<>>
  /\ Keccak256(proof[1]) = root
  /\ IF proof[1] = EmptyString THEN isNullRLP(expected)
     ELSE solWalk(proof, 1, proof[1], 0, key, expected, 0)
=============================================================================
