----------------------------- MODULE MCStateRoot -----------------------------
(***************************************************************************)
(* Digests of 64 nibbles.  Slots 1 and 2 share ten of them, so that the    *)
(* leaf of a small value is short enough to be held in place; slot 3       *)
(* shares nine with these, splitting the extension before its last nibble; *)
(* slot 4 shares none, splitting it at the first.  Two addresses that      *)
(* share two nibbles.  The leaves of slots 1 and 2 have 30 bytes with      *)
(* value 1 and 32, the least that is referred to, with value 3.            *)
(***************************************************************************)
EXTENDS StateRoot

Key(prefix, x) == [i \in 1..KeyLen |-> IF i <= Len(prefix) THEN prefix[i] ELSE x]

MCSlotKey == [s \in Slot |->
  CASE s = 1 -> Key(<<5, 1, 7, 2, 9, 9, 9, 9, 9, 9>>, 1)
    [] s = 2 -> Key(<<5, 1, 7, 2, 9, 9, 9, 9, 9, 9>>, 2)
    [] s = 3 -> Key(<<5, 1, 7, 2, 9, 9, 9, 9, 9>>, 3)
    [] s = 4 -> Key(<<>>, 0)]
MCAddrKey == [a \in Address |-> Key(<<3, 3>>, a)]

MCValueLen == [v \in Value |-> CASE v = 1 -> 1 [] v = 2 -> 33 [] v = 3 -> 2]
MCCells == {<<1, 1, v>> : v \in {0, 1, 2}} \cup {<<1, 2, v>> : v \in {0, 1, 3}}
             \cup {<<1, s, v>> : s \in {3, 4}, v \in {0, 2}}
             \cup {<<2, 1, 0>>, <<2, 1, 2>>}
MCAccount == {[nonce |-> 1, codeHash |-> ZeroHash]}
=============================================================================
