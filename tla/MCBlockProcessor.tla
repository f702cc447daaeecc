--------------------------- MODULE MCBlockProcessor ---------------------------
(***************************************************************************)
(* Blocks of any two transactions, as a peer's block may hold them: wrong  *)
(* nonces, too little gas, fees below the base fee, costs that exceed a    *)
(* word, and transactions that together exceed the block's gas limit.      *)
(***************************************************************************)
EXTENDS BlockProcessor

CONSTANTS a, b, MaxBlocks

VARIABLE blocks

T(h, t, s, r, n, g, price, tip, v, i) ==
  [hash |-> h, type |-> t, from |-> s, to |-> r, nonce |-> n, gas |-> g, gasPrice |-> price,
   tipCap |-> tip, feeCap |-> price, value |-> v, intrinsic |-> i, size |-> 1]

MCTx == {T(1, "dynamic", a, b, 0, 7, 2, 1, 3, 1), T(2, "dynamic", a, b, 1, 3, 2, 0, 1, 2),
         T(3, "legacy", a, a, 1, 6, 1, 0, 2, 1), T(4, "legacy", b, a, 0, 2, 3, 0, 0, 1),
         T(5, "legacy", b, a, 0, 1, 0, 0, 0, 1), T(6, "dynamic", b, a, 1, 1, 1, 1, 0, 2),
         T(7, "dynamic", a, b, 0, 8, 16, 16, 2, 1)}
MCFunds == [s \in Address |-> IF s = a THEN 24 ELSE 8]

Batches == {<<>>} \cup {<<t>> : t \in Tx} \cup {<<t, u>> : t \in Tx, u \in Tx}

MCInit == ProcInit /\ blocks = 0

Begin(batch) ==
  /\ blocks < MaxBlocks
  /\ ProcessBlock(batch)
  /\ blocks' = blocks + 1

MCNext ==
  \/ \E batch \in Batches : Begin(batch)
  \/ RunStep /\ UNCHANGED blocks
  \/ \E v \in Moves : Deposit(b, v) /\ minted < 34 /\ UNCHANGED blocks

MCSpec == MCInit /\ [][MCNext]_<<procVars, blocks>>
=============================================================================
