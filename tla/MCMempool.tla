------------------------------ MODULE MCMempool ------------------------------
(***************************************************************************)
(* Two senders and seven transactions: two rivals for a nonce on each      *)
(* side (with different and with equal tips), a tip equal to the other     *)
(* sender's so that hashes decide, a transaction priced by gasPrice alone, *)
(* and gas amounts of 1 to 3 against budgets that leave some heads out.    *)
(***************************************************************************)
EXTENDS Mempool

CONSTANTS a, b

T(h, s, n, tip, price, g) ==
  [hash |-> h, type |-> IF tip = 0 THEN "legacy" ELSE "dynamic", from |-> s, to |-> s,
   nonce |-> n, gas |-> g, gasPrice |-> price, tipCap |-> tip, feeCap |-> tip,
   value |-> 0, intrinsic |-> 1, size |-> 1]

MCTx == {T(1, a, 0, 1, 0, 2), T(2, a, 0, 2, 0, 1), T(3, a, 1, 2, 0, 3), T(4, a, 2, 0, 3, 1),
         T(5, b, 0, 2, 0, 3), T(6, b, 1, 0, 2, 1), T(7, b, 1, 2, 0, 2)}
MCCounts == {-1, 2}
=============================================================================
