----------------------------- MODULE Transaction -----------------------------
(***************************************************************************)
(* pkg/c2block/types.go: a transaction, as the pool, the sequencer and the *)
(* block processor read it.                                                *)
(*                                                                         *)
(* hash identifies a transaction and is compared as a number.  intrinsic   *)
(* is what intrinsicGas computes from its target, data and access list;    *)
(* size is the length of its encoding in a posted batch.                   *)
(***************************************************************************)
EXTENDS Integers

CONSTANTS
  Address,           \* accounts
  Tx                 \* the transactions clients may submit

TxFields ==
  [hash : Nat, type : {"legacy", "dynamic"}, from : Address, to : Address,
   nonce : Nat, gas : Nat, gasPrice : Nat, tipCap : Nat, feeCap : Nat,
   value : Nat, intrinsic : Nat, size : Nat]

ASSUME TxAssumption ==
  /\ Tx \subseteq TxFields
  /\ \A t, u \in Tx : t.hash = u.hash => t = u
=============================================================================
