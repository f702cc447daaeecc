----------------------------- MODULE MCSequencer -----------------------------
(***************************************************************************)
(* One sender and the coinbase, which gets its fees.  Two transactions     *)
(* that follow each other; the sender cannot pay both before a deposit     *)
(* reaches it.  Deposits, one of them to nobody, and retryables of the     *)
(* sender, which take a nonce that a transaction of the pool may want.     *)
(***************************************************************************)
EXTENDS Sequencer

CONSTANTS a, b

T(h, s, n, g, price, v) ==
  [hash |-> h, type |-> "legacy", from |-> s, to |-> b, nonce |-> n, gas |-> g,
   gasPrice |-> price, tipCap |-> 0, feeCap |-> 0, value |-> v, intrinsic |-> 1, size |-> g]

MCTx == {T(1, a, 0, 1, 1, 1), T(2, a, 1, 2, 1, 0)}

MCFunds == [s \in Address |-> IF s = a THEN 3 ELSE 0]

Gift(s) == [kind |-> "deposit", to |-> s, value |-> 2, tx |-> T(0, a, 0, 0, 0, 0), auto |-> FALSE]
Call(s, g, auto) ==
  [kind |-> "retryable", to |-> s, value |-> 0, tx |-> T(9, s, 0, g, 1, 0), auto |-> auto]
MCMessage == {Gift(a), Gift(NoAddress), Call(a, 2, TRUE), Call(a, 3, TRUE), Call(a, 1, FALSE)}
=============================================================================
