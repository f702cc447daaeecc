---------------------------- MODULE MCReplication ----------------------------
(***************************************************************************)
(* A leader and a follower of the same genesis.  Channels hold one         *)
(* message, so that a second one has to wait.                              *)
(***************************************************************************)
EXTENDS Replication

CONSTANTS lead, f

T(id, tip, access, poor, big) ==
  [id |-> id, dynamic |-> TRUE, price |-> 3, tip |-> tip, access |-> access, poor |-> poor, big |-> big]

\* One that can be paid, one that waits for a deposit, one that Pack refuses, one
\* without a tip and one with an access list.
PaidTx == {T(1, 1, 0, FALSE, FALSE)}
PoorTx == {T(2, 1, 0, TRUE, FALSE)}
TiplessTx == {T(4, 0, 0, FALSE, FALSE)}
AnyTx == PaidTx \cup PoorTx \cup TiplessTx \cup {T(3, 1, 0, FALSE, TRUE), T(5, 1, 1, FALSE, FALSE)}

Pair == {<<lead, f>>}
MCOrigin == [n \in Node |-> <<>>]
=============================================================================
