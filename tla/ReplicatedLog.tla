---------------------------- MODULE ReplicatedLog ----------------------------
(***************************************************************************)
(* What replication promises, whatever the network does: one node extends  *)
(* a log of batches, and every other node copies it, entry after entry.    *)
(***************************************************************************)
EXTENDS Integers, Sequences

CONSTANTS Node, Leader, Entry

VARIABLE log

Init == log = [n \in Node |-> <<>>]

Extend(e) == log' = [log EXCEPT ![Leader] = Append(log[Leader], e)]

Copy(n) ==
  LET next == Len(log[n]) + 1 IN
  /\ next <= Len(log[Leader])
  /\ log' = [log EXCEPT ![n] = Append(log[n], log[Leader][next])]

Next == (\E e \in Entry : Extend(e)) \/ (\E n \in Node : Copy(n))

Spec == Init /\ [][Next]_log
=============================================================================
