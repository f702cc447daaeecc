---------------------------- MODULE SnapshotStore ----------------------------
(***************************************************************************)
(* What StateTrie promises to its callers, with no journal: the current    *)
(* contents of the world state and a stack of full copies of it, one per   *)
(* live snapshot.  RevertToSnapshot(r) brings back copy r exactly and      *)
(* forgets it together with the younger ones, DiscardSnapshot(r) forgets   *)
(* them and keeps the contents, Commit forgets all of them.                *)
(***************************************************************************)
EXTENDS Naturals, Sequences

CONSTANT Worlds      \* every content the world state can have

VARIABLES
  world,             \* the contents readers see
  saved              \* saved[k]: the contents when snapshot k - 1 was taken

vars == <<world, saved>>

TypeOK ==
  /\ world \in Worlds
  /\ saved \in Seq(Worlds)

Init ==
  /\ world \in Worlds
  /\ saved = <<>>

\* Any mutator: the contents change, no copy does.
Write ==
  /\ world' \in Worlds
  /\ UNCHANGED saved

Snapshot ==
  /\ saved' = Append(saved, world)
  /\ UNCHANGED world

RevertToSnapshot(rev) ==
  /\ rev < Len(saved)
  /\ world' = saved[rev + 1]
  /\ saved' = SubSeq(saved, 1, rev)

DiscardSnapshot(rev) ==
  /\ rev < Len(saved)
  /\ saved' = SubSeq(saved, 1, rev)
  /\ UNCHANGED world

Commit ==
  /\ saved' = <<>>
  /\ UNCHANGED world

Next ==
  \/ Write
  \/ Snapshot
  \/ Commit
  \/ \E rev \in 0..(Len(saved) - 1) : RevertToSnapshot(rev) \/ DiscardSnapshot(rev)

Spec == Init /\ [][Next]_vars
=============================================================================
