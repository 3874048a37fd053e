------------------------------- MODULE MCSync -------------------------------
(* Instances of Sync for TLC: syncs, and kernels, are interchangeable. *)
EXTENDS Sync, TLC

Symmetry == Permutations(Syncs) \cup Permutations(Kernels)

\* A kernel goes, or somebody stores an older record: one of them, once, and
\* beside it a sync is hit by at most two faults of its own.
Explored ==
  /\ Cardinality(gone) + reads <= 1
  /\ Cardinality(gone) + reads = 1 => \A s \in Syncs : Cardinality(hit[s]) <= 2
=============================================================================
