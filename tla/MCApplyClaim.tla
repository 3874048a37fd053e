---------------------------- MODULE MCApplyClaim ----------------------------
(* Instances of ApplyClaim for TLC.  Applies are interchangeable. *)
EXTENDS ApplyClaim, TLC

Symmetry == Permutations(Applies)

\* The bound: files change while at most two applies have started; with a
\* third, where no content is compared with another, they hold one content.
Explored ==
  Cardinality({p \in Applies : ~At(p, "start")}) > 2 =>
    edits = 0 /\ \A f \in Sources : tree[f] # "new"
=============================================================================
