---------------------------- MODULE MCJobRunner ----------------------------
(***************************************************************************)
(* Instances of JobRunner for TLC.  The kids are interchangeable.          *)
(***************************************************************************)
EXTENDS JobRunner, TLC

Symmetry == Permutations(Kids)

\* The bound: a supervisor is killed beside at most one kid.
Explored == crashes = 0 \/ \E k \in Kids : born \subseteq {k}
=============================================================================
