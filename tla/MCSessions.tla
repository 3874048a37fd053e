---------------------------- MODULE MCSessions ----------------------------
(* Sessions with two interchangeable command-line processes. *)
EXTENDS Sessions, TLC

Symmetric == Permutations(Cmds)

\* What follows the loss of a record is not followed.
NoneLost == lost = {}
=============================================================================
