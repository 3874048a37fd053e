----------------------------- MODULE MCExecAsync -----------------------------
(* Instances of ExecAsync for TLC. *)
EXTENDS ExecAsync, TLC

Symmetric == Permutations(Cmds)

\* What the properties say of a lost pid is that it is the cause: what comes
\* after it is not explored.
Tracked == ~untracked
=============================================================================
