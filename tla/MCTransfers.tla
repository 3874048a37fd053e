---------------------------- MODULE MCTransfers ----------------------------
(***************************************************************************)
(* Instances of Transfers for TLC.  Invocations are interchangeable.       *)
(***************************************************************************)
EXTENDS Transfers, TLC

Symmetry == Permutations(Runners)

\* How every run ends for its supervisor is checked; what the VM still does
\* after that is explored for a single invocation that nobody killed, up to
\* the VM's release.  Beside another invocation a consumer writes once.
Explored ==
  /\ local = "polling" \/ (local = "ended" /\ crashes = 0 /\ OneInvocation)
  /\ OneInvocation \/ Written <= 1
=============================================================================
