----------------------------- MODULE RemoteJob -----------------------------
(***************************************************************************)
(* What a launched job promises the local supervisor, whatever happens on  *)
(* the VM: it runs, it may be asked to stop, and it either publishes one   *)
(* verdict in result.json or its runner disappears without one.  The       *)
(* module JobRunner implements this specification.                         *)
(***************************************************************************)

CONSTANT Verdicts

VARIABLES job,       \* "unlaunched", "running" or "lost"
          verdict,   \* the workload field of result.json, or "none"
          intent,    \* TRUE when cancel.json exists
          obituary   \* TRUE when watchdog.json says runner_alive: false

vars == <<job, verdict, intent, obituary>>

Init ==
  /\ job = "unlaunched"
  /\ verdict = "none"
  /\ intent = FALSE
  /\ obituary = FALSE

Launch ==
  /\ job = "unlaunched"
  /\ job' = "running"
  /\ UNCHANGED <<verdict, intent, obituary>>

\* Any number of requesters may ask; the request is never withdrawn.
RequestStop ==
  /\ intent' = TRUE
  /\ UNCHANGED <<job, verdict, obituary>>

\* A verdict is published once, by a runner that is still there.
Publish(v) ==
  /\ job = "running"
  /\ verdict = "none"
  /\ v = "cancelled" => intent
  /\ verdict' = v
  /\ UNCHANGED <<job, intent, obituary>>

\* The runner is gone; what it published, if anything, is all there will be.
Lose ==
  /\ job = "running"
  /\ job' = "lost"
  /\ UNCHANGED <<verdict, intent, obituary>>

\* The watchdog, while it is there, reports a runner that is not; at a look
\* that tells it nothing it takes the report back.
Report ==
  /\ job = "lost"
  /\ obituary' \in BOOLEAN
  /\ UNCHANGED <<job, verdict, intent>>

Next ==
  \/ Launch
  \/ RequestStop
  \/ \E v \in Verdicts : Publish(v)
  \/ Lose
  \/ Report

Spec == Init /\ [][Next]_vars
=============================================================================
