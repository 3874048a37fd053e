------------------------------ MODULE Verdict ------------------------------
(***************************************************************************)
(* What a runner's result means for the record and for the next action:    *)
(*   job/verdict.py             retry classes, outcomes                    *)
(*   job/orchestrator.py        absorb_result, cancel_after_deadline,      *)
(*                              keep_vm                                    *)
(*   job/models.py              terminal and done                          *)
(*                                                                         *)
(* A transfer that fails is of a kind: an HTTP status or a category of the *)
(* runner, as far as the rules tell them apart.                            *)
(***************************************************************************)
EXTENDS Naturals, FiniteSets

CONSTANTS
  Artifacts,   \* the declared artifacts
  Required     \* those a run must produce

ASSUME RequiredAssumption == Required \subseteq Artifacts

Kinds == {"transient",  \* 408, 429, 5xx, or no response
          "expired",    \* 401, 403
          "absent",     \* 404
          "refused",    \* any other 4xx
          "mismatch",   \* checksum, size, or the local disk
          "blocked",    \* an address that is not public
          "setup"}      \* the runner's own manifest or credential channel

\* retry_class, the strongest first.
Strength == <<"do_not_retry", "fix_human", "fix_code", "retry_different",
              "refresh_urls", "retry_same">>
NoClass == "none"

TransferRetryClass(kind, method) ==
  CASE kind = "transient" -> "retry_same"
    [] kind = "expired" -> "refresh_urls"
    [] kind = "absent" -> IF method = "GET" THEN "fix_code" ELSE "refresh_urls"
    [] kind \in {"refused", "mismatch"} -> "fix_code"
    [] kind = "blocked" -> "fix_human"
    [] kind = "setup" -> "do_not_retry"

Weakest(classes) ==
  IF classes = {} THEN NoClass
  ELSE Strength[CHOOSE i \in DOMAIN Strength :
         /\ Strength[i] \in classes
         /\ \A j \in DOMAIN Strength : Strength[j] \in classes => j <= i]

Strongest(classes) ==
  IF classes = {} THEN NoClass
  ELSE Strength[CHOOSE i \in DOMAIN Strength :
         /\ Strength[i] \in classes
         /\ \A j \in DOMAIN Strength : Strength[j] \in classes => i <= j]

(***************************************************************************)
(* A result: the phase it speaks of, the workload's verdict and who asked  *)
(* for its cancel, the kind of the input that failed, each artifact's      *)
(* status or the kind of its failure, and whether offload could not start. *)
(***************************************************************************)
StageFailed(result) == result.phase = "stage" /\ result.workload = "failed"

FailedUploads(result) == {a \in Artifacts : result.artifacts[a] \in Kinds}

\* Required, and not produced; of an offload that did not start, all of them.
Missing(result) == {a \in Required : result.artifacts[a] \in {"missing", "untried"}}

OffloadFailed(result) ==
  result.unreadable \/ Missing(result) # {} \/ FailedUploads(result) # {}

OffloadRetry(result) ==
  Strongest(   (IF result.unreadable THEN {"do_not_retry"} ELSE {})
          \cup (IF Missing(result) # {} THEN {"fix_code"} ELSE {})
          \cup {TransferRetryClass(result.artifacts[a], "PUT") : a \in FailedUploads(result)})

WorkloadRetry(result) ==
  CASE result.workload = "succeeded" -> NoClass
    [] result.workload = "cancelled" -> IF result.by = "wall_clock" THEN "fix_code" ELSE NoClass
    [] result.workload = "unknown" -> "do_not_retry"
    [] result.workload = "failed" -> "fix_code"

(***************************************************************************)
(* The envelope's part that comes from the result.                         *)
(***************************************************************************)
Unfinished == [workload |-> "running", offload |-> "pending", retry |-> NoClass,
               upload |-> FALSE]

\* The workload's own failure decides the class over any upload's.
Absorbed(result) ==
  [workload |-> result.workload,
   offload |-> IF Artifacts = {} THEN "not_required"
               ELSE IF StageFailed(result) THEN "skipped"
               ELSE IF OffloadFailed(result) THEN "failed" ELSE "ok",
   retry |-> IF StageFailed(result) THEN TransferRetryClass(result.input, "GET")
             ELSE IF WorkloadRetry(result) # NoClass THEN WorkloadRetry(result)
             ELSE OffloadRetry(result),
   upload |-> FailedUploads(result) # {}]

\* No result will arrive.
FinishedWithout ==
  [workload |-> "unknown",
   offload |-> IF Artifacts = {} THEN "not_required" ELSE "skipped",
   retry |-> "retry_same",
   upload |-> FALSE]

\* A result that came only after the deadline's cancel: the run has failed to
\* be in time, whatever it says.
Overdue(env) == [env EXCEPT !.retry = IF @ = NoClass THEN "retry_same" ELSE @]

\* What done asks of the workload and the offload.
Terminal(env) == env.workload # "running" /\ env.offload # "pending"
=============================================================================
