----------------------------- MODULE Transfers -----------------------------
(***************************************************************************)
(* What goes to the VM and what comes back, once an invocation of the      *)
(* runner has its launch record (DuplicateLaunch):                         *)
(*   job/runtime_payload/runner.py  staging, periodic sync, offload, the   *)
(*                                  result and its copy off the VM         *)
(*   job/orchestrator.py            the supervisor that absorbs the result *)
(*                                  and keeps or releases the VM           *)
(* The rules for what a result means are in Verdict.  A file is one step of *)
(* its own wherever a kill, another invocation or the consumer can come    *)
(* between two system calls.                                               *)
(***************************************************************************)
EXTENDS DuplicateLaunch, Verdict, Functions

CONSTANTS
  NumInputs,     \* declared inputs, staged in order
  Pinned,        \* those with a declared size and sha256
  MaxWrites,     \* bound: how often a consumer changes an artifact
  MayStay,       \* a process of the workload may survive the sweep
  LeaveUp,       \* --leave-up
  Rescue,        \* on_offload_fail: leave_up
  Failures       \* the kinds of transfer failure that happen

ASSUME TransfersAssumption ==
  /\ NumInputs \in Nat /\ Pinned \subseteq 1..NumInputs /\ MaxWrites \in Nat /\ Artifacts \subseteq Nat
  /\ {MayStay, LeaveUp, Rescue} \subseteq BOOLEAN /\ Failures \subseteq Kinds

VARIABLES
  input,      \* each input's file
  content,    \* each artifact: how often it was written, 0 if it is not there
  consumers,  \* the invocations whose workload is alive
  run,        \* each invocation past its launch record
  result,     \* what result.json holds: at most one result
  control,    \* its copy behind control.result
  store,      \* what is behind each artifact's URL
  vm,         \* "up" or "gone"
  env,        \* the envelope's outcome
  local,      \* "polling", "ended", "kept" or "released"
  survived    \* history: a process of the workload outlived its verdict

dataVars  == <<input, content, store>>
runVars   == <<consumers, run, result, control, survived>>
localVars == <<vm, env, local>>
allVars == <<vars, dataVars, runVars, localVars>>
-----------------------------------------------------------------------------
Inputs == 1..NumInputs
Torn == MaxWrites + 1     \* an upload of a file that changed meanwhile

Places == {"none", "stage", "run", "look", "put", "offload", "write", "copy",
           "over"}

\* place; the input to stage and what its temporary file holds; the artifact
\* in periodic sync and last_uploaded; the artifacts' records; the verdict.
Fresh ==
  [at |-> "none", next |-> 1, tmp |-> "none", failed |-> "ok",
   syncs |-> 0, seen |-> 0, uploaded |-> [a \in Artifacts |-> 0],
   artifacts |-> [a \in Artifacts |-> "untried"], unreadable |-> FALSE,
   workload |-> "failed", by |-> "nobody"]

TransfersInit ==
  /\ Init
  /\ input = [i \in Inputs |-> "absent"]
  /\ content = [a \in Artifacts |-> 0] /\ store = [a \in Artifacts |-> 0]
  /\ consumers = {} /\ run = [r \in Runners |-> Fresh]
  /\ result = {} /\ control = {}
  /\ vm = "up" /\ env = Unfinished /\ local = "polling"
  /\ survived = FALSE

\* An invocation that is there, at a place past its launch record.
Here(r, place) == At(r, "consumer") /\ run[r].at = place

Moves(r, place) == run' = [run EXCEPT ![r].at = place]

\* What a process knew goes with it.
Forgets(r) == run' = [run EXCEPT ![r] = [Fresh EXCEPT !.at = "over"]]

-----------------------------------------------------------------------------
(***************************************************************************)
(* The launch protocol, and what ends an invocation.                       *)
(***************************************************************************)

\* The runner goes on to staging, with nothing in last_uploaded.
Launches(r) ==
  /\ vm = "up"
  /\ Start(r) \/ Create(r) \/ Read(r) \/ Swap(r) \/ Recreate(r) \/ Fill(r)
  /\ run' = IF pc'[r] = "consumer" THEN [run EXCEPT ![r].at = "stage"] ELSE run
  /\ UNCHANGED <<dataVars, consumers, result, control, survived, localVars>>

\* The consumer outlives its runner, and so does a temporary file.
RunnerCrashes(r) ==
  /\ vm = "up" /\ Crash(r)
  /\ Forgets(r)
  /\ UNCHANGED <<dataVars, consumers, result, control, survived, localVars>>

\* Every process of the VM is gone.
VmGoes ==
  /\ vm' = "gone"
  /\ alive' = {} /\ consumers' = {} /\ run' = [r \in Runners |-> Fresh]
  /\ UNCHANGED <<pc, file, filled, crashes, overlapped>>

VmReclaimed ==
  /\ vm = "up" /\ VmGoes
  /\ UNCHANGED <<dataVars, result, control, env, local, survived>>

-----------------------------------------------------------------------------
(***************************************************************************)
(* Staging: each input in order; the first failure stops it.               *)
(***************************************************************************)

StageRest == UNCHANGED <<vars, content, store, consumers, result, control, survived, localVars>>

\* The body goes to a temporary file of this process: what was planned, or
\* another object, or less of it.
StageFetchesInPlace(r) ==
  /\ Here(r, "stage") /\ run[r].next \in Inputs /\ run[r].tmp = "none"
  /\ \E body \in {"planned", "other"} :
       /\ run' = [run EXCEPT ![r].tmp = body]
       /\ input' = [input EXCEPT ![run[r].next] = body]
  /\ StageRest

StageFetches(r) ==
  /\ Here(r, "stage") /\ run[r].next \in Inputs /\ run[r].tmp = "none"
  /\ \E body \in {"planned", "other"} : run' = [run EXCEPT ![r].tmp = body]
  /\ UNCHANGED input
  /\ StageRest

\* Size and checksum, where declared, before the rename.
Acceptable(r) == run[r].tmp = "planned" \/ run[r].next \notin Pinned

StageInstalls(r) ==
  /\ Here(r, "stage") /\ run[r].tmp # "none" /\ Acceptable(r)
  /\ input' = [input EXCEPT ![run[r].next] = run[r].tmp]
  /\ run' = [run EXCEPT ![r].next = @ + 1, ![r].tmp = "none"]
  /\ StageRest

StageEnds(r, kind) ==
  run' = [run EXCEPT ![r].at = "write", ![r].failed = kind, ![r].tmp = "none"]

\* The credential channel, or the manifest, before any input.
SetupFails(r) ==
  /\ Here(r, "stage") /\ run[r].next = 1 /\ run[r].tmp = "none"
  /\ StageEnds(r, "setup")
  /\ UNCHANGED input
  /\ StageRest

\* The transfer fails, or what came is not what was planned: the consumer
\* never runs.
StageFails(r) ==
  /\ Here(r, "stage") /\ run[r].next \in Inputs
  /\ IF run[r].tmp # "none" /\ ~Acceptable(r)
     THEN StageEnds(r, "mismatch")
     ELSE \E kind \in Failures : StageEnds(r, kind)
  /\ UNCHANGED input
  /\ StageRest

ConsumerStarts(r) ==
  /\ Here(r, "stage") /\ run[r].next \notin Inputs
  /\ consumers' = consumers \cup {r}
  /\ Moves(r, "run")
  /\ UNCHANGED <<vars, dataVars, result, control, survived, localVars>>

-----------------------------------------------------------------------------
(***************************************************************************)
(* The run, and _sync_artifacts_once in its wait loop.                     *)
(***************************************************************************)

RunRest == UNCHANGED <<vars, input, consumers, result, control, survived, localVars>>

Written == FoldFunction(LAMBDA n, sum : n + sum, 0, content)

\* Each write changes the file's size or time; nothing makes it atomic.
ConsumerWrites(a) ==
  /\ consumers # {} /\ Written < MaxWrites
  /\ content' = [content EXCEPT ![a] = @ + 1]
  /\ UNCHANGED <<run, store>>
  /\ RunRest

\* An artifact that changed since its last upload is looked at ...
SyncLooks(r, a) ==
  /\ Here(r, "run") /\ content[a] \notin {0, run[r].uploaded[a]}
  /\ run' = [run EXCEPT ![r].at = "look", ![r].syncs = a, ![r].seen = content[a]]
  /\ UNCHANGED <<content, store>>
  /\ RunRest

\* ... again a second later; one that is still being written waits.
SyncLooksAgain(r) ==
  /\ Here(r, "look")
  /\ run' = IF content[run[r].syncs] = run[r].seen
            THEN [run EXCEPT ![r].at = "put"]
            ELSE [run EXCEPT ![r].at = "run", ![r].syncs = 0, ![r].seen = 0]
  /\ UNCHANGED <<content, store>>
  /\ RunRest

\* What a PUT leaves behind the URL, when it began with what r had seen.
Uploaded(r, a) == IF content[a] = run[r].seen THEN {content[a]} ELSE {content[a], Torn}

SyncPutsAndLooks(r) ==
  /\ Here(r, "put")
  /\ LET a == run[r].syncs IN
     \/ /\ \E body \in Uploaded(r, a) : store' = [store EXCEPT ![a] = body]
        /\ run' = [run EXCEPT ![r].at = "run", ![r].syncs = 0, ![r].seen = 0,
                              ![r].uploaded[a] = content[a]]
     \/ /\ store' \in {store} \cup {[store EXCEPT ![a] = body] : body \in Uploaded(r, a)}
        /\ run' = [run EXCEPT ![r].at = "run", ![r].syncs = 0, ![r].seen = 0]
  /\ UNCHANGED content
  /\ RunRest

\* The record is the signature from before the PUT; a failure, or a lost
\* reply, leaves the old one.
SyncPuts(r) ==
  /\ Here(r, "put")
  /\ LET a == run[r].syncs IN
     \/ /\ \E body \in Uploaded(r, a) : store' = [store EXCEPT ![a] = body]
        /\ run' = [run EXCEPT ![r].at = "run", ![r].syncs = 0, ![r].seen = 0,
                              ![r].uploaded[a] = run[r].seen]
     \/ /\ store' \in {store} \cup {[store EXCEPT ![a] = body] : body \in Uploaded(r, a)}
        /\ run' = [run EXCEPT ![r].at = "run", ![r].syncs = 0, ![r].seen = 0]
  /\ UNCHANGED content
  /\ RunRest

\* The consumer is reaped, the job's processes are swept, those of an earlier
\* invocation too, and the verdict is known.  What the sweep and the probe do
\* not see, or fail on, lives on (JobRunner).
RunEnds(r) ==
  /\ Here(r, "run")
  /\ \E w \in {"succeeded", "failed", "cancelled", "unknown"}, b \in {"nobody", "wall_clock", "person"} :
       /\ b # "nobody" <=> w = "cancelled"
       /\ consumers' \in IF MayStay THEN SUBSET consumers ELSE {{}}
       /\ survived' = (survived \/ consumers' # {})
       /\ run' = [run EXCEPT ![r].at = IF Artifacts = {} THEN "write" ELSE "offload",
                             ![r].uploaded = Fresh.uploaded, ![r].workload = w, ![r].by = b]
  /\ UNCHANGED <<vars, dataVars, result, control, localVars>>

\* What outlived its runner, or its verdict, ends by itself, or by the
\* watchdog of a runner that was killed.
OrphanEnds(r) ==
  /\ r \in consumers
  /\ r \in alive => run[r].at \in {"offload", "write", "copy"}
  /\ consumers' = consumers \ {r}
  /\ UNCHANGED <<vars, dataVars, run, result, control, survived, localVars>>

-----------------------------------------------------------------------------
(***************************************************************************)
(* _offload, the result, and _put_result.                                  *)
(***************************************************************************)

Untried(r) == {a \in Artifacts : run[r].artifacts[a] = "untried"}

OffloadNotes(r, a, status) ==
  run' = [run EXCEPT ![r].artifacts[a] = status,
                     ![r].at = IF Untried(r) = {a} THEN "write" ELSE "offload"]

\* In the manifest's order; each is tried, whatever became of the others.
NowOffloads(r, a) ==
  Here(r, "offload") /\ a \in Untried(r) /\ \A b \in Untried(r) : a <= b

OffloadPuts(r, a) ==
  /\ NowOffloads(r, a) /\ content[a] # 0
  /\ \/ /\ store' \in {[store EXCEPT ![a] = body] :
                         body \in {content[a]} \cup (IF consumers # {} THEN {Torn} ELSE {})}
        /\ OffloadNotes(r, a, "ok")
     \/ \E kind \in Failures \ {"setup"} :
          /\ store' \in IF kind = "transient" THEN {store, [store EXCEPT ![a] = content[a]]}
                        ELSE {store}
          /\ OffloadNotes(r, a, kind)
  /\ UNCHANGED content
  /\ RunRest

OffloadMisses(r, a) ==
  /\ NowOffloads(r, a) /\ content[a] = 0
  /\ OffloadNotes(r, a, "missing")
  /\ UNCHANGED <<content, store>>
  /\ RunRest

\* The manifest cannot be read.
OffloadCannotStart(r) ==
  /\ Here(r, "offload") /\ Untried(r) = Artifacts
  /\ run' = [run EXCEPT ![r].at = "write", ![r].unreadable = TRUE]
  /\ UNCHANGED <<content, store>>
  /\ RunRest

Result(r) ==
  LET staged == run[r].failed = "ok"
      made == [phase |-> "run", workload |-> run[r].workload, by |-> run[r].by, input |-> "ok",
               artifacts |-> run[r].artifacts, unreadable |-> run[r].unreadable]
  IN IF ~staged THEN [made EXCEPT !.phase = "stage", !.workload = "failed",
                                  !.input = run[r].failed]
     ELSE IF Artifacts # {} /\ OffloadFailed(made) THEN [made EXCEPT !.phase = "offload"]
     ELSE made

WritesResult(r) ==
  /\ Here(r, "write")
  /\ result' = {Result(r)}
  /\ Moves(r, "copy")
  /\ UNCHANGED <<vars, dataVars, consumers, control, survived, localVars>>

\* What is at result.json goes out, if it can; the runner exits.
CopiesResult(r) ==
  /\ Here(r, "copy")
  /\ control' \in {control, result}
  /\ Finish(r)
  /\ Forgets(r)
  /\ UNCHANGED <<dataVars, consumers, result, survived, localVars>>

-----------------------------------------------------------------------------
(***************************************************************************)
(* The local supervisor.                                                   *)
(***************************************************************************)

LocalRest == UNCHANGED <<dataVars, result, control, survived>>

Reads ==
  /\ local = "polling" /\ vm = "up" /\ local' = "ended"
  /\ LocalRest /\ UNCHANGED <<vars, consumers, run, vm>>

\* poll reads result.json; ...
Absorbs == Reads /\ \E found \in result : env' = Absorbed(found)

\* ... or the wait does that cancel_after_deadline makes.
AbsorbsOverdue == Reads /\ \E found \in result : env' = Overdue(Absorbed(found))

\* The VM is lost, the runner is dead or never started, or the deadline has
\* passed and no cancel was answered: the copy, if there is one and it can
\* be read, or no verdict.
GivesUp ==
  /\ local = "polling"
  /\ env' \in {FinishedWithout} \cup {Absorbed(found) : found \in control}
  /\ local' = "ended"
  /\ LocalRest /\ UNCHANGED <<vars, consumers, run, vm>>

\* --leave-up, or a failed upload that the policy keeps the VM for.
Keeps == LeaveUp \/ (Rescue /\ env.upload)

\* It is released all the same when the secret's deletion is unconfirmed.
Closes ==
  /\ local = "ended"
  /\ \/ /\ Keeps /\ local' = "kept"
        /\ UNCHANGED <<vars, consumers, run, vm>>
     \/ local' = "released" /\ VmGoes
  /\ LocalRest /\ UNCHANGED env

-----------------------------------------------------------------------------
Runner(r) ==
  \/ Launches(r) \/ RunnerCrashes(r)
  \/ StageFetches(r) \/ StageInstalls(r) \/ SetupFails(r) \/ StageFails(r)
  \/ ConsumerStarts(r)
  \/ (\E a \in Artifacts : SyncLooks(r, a)) \/ SyncLooksAgain(r) \/ SyncPuts(r)
  \/ RunEnds(r) \/ OrphanEnds(r)
  \/ (\E a \in Artifacts : OffloadPuts(r, a) \/ OffloadMisses(r, a)) \/ OffloadCannotStart(r)
  \/ WritesResult(r) \/ CopiesResult(r)

TransfersNext ==
  \/ \E r \in Runners : Runner(r)
  \/ \E a \in Artifacts : ConsumerWrites(a)
  \/ VmReclaimed \/ Absorbs \/ AbsorbsOverdue \/ GivesUp \/ Closes

TransfersSpec == TransfersInit /\ [][TransfersNext]_allVars
-----------------------------------------------------------------------------
(***************************************************************************)
(* Properties.                                                             *)
(***************************************************************************)

\* runner.py:350 renames an input into place only after its size and checksum
\* matched.  So whatever is at a pinned input's path, after a fetch that was
\* killed, refused or made again by a second invocation, is what was planned,
\* and nothing of the workload runs before every input is there.
ConsumerSeesPlan ==
  /\ \A i \in Pinned : input[i] \in {"absent", "planned"}
  /\ consumers # {} => \A i \in Inputs : input[i] # "absent"

\* docs/job/design.md:127 "A duplicate runner sees the existing live launch
\* identity and exits without starting a second consumer": true of every retry
\* that comes once the earlier invocations are past their launch record, as
\* long as the runner lives that its consumer belongs to.  Two consumers run
\* side by side only when the runner of one is gone and has left it behind:
\* killed, or past a sweep that missed it.
SerialRetryIsSafe ==
  ~overlapped => \A r, q \in consumers : r = q \/ {r, q} \cap alive # {r, q}

OneInvocation == Cardinality(filled) <= 1

\* What the sync of runner.py:613 remembers as uploaded, and never sends
\* again, is what is behind the URL, however the consumer wrote meanwhile
\* and whichever reply was lost; and a record that says a succeeded workload
\* was offloaded is true: a version of every required artifact is in the
\* store, and of every artifact the last one, unless a process of the workload
\* outlived the verdict and could write on.
StoreIsTrue ==
  OneInvocation =>
    /\ \A r \in filled, a \in Artifacts :
         run[r].at \in {"run", "look"} /\ content[a] = run[r].uploaded[a] /\ content[a] # 0
           => store[a] = content[a]
    /\ local # "polling" /\ env.workload = "succeeded" /\ env.offload = "ok"
         => \A a \in Artifacts : /\ content[a] # 0 /\ ~survived => store[a] = content[a]
                                 /\ a \in Required => store[a] # 0

\* The transfer failures that each advice puts right: the same job once more,
\* or once more with new URLs.
Cured(retry) == {"transient"} \cup IF retry = "refresh_urls" THEN {"expired", "absent"} ELSE {}

\* What failed in a run that the advice is enough for.
MayDo(retry, found) ==
  \/ found.phase = "stage" /\ found.input \in Cured(retry)
  \/ /\ found.workload = "succeeded" \/ found.by = "person"
     /\ ~found.unreadable
     /\ \A a \in Artifacts : \/ found.artifacts[a] \in {"ok"} \cup Cured(retry)
                             \/ a \notin Required /\ found.artifacts[a] = "missing"

\* design.md:239, the advice taken from several failures at once: whichever
\* result the supervisor absorbs, in time or after the deadline's cancel, from
\* the VM or from control.result, it advises the same job once more, or the
\* same with new URLs, only when that can put all of it right.
OutcomeIsUsable ==
  [][/\ local = "polling" /\ local' # "polling"
     /\ env'.retry \in {"retry_same", "refresh_urls"} /\ env'.workload # "unknown"
     => \E found \in result \cup control :
          found.workload = env'.workload /\ MayDo(env'.retry, found)]_allVars
=============================================================================
