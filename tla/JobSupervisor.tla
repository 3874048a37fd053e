--------------------------- MODULE JobSupervisor ---------------------------
(***************************************************************************)
(* One job seen from the local machine: the `job apply` that supervises    *)
(* it, the `job status` and `job destroy` commands that may run beside it, *)
(* the records they share, and the VM.                                     *)
(*   commands/job.py        apply, status, destroy                         *)
(*   job/orchestrator.py    provision .. launch, poll, cleanup             *)
(*   job/store.py           envelope.json, supervisor.json                 *)
(* The VM's side is RemoteJob, which JobRunner implements.                 *)
(*                                                                         *)
(* A process reads the envelope into memory, acts on it and writes it back *)
(* whole.  Phases between two VM-visible effects are one step.             *)
(***************************************************************************)
EXTENDS Naturals, FiniteSets, Sequences

CONSTANTS
  Pollers,      \* `job status --poll` processes; "detached" is apply's own
  Lookers,      \* terminals that run a plain `job status`, again and again
  Destroyers,   \* terminals that run `job destroy`; one may run both, in turn
  Candidates,   \* accelerators to try
  MaxSignals,   \* bound: signals sent to apply
  MaxKills,     \* bound: SIGKILL, or a crash, of apply
  MayKeep,      \* whether keep_vm may keep the VM
  SecondApply,  \* whether somebody applies the same job again
  ControlResult, \* whether the job declares control.result
  Faults        \* what may go wrong: see FaultKinds

FaultKinds == {"launch", "read", "scrub", "expiry", "release", "reclaim", "error"}
Statuses == Pollers \cup Lookers
Commands == Statuses \cup Destroyers
Verdicts == {"succeeded", "cancelled"}

ASSUME FaultsAssumption == Faults \subseteq FaultKinds
ASSUME CommandsAssumption ==
  "detached" \in Pollers /\ Pollers \cap (Lookers \cup Destroyers) = {}
ASSUME BoundsAssumption ==
  /\ Candidates \in Nat /\ MaxSignals \in Nat /\ MaxKills \in Nat
  /\ MayKeep \in BOOLEAN /\ SecondApply \in BOOLEAN
  /\ ControlResult \in BOOLEAN

VARIABLES
  a,         \* where apply is
  env,       \* apply's envelope, in memory
  tries,     \* candidates tried
  sure,      \* apply knows that no credential file is on the VM
  keep,      \* apply's keep_vm answer
  handoff,   \* apply will hand the job to a detached poll
  signals,   \* the signals received, in order
  how,       \* how apply ended
  stray,     \* a VM was assigned to apply that nothing names, and is up
  misled,    \* history: a removal that apply was told of left the file
  unread,    \* history: a read of the verdict failed, or apply itself did
  disk,      \* envelope.json
  ident,     \* whose identity supervisor.json holds
  session,   \* the local session record exists
  second,    \* the second apply
  q,         \* where each command is
  mem,       \* each command's envelope, in memory
  flag,      \* a status found the job orphaned; a destroy found a session
  vm,        \* the assigned VM
  secret,    \* the credential file is on the VM
  starting,  \* the launched runner has not written launch.json yet
  overdue,   \* wall_clock + 600 s have passed since the launch
  posted,    \* the runner has PUT its result to control.result
  job, verdict, intent, obituary    \* RemoteJob

seenVars  == <<stray, misled, unread>>
applyVars == <<a, env, tries, sure, keep, handoff, signals, how, seenVars>>
fileVars  == <<disk, ident, session, second>>
cmdVars   == <<q, mem, flag>>
jobVars   == <<job, verdict, intent, obituary>>
vmVars    == <<vm, secret, starting, overdue, posted, jobVars>>
vars == <<applyVars, fileVars, cmdVars, vmVars>>

VM == INSTANCE RemoteJob
-----------------------------------------------------------------------------
(***************************************************************************)
(* The envelope.  "released" stands for already_absent too: nothing is     *)
(* assigned under the recorded endpoint.                                   *)
(***************************************************************************)

Fresh == [names    |-> "nothing",   \* endpoint; endpoint and session
          launched |-> FALSE,       \* started_at
          workload |-> "pending",
          sup      |-> "running",
          cleanup  |-> "pending"]

NoEnvelope == [Fresh EXCEPT !.names = "absent"]

Envelopes == [names : {"nothing", "endpoint", "session"},
              launched : BOOLEAN,
              workload : {"pending", "running", "failed", "unknown"} \cup Verdicts,
              sup : {"running", "interrupted", "finished"},
              cleanup : {"pending", "released", "left_up", "failed"}]

Terminal(e) == e.workload \notin {"pending", "running"}
Ended(e, w) == [e EXCEPT !.workload = w, !.sup = "finished"]

\* The end of a job that may not have reported a verdict.
Unresolved(e) == Ended(e, IF Terminal(e) THEN e.workload ELSE "unknown")

\* What release_assignment may answer, with the VM it leaves.  A 404 that
\* the assignment listing confirms counts as released.
FailureIsReleased(e) ==
  IF e.names = "nothing" THEN {<<"released", vm>>}
  ELSE {"released"} \X {vm, IF vm = "up" THEN "gone" ELSE vm}
Unassign(e) ==
  IF e.names = "nothing" THEN {<<"released", vm>>}
  ELSE {<<"released", IF vm = "up" THEN "gone" ELSE vm>>}
         \cup (IF "release" \in Faults
               THEN {"failed"} \X {vm, IF vm = "up" THEN "gone" ELSE vm}
               ELSE {})

\* The envelope, and the VM, after a release by a command.
Release(e) == {<<[e EXCEPT !.cleanup = r[1]], r[2]>> : r \in Unassign(e)}

\* A read of the verdict that succeeds.
Published == vm = "up" /\ verdict # "none"

\* No result.json can be had from the VM: what control.result makes of the
\* envelope.  A PUT that was never made, or a read that fails, leaves it.
PostedIsRead ==
  IF posted THEN {TRUE} \cup (IF "read" \in Faults THEN {FALSE} ELSE {}) ELSE {FALSE}
Absorbed(e) == [e EXCEPT !.workload = verdict]
Recovered(e) == {IF read THEN Absorbed(e) ELSE e : read \in PostedIsRead}

\* The VM is kept: descendants that outlived the workload make that a
\* failed cleanup.
Kept(e) ==
  {[e EXCEPT !.cleanup = c] :
     c \in {"left_up"} \cup (IF e.launched /\ e.workload \in Verdicts THEN {"failed"} ELSE {})}

\* supervisor.json names a process that is there.
SupervisorNeverAlive == ident = "second" /\ second = "live"
SupervisorAlive ==
  \/ ident = "apply" /\ a # "gone"
  \/ ident = "second" /\ second = "live"

Init ==
  /\ a = "claim" /\ env = Fresh /\ tries = 0 /\ sure = TRUE /\ keep = FALSE
  /\ handoff = FALSE /\ signals = <<>> /\ how = "none"
  /\ stray = FALSE /\ misled = FALSE /\ unread = FALSE
  /\ disk = NoEnvelope /\ ident = "none" /\ session = FALSE /\ second = "no"
  /\ q = [c \in Commands |-> IF c = "detached" THEN "off" ELSE "idle"]
  /\ mem = [c \in Commands |-> Fresh] /\ flag = [c \in Commands |-> FALSE]
  /\ vm = "none" /\ secret = FALSE
  /\ starting = FALSE /\ overdue = FALSE /\ posted = FALSE
  /\ VM!Init

-----------------------------------------------------------------------------
(***************************************************************************)
(* apply: claim, provision, set up, launch.                                *)
(***************************************************************************)

ApplyAt(pc) == a = pc
ApplyRest == UNCHANGED <<tries, sure, keep, handoff, signals, how, seenVars>>

\* The identity is recorded before the first envelope.
Claim ==
  /\ ApplyAt("claim")
  /\ ident' = "apply"
  /\ a' = "provision"
  /\ UNCHANGED env /\ ApplyRest
  /\ UNCHANGED <<disk, session, second, cmdVars, vmVars>>

BeginsProvision ==
  /\ ApplyAt("provision")
  /\ disk' = env
  /\ a' = "assign"
  /\ UNCHANGED env /\ ApplyRest
  /\ UNCHANGED <<ident, session, second, cmdVars, vmVars>>

\* The server has assigned a VM; apply does not know it yet.
AssignGranted ==
  /\ ApplyAt("assign") /\ tries < Candidates
  /\ vm' = "up"
  /\ tries' = tries + 1
  /\ a' = "granted"
  /\ UNCHANGED <<env, sure, keep, handoff, signals, how, seenVars>>
  /\ UNCHANGED <<fileVars, cmdVars, secret, starting, overdue, posted, jobVars>>

\* This candidate is refused, or its reply is lost: on to the next one.  A VM
\* behind a lost reply is up, and in no record.
AssignFails ==
  /\ ApplyAt("assign") /\ tries < Candidates
  /\ tries' = tries + 1
  /\ stray' \in {stray, TRUE}
  /\ UNCHANGED <<a, env, sure, keep, handoff, signals, how, misled, unread>>
  /\ UNCHANGED <<fileVars, cmdVars, vm, secret, starting, overdue, posted, jobVars>>

\* No candidate is left, or the account is at its limit.
ProvisionFails ==
  /\ ApplyAt("assign")
  /\ env' = Ended(env, "failed")
  /\ a' = "finally"
  /\ ApplyRest
  /\ UNCHANGED <<fileVars, cmdVars, vmVars>>

\* A CPU granted for a GPU is released at once; a VM that cannot be
\* released keeps its endpoint for cleanup to try again.
GrantRefused ==
  /\ ApplyAt("granted")
  /\ \/ /\ vm' = "gone"
        /\ a' = "assign"
        /\ UNCHANGED env
     \/ /\ "release" \in Faults
        /\ vm' \in {vm, "gone"}
        /\ env' = Ended([env EXCEPT !.names = "endpoint"], "failed")
        /\ a' = "finally"
  /\ ApplyRest
  /\ UNCHANGED <<fileVars, cmdVars, secret, starting, overdue, posted, jobVars>>

\* Endpoint and session name are durable before any later fallible step.
RecordsEndpoint ==
  /\ ApplyAt("granted")
  /\ env' = [env EXCEPT !.names = "session"]
  /\ disk' = env'
  /\ a' = "keepalive"
  /\ ApplyRest
  /\ UNCHANGED <<ident, session, second, cmdVars, vmVars>>

\* A missing OAuth scope shows in the pre-flight ping: release, give up.
ScopeMissing ==
  /\ ApplyAt("keepalive")
  /\ \E r \in Unassign(env) :
       /\ vm' = r[2]
       /\ env' = Ended(IF r[1] = "failed" THEN env
                       ELSE [env EXCEPT !.names = "nothing"], "failed")
  /\ a' = "finally"
  /\ ApplyRest
  /\ UNCHANGED <<fileVars, cmdVars, secret, starting, overdue, posted, jobVars>>

\* The session is stored and the daemon started.
StartsKeepAlive ==
  /\ ApplyAt("keepalive")
  /\ session' = TRUE
  /\ a' = "setup"
  /\ UNCHANGED env /\ ApplyRest
  /\ UNCHANGED <<disk, ident, second, cmdVars, vmVars>>

\* A kernel call stores the session again, with the kernel it has found, even
\* if the record has been dropped meanwhile.
StoresKernel == session' \in {session, TRUE}

\* install and restart, for a job that declares dependencies.
Installs ==
  /\ ApplyAt("setup")
  /\ \/ vm = "up" /\ disk' = env /\ StoresKernel
     \/ UNCHANGED <<disk, session>>
  /\ a' = "verify"
  /\ UNCHANGED env /\ ApplyRest
  /\ UNCHANGED <<ident, second, cmdVars, vmVars>>

Verifies ==
  /\ ApplyAt("verify") /\ vm = "up"
  /\ disk' = env /\ StoresKernel
  /\ a' = "stage"
  /\ UNCHANGED env /\ ApplyRest
  /\ UNCHANGED <<ident, second, cmdVars, vmVars>>

\* A job with transfers has its credential directory made.  From then on a
\* credential file may be on the VM.
CredentialChannel == IF vm = "up" THEN {FALSE, sure} ELSE {sure}
Prepares ==
  /\ ApplyAt("stage")
  /\ disk' = env
  /\ sure' \in CredentialChannel
  /\ a' = "upload"
  /\ UNCHANGED <<env, tries, keep, handoff, signals, how, seenVars>>
  /\ UNCHANGED <<ident, session, second, cmdVars, vmVars>>

\* The runtime, the sources and the manifests are uploaded, the credentials
\* last of all.
Stages ==
  /\ ApplyAt("upload") /\ vm = "up"
  /\ secret' = ~sure
  /\ a' = "seal"
  /\ UNCHANGED env /\ ApplyRest
  /\ UNCHANGED <<fileVars, cmdVars, vm, starting, overdue, posted, jobVars>>

\* A credential file that the job needs is there, owner-only.
CredentialsAreThere == sure \/ secret

Seals ==
  /\ ApplyAt("seal") /\ vm = "up" /\ CredentialsAreThere
  /\ disk' = env
  /\ a' = "launch"
  /\ UNCHANGED env /\ ApplyRest
  /\ UNCHANGED <<ident, session, second, cmdVars, vmVars>>

\* The upload of the credentials may have been written though it failed.
MayBeWritten ==
  {secret} \cup (IF a = "upload" /\ ~sure /\ vm = "up" THEN {TRUE} ELSE {})

\* A PhaseError, or any exception, before the run; an exception that is not
\* a PhaseError, in the launch itself, leaves the workload unknown.
SettingUp == {"setup", "verify", "stage", "upload", "seal"}
SetupFails ==
  /\ a \in SettingUp \cup {"launch", "sent"}
  /\ \/ env' = Ended(env, "failed")
     \/ a \notin SettingUp /\ "error" \in Faults /\ env' = Ended(env, "unknown")
  /\ IF a \in {"setup", "verify"} THEN StoresKernel ELSE UNCHANGED session
  /\ secret' \in MayBeWritten
  /\ a' = "finally"
  /\ ApplyRest
  /\ UNCHANGED <<disk, ident, second, cmdVars>>
  /\ UNCHANGED <<vm, starting, overdue, posted, jobVars>>

\* The kernel unlinks the credentials and spawns the runner.
KernelLaunches ==
  /\ ApplyAt("launch") /\ vm = "up" /\ CredentialsAreThere
  /\ secret' = FALSE
  /\ starting' = TRUE
  /\ a' = "sent"
  /\ UNCHANGED env /\ ApplyRest
  /\ UNCHANGED <<fileVars, cmdVars, vm, overdue, posted, jobVars>>

\* The pid comes back, or the kernel connection fails; either way the
\* runner is from now on observed through its files.
LaunchReturns ==
  /\ \/ ApplyAt("sent") /\ sure' = TRUE
     \/ a \in {"launch", "sent"} /\ "launch" \in Faults /\ UNCHANGED sure
  /\ env' = [env EXCEPT !.workload = "running", !.launched = TRUE]
  /\ disk' = env'
  /\ a' = "poll"
  /\ UNCHANGED <<tries, keep, handoff, signals, how, seenVars>>
  /\ UNCHANGED <<ident, session, second, cmdVars, vmVars>>

-----------------------------------------------------------------------------
(***************************************************************************)
(* apply: poll.                                                            *)
(***************************************************************************)

\* The workload has its last word: the envelope is written, cleanup follows.
ApplyEndsWith(w) ==
  /\ env' = Ended(env, w)
  /\ a' = "ended"
  /\ UNCHANGED <<tries, sure, keep, handoff, signals, how, stray, misled>>
  /\ UNCHANGED <<fileVars, cmdVars, vmVars>>

ApplyEndsWithVerdict == Published /\ ApplyEndsWith(verdict) /\ UNCHANGED unread

\* No result.json: control.result, if it can be had, is the last word.
ApplyEndsWithout ==
  \E read \in PostedIsRead :
    /\ ApplyEndsWith(IF read THEN verdict ELSE "unknown")
    /\ unread' = (unread \/ (posted /\ ~read))

PersistsEnd ==
  /\ ApplyAt("ended")
  /\ disk' = env
  /\ a' = "finally"
  /\ UNCHANGED env /\ ApplyRest
  /\ UNCHANGED <<ident, session, second, cmdVars, vmVars>>

PollResult == ApplyAt("poll") /\ ~overdue /\ ApplyEndsWithVerdict

PollLost == ApplyAt("poll") /\ ~overdue /\ vm # "up" /\ ApplyEndsWithout

\* result.json is not there: watchdog.json and launch.json are next.
PollReads ==
  /\ ApplyAt("poll") /\ ~overdue /\ vm = "up" /\ verdict = "none"
  /\ a' = "watch"
  /\ UNCHANGED env /\ ApplyRest
  /\ UNCHANGED <<fileVars, cmdVars, vmVars>>

\* A dead runner, or none 120 s after the launch and for 90 s more: by then
\* a runner that was going to start has written launch.json.
PollWatches ==
  /\ ApplyAt("watch")
  /\ IF vm = "up" /\ (obituary \/ (job = "unlaunched" /\ ~starting))
     THEN a' = "late" /\ UNCHANGED disk
     ELSE a' = "poll" /\ disk' = env
  /\ UNCHANGED env /\ ApplyRest
  /\ UNCHANGED <<ident, session, second, cmdVars, vmVars>>

\* _absorb_late_result: result.json is read once more, and a read that fails
\* counts as one that finds nothing.
PollReadsOnce == ApplyAt("late") /\ ApplyEndsWithout
PollReadsAgain ==
  /\ ApplyAt("late")
  /\ \/ ApplyEndsWithVerdict
     \/ ~Published /\ ApplyEndsWithout
     \/ /\ Published /\ "read" \in Faults
        /\ \E read \in PostedIsRead : ApplyEndsWith(IF read THEN verdict ELSE "unknown")
        /\ unread' = TRUE

PollNeverOverdue == ApplyAt("poll") /\ overdue /\ ~overdue /\ ApplyEndsWithout
PollOverdue ==
  /\ ApplyAt("poll") /\ overdue
  /\ env' = [env EXCEPT !.sup = "interrupted"]
  /\ disk' = env'
  /\ a' = "cancel"
  /\ ApplyRest
  /\ UNCHANGED <<ident, session, second, cmdVars, vmVars>>

\* request_cancel, which may not get through.
CancelsAfterDeadline ==
  /\ ApplyAt("cancel")
  /\ intent' \in {intent, vm = "up" \/ intent}
  /\ a' = "await"
  /\ UNCHANGED env /\ ApplyRest
  /\ UNCHANGED <<fileVars, cmdVars, vm, secret, starting, overdue, posted>>
  /\ UNCHANGED <<job, verdict, obituary>>

\* The runner answers within 300 s, or does not.
AwaitsResult ==
  /\ ApplyAt("await")
  /\ ApplyEndsWithVerdict \/ ApplyEndsWithout

\* Any exception that is not a PhaseError, once the runner is launched.
SupervisorError ==
  /\ a \in {"poll", "watch", "late", "cancel", "await", "ended"}
  /\ "error" \in Faults
  /\ env' = Unresolved(env)
  /\ a' = "finally"
  /\ unread' = TRUE
  /\ UNCHANGED <<tries, sure, keep, handoff, signals, how, stray, misled>>
  /\ UNCHANGED <<fileVars, cmdVars, vmVars>>

-----------------------------------------------------------------------------
(***************************************************************************)
(* apply: leaving.                                                         *)
(***************************************************************************)

\* What keep_vm may answer.
KeepAnswers(removed) == IF removed THEN {FALSE, MayKeep} ELSE {FALSE}

\* The run goes on without apply.
Detaches == env.sup = "interrupted"

\* What removing the credential file answers, and what it leaves.  A 404 is
\* a confirmation, and the proxy answers 404 to an expired token too; a
\* removal that is not confirmed may have been made.
Removal ==
       (IF vm = "up" THEN {<<TRUE, FALSE>>} ELSE {<<FALSE, secret>>})
  \cup (IF "expiry" \in Faults THEN {<<TRUE, secret>>} ELSE {})
  \cup (IF "scrub" \in Faults THEN {<<FALSE, secret>>, <<FALSE, secret /\ vm # "up">>} ELSE {})

\* apply asks the kernel and the Contents API, and takes a lost VM for a
\* confirmation; a job that has no credentials needs no answer.
ScrubAnswers ==
  IF sure THEN {<<TRUE, secret>>}
  ELSE Removal \cup (IF vm = "up" THEN {} ELSE {<<TRUE, secret>>})

\* The credential file is removed, or not confirmed removed: then the VM
\* goes, whatever else was asked.  An interrupted run stays on its VM.
ScrubsSecret ==
  /\ ApplyAt("finally")
  /\ \E answer \in ScrubAnswers :
       /\ sure' = (sure \/ answer[1])
       /\ secret' = answer[2]
       /\ misled' = (misled \/ (answer[1] /\ answer[2]))
       /\ keep' \in KeepAnswers(answer[1])
       /\ IF Detaches /\ answer[1]
          THEN a' = "clear" /\ disk' = env
          ELSE a' = "cleanup" /\ UNCHANGED disk
  /\ UNCHANGED <<env, tries, handoff, signals, how, stray, unread>>
  /\ UNCHANGED <<ident, session, second, cmdVars>>
  /\ UNCHANGED <<vm, starting, overdue, posted, jobVars>>

CleansUp ==
  /\ ApplyAt("cleanup")
  /\ \/ /\ env.names = "nothing"
        /\ env' = [env EXCEPT !.cleanup = "released"] /\ session' = FALSE /\ a' = "clear"
     \/ /\ env.names # "nothing" /\ keep
        /\ env' \in Kept(env) /\ UNCHANGED session /\ a' = "clear"
     \/ /\ env.names # "nothing" /\ ~keep
        /\ UNCHANGED <<env, session>> /\ a' = "release"
  /\ disk' = env'
  /\ ApplyRest
  /\ UNCHANGED <<ident, second, cmdVars, vmVars>>

\* The VM's records are copied, then it is unassigned.
ReleasesVm ==
  /\ ApplyAt("release")
  /\ \E r \in Unassign(env) :
       env' = [env EXCEPT !.cleanup = r[1]] /\ vm' = r[2]
  /\ a' = "drop"
  /\ ApplyRest
  /\ UNCHANGED <<fileVars, cmdVars, secret, starting, overdue, posted, jobVars>>

\* The session record is dropped even when the release failed.
DropsSession ==
  /\ ApplyAt("drop")
  /\ session' = FALSE
  /\ disk' = env
  /\ a' = "clear"
  /\ UNCHANGED env /\ ApplyRest
  /\ UNCHANGED <<ident, second, cmdVars, vmVars>>

ClearsIdentity ==
  /\ ApplyAt("clear")
  /\ ident' = "none"
  /\ a' = "spawn"
  /\ UNCHANGED env /\ ApplyRest
  /\ UNCHANGED <<disk, session, second, cmdVars, vmVars>>

StartsPollAfterFailure == handoff /\ env.cleanup = "failed"
StartsPoll == handoff /\ env.cleanup = "pending"

\* The detached poll starts after the identity is gone.
SpawnsPoll == q' = [q EXCEPT !["detached"] = "idle"] /\ how' = "exit" /\ UNCHANGED disk

\* What only the process knew goes with it.
Unremembered ==
  /\ env' = Fresh /\ tries' = 0 /\ sure' = TRUE /\ keep' = FALSE /\ handoff' = FALSE
  /\ signals' = <<>> /\ misled' = FALSE /\ unread' = FALSE

\* It could not be started: the envelope tells the user what to do.
TellsUser == UNCHANGED q /\ how' = "told" /\ disk' = env

HandsOff ==
  /\ ApplyAt("spawn")
  /\ IF StartsPoll
     THEN SpawnsPoll \/ ("error" \in Faults /\ TellsUser)
     ELSE how' = "exit" /\ UNCHANGED <<q, disk>>
  /\ a' = "gone"
  /\ Unremembered
  /\ UNCHANGED <<stray, ident, session, second, mem, flag, vmVars>>

-----------------------------------------------------------------------------
(***************************************************************************)
(* Signals and crashes of apply.                                           *)
(***************************************************************************)

Before == SettingUp \cup {"provision", "assign", "granted", "keepalive", "launch",
           "sent", "poll", "watch", "late", "cancel", "await", "ended"}
Leaving == {"finally", "cleanup", "release", "drop", "clear", "spawn"}

\* A SIGTERM after the first is ignored; Ctrl-C never is.
Delivered(s) ==
  /\ Len(signals) < MaxSignals
  /\ s = "TERM" => \A i \in DOMAIN signals : signals[i] # "TERM"

\* A VM granted but not recorded stays up when the call that waited for it
\* ends, and nothing names it.
LosesGrant ==
  /\ vm' = IF a = "granted" THEN "none" ELSE vm
  /\ stray' = (stray \/ a = "granted")
  /\ UNCHANGED <<secret, starting, overdue, posted, jobVars>>

\* Before the launch apply cancels and releases.  After it, the run stays:
\* SIGTERM hands it to a detached poll, Ctrl-C leaves it to the user.
Stopped ==
  IF env.workload = "pending" THEN Ended(env, "cancelled")
  ELSE [env EXCEPT !.sup = "interrupted"]

Interrupted(s) ==
  /\ a \in Before
  /\ Delivered(s) /\ signals' = Append(signals, s)
  /\ env' = Stopped
  /\ handoff' = (s = "TERM" /\ env.workload # "pending")
  /\ LosesGrant
  /\ IF a \in {"setup", "verify"} THEN StoresKernel ELSE UNCHANGED session
  /\ a' = "finally"
  /\ UNCHANGED <<tries, sure, keep, how, misled, unread>>
  /\ UNCHANGED <<disk, ident, second, cmdVars>>

\* A signal while apply leaves ends it there, but for the inner finally
\* that drops the session and writes the envelope after the release call.
Aborted(s) ==
  /\ a \in Leaving
  /\ Delivered(s)
  /\ how' = "aborted"
  /\ a' = "gone"
  /\ IF a = "release"
     THEN vm' \in {vm, "gone"} /\ session' = FALSE /\ disk' = env
     ELSE UNCHANGED <<vm, session, disk>>
  /\ Unremembered
  /\ UNCHANGED <<stray, ident, second, cmdVars>>
  /\ UNCHANGED <<secret, starting, overdue, posted, jobVars>>

Killed ==
  /\ MaxKills > 0
  /\ a # "gone"
  /\ how' = "killed"
  /\ a' = "gone"
  /\ LosesGrant
  /\ Unremembered
  /\ UNCHANGED <<fileVars, cmdVars>>

\* A second apply of the same job gets the lock once the first has gone,
\* records its own identity, is refused, and does not clear it.
SecondClaims ==
  /\ SecondApply /\ second = "no"
  /\ a \in {"spawn", "gone"}
  /\ disk.names \in {"endpoint", "session"}
  /\ ident' = "second"
  /\ second' = "live"
  /\ UNCHANGED <<disk, session, applyVars, cmdVars, vmVars>>

SecondRefused ==
  /\ second = "live"
  /\ second' = "gone"
  /\ UNCHANGED <<disk, ident, session, applyVars, cmdVars, vmVars>>

-----------------------------------------------------------------------------
(***************************************************************************)
(* job status, plain and --poll.                                           *)
(***************************************************************************)

At(c, pc) == q[c] = pc
Goes(c, pc, e) == q' = [q EXCEPT ![c] = pc] /\ mem' = [mem EXCEPT ![c] = e]

\* A command that has written its envelope is over; it may be run again,
\* but for the detached poll, which is started once.
Leaves(c) ==
  /\ q' = [q EXCEPT ![c] = IF c = "detached" THEN "over" ELSE "idle"]
  /\ mem' = [mem EXCEPT ![c] = Fresh]
  /\ flag' = [flag EXCEPT ![c] = FALSE]

\* The envelope is read first, the supervisor's identity after it.
StatusReads(p) ==
  /\ At(p, "idle") /\ disk # NoEnvelope
  /\ Goes(p, "check", disk)
  /\ UNCHANGED <<flag, applyVars, fileVars, vmVars>>

StatusChecks(p) ==
  /\ At(p, "check")
  /\ LET e == IF mem[p].sup = "running" /\ ~SupervisorAlive
              THEN [mem[p] EXCEPT !.sup = "interrupted"] ELSE mem[p]
         orphaned == ~SupervisorAlive /\ e.sup # "running"
         mustScrub == orphaned \/ e.cleanup = "failed"
         pending == e.names = "session" /\ e.cleanup \in {"pending", "failed"}
     IN /\ flag' = [flag EXCEPT ![p] = orphaned]
        /\ Goes(p, IF pending /\ mustScrub THEN (IF session THEN "scrub" ELSE "force")
                   ELSE IF pending /\ session /\ ~Terminal(e) THEN "look" ELSE "write", e)
  /\ UNCHANGED <<applyVars, fileVars, vmVars>>

\* Where a status goes once it knows what it will know of the workload.
Onward(p, e) ==
  IF Terminal(e) THEN (IF flag[p] THEN "release" ELSE "write") ELSE "look"

\* A status that has read the session record looks after its daemon: one that
\* has died is started again and the record stored with its pid, even if it
\* has been dropped meanwhile.
EnsuresKeepAlive == session' \in {session, TRUE}

StatusScrubs(p) ==
  /\ At(p, "scrub")
  /\ EnsuresKeepAlive
  /\ \E answer \in Removal :
       /\ secret' = answer[2]
       /\ Goes(p, IF answer[1] THEN Onward(p, mem[p]) ELSE "force", mem[p])
  /\ UNCHANGED <<flag, applyVars, disk, ident, second>>
  /\ UNCHANGED <<vm, starting, overdue, posted, jobVars>>

\* status --poll cancels an orphan past its deadline instead of reading it.
OnlyLookersCancel(p) == p \in Lookers /\ flag[p] /\ mem[p].launched /\ overdue
PastDeadline(p) == p \in Pollers /\ flag[p] /\ mem[p].launched /\ overdue

\* Nothing decided: --poll reads again, a plain status answers.
Undecided(p) ==
  IF p \in Pollers THEN Goes(p, "look", mem[p]) ELSE Goes(p, "write", mem[p])

\* No result.json can come: control.result is tried, and a status ends.
EndsWithout(p) ==
  \E e \in Recovered(Ended(mem[p], "unknown")) : Goes(p, Onward(p, e), e)

StatusLooks(p) ==
  /\ At(p, "look") /\ ~PastDeadline(p)
  /\ EnsuresKeepAlive
  /\ \/ /\ vm # "up"
        /\ EndsWithout(p)
     \/ /\ Published
        /\ LET e == [Absorbed(mem[p]) EXCEPT !.sup = IF flag[p] THEN "finished" ELSE @]
           IN Goes(p, Onward(p, e), e)
     \/ /\ vm = "up" /\ verdict = "none"
        /\ Goes(p, "watch", mem[p])
     \/ /\ "read" \in Faults
        /\ Undecided(p)
  /\ UNCHANGED <<flag, applyVars, disk, ident, second, vmVars>>

\* watchdog.json says that the runner is dead.
AnyRunner == job # "unlaunched"
DeadRunner == job # "unlaunched" /\ obituary

\* launch.json and watchdog.json.  There is no second read of result.json
\* here, and no grace period for a runner that is starting.
StatusWatches(p) ==
  /\ At(p, "watch")
  /\ LET none == job = "unlaunched" /\ flag[p]
     IN IF vm # "up" \/ none \/ DeadRunner THEN EndsWithout(p) ELSE Undecided(p)
  /\ UNCHANGED <<flag, applyVars, fileVars, vmVars>>

StatusCancels(p) ==
  /\ At(p, "look") /\ PastDeadline(p)
  /\ intent' \in {intent, vm = "up" \/ intent}
  /\ Goes(p, "await", mem[p])
  /\ UNCHANGED <<flag, applyVars, fileVars>>
  /\ UNCHANGED <<vm, secret, starting, overdue, posted, job, verdict, obituary>>

StatusAwaits(p) ==
  /\ At(p, "await")
  /\ \E w \in {"unknown"} \cup (IF Published THEN {verdict} ELSE {}) :
       Goes(p, "release", Ended(mem[p], w))
  /\ UNCHANGED <<flag, applyVars, fileVars, vmVars>>

\* An orphan that ended: keep_vm, or copy the records and release.
StatusReleases(p) ==
  /\ At(p, "release")
  /\ \/ /\ MayKeep
        /\ \E e \in Kept([mem[p] EXCEPT !.sup = "finished"]) : Goes(p, "write", e)
        /\ UNCHANGED vm
     \/ \E r \in Release([mem[p] EXCEPT !.sup = "finished"]) :
          Goes(p, "forget", r[1]) /\ vm' = r[2]
  /\ UNCHANGED <<flag, applyVars, fileVars>>
  /\ UNCHANGED <<secret, starting, overdue, posted, jobVars>>

\* The credential file could not be confirmed removed: control.result is
\* tried, and the VM goes.
StatusForces(p) ==
  /\ At(p, "force")
  /\ \E e \in Recovered(mem[p]) : \E r \in Release(e) :
       Goes(p, "forget", Unresolved(r[1])) /\ vm' = r[2]
  /\ UNCHANGED <<flag, applyVars, fileVars>>
  /\ UNCHANGED <<secret, starting, overdue, posted, jobVars>>

\* The session record, where the envelope names one, goes once the VM is
\* confirmed gone.
Forgets(c) ==
  /\ At(c, "forget")
  /\ session' =
       (session /\ (mem[c].names # "session" \/ mem[c].cleanup = "failed"))
  /\ disk' = mem[c]
  /\ Leaves(c)
  /\ UNCHANGED <<ident, second, applyVars, vmVars>>

\* The envelope read at the start is written back, with what was added.
Writes(c) ==
  /\ At(c, "write")
  /\ disk' = mem[c]
  /\ Leaves(c)
  /\ UNCHANGED <<ident, session, second, applyVars, vmVars>>

-----------------------------------------------------------------------------
(***************************************************************************)
(* job destroy.                                                            *)
(***************************************************************************)

DestroyReads(d) ==
  /\ At(d, "idle") /\ disk # NoEnvelope
  /\ Goes(d, "reconcile", disk)
  /\ flag' = [flag EXCEPT ![d] = session /\ disk.names = "session"]
  /\ UNCHANGED <<applyVars, fileVars, vmVars>>

\* An existing result is absorbed, the one in control.result if there is no
\* other.
Reconciled(d) ==
  LET e == mem[d]
      kept == IF Terminal(e) THEN {e}
              ELSE {IF read THEN Ended(e, verdict) ELSE e : read \in PostedIsRead}
  IN IF flag[d] /\ Published
     THEN {Ended(e, verdict)} \cup (IF "read" \in Faults THEN kept ELSE {})
     ELSE kept

\* The credential file is removed, or its removal is not confirmed.
DestroyReconciles(d) ==
  /\ At(d, "reconcile")
  /\ \E known \in Reconciled(d),
        answer \in IF flag[d] THEN Removal ELSE {<<FALSE, secret>>} :
       /\ secret' = answer[2]
       /\ Goes(d, IF answer[1] THEN "cancel" ELSE "unsure", known)
  /\ UNCHANGED <<flag, applyVars, fileVars>>
  /\ UNCHANGED <<vm, starting, overdue, posted, jobVars>>

\* A cancel that is confirmed is waited for; a live apply does the release.
\* A --cancel-only that is unsure of the credential file releases at once.
DestroyCancels(d) ==
  /\ At(d, "cancel") \/ At(d, "unsure")
  /\ \/ /\ ~Terminal(mem[d]) /\ flag[d] /\ vm = "up"
        /\ intent' = TRUE
        /\ \/ Goes(d, IF SupervisorAlive THEN "waitapply" ELSE "waitrunner", mem[d])
           \/ Goes(d, "destroy", mem[d])   \* --wait 0
     \/ /\ \/ Terminal(mem[d]) \/ ~flag[d] \/ vm # "up"
           \/ "read" \in Faults \/ At(d, "unsure")
        /\ UNCHANGED intent
        /\ Goes(d, "destroy", mem[d])
  /\ UNCHANGED <<flag, applyVars, fileVars>>
  /\ UNCHANGED <<vm, secret, starting, overdue, posted, job, verdict, obituary>>

\* --cancel-only, its credential file removed: the VM is left running.
DestroyOnlyCancels(d) ==
  /\ At(d, "cancel")
  /\ intent' \in {intent, intent \/ (~Terminal(mem[d]) /\ vm = "up")}
  /\ Goes(d, "write", mem[d])
  /\ UNCHANGED <<flag, applyVars, fileVars>>
  /\ UNCHANGED <<vm, secret, starting, overdue, posted, job, verdict, obituary>>

\* apply has released the VM; or it ended otherwise, or the wait is over:
\* destroy goes on from the latest record.
DestroyWaitsForApply(d) ==
  /\ At(d, "waitapply")
  /\ IF disk.cleanup = "released"
     THEN Leaves(d)
     ELSE Goes(d, "destroy", disk) /\ UNCHANGED <<flag>>
  /\ UNCHANGED <<applyVars, fileVars, vmVars>>

DestroyWaitsForRunner(d) ==
  /\ At(d, "waitrunner")
  /\ \E e \in {mem[d]} \cup (IF Published THEN {Ended(mem[d], verdict)} ELSE {}) :
       Goes(d, "destroy", e)
  /\ UNCHANGED <<flag, applyVars, fileVars, vmVars>>

DestroyReleases(d) ==
  /\ At(d, "destroy")
  /\ \E r \in Release(mem[d]) :
       Goes(d, "forget", Unresolved(r[1])) /\ vm' = r[2]
  /\ UNCHANGED <<flag, applyVars, fileVars>>
  /\ UNCHANGED <<secret, starting, overdue, posted, jobVars>>

-----------------------------------------------------------------------------
(***************************************************************************)
(* The VM.                                                                 *)
(***************************************************************************)

\* The detached runner writes launch.json, or dies before it can.
RunnerStarts ==
  /\ vm = "up" /\ starting
  /\ starting' = FALSE
  /\ VM!Launch \/ UNCHANGED jobVars
  /\ UNCHANGED <<vm, secret, overdue, posted, applyVars, fileVars, cmdVars>>

JobGoesOn ==
  /\ vm = "up"
  /\ (\E v \in Verdicts : VM!Publish(v)) \/ VM!Lose \/ VM!Report
  /\ UNCHANGED <<vm, secret, starting, overdue, posted>>
  /\ UNCHANGED <<applyVars, fileVars, cmdVars>>

\* After result.json, the runner PUTs its result to control.result.
RunnerPosts ==
  /\ ControlResult /\ ~posted
  /\ vm = "up" /\ job = "running" /\ verdict # "none"
  /\ posted' = TRUE
  /\ UNCHANGED <<vm, secret, starting, overdue, jobVars>>
  /\ UNCHANGED <<applyVars, fileVars, cmdVars>>

\* Colab takes an idle, or any, VM back.
VmReclaimed ==
  /\ "reclaim" \in Faults /\ vm = "up"
  /\ vm' = "gone"
  /\ UNCHANGED <<secret, starting, overdue, posted, jobVars>>
  /\ UNCHANGED <<applyVars, fileVars, cmdVars>>

DeadlinePasses ==
  /\ ~overdue
  /\ env.launched \/ disk.launched \/ \E c \in Commands : mem[c].launched
  /\ overdue' = TRUE
  /\ UNCHANGED <<vm, secret, starting, posted, jobVars>>
  /\ UNCHANGED <<applyVars, fileVars, cmdVars>>

-----------------------------------------------------------------------------

Apply ==
  \/ Claim \/ BeginsProvision \/ AssignGranted \/ AssignFails \/ ProvisionFails
  \/ GrantRefused \/ RecordsEndpoint \/ ScopeMissing \/ StartsKeepAlive
  \/ Installs \/ Verifies \/ Prepares \/ Stages \/ Seals \/ SetupFails
  \/ KernelLaunches \/ LaunchReturns
  \/ PollResult \/ PollLost \/ PollReads \/ PollWatches \/ PollReadsAgain
  \/ PollOverdue \/ CancelsAfterDeadline \/ AwaitsResult \/ PersistsEnd
  \/ ScrubsSecret \/ CleansUp \/ ReleasesVm \/ DropsSession
  \/ ClearsIdentity \/ HandsOff

Status(p) ==
  \/ StatusChecks(p) \/ StatusScrubs(p) \/ StatusLooks(p) \/ StatusWatches(p)
  \/ StatusCancels(p) \/ StatusAwaits(p) \/ StatusReleases(p)
  \/ StatusForces(p) \/ Forgets(p) \/ Writes(p)

Destroy(d) ==
  \/ DestroyReconciles(d) \/ DestroyCancels(d) \/ DestroyOnlyCancels(d)
  \/ DestroyWaitsForApply(d) \/ DestroyWaitsForRunner(d) \/ DestroyReleases(d)
  \/ Forgets(d) \/ Writes(d)

Outside ==
  \/ \E s \in {"INT", "TERM"} : Interrupted(s) \/ Aborted(s)
  \/ SupervisorError \/ Killed \/ SecondClaims \/ SecondRefused
  \/ RunnerStarts \/ JobGoesOn \/ RunnerPosts \/ VmReclaimed \/ DeadlinePasses

Next ==
  \/ Apply
  \/ \E p \in Statuses : StatusReads(p) \/ Status(p)
  \/ \E d \in Destroyers : DestroyReads(d) \/ Destroy(d)
  \/ Outside

Spec == Init /\ [][Next]_vars

(***************************************************************************)
(* Python runs apply and the detached poll until they end; the runner that *)
(* was spawned writes launch.json or dies; time passes.  Nothing makes a   *)
(* user run a command, or the workload end.                                *)
(***************************************************************************)
FairSpec ==
  /\ Spec
  /\ WF_vars(Apply)
  /\ WF_vars(StatusReads("detached")) /\ WF_vars(Status("detached"))
  /\ WF_vars(RunnerStarts) /\ WF_vars(DeadlinePasses)
-----------------------------------------------------------------------------
(***************************************************************************)
(* Properties.                                                             *)
(***************************************************************************)

ApplyPlaces == {"claim", "clear", "spawn", "gone"} \cup Before \cup Leaving
CommandPlaces ==
  {"off", "idle", "over", "check", "scrub", "look", "watch", "await", "release", "force",
   "forget", "write", "reconcile", "cancel", "unsure", "waitapply", "waitrunner", "destroy"}

\* Every variable holds a value of its kind; how apply ended is recorded
\* exactly when it has.
TypeOK ==
  /\ a \in ApplyPlaces /\ env \in Envelopes /\ tries \in 0..Candidates
  /\ sure \in BOOLEAN /\ keep \in BOOLEAN /\ handoff \in BOOLEAN
  /\ signals \in Seq({"INT", "TERM"}) /\ Len(signals) <= MaxSignals
  /\ how \in {"none", "exit", "told", "aborted", "killed"} /\ (how = "none" <=> a # "gone")
  /\ stray \in BOOLEAN /\ misled \in BOOLEAN /\ unread \in BOOLEAN
  /\ disk \in Envelopes \cup {NoEnvelope}
  /\ ident \in {"none", "apply", "second"} /\ session \in BOOLEAN
  /\ second \in {"no", "live", "gone"}
  /\ q \in [Commands -> CommandPlaces] /\ mem \in [Commands -> Envelopes]
  /\ flag \in [Commands -> BOOLEAN]
  /\ vm \in {"none", "up", "gone"} /\ secret \in BOOLEAN
  /\ starting \in BOOLEAN /\ overdue \in BOOLEAN /\ posted \in BOOLEAN
  /\ job \in {"unlaunched", "running", "lost"} /\ verdict \in Verdicts \cup {"none"}
  /\ intent \in BOOLEAN /\ obituary \in BOOLEAN

KeptOrReported(e) == e.cleanup \in {"left_up", "failed"}

SomeoneIsResponsible ==
  \/ KeptOrReported(env)
  \/ q'["detached"] # "off"
  \/ env.launched /\ \E i \in DOMAIN signals : signals[i] = "INT"

\* design.md: "A local supervisor that stops early never leaves the VM
\* without someone responsible for it".  When apply returns and a VM is up,
\* it was kept on purpose, or its failed release was reported, or a detached
\* poll has it, or the user who pressed Ctrl-C was told; if the workload had
\* ended by then, nothing but the first two will do.  And unless the release
\* failed, the VM holds no credential file: "If the credential handoff could
\* not be confirmed deleted, apply releases the VM in every case".  Two cases
\* of the code are out: nobody answers for a stray VM, whose grant was lost
\* with its reply or with the call that waited for it, and the file is still
\* there after a 404 that confirmed its removal to an expired token.
OnlyStrayIsUp == stray /\ vm # "up"
ReturnsResponsibly ==
  how = "none" /\ how' = "exit" /\ (vm = "up" \/ stray) =>
    \/ OnlyStrayIsUp
    \/ /\ SomeoneIsResponsible
       /\ Terminal(env) /\ env.sup = "finished" => KeptOrReported(env)
       /\ secret => misled \/ env.cleanup = "failed"
ExitIsResponsible == [][ReturnsResponsibly]_vars

\* A record that names a VM never says released (or already_absent) while it
\* is assigned: such records are pruned.
ReleasedIsGone ==
  disk.names = "session" /\ disk.cleanup = "released" => vm # "up"

\* A verdict in the record is the one in result.json, or apply's own before
\* the launch.
RecordedVerdictIsTrue ==
  disk.workload \in Verdicts =>
    disk.workload = verdict \/ (disk.workload = "cancelled" /\ ~disk.launched)

\* What envelope.json says last of the VM and of the verdict is true, whoever
\* wrote it, from however old a copy.
RecordIsTrue == ReleasedIsGone /\ RecordedVerdictIsTrue

\* design.md: "A concurrently running healthy supervisor is never scrubbed":
\* no status removes the credentials or the VM of a job that a live apply
\* still works on, unless a destroy has already failed to release it.
OnlyOrphansReleased ==
  \A p \in Statuses :
    q[p] \in {"scrub", "release", "force"} =>
      a \notin Before \/ mem[p].cleanup = "failed"

\* usage.md, design.md: "A live runner is left running": before the deadline
\* no status without destroy ends a workload, and goes on to the release,
\* while its runner is there, launched or still starting, and has given no
\* verdict.  One case is out: a status that finds no launch.json calls the
\* runner never started, at once, and one that is starting is not spared.
FindsNoLaunch(p) == At(p, "watch") /\ job = "unlaunched"
SparesLiveRunner ==
  \A p \in Statuses :
    At(p, "release")' /\ ~Terminal(mem[p]) /\ ~overdue /\ vm = "up" /\ ~FindsNoLaunch(p) =>
      ~((job = "running" \/ starting) /\ verdict = "none")
LiveRunnerSpared == [][SparesLiveRunner]_vars

\* design.md: apply calls the workload unknown, before its deadline and with
\* the VM there, only when "a second read still finds no `result.json`"; and
\* never, whatever has become of the VM, once the runner has posted its
\* result to control.result.  A read that fails is taken for one that finds
\* nothing, and an error of apply's own ends it at once: these are out.
KeepsVerdict ==
  env.workload = "running" /\ env'.workload = "unknown" =>
    \/ unread'
    \/ /\ ~posted
       /\ ~overdue /\ vm = "up" => verdict = "none"
ApplyKeepsVerdict == [][KeepsVerdict]_vars

\* apply ends, whatever the VM does.
ApplyEnds == <>(a = "gone")

\* design.md: the detached poll "collects the result when the runner writes
\* it and releases the VM": the VM goes, unless it is kept on purpose or its
\* failed release is reported.  A second apply that was refused in between
\* has left its identity behind and may pass for the supervisor.
HandedOffIsReleased ==
  (q["detached"] = "idle") ~>
    (vm # "up" \/ KeptOrReported(disk) \/ second # "no")
=============================================================================
