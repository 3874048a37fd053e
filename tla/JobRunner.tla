----------------------------- MODULE JobRunner -----------------------------
(***************************************************************************)
(* One attempt of a job on its VM: the runner, its sibling watchdog and    *)
(* the consumer's processes, which share the job directory (launch.json,   *)
(* cancel.json, result.json, watchdog.json) and the process table.         *)
(*   job/runtime_payload/runner.py    main()                               *)
(*   job/runtime_payload/watchdog.py  main()                               *)
(*   job/runtime_payload/ident.py     who is found and signalled           *)
(*                                                                         *)
(* Time is abstract: the deadline passes at some point (DeadlinePasses),   *)
(* and a grace period is over whenever the action behind it is taken.      *)
(***************************************************************************)
EXTENDS Naturals

CONSTANTS
  Kids,          \* processes the consumer may start, besides the shim
  MaxCrashes,    \* bound: how many supervisors may be killed from outside
  Faults,        \* whether a write, or a step of the wait loop, may raise
  CanDetect      \* ident.can_detect_escapees(): /proc is there

Supervisors == {"runner", "watchdog"}
Procs == Supervisors \cup {"shim"} \cup Kids

ASSUME KidsAssumption == Kids \cap (Supervisors \cup {"shim"}) = {}
ASSUME BoundsAssumption ==
  MaxCrashes \in Nat /\ Faults \in BOOLEAN /\ CanDetect \in BOOLEAN

Verdicts == {"succeeded", "failed", "cancelled", "unknown"}

VARIABLES
  alive,      \* the processes that exist and are not zombies
  born,       \* the kids started so far
  grouped,    \* the kids in the shim's process group
  tagged,     \* the kids whose environment carries MIGHTY_JOB_ID
  shimExit,   \* the shim's wait status
  deadline,   \* TRUE once the wall clock budget is spent
  cancel,     \* who wrote cancel.json, or "none"
  result,     \* workload in result.json, or "none"
  published,  \* workload at control.result, or "none"
  watchRec,   \* "dead" when watchdog.json says runner_alive: false
  rpc,        \* where the runner is
  rExit,      \* the exit status the runner reaped
  rTerm,      \* runner: term_sent
  rKill,      \* runner: kill_sent
  rScan,      \* runner: the tagged identities it is about to signal, or,
              \* in its last probe, the processes of /proc it has listed
  found,      \* runner: tagged processes at the last probe
  detect,     \* runner: detect_ok
  verdict,    \* runner: the verdict it has computed
  wpc,        \* where the watchdog is
  wTerm,      \* watchdog: cancel_sent
  wKill,      \* watchdog: kill_sent
  wScan,      \* watchdog: the tagged identities it is about to signal
  wKnows,     \* watchdog: FALSE after an unreadable launch.json, to the
              \* end of the tick
  crashes,    \* supervisors killed from outside
  stopped,    \* history: a supervisor's signal killed the shim
  unseen      \* history: the tagged kids started during the last probe, by
              \* a process it had listed or by one of their own

procVars   == <<alive, born, grouped, tagged, shimExit, stopped, unseen>>
runnerVars == <<rpc, rExit, rTerm, rKill, rScan, found, detect, verdict>>
watchVars  == <<wpc, wTerm, wKill, wScan, wKnows>>
fileVars   == <<cancel, result, published, watchRec>>
vars == <<procVars, runnerVars, watchVars, fileVars, deadline, crashes>>

Init ==
  /\ alive = {"runner"}
  /\ born = {} /\ grouped = {} /\ tagged = {}
  /\ shimExit = "none"
  /\ deadline = FALSE
  /\ cancel = "none" /\ result = "none" /\ published = "none"
  /\ watchRec = "none"
  /\ rpc = "launch" /\ rExit = "none"
  /\ rTerm = FALSE /\ rKill = FALSE /\ rScan = {}
  /\ found = {} /\ detect = FALSE /\ verdict = "none"
  /\ wpc = "off" /\ wTerm = FALSE /\ wKill = FALSE /\ wScan = {}
  /\ wKnows = TRUE
  /\ crashes = 0
  /\ stopped = FALSE /\ unseen = {}

-----------------------------------------------------------------------------
(***************************************************************************)
(* Finding and signalling processes.                                       *)
(***************************************************************************)

\* The processes whose environment carries the job id, the supervisors'
\* included; without /proc nobody is found.  tagged_processes lists /proc
\* and then opens each entry.  For a sweep this is what was there at the
\* listing, as signalling what is gone by then does nothing; where it
\* matters that nothing was found, the two are separate (RunnerLists).
TaggedIn(procs) ==
  IF CanDetect THEN procs \cap (Supervisors \cup {"shim"} \cup tagged) ELSE {}

\* The workload's own tagged processes, found or not.
Escapees == alive \cap ({"shim"} \cup tagged)

\* The shim's process group.
Group == {p \in alive : p = "shim" \/ p \in grouped}

RunnerSparesItself == {"runner"}

\* The runner spares itself and the watchdog it started.
RunnerExclude == Supervisors

\* The watchdog spares itself and the pid launch.json names, if it does.
WatchExclude == {"watchdog"} \cup (IF wKnows THEN {"runner"} ELSE {})

\* What a sweep finds; one that fails is logged and finds nothing.
Sweeps(exclude) == {TaggedIn(alive') \ exclude, {}}

\* SIGTERM: the workload's processes may survive it, a supervisor would not.
Term(targets) ==
  \E dead \in SUBSET (targets \cap alive) :
    /\ targets \cap alive \cap Supervisors \subseteq dead
    /\ alive' = alive \ dead
    /\ shimExit' = IF "shim" \in dead THEN "signal" ELSE shimExit
    /\ stopped' = (stopped \/ "shim" \in dead)
    /\ UNCHANGED <<born, grouped, tagged, unseen>>

\* SIGKILL spares nobody.
Kill(targets) ==
  /\ alive' = alive \ targets
  /\ shimExit' = IF "shim" \in targets \cap alive THEN "signal" ELSE shimExit
  /\ stopped' = (stopped \/ "shim" \in targets \cap alive)
  /\ UNCHANGED <<born, grouped, tagged, unseen>>

-----------------------------------------------------------------------------
(***************************************************************************)
(* The runner up to its wait loop.                                         *)
(***************************************************************************)

RunnerAt(pc) == "runner" \in alive /\ rpc = pc

RunnerUnchanged == UNCHANGED <<rExit, rTerm, rKill, rScan, found, detect, verdict>>

\* launch.json is created and filled in; DuplicateLaunch models that part.
RunnerLaunch ==
  /\ RunnerAt("launch")
  /\ rpc' = "stage"
  /\ RunnerUnchanged
  /\ UNCHANGED <<procVars, watchVars, fileVars, deadline, crashes>>

\* Inputs are staged and the shim starts in a session of its own.
RunnerStage ==
  /\ RunnerAt("stage")
  /\ rpc' = "watch"
  /\ alive' = alive \cup {"shim"}
  /\ RunnerUnchanged
  /\ UNCHANGED <<born, grouped, tagged, shimExit, stopped, unseen>>
  /\ UNCHANGED <<watchVars, fileVars, deadline, crashes>>

\* A staging failure is a verdict of its own: the consumer never runs.
RunnerStageFails ==
  /\ RunnerAt("stage")
  /\ rpc' = "stagefail"
  /\ verdict' = "failed"
  /\ UNCHANGED <<rExit, rTerm, rKill, rScan, found, detect>>
  /\ UNCHANGED <<procVars, watchVars, fileVars, deadline, crashes>>

\* The watchdog starts, or does not: the runner goes on either way.
RunnerStartsWatchdog ==
  /\ RunnerAt("watch")
  /\ rpc' = "wait"
  /\ \/ /\ alive' = alive \cup {"watchdog"}
        /\ wpc' = "record"
     \/ UNCHANGED <<alive, wpc>>
  /\ RunnerUnchanged
  /\ UNCHANGED <<born, grouped, tagged, shimExit, stopped, unseen>>
  /\ UNCHANGED <<wTerm, wKill, wScan, wKnows, fileVars, deadline, crashes>>

-----------------------------------------------------------------------------
(***************************************************************************)
(* The wait loop: reap, notice a cancel or the deadline, stop the          *)
(* workload, escalate.                                                     *)
(***************************************************************************)

RunnerReaps ==
  /\ RunnerAt("wait")
  /\ shimExit # "none"
  /\ rExit' = shimExit
  /\ rpc' = "sweep"
  /\ UNCHANGED <<rTerm, rKill, rScan, found, detect, verdict>>
  /\ UNCHANGED <<procVars, watchVars, fileVars, deadline, crashes>>

RunnerSeesCancel ==
  /\ RunnerAt("wait")
  /\ shimExit = "none"
  /\ ~rTerm
  /\ cancel # "none"
  /\ rpc' = "term"
  /\ RunnerUnchanged
  /\ UNCHANGED <<procVars, watchVars, fileVars, deadline, crashes>>

\* os.path.exists said no and the deadline is past: the intent comes first.
RunnerSeesDeadline ==
  /\ RunnerAt("wait")
  /\ shimExit = "none"
  /\ ~rTerm
  /\ cancel = "none"
  /\ deadline
  /\ rpc' = "intend"
  /\ RunnerUnchanged
  /\ UNCHANGED <<procVars, watchVars, fileVars, deadline, crashes>>

\* The write replaces whatever another requester wrote since the check.
RunnerWritesCancel ==
  /\ RunnerAt("intend")
  /\ cancel' = "wall_clock"
  /\ rpc' = "term"
  /\ RunnerUnchanged
  /\ UNCHANGED <<procVars, watchVars, result, published, watchRec>>
  /\ UNCHANGED <<deadline, crashes>>

\* An exception in the loop ends it with no exit status: runner_error.
RunnerLoopError ==
  /\ "runner" \in alive /\ rpc \in {"wait", "intend"}
  /\ Faults
  /\ rpc' = "sweep"
  /\ RunnerUnchanged
  /\ UNCHANGED <<procVars, watchVars, fileVars, deadline, crashes>>

\* killpg(SIGTERM), then the scan of tagged processes outside the group ...
RunnerTerms ==
  /\ RunnerAt("term")
  /\ Term(Group)
  /\ rScan' \in Sweeps(RunnerExclude)
  /\ rpc' = "termtagged"
  /\ UNCHANGED <<rExit, rTerm, rKill, found, detect, verdict>>
  /\ UNCHANGED <<watchVars, fileVars, deadline, crashes>>

RunnerForgetsTerm ==
  /\ RunnerAt("termtagged")
  /\ Term(rScan)
  /\ rScan' = {}
  /\ rpc' = "wait"
  /\ UNCHANGED <<rExit, rTerm, rKill, found, detect, verdict>>
  /\ UNCHANGED <<watchVars, fileVars, deadline, crashes>>

\* ... whose members are then signalled, unless gone by now.
RunnerTermsTagged ==
  /\ RunnerAt("termtagged")
  /\ Term(rScan)
  /\ rTerm' = TRUE
  /\ rScan' = {}
  /\ rpc' = "wait"
  /\ UNCHANGED <<rExit, rKill, found, detect, verdict>>
  /\ UNCHANGED <<watchVars, fileVars, deadline, crashes>>

RunnerKills ==
  /\ RunnerAt("wait")
  /\ shimExit = "none"
  /\ rTerm /\ ~rKill
  /\ Kill(Group)
  /\ rScan' \in Sweeps(RunnerExclude)
  /\ rpc' = "killtagged"
  /\ UNCHANGED <<rExit, rTerm, rKill, found, detect, verdict>>
  /\ UNCHANGED <<watchVars, fileVars, deadline, crashes>>

RunnerKillsTagged ==
  /\ RunnerAt("killtagged")
  /\ Kill(rScan)
  /\ rKill' = TRUE
  /\ rScan' = {}
  /\ rpc' = "wait"
  /\ UNCHANGED <<rExit, rTerm, found, detect, verdict>>
  /\ UNCHANGED <<watchVars, fileVars, deadline, crashes>>

-----------------------------------------------------------------------------
(***************************************************************************)
(* After the loop: sweep, probe, verdict, offload, result.                 *)
(***************************************************************************)

\* One snapshot serves both signals of the sweep.
RunnerScans ==
  /\ RunnerAt("sweep")
  /\ UNCHANGED procVars
  /\ rScan' \in Sweeps(RunnerExclude)
  /\ rpc' = IF rScan' = {} THEN "probe" ELSE "sweepterm"
  /\ UNCHANGED <<rExit, rTerm, rKill, found, detect, verdict>>
  /\ UNCHANGED <<watchVars, fileVars, deadline, crashes>>

RunnerSweepTerms ==
  /\ RunnerAt("sweepterm")
  /\ Term(rScan)
  /\ rpc' = "sweepkill"
  /\ RunnerUnchanged
  /\ UNCHANGED <<watchVars, fileVars, deadline, crashes>>

RunnerSweepKills ==
  /\ RunnerAt("sweepkill")
  /\ Kill(rScan)
  /\ rScan' = {}
  /\ rpc' = "probe"
  /\ UNCHANGED <<rExit, rTerm, rKill, found, detect, verdict>>
  /\ UNCHANGED <<watchVars, fileVars, deadline, crashes>>

\* A sweep that fails half-way is a warning in the result.
RunnerSweepFails ==
  /\ "runner" \in alive /\ rpc \in {"sweepterm", "sweepkill"}
  /\ rScan' = {}
  /\ rpc' = "probe"
  /\ UNCHANGED <<rExit, rTerm, rKill, found, detect, verdict>>
  /\ UNCHANGED <<procVars, watchVars, fileVars, deadline, crashes>>

\* The probe lists /proc, ...
RunnerLists ==
  /\ RunnerAt("probe")
  /\ rScan' = TaggedIn(alive) \ RunnerExclude
  /\ rpc' = "look"
  /\ UNCHANGED <<rExit, rTerm, rKill, found, detect, verdict>>
  /\ UNCHANGED <<procVars, watchVars, fileVars, deadline, crashes>>

\* ... and opens each entry at some time after: it finds those that are still
\* there, perhaps some that have exited since, and of those started since the
\* ones that the listing came upon.  It may fail, and answers nothing where
\* /proc is missing.
RunnerProbes ==
  /\ RunnerAt("look")
  /\ \/ \E seen \in SUBSET (rScan \cup (TaggedIn(alive) \ RunnerExclude)) :
          /\ rScan \cap alive \subseteq seen
          /\ found' = seen
          /\ detect' = CanDetect
     \/ /\ found' = {}
        /\ detect' = FALSE
  /\ rScan' = {}
  /\ rpc' = "judge"
  /\ UNCHANGED <<rExit, rTerm, rKill, verdict>>
  /\ UNCHANGED <<procVars, watchVars, fileVars, deadline, crashes>>

OutcomeBlamesRequester(exit, term, intent) ==
  IF exit = "signal" THEN "cancelled" ELSE IF exit = "zero" THEN "succeeded" ELSE "failed"

\* How the workload ended, from the wait status and the cancel intent.
Outcome(exit, term, intent) ==
  CASE exit = "none"                 -> "unknown"
    [] exit # "none" /\ term /\ intent -> "cancelled"
    [] exit = "signal" /\ ~(term /\ intent) ->
         IF intent THEN "cancelled" ELSE "failed"
    [] exit = "zero" /\ ~(term /\ intent)   -> "succeeded"
    [] exit = "nonzero" /\ ~(term /\ intent) -> "failed"

ClassifyIgnoresEscapees(workload, escaped, ok) ==
  IF workload = "succeeded" /\ ~ok THEN "unknown" ELSE workload

\* A clean result requires containment, not just an exit code.
Classify(workload, escaped, ok) ==
  IF workload # "succeeded" THEN workload
  ELSE IF ~ok THEN "unknown"
  ELSE IF escaped # {} THEN "failed"
  ELSE "succeeded"

\* cancel.json is read and the verdict decided; offload comes after it.
RunnerJudges ==
  /\ RunnerAt("judge")
  /\ verdict' = Classify(Outcome(rExit, rTerm, cancel # "none"), found, detect)
  /\ rpc' = "offload"
  /\ UNCHANGED <<rExit, rTerm, rKill, rScan, found, detect>>
  /\ UNCHANGED <<procVars, watchVars, fileVars, deadline, crashes>>

\* Uploading the artifacts takes time and cannot change the verdict.
RunnerOffloads ==
  /\ RunnerAt("offload")
  /\ rpc' = "write"
  /\ RunnerUnchanged
  /\ UNCHANGED <<procVars, watchVars, fileVars, deadline, crashes>>

RunnerWritesResult ==
  /\ "runner" \in alive /\ rpc \in {"write", "stagefail"}
  /\ result' = verdict
  /\ rpc' = IF rpc = "write" THEN "stopwatch" ELSE "put"
  /\ RunnerUnchanged
  /\ UNCHANGED <<procVars, watchVars, cancel, published, watchRec>>
  /\ UNCHANGED <<deadline, crashes>>

\* result.json cannot be written: the runner dies with its verdict.
RunnerWriteFails ==
  /\ "runner" \in alive /\ rpc \in {"write", "stagefail"}
  /\ Faults
  /\ alive' = alive \ {"runner"}
  /\ UNCHANGED runnerVars
  /\ UNCHANGED <<born, grouped, tagged, shimExit, stopped, unseen>>
  /\ UNCHANGED <<watchVars, fileVars, deadline, crashes>>

\* SIGTERM to the watchdog's own group.
RunnerStopsWatchdog ==
  /\ RunnerAt("stopwatch")
  /\ rpc' = "put"
  /\ alive' = alive \ {"watchdog"}
  /\ RunnerUnchanged
  /\ UNCHANGED <<born, grouped, tagged, shimExit, stopped, unseen>>
  /\ UNCHANGED <<watchVars, fileVars, deadline, crashes>>

\* The off-VM copy is best effort; the runner exits after it.
RunnerPuts ==
  /\ RunnerAt("put")
  /\ published' \in {result, published}
  /\ rpc' = "done"
  /\ alive' = alive \ {"runner"}
  /\ RunnerUnchanged
  /\ UNCHANGED <<born, grouped, tagged, shimExit, stopped, unseen>>
  /\ UNCHANGED <<watchVars, cancel, result, watchRec, deadline, crashes>>

-----------------------------------------------------------------------------
(***************************************************************************)
(* The watchdog's loop.                                                    *)
(***************************************************************************)

WatchAt(pc) == "watchdog" \in alive /\ wpc = pc

WatchUnchanged == UNCHANGED <<wTerm, wKill, wScan, wKnows>>

\* watchdog.json says whether the runner named in launch.json is alive. An
\* unreadable launch.json leaves that, and the deadline, unknown at this tick.
WatchRecords ==
  /\ WatchAt("record")
  /\ wKnows' \in IF Faults THEN BOOLEAN ELSE {TRUE}
  /\ \/ watchRec' = IF wKnows' /\ "runner" \notin alive THEN "dead" ELSE "none"
     \/ Faults /\ UNCHANGED watchRec
  /\ wpc' = "check"
  /\ UNCHANGED <<wTerm, wKill, wScan>>
  /\ UNCHANGED <<procVars, runnerVars, cancel, result, published>>
  /\ UNCHANGED <<deadline, crashes>>

WatchExits ==
  /\ WatchAt("check")
  /\ result # "none"
  /\ alive' = alive \ {"watchdog"}
  /\ UNCHANGED watchVars
  /\ UNCHANGED <<born, grouped, tagged, shimExit, stopped, unseen>>
  /\ UNCHANGED <<runnerVars, fileVars, deadline, crashes>>

WatchSeesCancel ==
  /\ WatchAt("check")
  /\ result = "none"
  /\ ~wTerm
  /\ cancel # "none"
  /\ wpc' = "term"
  /\ WatchUnchanged
  /\ UNCHANGED <<procVars, runnerVars, fileVars, deadline, crashes>>

WatchSeesDeadline ==
  /\ WatchAt("check")
  /\ result = "none"
  /\ ~wTerm
  /\ cancel = "none"
  /\ deadline /\ wKnows
  /\ wpc' = "recheck"
  /\ WatchUnchanged
  /\ UNCHANGED <<procVars, runnerVars, fileVars, deadline, crashes>>

WatchSkipsIntent ==
  /\ WatchAt("recheck")
  /\ wpc' = "term"
  /\ WatchUnchanged
  /\ UNCHANGED <<procVars, runnerVars, fileVars, deadline, crashes>>

\* The runner may have written the same intent meanwhile.
WatchRechecks ==
  /\ WatchAt("recheck")
  /\ wpc' = IF cancel = "none" THEN "intend" ELSE "term"
  /\ WatchUnchanged
  /\ UNCHANGED <<procVars, runnerVars, fileVars, deadline, crashes>>

WatchWritesCancel ==
  /\ WatchAt("intend")
  /\ cancel' = "wall_clock"
  /\ wpc' = "term"
  /\ WatchUnchanged
  /\ UNCHANGED <<procVars, runnerVars, result, published, watchRec>>
  /\ UNCHANGED <<deadline, crashes>>

\* Nothing catches a cancel.json that cannot be written.
WatchWriteFails ==
  /\ WatchAt("intend")
  /\ Faults
  /\ wpc' = "failed"
  /\ alive' = alive \ {"watchdog"}
  /\ WatchUnchanged
  /\ UNCHANGED <<born, grouped, tagged, shimExit, stopped, unseen>>
  /\ UNCHANGED <<runnerVars, fileVars, deadline, crashes>>

WatchTerms ==
  /\ WatchAt("term")
  /\ Term(Group)
  /\ wScan' \in Sweeps(WatchExclude)
  /\ wpc' = "termtagged"
  /\ UNCHANGED <<wTerm, wKill, wKnows>>
  /\ UNCHANGED <<runnerVars, fileVars, deadline, crashes>>

WatchSetsWrongFlag ==
  /\ WatchAt("termtagged")
  /\ Term(wScan)
  /\ wKill' = TRUE
  /\ wScan' = {}
  /\ wpc' = "record" /\ wKnows' = TRUE
  /\ UNCHANGED wTerm
  /\ UNCHANGED <<runnerVars, fileVars, deadline, crashes>>

WatchTermsTagged ==
  /\ WatchAt("termtagged")
  /\ Term(wScan)
  /\ wTerm' = TRUE
  /\ wScan' = {}
  /\ wpc' = "record" /\ wKnows' = TRUE
  /\ UNCHANGED wKill
  /\ UNCHANGED <<runnerVars, fileVars, deadline, crashes>>

WatchKills ==
  /\ WatchAt("check")
  /\ result = "none"
  /\ wTerm /\ ~wKill
  /\ Kill(Group)
  /\ wScan' \in Sweeps(WatchExclude)
  /\ wpc' = "killtagged"
  /\ UNCHANGED <<wTerm, wKill, wKnows>>
  /\ UNCHANGED <<runnerVars, fileVars, deadline, crashes>>

WatchKillsTagged ==
  /\ WatchAt("killtagged")
  /\ Kill(wScan)
  /\ wKill' = TRUE
  /\ wScan' = {}
  /\ wpc' = "record" /\ wKnows' = TRUE
  /\ UNCHANGED wTerm
  /\ UNCHANGED <<runnerVars, fileVars, deadline, crashes>>

\* Nothing to do at this tick; or the grace period is not over yet.
WatchSleeps ==
  /\ WatchAt("check")
  /\ result = "none"
  /\ wTerm \/ (cancel = "none" /\ ~(deadline /\ wKnows))
  /\ wpc' = "record" /\ wKnows' = TRUE
  /\ UNCHANGED <<wTerm, wKill, wScan>>
  /\ UNCHANGED <<procVars, runnerVars, fileVars, deadline, crashes>>

-----------------------------------------------------------------------------
(***************************************************************************)
(* The consumer, the supervisor at the other end, and failures.            *)
(***************************************************************************)

\* The entry script returns, fails, or dies of a signal of its own.
ShimExits ==
  /\ "shim" \in alive
  /\ alive' = alive \ {"shim"}
  /\ shimExit' \in {"zero", "nonzero", "signal"}
  /\ UNCHANGED <<born, grouped, tagged, stopped, unseen>>
  /\ UNCHANGED <<runnerVars, watchVars, fileVars, deadline, crashes>>

KidExits(k) ==
  /\ k \in alive
  /\ alive' = alive \ {k}
  /\ UNCHANGED <<born, grouped, tagged, shimExit, stopped, unseen>>
  /\ UNCHANGED <<runnerVars, watchVars, fileVars, deadline, crashes>>

\* A process of the workload starts another: it may leave the group
\* (setsid) or be executed with a fresh environment, never the reverse.
Forks(p, k) ==
  /\ p \in alive \ Supervisors
  /\ k \in Kids \ born
  /\ born' = born \cup {k}
  /\ alive' = alive \cup {k}
  /\ grouped' \in {grouped} \cup
       (IF p = "shim" \/ p \in grouped THEN {grouped \cup {k}} ELSE {})
  /\ tagged' \in {tagged} \cup
       (IF p = "shim" \/ p \in tagged THEN {tagged \cup {k}} ELSE {})
  /\ unseen' = IF k \in tagged' /\ (rpc = "look" \/ p \in unseen)
               THEN unseen \cup {k} ELSE unseen
  /\ UNCHANGED <<shimExit, stopped>>
  /\ UNCHANGED <<runnerVars, watchVars, fileVars, deadline, crashes>>

DeadlinePasses ==
  /\ ~deadline
  /\ rpc # "launch"
  /\ deadline' = TRUE
  /\ UNCHANGED <<procVars, runnerVars, watchVars, fileVars, crashes>>

\* job destroy, job apply --timeout: cancel.json through the Contents API.
RequestCancel ==
  /\ cancel # "user"
  /\ cancel' = "user"
  /\ UNCHANGED <<procVars, runnerVars, watchVars, result, published, watchRec>>
  /\ UNCHANGED <<deadline, crashes>>

\* The kernel's OOM killer, or the operator, kills a supervisor.
Crash(s) ==
  /\ crashes < MaxCrashes
  /\ s \in alive \cap Supervisors
  /\ crashes' = crashes + 1
  /\ alive' = alive \ {s}
  /\ UNCHANGED <<born, grouped, tagged, shimExit, stopped, unseen>>
  /\ UNCHANGED <<runnerVars, watchVars, fileVars, deadline>>

-----------------------------------------------------------------------------

RunnerStops ==
  \/ RunnerSeesCancel \/ RunnerSeesDeadline \/ RunnerWritesCancel
  \/ RunnerTerms \/ RunnerTermsTagged \/ RunnerKills \/ RunnerKillsTagged

RunnerEnds ==
  \/ RunnerScans \/ RunnerSweepTerms \/ RunnerSweepKills \/ RunnerSweepFails
  \/ RunnerLists \/ RunnerProbes \/ RunnerJudges \/ RunnerOffloads \/ RunnerWritesResult
  \/ RunnerStopsWatchdog \/ RunnerPuts

Runner ==
  \/ RunnerLaunch \/ RunnerStage \/ RunnerStageFails \/ RunnerStartsWatchdog
  \/ RunnerReaps \/ RunnerLoopError \/ RunnerStops
  \/ RunnerEnds \/ RunnerWriteFails

Watchdog ==
  \/ WatchRecords \/ WatchExits \/ WatchSeesCancel \/ WatchSeesDeadline
  \/ WatchRechecks \/ WatchWritesCancel \/ WatchWriteFails
  \/ WatchTerms \/ WatchTermsTagged \/ WatchKills \/ WatchKillsTagged
  \/ WatchSleeps

Environment ==
  \/ ShimExits
  \/ \E k \in Kids : KidExits(k)
  \/ \E k \in Kids, p \in {"shim"} \cup Kids : Forks(p, k)
  \/ DeadlinePasses \/ RequestCancel
  \/ \E s \in Supervisors : Crash(s)

Next == Runner \/ Watchdog \/ Environment

Spec == Init /\ [][Next]_vars

(***************************************************************************)
(* A live process is scheduled, the wall clock advances, and a watchdog    *)
(* that keeps waking up eventually wakes up after the grace period, and at *)
(* a tick at which launch.json can be read.                                *)
(* Nothing is assumed of the consumer, of requesters or of crashes.        *)
(***************************************************************************)
Fairness ==
  /\ WF_vars(Runner)
  /\ WF_vars(Watchdog)
  /\ SF_vars(WatchRecords /\ wKnows')
  /\ SF_vars(WatchKills)
  /\ WF_vars(DeadlinePasses)

FairSpec == Spec /\ Fairness
-----------------------------------------------------------------------------
(***************************************************************************)
(* Properties.                                                             *)
(***************************************************************************)

Exits == {"none", "zero", "nonzero", "signal"}

\* Every variable keeps its type, and the two process tables agree: nothing
\* is alive that was never started (runner.py and watchdog.py, main).
TypeOK ==
  /\ alive \subseteq Supervisors \cup {"shim"} \cup born
  /\ born \subseteq Kids /\ grouped \subseteq born /\ tagged \subseteq born
  /\ shimExit \in Exits /\ rExit \in Exits
  /\ deadline \in BOOLEAN
  /\ cancel \in {"none", "wall_clock", "user"}
  /\ result \in Verdicts \cup {"none"}
  /\ published \in Verdicts \cup {"none"}
  /\ watchRec \in {"none", "dead"}
  /\ rpc \in {"launch", "stage", "stagefail", "watch", "wait", "intend",
              "term", "termtagged", "killtagged", "sweep", "sweepterm",
              "sweepkill", "probe", "look", "judge", "offload", "write",
              "stopwatch", "put", "done"}
  /\ wpc \in {"off", "record", "check", "recheck", "intend", "term",
              "termtagged", "killtagged", "failed"}
  /\ rTerm \in BOOLEAN /\ rKill \in BOOLEAN /\ detect \in BOOLEAN
  /\ wTerm \in BOOLEAN /\ wKill \in BOOLEAN /\ wKnows \in BOOLEAN
  /\ rScan \subseteq Procs /\ wScan \subseteq Procs /\ found \subseteq Procs
  /\ verdict \in Verdicts \cup {"none"}
  /\ crashes \in 0..MaxCrashes
  /\ stopped \in BOOLEAN /\ unseen \subseteq tagged

\* docs/job/design.md:129 "`succeeded` requires Linux /proc escapee detection
\* and an empty tagged set after that reap": once result.json says succeeded,
\* no tagged process of the workload is alive and none appears later, whatever
\* failed on the way.  Only what was started while that last set was being
\* collected (ident.py:169-180 lists /proc first), and its offspring, escapes.
SucceededIsContained == result = "succeeded" => Escapees \subseteq unseen

\* A workload that a supervisor's signal killed is never reported as having
\* failed, or succeeded, on its own: whichever of the runner and the watchdog
\* signalled it, the durable intent came first.
StopIsExplained == stopped => result \notin {"succeeded", "failed"}

\* watchdog.py:50 "never this watchdog or the runner", and the runner's own
\* exclusion: a supervisor leaves because it was killed from outside, failed
\* at a write, or finished, never by a sweep of the other one -- unless
\* launch.json is unreadable, when the watchdog does not know the runner and
\* does signal it (watchdog.py:57-59).
SupervisorsSpared ==
  [][/\ "runner" \in alive \ alive' =>
          \/ crashes' # crashes
          \/ rpc' = "done"
          \/ Faults /\ rpc \in {"write", "stagefail"} /\ wpc' = wpc
          \/ ~wKnows /\ wpc \in {"termtagged", "killtagged"}
     /\ "watchdog" \in alive \ alive' =>
          crashes' # crashes \/ wpc' = "failed" \/ result # "none"]_vars

\* A watchdog.json that reports a dead runner means that result.json no longer
\* changes, so the local supervisor that reads it once more and finds none may
\* give the verdict up (orchestrator.py, poll).
DeadRecordIsFinal == [][watchRec = "dead" => UNCHANGED result]_vars

\* The job promises the local supervisor no more than RemoteJob says: one
\* verdict, by a live runner, cancelled only when somebody asked.
Remote == INSTANCE RemoteJob WITH
  job <- IF rpc = "launch" THEN "unlaunched"
         ELSE IF "runner" \in alive THEN "running" ELSE "lost",
  verdict <- result,
  intent <- cancel # "none",
  obituary <- watchRec = "dead"

ImplementsRemoteJob == Remote!Spec

\* Neither supervisor is left to enforce the budget.
Unsupervised ==
  /\ "watchdog" \notin alive
  /\ "runner" \notin alive \/ rpc \in {"put", "done"}

\* docs/job/design.md:108: whatever the consumer does with SIGTERM, its group
\* does not outlive the wall clock while one of the supervisors is there.
BudgetIsEnforced ==
  (deadline /\ "shim" \in alive) ~> ("shim" \notin alive \/ Unsupervised)

\* runner.py:1060 "nothing below may prevent result.json from being written":
\* a shim that has started leads to a verdict, through failing scans, probes,
\* kills and uploads, unless the runner is killed or result.json itself cannot
\* be written.
VerdictLands == "shim" \in alive ~> (result # "none" \/ "runner" \notin alive)
=============================================================================
