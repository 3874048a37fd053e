# mighty-colab in TLA+

`mighty-colab` runs code on Google Colab VMs from the command line. Its core is `job`: a declarative,
unattended run that provisions a VM, installs a payload, launches a detached runner, observes it through
files, and must not leave a billing VM behind. Around it are named sessions, execution in a Jupyter kernel in
the foreground and in the background, the sync of a directory tree, and an MCP server that lets a client watch
jobs. These modules specify what of this runs concurrently, fails in part or is repeated.

Paths below are relative to `src/colab_cli/` of the repository; `design.md`, `usage.md`, `mcp.md` and
`store-and-cleanup.md` are under `docs/job/`, `SKILL.md` is `skills/colab-operator/SKILL.md`.

## The system

| Component | State it keeps | Operations | Interacts through |
|---|---|---|---|
| Remote runner, watchdog, shim (`job/runtime_payload/`) | `launch.json`, `cancel.json`, `result.json`, `watchdog.json`, the process table | launch, stage inputs, wait, cancel, escalate, sweep, judge, sync, offload, publish | files in the job directory, signals, the `MIGHTY_JOB_ID` tag, HTTP PUT to the user's store |
| Job supervisor: `job apply`, `status`, `destroy` (`commands/job.py`, `job/orchestrator.py`) | the envelope in memory and in `envelope.json` | provision, install, verify, stage, launch, poll, cancel, clean up; observe, scrub, release | the job store, the session store, the transport, the control plane |
| Planner, spec and payload bundle (`job/planner.py`, `payload_bundle.py`) | `plan.json`: the lock of the source files, and its hash | plan, verify, stage | the user's files, the job store |
| Job store and apply claim (`job/store.py`) | `envelope.json`, `supervisor.json`, `apply.lock`, `apply.log`, plan files | claim, release, read, write, delete | files, flock |
| Job prune and list (`commands/job.py`) | none | list, prune | job store |
| Job transport (`job/transport.py`) | a proxy token, when it was last refreshed | read, write, upload, remove; refresh, re-resolve | Contents API, assignment listing, session store |
| Verdict rules (`job/verdict.py`, `models.py`) | none | outcome, retry class, absorption | called by runner and supervisor |
| Sessions and keep-alive (`commands/session.py`, `adopt.py`, `run.py`, `common.py`) | session records, a daemon per session | new, run, adopt, stop, use, prune, keep_alive | session store, control plane |
| Session store (`state.py`) | `sessions.json` | add, get, remove, list | flock per operation |
| Background execution (`commands/execution.py`, `utility.py`) | a worker, its log, its sidecar, `exec_pid` in the session record | exec-async, log -f, log --tail, stop | the session store, files, pids |
| Kernel runtime and vendored client (`runtime.py`, `_vendor/`) | a websocket, queues of messages, a kernel id in the record | connect, execute, answer the hook | exec, run, sync, the orchestrator |
| Sync (`commands/sync.py`) | an archive and a staging directory on the VM | upload, script, exchange, clean up | Contents API, the session's kernel |
| MCP server (`mcp_server.py`) | subscriptions, watch tasks, the known jobs | subscribe, unsubscribe, poll, notify, call a tool | the job store, one asyncio loop, child processes |
| Colab client and authentication (`client.py`, `auth.py`) | credentials | assign, unassign, list, keep-alive | HTTP |
| The rest (console, ssh, files, automation, utilities, dependency install, network policy) | none shared | | |

What makes it hard:

- two supervisors on the VM and several commands on the local machine act on the same files with no lock between
  them; every command reads a record, works for minutes and writes it back whole;
- any process may be killed at any moment, and a signal arrives in any phase;
- a read over the transport finds a file, finds none, is lost or fails, and a missing file is sometimes a verdict;
- the user's files, the plan and the artifacts of a workload change while they are read;
- messages of a kernel call that was given up arrive during the next one, and a script goes on when its caller has left;
- whatever happens, somebody has to release the VM.

What makes each component correct is the list under "The runs". `PROJECT.json` has every hazard with its
line, the properties that cover it, and what they exempt.

## The modules

| Module | Models | Composed with |
|---|---|---|
| `RemoteJob` | what a launched job promises the local side: one verdict, by a live runner, cancelled only when asked for | abstract |
| `JobRunner` | one attempt: `runner.py` and `watchdog.py` `main`, the searches and signals of `ident.py`, the shim, the consumer's processes | implements `RemoteJob` |
| `DuplicateLaunch` | the `launch.json` protocol of `runner.py` `main`, one action per system call, for several invocations | refines the first step of `JobRunner` |
| `Verdict` | outcome, retry class, absorption of a result: operators | used by `Transfers` |
| `Transfers` | staging of inputs, periodic sync, offload, `result.json` and its copy behind `control.result`, the supervisor that absorbs it | extends `DuplicateLaunch` and `Verdict` |
| `JobSupervisor` | `apply`, `status`, `destroy` with every phase of the orchestrator | the VM's side is an instance of `RemoteJob` |
| `SourceLock` | the source files from `job plan` to the upload: actions for the processes that take them | used by `ApplyClaim` |
| `ApplyClaim` | one job ID: plan, several applies, `apply.lock`, `supervisor.json`, `jobs prune` | extends `SourceLock` |
| `Transport` | `JobTransport`: read, write, upload, makedirs, remove, refresh, classify | its answers are the reads of `JobSupervisor` |
| `Sessions` | `new`, `run`, `adopt`, `stop`, use, prune, keep-alive daemon, `sessions.json` | |
| `ExecAsync` | `exec-async`, its worker, `log -f`, `log --tail --json`, `stop`, the daemon's write-back | the store as in `Sessions` |
| `Kernel` | `execute_interactive` over one connection, the socket thread, the kernel, other clients | |
| `Sync` | `sync` and the script it runs in the kernel | the kernel's queue of requests |
| `McpServer` | the event loop, subscriptions, the job-list watch, tool calls, a client that follows `mcp.md` | |
| `MCJobRunner`, `MCTransfers`, `MCApplyClaim`, `MCSessions`, `MCExecAsync`, `MCSync` | symmetry sets and state constraints for TLC | |
| `RunnerAndWatchProofs` (of `JobRunner` and `McpServer`), `TransfersProofs` (also of `DuplicateLaunch`), `KernelAndTransportProofs`, `ApplyClaimProofs`, `SyncProofs`, `SessionsProofs`, `ExecAsyncProofs`, `JobSupervisorProofs` | theorems | |

`JobRunner` implements `RemoteJob`, and `JobSupervisor` uses `RemoteJob` for the VM: what is checked of
the local side holds with the runner in its place. `Transfers` runs what `DuplicateLaunch` lets through, so a second
invocation's staging and result meet those of the first.

### JobRunner

`rpc` and `wpc` are the places of the runner and the watchdog between two effects another process can see: a
check of a file, a signal, a write. A loop iteration is several actions where the code checks first and acts
later: `RunnerSeesDeadline` is the `os.path.exists` of `runner.py:1075`, `RunnerWritesCancel` the write of 1079, so
a request written between them is overwritten, as in the code. The search for tagged processes (`rScan`,
`wScan`) and their signalling are separate for the same reason. The search itself lists `/proc` and then opens each
entry (`ident.py:169-180`). A sweep that misses what is started meanwhile might as well have come before it, so `Sweeps` is what is
tagged at one moment, or nothing when the search fails; but the last probe decides the verdict by what it does not find, and is two steps, `RunnerLists` and
`RunnerProbes`. What is started between them may be found or missed: it is in `unseen`, and so is the offspring of what is in it. SIGTERM kills any subset of its targets (a
consumer may handle it) but always a supervisor, SIGKILL kills all. Kids may leave the process group (`setsid`)
or lose the tag. `wKnows` says whether the watchdog could read `launch.json` at this tick: when it could not, its sweep may signal
the runner (`WatchExclude`, `watchdog.py:57-59`). Time is the single event `DeadlinePasses`; a grace period is over when the
escalation is taken. A sweep may fail half-way and goes on to the verdict (`RunnerSweepFails`), a failed probe leaves no detection; with `Faults`, a write or a step
of the wait loop raises. `stopped` and `unseen` are history variables.

### DuplicateLaunch, Verdict and Transfers

In `DuplicateLaunch` the file has an owner (who created it) and is readable when the owner is in `filled`; a
rename moves it away while its creator still holds the descriptor; `overlapped` is a history variable.

`Transfers` gives every invocation past its launch record a record `run[r]`. An input is absent, planned, or
something else (`other`), and is renamed into place in one step after its check. An artifact's content is the number of times the
consumer has written it; `uploaded` is the sync's memory of what it has sent (the signature), and `store` what is behind the
URL, which an upload may have reached although its reply was lost. The look at a file (`SyncLooks`), the look a
second later (`SyncLooksAgain`) and the upload (`SyncPuts`) are separate steps. `consumers` are the workloads that are there: one outlives its
runner when that is killed, and one may outlive the verdict, when the sweep missed it, could not run or found processes it could not
kill (`RunEnds`, with `survived` as a history variable), and writes on. The wait after the deadline's cancel absorbs a result too, and then overrides the
advice that a success or a cancel would carry (`Overdue`, `orchestrator.py:1182-1192`). `result` and `control` hold the whole record the supervisor will read, or
nothing; `local` is where the supervisor is. `Verdict` says what a record means, one operator per rule of
`verdict.py`; a failed transfer is of a kind (`transient`, `auth`, ...), as far as the rules tell them apart.

### JobSupervisor

`a` is the phase of `apply`; `env` its envelope in memory, `disk` the one in `envelope.json`. The envelope keeps the
fields that decide control flow: which of endpoint and session are recorded, whether the launch is recorded,
`workload`, `supervisor` and `cleanup`. `released` stands for `already_absent` too. Each of the other commands
has a place `q[c]` and its own copy `mem[c]`, read once and written back at its end, which is what makes stale
writes possible. A `status` reads the envelope in one step and the identity in the next. The detached poll that `apply`
starts is the process `"detached"`, which starts `off` and runs once; the other
commands repeat, and are never required to run. A grant whose reply, or whose call, is lost leaves a VM that nothing names: `stray`. A `status` that finds the keep-alive daemon dead starts it again and
may add a session record that was dropped meanwhile (`EnsuresKeepAlive`).

A signal (`Interrupted`) is possible in every place of the `try` body; in the `finally` block it ends `apply`
(`Aborted`), except in the release call, whose own `finally` still drops the session and writes the envelope. The same
SIGTERM is delivered once: the handler ignores it afterwards. SIGHUP takes the path of SIGTERM and is not
distinguished. `secret` says whether the credential file is on the VM; `sure` whether apply has proof that
it is not; with `"expiry"` among the faults its removal may be confirmed by the 404 of an expired token while the file stays (`Removal`,
`transport.py:344`), and `misled` says that apply believed such an answer; `unread` says that apply's second read of the verdict failed, or that
an error of its own ended it; `posted` whether the runner's result is behind `control.result`; `overdue` is `wall_clock` + 600 s after the launch. `PollWatches` uses the 120 s and
90 s windows of `poll` as given; `status` has no such window.

### SourceLock and ApplyClaim

`tree` is the user's files, `lock` what `plan.json` says of each and `bound` what its hash was taken of; a hash
stands for a content. `job plan` hashes one file at a time (`PlanHashes`) and writes the plan last. An apply reads
the plan (`AcceptsPlan`), lists and compares the files before the claim (`VerifiesFile`), and much later lists
them again and uploads each from a private snapshot whose hash it has checked (`Snapshots`,
`UploadsSnapshot`); a snapshot taken during a write is `Mixed`. `EditsSource` and `EditsPlan` happen at any time.

In `ApplyClaim` lock files are numbered in the order of creation, `name` is the one `apply.lock` leads to,
`owner` is who holds the flock of each; a file without a name can still be locked. `PruneReads` looks at a
record, `PruneProbes` takes the flock for a moment, `PruneLetsGo` drops it and `PruneDeletes` is the `rmtree`.
`seen` and `overtaken` are history variables that say which applies prune could not know of; `raced` says that a lock
file was made while an apply had another one open, which an unlink after an unlock makes possible (`store.py:269-282`).

### Transport

Each HTTP request is a step, with what may come back for it (`HttpReplies`): the right answer while the VM is up and the token
`fresh`; 401 or 404 otherwise, as the proxy does; a 5xx or another error always, and a request that fails this
way may still have been carried out. `tried` is `refresh_attempted`, `retries` is `transient_retries`, `seen` is
`_last_endpoint_present`, `recent` says that `_last_404_refresh_at` is less than a minute old. `renewed` and
`landed` are history variables. Backoff and timeouts have no duration. A token that
this call has renewed does not expire during it.

### Sessions and ExecAsync

A store operation is one action, since it holds the lock; what a command or daemon read before is in its `rec`, and is
written back later. A kill in the middle of a write truncates the store, and a truncated store reads as empty
(`state.py:82`). In `Sessions` a VM is free, up or gone; the backend may reclaim it at any time. `astray` are the VMs that were
assigned and have no record and no command: one whose command died before the first store, whose assign or release failed, or whose preflight got no connection
(`PreflightBreaks`; only an HTTP answer is caught). `lost` are those whose record a step took away.

In `ExecAsync` a run is a number; a worker's verdict is the number of its run. A worker opens its log (truncating
it), writes, and leaves a sidecar: after its last store of the record, or, when the run fails (`WorkerFails`), before the one of its `finally` block
(`WorkerStoresLast`). The readers look at the content, the sidecar and the pid in the order of
`utility.py`. `untracked` says that somebody stored a copy which does not name the live worker, and is the
hypothesis under which the documents' promises hold. Between its store of a new log's path and of the new pid,
`exec-async` leaves a record that names the previous worker with the next run's log, where an older verdict may lie: a poll then
reports that one. `PollIsTrue` therefore speaks of a finished verdict only when the record's log is its worker's.

### Kernel and Sync

`Kernel` has the caller's loop (`pc`), the socket thread (`hand`: it puts a message and sets the event in two steps),
a wire and a queue for each channel, and the kernel with its requests in order. `late` is the deadline. The kernel may die, be
restarted by another command, ask for input or for an authorisation, and send the output of other
clients' requests or restart it (`foreign`). A call that ended early leaves its messages for the next. Making the connection (the recorded kernel
that is found or not, three attempts, the websocket's thread) comes first.

`Sync` has one action per step of the command and of the script, which the kernel runs in the order of its requests; a cleanup step
may fail, a script may be interrupted or killed with its kernel, and a command may give up while its script waits. `hit` records the faults that hit each sync.
A command connects to the kernel of its copy of the session record; when there is none it starts one and records it, when the server has it no more (`KernelGoes`) it
starts one that the record never gets (`StartsKernel`, `Connects`; `runtime.py:128-132`). Somebody else, the keep-alive daemon or another command, may read the record and
store it later (`OtherReads`, `OtherStores`). `stray` are the syncs whose kernel the record never got, or lost this way.

### McpServer

A step is what runs between two awaits. Requests wait in `inbox`; a handler that awaits the end of a cancelled task is
in `waiting`; `task` are the watch tasks with a `cancelled` flag, and `table` is `_tasks`, from which a task
removes itself by URI at its end. A tool call stops everything else (`busy`). The client
lists, subscribes, and reads on confirmation and on each notification. Other processes create, finish and prune jobs, and apply
a job again that has no endpoint (`Reapplies`, `commands/job.py:741-750`), which takes a done job back to pending. `unwatched` are jobs
this happened to when no watch was there to see it.

## The runs

`CHECK_DEADLOCK` is off throughout: every one of these programs ends.

| Run | Instance | Shows |
|---|---|---|
| `JobRunnerSafety` | two kids, or one kid and one supervisor killed, all faults (6.7 M states) | `SucceededIsContained`, `StopIsExplained`, `SupervisorsSpared`; `JobRunner` implements `RemoteJob` |
| `JobRunnerLiveness` | the shim alone, both supervisors killed, all faults | `BudgetIsEnforced`, `VerdictLands` |
| `TransfersRetried` | two invocations, one may be killed, one input, two artifacts of which one is required, transfers that fail for now, for an expired URL or for a missing object (1.4 M) | `SerialRetryIsSafe`, `LaunchIsNotLost`, `ConsumerSeesPlan`, `StoreIsTrue`, `OutcomeIsUsable` |
| `JobSupervisorHandoff` | apply, detached poll, second apply, two candidates, two signals, one kill, every fault (0.1 M) | `ExitIsResponsible`, and under fairness `ApplyEnds`, `HandedOffIsReleased` |
| `JobSupervisorCommands` | apply and its poll with `status` and `destroy`, repeated, one candidate, one signal, one kill, no VM kept, every fault but a failed launch (5.1 M) | `RecordIsTrue`, `OnlyOrphansReleased`, `ApplyKeepsVerdict`, `LiveRunnerSpared` |
| `ApplyClaimThree` | a plan, three applies that may die anywhere, a prune, two source files, one edit while at most two applies have started (2.5 M) | `IdentityNamesWorker`, `OneKnownVm`, `RunsWhatWasPlanned` |
| `TransportAnswers` | every call in any order, two retries | `AnswerIsTrue`, `NotFoundIsTrue`, and under fairness `GoneIsReported` |
| `SessionsTwo` | two terminals, one daemon, one name, two VMs (1.6 M) | `NoVmForgotten`, `DaemonFindsRecord`, `RecordOutlivesVm` |
| `ExecAsyncTwo` | two terminals, two runs, one log, a reader, kills (0.9 M) | `SecondNeedsLostPid`, `PollIsTrue`, `FollowIsComplete` |
| `KernelCalls` | two calls, one piece of output each, one act of others (0.6 M) | `ShowsOwnOutput`, `AnswerIsWhole`, and under fairness `AnsweredCallEnds` |
| `SyncTwo` | two syncs, three kernels, all faults, one kernel that goes or one older record stored (3.4 M) | `DestinationIsWhole`, `AnswerIsTrue`, `NothingIsLeft`, `RerunWins` |
| `McpServerWatch` | one job that is applied twice, three requests, three tasks (1.1 M) | `OneWatch`, and under fairness `EndIsLearnt`, `NewJobIsAnnounced` |

Why the bounds are enough. Two kids let one process leave the group and fork another while it is being swept; a
second crash of a supervisor would leave nobody to observe; the liveness run has it, since without supervisors nothing is promised, and no kids,
whose life nothing in it depends on. The safety run has a constraint (`Explored`): it does not follow a killed supervisor beside a second kid. Two invocations are the first runner and its retry, or two that
overlap; a third adds another retry, which the proofs cover. Two writes of an artifact are the one that is seen and the one that
comes after. Two candidates let a failed release of the first meet the second; two signals are a signal and one
during the cleanup it started. One `status` or `destroy`, repeated without limit, gives every stale copy a
writer. Three applies are the smallest number for which the lock fails (below); `IdentityNamesWorker` and `OneKnownVm` say up to which
step it holds. Two files and one edit change a file, or the plan, before or after it is read; the theorem
covers any number. Two retries of the transport are one that is not the last and one that is. Two terminals and one daemon are the three
writers of a session record: one that reads, one that changes it meanwhile, one that writes back later. Two runs of the background worker are a
run and the one whose leftovers it could be mistaken for. Two calls over a kernel are one that is given up and the one that
meets its messages. Three kernels are the one recorded and one each for two syncs that find it gone. Two applies of a job are the one that a client watches and the one it may miss.

`JobSupervisorCommands` leaves out a failing launch and a spec that keeps VMs, which `JobSupervisorHandoff` has. `ExecAsyncTwo` has a state constraint (`Tracked`) that cuts
off what follows the loss of a pid; the invariants only speak of states before it. `TransfersRetried` has one (`Explored`): how every
run ends is checked, but what the VM does after its supervisor stopped polling is explored for a single invocation that nobody killed only, and beside a second
invocation the consumers write once. `ApplyClaimThree` has one (`Explored`): files change, and differ in content, while
at most two applies have started. `SyncTwo` has one (`Explored`): of a kernel that goes and an older record that is stored there is one, once, and beside it a sync is hit
by at most two faults of its own. `SessionsTwo`
has one (`NoneLost`) that cuts off what follows the loss of a record. The theorems about these modules have no such limits.

A `TypeOK` is proved for `JobRunner`, `DuplicateLaunch`, `Sessions` and `JobSupervisor`; in the other modules it documents the
variables and was checked during development, and no run repeats it.

### Fairness

`JobRunner`: the runner and the watchdog, while alive, are scheduled; the wall clock advances; the
watchdog, which wakes again and again, at some point wakes after the grace period (strong fairness of
`WatchKills`, which between two wake-ups is disabled), and at some tick can read `launch.json` (of `WatchRecords`). Nothing is assumed of the consumer, of requesters or of
crashes. `JobSupervisor`: Python runs `apply` and the detached poll until they end, a spawned runner writes `launch.json`
or dies, and time passes; every request has a timeout, but a single one may be retried for as
long as the transport decides, so this is fairness of the process and not of the network. No user has to run a
command, the workload need not end, and the runner need not answer a cancel. `Transport`: a call goes on until it returns, a
supervisor reads again and again (the loop of `poll`), a minute passes, and neither the proxy nor the listing fails
for ever (strong fairness, as between two tries they are disabled). `Kernel`: the caller's thread and the socket's run,
and the deadline passes; the kernel owes nothing. `McpServer`: the loop runs what is ready, tool calls return, a
client reads what it was told of, and a record is unreadable finitely often.

## Where documentation and code differ

The properties state what holds; where a statement of a document does not hold as it stands, the property has an exemption for
exactly that case. These are the cases, found with the models:

Jobs, on the local side
- design.md:248 gives an interrupted `apply` a release or a poll. SIGTERM and then Ctrl-C get neither: the second signal
  ends the cleanup (`commands/job.py:119`). `ExitIsResponsible` speaks of an `apply` that returns.
- design.md:248: a signal inside `assign` (`orchestrator.py:394`), or a lost reply of it, leaves a VM that is up and in no record. `ExitIsResponsible`
  names and exempts it (`stray`).
- design.md:98 and 252: apply confirms that the credential file is deleted or releases the VM, and `orchestrator.py:920` wants to "prove it is absent"; `remove` answers ok on the 404 of an expired token
  with the file still there (`transport.py:344`, 371), and `apply` and `status` believe it. `ExitIsResponsible` exempts a VM whose removal was confirmed this way (`misled`).
- store-and-cleanup.md:33 lets a second `apply` fail fast. `ApplyClaim.release` unlocks before it unlinks (`store.py:269-282`): with
  three applies, one locks the old file, another creates a new one, and both work. `IdentityNamesWorker` and `OneKnownVm` exempt what follows the step that
  makes a lock file while another process has one open (`raced`).
- design.md:145 wants a second read that finds no `result.json`; `_absorb_late_result` (`orchestrator.py:1095`, 1164) takes a read that fails
  for one that finds none. `ApplyKeepsVerdict` exempts a read that fails and an error of apply's own (`unread`).
- design.md:243 preserves terminal verdicts; a `status` that read the envelope before the verdict, and finds the VM gone
  after `apply` has released it, writes `unknown` over it. It never writes a verdict nobody gave (`RecordIsTrue`).
- design.md:248 lets the detached poll release the VM; a refused second `apply` leaves its identity in
  `supervisor.json`, and while it lives the poll takes the job for a supervised one and ends without
  releasing. `HandedOffIsReleased` exempts it (`second`).
- usage.md:329 and design.md:297 leave "a live runner" running; `observe_remote` (`orchestrator.py:1615`) calls a job without `launch.json`
  `never_started` at once, and a runner about to write it loses its VM to a poll started by an early SIGTERM. `LiveRunnerSpared` counts a runner that is
  starting as live, and exempts this one decision (`FindsNoLaunch`).
- `commands/job.py:1649` calls `destroy` unconditional; one that reads the envelope before it names an endpoint releases nothing,
  reports success, and `apply` goes on.
- design.md:273 makes consumers poll `done`; an `apply` interrupted after the launch whose scrub is not
  confirmed releases the VM and leaves the workload `running`, so `done` never comes.
- `status --poll` at the deadline of an orphan does not try `control.result`, which `apply` does. The releases inside `provision` copy no
  records off the VM, though `copy_vm_records` says "before every release".
- A result behind `control.result` that is terminal and that this version cannot parse sends `_absorb_or_keep`, `_finish_without_result` and
  `_recover_control_result` (`orchestrator.py:1199-1240`) into recursion without an end. The result is not tied to the job or attempt.
- store-and-cleanup.md:98 names the gap of a synchronous `apply` before its claim. Beyond it, an `apply` that claims between prune's
  look and its `rmtree` loses its lock, identity and records, an endpoint included; prune's own flock makes
  an `apply` that starts in that moment fail; and a finished job that is being applied again is deleted without a probe.
- A source file added after the listing is not uploaded; the check before the claim only saves a VM, since staging
  checks each snapshot again.

Jobs, on the VM
- design.md:129 wants an "empty tagged set" for `succeeded`; `tagged_processes` lists `/proc` and then opens each entry (`ident.py:169-180`), and misses
  a process that was started in between by one that has exited since. `SucceededIsContained` exempts it, and its offspring (`unseen`).
- `watchdog.py:50` says "never this watchdog or the runner"; with an unreadable `launch.json` the runner's pid is -1, it is not
  excluded (57-59), and the sweep signals it. `SupervisorsSpared` exempts this tick.
- design.md:127 wants a duplicate runner to exit "without starting a second consumer", but `launch.json` is created empty and
  filled later: two invocations that overlap start two. One that arrives when the first runner is gone starts one too, and the consumer of a killed
  runner, which has its own session, lives on beside it until the watchdog or itself ends it. `SerialRetryIsSafe` says two only run side by side when the runner of one is gone.
- `runner.py:1165` calls an accepted cancel the authoritative verdict of a consumer that exits zero, but the runner looks at
  its own `term_sent`: when the watchdog's SIGTERM made the consumer exit, the verdict is `succeeded`.
- `watchdog.py:208` keeps "one durable record" of a request, but both supervisors check `cancel.json` and then replace it: a user's
  request written in between becomes `wall_clock`.
- `watchdog.py:289` wants the kill to run on a full disk, but a failing write of `cancel.json` (212) ends the watchdog before
  it signals.
- A cancel during staging is only seen once the consumer runs. Inputs without size and checksum may be truncated
  unnoticed. An artifact whose URL could not be resolved counts as failed, so `on_offload_fail: leave_up` keeps a VM with
  nothing to rescue.

Transport
- `transport.py:336` and design.md:157: with an expired token `remove` takes a 404 for the removal (344, 371).
  `AnswerIsTrue` holds it to its word while the token is fresh. So a scrub may be believed that did not happen.
- design.md:157: a 404 lists the assignments at most once a minute; `_write` (412) and `upload` (250) count a refresh
  that then fails, and a read in the next minute answers `not_found` with an expired token.

Sessions and background execution
- `SessionState` has no compare-and-swap: `new -s name` overwrites another's record, the daemon and the kernel-id update write
  back old ones, and `new` and `run` swallow a failed unassign after a scope error (`session.py:424-427`). Ctrl-C between `assign` and the first store leaks
  the VM. So does a preflight that gets no connection: `session.py:399-402` wants to "never leak a billable assignment", but it and `run.py:472-474` catch only
  the client's own error, which an HTTP answer raises and a connection error or a connect timeout (`client.py:412-431`) does not. The exemptions of `NoVmForgotten` and `RecordOutlivesVm` are these.
- README.md:217, docs/02:65, SKILL.md:161: one background job per session. `exec-async` stores a record it read before its check
  (`execution.py:681`, 802), so a pid is lost to any other writer, and a second worker starts.
- An interrupted `exec-async` that has removed the old sidecar loses the last verdict. `run`'s teardown leaves a live
  `exec_pid` alone.

Kernel and sync
- docs/02:71 and SKILL.md:155 let `--timeout` end a call whose kernel is quiet. The loop of `wsclient.py:1077-1101` wakes at the
  deadline and goes on: only the wait for the reply, after the idle status, gives up. A call whose kernel another
  command has restarted waits for ever. `AnsweredCallEnds` promises nothing for it.
- SKILL.md:37: a session keeps its kernel. A recorded kernel that answers 404 makes every exec start another
  (`runtime.py:130`); a retry after a timed-out POST leaves one behind; a start that fails otherwise leaves a half-made
  client, and every later call of that process fails.
- docs/03:58 lets a rerun replace the destination. Two syncs that start in a session without a kernel use
  different kernels, and then a late script replaces a later rerun. The same happens when the recorded kernel answers 404, since the one each sync then starts is
  never recorded (`runtime.py:128-132`), or when the keep-alive daemon stores an older copy of the record over the one with the kernel. `RerunWins` exempts a sync that a
  third one overlapped, and these (`stray`).
- An archive stays when `/content` cannot be opened and the command's own removal fails.

MCP server
- `mcp_server.py:740`, mcp.md:87: when a client sends `unsubscribe` and `subscribe` without waiting, the cancelled watcher's `finally`
  (808) removes the new task from `_tasks`: a stray watcher, and more than two notifications. `OneWatch` exempts overlapping requests.
- mcp.md:86 notifies "at most twice per job", and `mcp_server.py:719-730` says that done never changes again. A job that got no VM has no endpoint and
  can be applied again (`commands/job.py:741-750`), from pending on: `OneWatch` counts two per apply. The watch has ended with the first end, and a job that
  is done when the client subscribes gets none (738-740), so the second end is announced to nobody; `EndIsLearnt` exempts it (`unwatched`).
- A client that lists, then subscribes and does not read, never learns of a job done in between (733). A job pruned before
  the next look is never announced as done, and one planned and pruned between two looks not at all.

## The proofs

TLAPS proves the following for every value of the constants that satisfies the named assumptions. Two modules
prove about two specifications each, which share no variable and no step: each theorem names the one it is of. For their sake
`Transport` and `McpServer` have a prefix on `Init`, `Next`, `Spec` and `vars`.

`RunnerAndWatchProofs`, of `JobRunner` (any set of kids, any number of crashes, both switches): `TypeCorrect`,
`SucceededContained`, `StopExplained`, `SupervisorsAreSpared`, `DeadRecordFinal` (an action property), and
`RunnerImplementsRemoteJob`, `Spec => Remote!Spec`. One inductive invariant `IInv`, a conjunction of named parts, carries
them; the properties alone are not inductive. `SucceededIsContained` needs to know what the runner knew at every
place after the sweep (`Judged`, `Written`: whatever is tagged and alive was listed by the probe or is in `unseen`, and one that is not there cannot
fork); `StopIsExplained` needs that an intent is on disk at every place from which a supervisor
signals (`Intended`, `Explained`) and that `cancel.json` is never removed; `SupervisorsSpared` needs that no scan holds a
supervisor that it knows (`Intended`). The refinement maps each action to a `RemoteJob` step or a stutter.

`TransfersProofs`, of `DuplicateLaunch` (any number of invocations and crashes): `RecordBeforeConsumer`; `SerialSingleConsumer`, by an
invariant that says that as long as nothing overlapped at most one live invocation is inside the protocol
(`OneAtATime`), and that one that may write, or has written and lives, owns `launch.json` (`FillerOwnsFile`,
`ConsumerOwnsFile`): so of the consumers at most one has a runner; and `LaunchNotLost`: when every invocation has left the protocol and none was killed in it,
one has started a consumer. It needs no cardinality: whoever owns the file has started, or is still inside.

`TransfersProofs`, of `Transfers` (any number of invocations, crashes, inputs and artifacts, whether or not invocations overlap): `ConsumerSeesPlanned`. A pinned
input that is there is what was planned, and an input once there stays; an invocation has installed every input
it is past (`PastInputsAreThere`), so while a consumer lives all of them are there (`ConsumersHaveInputs`), its own runner being
dead or not. And `StoreIsKept`: what the sync remembers as uploaded, and what a record says was offloaded, is in the store when
one invocation has run. `StoreIsTrue` speaks of invocations that have filled a record, of which an `IsFiniteSet` of one is `Sole`. The invariant
`StoreInv` follows an artifact to the record: a PUT under way is of something newer than what is recorded and not newer than the file, so
a record that equals the file was made while nobody wrote (`Synced`); a workload that succeeded has left nobody who is not known to have survived, so an
artifact noted as uploaded or missing stays so but for what that one writes (`Offloads`); and a result, a copy of it behind `control.result`, and the record that absorbs either say that
everything was offloaded only when nobody is left who could write an artifact or upload one (`Offloaded`, `ResultIsTrue`, `RecordIsTrue`).
`OutcomeStaysUsable` is about the step that absorbs a result. Every result, and its copy, is one a runner may write (`OutcomeInv`, `Sound`):
an input's failure has a kind, a verdict names who cancelled, and without a failed input or an unreadable manifest every
artifact was tried. The rest is about the rules of `Verdict`: a strongest class that is `retry_same` is the only one
(`OnlyTheWeakest`), and `retry_same` or `refresh_urls` is the strongest only when nothing but transfers of the kinds that it puts right has failed (`RetryIsOfTransfers`). The
wait after the deadline's cancel overrides the advice only where there was none.

`RunnerAndWatchProofs`, of `McpServer` (any number of jobs, tasks and requests): `ServerTypeCorrect` and `OneWatchHolds`. The
server reads a record, awaits the end of the task it has cancelled, and then makes a new one, while that task may still send. So it is
not enough that a job has one task (`OneTask`: in the table until it is cancelled, and then awaited by the handler that cancelled
it): that a client is told at most twice needs a count of what may yet be told, that the job left pending (`MayTellLeft`) and that it is done (`MayTellDone`),
by any task, and by any handler that will make one. `Counted` says that with what has been told this is two for each apply of the job. All of it is
given up for a job whose requests have overlapped, which is the divergence above; what holds even then is that the table names
tasks that run and that nobody has cancelled (`TableIsLive`).

`KernelAndTransportProofs`, of `Kernel` (any number of calls, pieces of output, messages of other clients and restarts): `TypeCorrect`,
`ShowsOwn` and `AnswerWhole`. A call that was given up leaves messages on the wire and in the queue, and its request may still run,
so the invariant speaks of `Pipe`, the queue and the wire behind it, and of no place in particular. What it holds of this call goes on where the
shown output stops, without a gap, and idle comes after all of it (`PipeIsInOrder`); of a call that is not sent yet it
holds nothing (`SentInTurn`). The pipe may be cut off, with the connection, but as long as the connection is there
everything that was made is shown or in it (`NothingIsLost`); and a caller that has seen idle has shown everything (`AllWasShown`). That
the request id is compared is what the steps need that show something; that the socket thread only moves messages from the wire to the queue is
why its interleavings do not matter.

`KernelAndTransportProofs`, of `Transport` (any `max_retries`): `AnswerIsProved` and `NotFoundIsProved`. What the listing is remembered to have shown is
true (`SeenIsTrue`), a call under way has no answer yet (`UnderWay`), a write that finds its text has put
it there (`MineLanded`), and a token is fresh where a 404 is about to be believed (`TokenIsFresh`).

`ApplyClaimProofs` (any number of applies, files and edits): `RunsPlanned`. A plan that can be read is
finished, so its hash is final (`PlanIsFinished`); an apply that goes on has accepted the very lock of the hash (`LockIsBound`); each uploaded
file has its accepted content (`UploadsAreAccepted`); and a launch needs all of them (`AllAreUploaded`). The files
themselves do not occur in it, which is the point: their later edits cannot matter.

`OneWorks` and `OneVm` hold of any number of applies, up to the step that sets `raced`. `LockInv`
says that there are files enough for those that have begun (`FilesAreCounted`) and that a holder of the claim owns the flock of the
file it opened (`HoldersOwn`). That excludes another only if both opened the same file, so `ClaimInv` adds that all that have a file
open have the same, which the name leads to as long as it leads anywhere (`NameIsOpened`). An unlink does not break that; the creation of a file beside an open one
does, and it is what `raced` records. For prune the invariant says what `seen` is worth: those seen are gone, and one that was
taken for gone although it held the claim has lost its name to an apply that is gone and that prune has not seen (`SeenAreGone`);
so a deletion that overtakes nobody finds no holder and no VM. `VmIsKnown` carries the record: while an apply goes to assign
a VM no endpoint is recorded, hence no other VM is known.

`SyncProofs` (any number of syncs and kernels, every fault): `DestinationStaysWhole`, an action property: past the extraction the
staging directory holds the whole payload (`PayloadIsStaged`), and only an exchange or a rename changes the destination.
`AnswersAreTrue`, from what the script's place and outcome say of the payload (`InstalledIsKnown`), and `LeftoversAreKnown`, from
who will still remove each item, or failed to (`LeftIsKnown`). A restart kills everything a kernel has queued, so the invariant also
says that only what was sent is queued (`QueueIsSent`). `RerunIsKept`, that a late script does not replace a rerun, rests on
the order of a kernel's queue: a sync that began after another had ended has its script behind that one's if they
share a kernel (`QueueInOrder`), every script that is not over is in a queue (`LiveIsQueued`), which a kernel that is gone no longer has (`GoneIsIdle`), so a
rerun's has not begun before the earlier one's is over (`WaitsItsTurn`); and the kernel of a sync that nothing overlapped, and that is not `stray`, is the record's and that of
every later one (`KernelIsKept`).

`SessionsProofs` (any number of commands, daemons, names and VMs): `TypeCorrect`, `NoneForgotten`, `DaemonComesLater` and `RecordOutlives`,
the last an action property. The hard part is that a daemon writes back, later, whatever it read. The invariant says of every place
of every command what it owns (`new` and `run` hold a VM nobody else can name until it is stored or astray), and of every daemon
that it was started only after its record was stored, so that its copy is of a record that is there, or whose name is disputed, or
whose loss is known (`DaemonOK`).

`ExecAsyncProofs` (any number of commands, starts, logs and prints): `TypeCorrect`, `OneWorker`, `PollTellsTheTruth` and
`FollowReadsAll`. `Base` says of every copy of the record, wherever it is held, that its pid is a worker that has been spawned, and that
the copy of the last start has that worker's log. While no pid is lost (`TrackInv`) starts do not overlap, a live worker is the one
that the record names or that the current start has spawned, and it is the last one; so a sidecar is never of an earlier run than one whose
log it lies beside, and the last run's is its own and whole once it has ended (`SideIsOwned`). `PollInv` and `FollowInv` follow a reader: a
worker it found dead stays dead, and a log still its worker's only grows until then. The attempt found that `PollIsTrue` in its earlier form
was false with two logs and three starts, which the run's one log did not show; as it is now, TLC found it true there too (17 M states, once).

`JobSupervisorProofs` (any candidates, bounds, faults and numbers of `status` and `destroy` commands): `TypeCorrect`, `RecordTold`,
`SupervisedIsKept`, and the action properties `SomebodyAnswers`, `RunnerLeftRunning` and `VerdictKept`. Every command writes back whole
a copy it read at some earlier time, so what is to hold of `envelope.json` has to hold of every copy that may yet be
written, and has to be stable under whatever apply, the VM and the other commands do meanwhile: `EnvelopeOK` is claimed of
`env`, of `disk` and, through `CommandOK`, of every `mem[c]`, and each of its parts speaks only of what cannot be undone (a VM that is
gone, a verdict that was given). `ApplyOK` adds what apply knows at each place: that a VM that is up has its endpoint recorded, but in the call that was
granted it (`VmIsNamed`), that a signal is remembered (`InterruptIsKnown`), that a credential file on the VM is known to `sure` and `secret`
unless an answer has misled apply (`SecretIsKnown`), and that after its cleanup the VM is released, kept or reported (`CleanedUp`). No theorem of this module
assumes anything of the faults; each exemption is in its property. The attempt
to prove the part about gone VMs found a flaw in an earlier form of the model, in which a failed release of a refused grant could bring
a reclaimed VM back up; no run had noticed.

Only model-checked: all liveness, `BudgetIsEnforced`, `VerdictLands`, `ApplyEnds`, `HandedOffIsReleased`,
`AnsweredCallEnds`, `GoneIsReported`, `EndIsLearnt` and `NewJobIsAnnounced`, as fairness and `ENABLED` are out of this
prover's reach. Every other property of the runs is proved. Nothing is proved by induction over data; no module
declares a `RECURSIVE` operator.

## Not modelled

- Reasons, hints and remedies, compute units, `apply --timeout` and `--debug`; a `DEGRADED` supervisor in the
  envelope (it takes the path of `RUNNING` in every decision modelled); crashes of `status` and `destroy` themselves.
- Reuse of process and process-group ids; the identity check by pid, start time and boot id is modelled as
  exact. Log rotation.
- The validation of a spec and of URLs (one bit: whether a plan has a lock), the credential search in the code, the secret sidecar of a plan, `events.jsonl`.
- The transport's effect on the session store, an instance of the write-back of `Sessions`; `adopt --orphanage`.
- Comms, history and update_display messages of a kernel; the console's terminal; notebook cells.
- How a sync's payload is selected, and its git-aware metadata; an interrupt of the command between two items of its cleanup
  (`commands/sync.py:765-768`), and a PUT that the server carries out after the command's DELETE.
- The components of `PROJECT.json` with status `not_modelled`, each with its reason: wrappers of external programs, pure
  functions on strings, requests to an external service.

## Plan

1. Compose `Transport` with `Sessions`: the refresh that stores its copy of the record, and the 404 that prunes it.
2. `ExecAsync` over `Kernel`: the worker's `--timeout` and the verdict it writes.
