----------------------------- MODULE ApplyClaim -----------------------------
(***************************************************************************)
(* One job ID from its plan to the end of its VM: several `job apply`       *)
(* processes, and `jobs prune`: plan.json, the source files (SourceLock),  *)
(* apply.lock, apply.log, supervisor.json and what prune and apply read of *)
(* envelope.json (job/store.py, commands/job.py).                          *)
(*                                                                         *)
(* The lock is a flock on the file that the name apply.lock led to when it *)
(* was opened; release unlocks it and then removes the name.  A process    *)
(* that dies loses its flock and leaves the name.  prune holds it for a    *)
(* moment to see whether it is free, and deletes the directory later.      *)
(***************************************************************************)
EXTENDS FiniteSets, SourceLock

CONSTANTS Applies,  \* the apply processes, each started once
          NoApply,  \* nobody
          Pruner    \* the prune process

ASSUME NoApplyAssumption == {NoApply, Pruner} \cap Applies = {} /\ NoApply # Pruner
ASSUME AppliesAssumption == IsFiniteSet(Applies) /\ Stagers = Applies

\* An apply opens at most one file, so there are at most this many.
Files == 1..Cardinality(Applies)
NoFile == 0

VARIABLES
  pc,        \* where each apply is
  fd,        \* the lock file each apply has open
  name,      \* the file that apply.lock names
  made,      \* how many lock files were created
  owner,     \* who holds the flock of each file
  raced,     \* history: a lock file was made while an apply had another open
  ident,     \* whose identity supervisor.json holds
  log,       \* the directory has an apply.log
  envelope,  \* envelope.json: "none", "open", or "over" with its VM released
  recorded,  \* envelope.json has an endpoint
  assigned,  \* the applies whose VM is assigned
  lost,      \* the applies that died before they recorded theirs
  prune,     \* where prune is
  seen,      \* history: the applies that were past the lock when prune looked,
             \* or that held it when prune probed
  overtaken  \* history: another opened it before prune deleted

lockVars == <<fd, name, made, owner, raced>>
recordVars == <<ident, log, envelope, recorded>>
vmVars == <<assigned, lost>>
pruneVars == <<prune, seen, overtaken>>
claimVars == <<lockVars, recordVars, vmVars, pruneVars>>
vars == <<pc, claimVars, sourceVars>>

Init ==
  /\ pc = [p \in Applies |-> "start"]
  /\ fd = [p \in Applies |-> NoFile]
  /\ name = NoFile /\ made = 0
  /\ owner = [f \in Files |-> NoApply] /\ raced = FALSE
  /\ ident = NoApply /\ log = FALSE /\ envelope = "none" /\ recorded = FALSE
  /\ assigned = {} /\ lost = {}
  /\ prune = "off" /\ seen = {} /\ overtaken = FALSE
  /\ SourceInit

At(p, place) == pc[p] = place
Goes(p, place) == pc' = [pc EXCEPT ![p] = place]

\* apply --async opens apply.log for the child, that is the apply proper.
Spawns(p) ==
  /\ At(p, "start") /\ planner \in {"write", "done"}
  /\ log' = TRUE
  /\ Goes(p, "spawned")
  /\ UNCHANGED <<lockVars, ident, envelope, recorded, vmVars, pruneVars, sourceVars>>

Preflight == {"start", "spawned", "list", "verify"}

\* Every refusal before the claim ends the apply: no plan, a plan that is not
\* as it was written or has errors, changed files, a URL that has expired.
Refuses(p) ==
  /\ pc[p] \in Preflight
  /\ Goes(p, "gone") /\ LeavesSources(p)
  /\ UNCHANGED claimVars

ReadsPlan(p) ==
  /\ pc[p] \in {"start", "spawned"}
  /\ AcceptsPlan(p)
  /\ Goes(p, "list")
  /\ UNCHANGED claimVars

\* The files are listed, to be compared with the lock, and again to be
\* uploaded.
ListsFiles(p) ==
  /\ \/ At(p, "list") /\ Present(tree) = Present(accepted[p]) /\ Goes(p, "verify")
     \/ At(p, "stage") /\ Goes(p, "upload")
  /\ ListsSources(p)
  /\ UNCHANGED claimVars

VerifiesSources(p) ==
  /\ At(p, "verify")
  /\ \/ VerifiesFile(p) /\ UNCHANGED pc
     \/ left[p] = {} /\ Goes(p, "open") /\ UNCHANGED sourceVars
  /\ UNCHANGED claimVars

\* O_CREAT without O_EXCL: the file the name leads to, or a new one.
Opens(p) ==
  /\ At(p, "open")
  /\ IF name = NoFile
     THEN made' = made + 1 /\ name' = made + 1
     ELSE UNCHANGED <<made, name>>
  /\ fd' = [fd EXCEPT ![p] = name']
  /\ raced' = (raced \/ (name = NoFile /\ \E q \in Applies : fd[q] # NoFile))
  /\ Goes(p, "lock")
  /\ UNCHANGED <<owner, recordVars, vmVars, pruneVars, sourceVars>>

\* LOCK_EX | LOCK_NB; on failure ApplyInProgress.
Locks(p) ==
  /\ At(p, "lock")
  /\ IF owner[fd[p]] = NoApply
     THEN owner' = [owner EXCEPT ![fd[p]] = p] /\ Goes(p, "identity")
          /\ UNCHANGED sourceVars
     ELSE UNCHANGED owner /\ Goes(p, "gone") /\ LeavesSources(p)
  /\ UNCHANGED <<fd, name, made, raced, recordVars, vmVars, pruneVars>>

WritesIdentity(p) ==
  /\ At(p, "identity")
  /\ ident' = p
  /\ Goes(p, "check")
  /\ UNCHANGED <<lockVars, log, envelope, recorded, vmVars, pruneVars, sourceVars>>

\* A job that has an endpoint is refused: the claim is released, the
\* identity stays.
SkipsEndpointCheck(p) ==
  /\ At(p, "check")
  /\ Goes(p, "begin")
  /\ UNCHANGED <<lockVars, recordVars, vmVars, pruneVars, sourceVars>>

ChecksEndpoint(p) ==
  /\ At(p, "check")
  /\ Goes(p, IF recorded THEN "unlock" ELSE "begin")
  /\ UNCHANGED <<lockVars, recordVars, vmVars, pruneVars, sourceVars>>

\* The first envelope of this apply has no endpoint.
BeginsProvision(p) ==
  /\ At(p, "begin")
  /\ envelope' = "open" /\ recorded' = FALSE
  /\ Goes(p, "assign")
  /\ UNCHANGED <<lockVars, ident, log, vmVars, pruneVars, sourceVars>>

Assigns(p) ==
  /\ At(p, "assign")
  /\ \/ assigned' = assigned \cup {p} /\ Goes(p, "record") /\ UNCHANGED envelope
     \/ envelope' = "over" /\ Goes(p, "clear") /\ UNCHANGED assigned
  /\ UNCHANGED <<lockVars, ident, log, recorded, lost, pruneVars, sourceVars>>

RecordsEndpoint(p) ==
  /\ At(p, "record")
  /\ envelope' = "open" /\ recorded' = TRUE
  /\ Goes(p, "stage")
  /\ UNCHANGED <<lockVars, ident, log, vmVars, pruneVars, sourceVars>>

\* The files are uploaded one by one; when one is not as it was planned, or is
\* missing, staging fails and with it the job.
StagesFile(p) ==
  /\ At(p, "upload")
  /\ Snapshots(p) \/ UploadsSnapshot(p)
  /\ UNCHANGED <<pc, claimVars>>

Launches(p) ==
  /\ At(p, "upload") /\ Staged(p)
  /\ Goes(p, "work")
  /\ UNCHANGED <<claimVars, sourceVars>>

\* The VM is released, or stays assigned under its recorded endpoint.  A VM
\* released during provisioning leaves no endpoint.
Finishes(p) ==
  /\ pc[p] \in {"stage", "upload", "work"}
  /\ \/ assigned' = assigned \ {p} /\ envelope' = "over" /\ recorded' \in BOOLEAN
     \/ UNCHANGED assigned /\ envelope' = "open" /\ recorded' = TRUE
  /\ Goes(p, "clear") /\ LeavesSources(p)
  /\ UNCHANGED <<lockVars, ident, log, lost, pruneVars>>

\* supervisor.json is removed, whoever it names.
ClearsIdentity(p) ==
  /\ At(p, "clear")
  /\ ident' = NoApply
  /\ Goes(p, "unlock")
  /\ UNCHANGED <<lockVars, log, envelope, recorded, vmVars, pruneVars, sourceVars>>

Unlocks(p) ==
  /\ At(p, "unlock")
  /\ owner' = [owner EXCEPT ![fd[p]] = NoApply]
  /\ fd' = [fd EXCEPT ![p] = NoFile]
  /\ Goes(p, "unlink")
  /\ UNCHANGED <<name, made, raced, recordVars, vmVars, pruneVars, sourceVars>>

\* The name goes, whichever file it leads to by now.
Unlinks(p) ==
  /\ At(p, "unlink")
  /\ name' = NoFile
  /\ Goes(p, "gone")
  /\ UNCHANGED <<fd, made, owner, raced, recordVars, vmVars, pruneVars, sourceVars>>

\* The kernel closes the files of a process that dies.
Dies(p) ==
  /\ pc[p] \notin {"start", "gone"}
  /\ owner' = [f \in Files |-> IF owner[f] = p THEN NoApply ELSE owner[f]]
  /\ fd' = [fd EXCEPT ![p] = NoFile]
  /\ lost' = IF At(p, "record") THEN lost \cup {p} ELSE lost
  /\ Goes(p, "gone") /\ LeavesSources(p)
  /\ UNCHANGED <<name, made, raced, recordVars, assigned, pruneVars>>

-----------------------------------------------------------------------------
(***************************************************************************)
(* jobs prune.                                                             *)
(***************************************************************************)

PruneRest == UNCHANGED <<pc, fd, made, raced, vmVars, tree, edits, planVars, stageVars>>

Prunes(from, to) == prune = from /\ prune' = to

Holds(p) == pc[p] \in {"identity", "check", "begin", "assign", "record", "stage", "upload",
                     "work", "clear", "unlock"}
Past == {p \in Applies : pc[p] \in {"unlink", "gone"}}

\* A record with an open end is skipped; only a plan without an envelope has
\* its lock looked at.
PruneReads ==
  /\ planned \/ planner = "write" \/ log \/ envelope # "none"
  /\ Prunes("off", CASE envelope = "none" -> "probe"
                     [] envelope = "open" -> "done"
                     [] envelope = "over" -> "delete")
  /\ seen' = Past
  /\ UNCHANGED <<name, owner, recordVars, planned, overtaken>>
  /\ PruneRest

\* A directory with an apply.log is left alone.
Unheld == IF log THEN "done" ELSE "delete"

\* What FileNotFoundError or a flock that is granted says, it is believed to
\* say of every apply.
PruneProbesNot ==
  /\ Prunes("probe", Unheld)
  /\ seen' = seen \cup {p \in Applies : Holds(p)}
  /\ UNCHANGED <<name, owner, recordVars, planned, overtaken>>
  /\ PruneRest

PruneProbes ==
  /\ \/ name = NoFile /\ Prunes("probe", Unheld) /\ UNCHANGED owner
     \/ /\ name # NoFile /\ owner[name] = NoApply
        /\ Prunes("probe", "let go") /\ owner' = [owner EXCEPT ![name] = Pruner]
     \/ /\ name # NoFile /\ owner[name] # NoApply
        /\ Prunes("probe", "done") /\ UNCHANGED owner
  /\ seen' = seen \cup {p \in Applies : Holds(p)}
  /\ UNCHANGED <<name, recordVars, planned, overtaken>>
  /\ PruneRest

PruneLetsGo ==
  /\ Prunes("let go", Unheld)
  /\ owner' = [f \in Files |-> IF owner[f] = Pruner THEN NoApply ELSE owner[f]]
  /\ UNCHANGED <<name, recordVars, planned, seen, overtaken>>
  /\ PruneRest

\* rmtree, after every other job of the store was looked at.
PruneDeletes ==
  /\ Prunes("delete", "done")
  /\ name' = NoFile
  /\ ident' = NoApply /\ log' = FALSE /\ planned' = FALSE /\ envelope' = "none" /\ recorded' = FALSE
  /\ overtaken' = \E p \in Applies \ seen : pc[p] \notin {"open"} \cup Preflight
  /\ UNCHANGED <<owner, seen>>
  /\ PruneRest

Prune == PruneReads \/ PruneProbes \/ PruneLetsGo \/ PruneDeletes

Apply(p) ==
  \/ Spawns(p) \/ Refuses(p) \/ ReadsPlan(p) \/ ListsFiles(p) \/ VerifiesSources(p)
  \/ StagesFile(p) \/ Launches(p)
  \/ Opens(p) \/ Locks(p) \/ WritesIdentity(p) \/ ChecksEndpoint(p)
  \/ BeginsProvision(p) \/ Assigns(p) \/ RecordsEndpoint(p) \/ Finishes(p)
  \/ ClearsIdentity(p) \/ Unlocks(p) \/ Unlinks(p) \/ Dies(p)

\* job plan goes on, and the user edits.
Elsewhere == Plan \/ EditsSource \/ EditsPlan

Next ==
  \/ Elsewhere /\ UNCHANGED <<pc, claimVars>>
  \/ Prune
  \/ \E p \in Applies : Apply(p)

Spec == Init /\ [][Next]_vars
-----------------------------------------------------------------------------
Working == {"begin", "assign", "record", "stage", "upload", "work"}

\* store-and-cleanup.md: "a second `apply` on the same job ID fails fast
\* (`ApplyInProgress`) while a live process holds it", and supervisor.json
\* tells a live supervisor from a dead one: while an apply works it names that
\* apply, so two never work at the same time, and no `job status` takes the job
\* for an orphan and releases its VM.  prune does not take it away from an
\* apply that held the lock when prune looked; one that comes between the
\* look and the deletion is not safe from it.  Nor is an apply safe from a
\* third: release unlocks before it removes the name, so the name of a file
\* that a second has locked meanwhile may go, and one that then makes a new
\* lock file gets the claim too.
Undisturbed == ~overtaken /\ ~raced
IdentityNamesWorker ==
  Undisturbed => \A p \in Applies : pc[p] \in Working => ident = p

\* A job has at most one VM that some record or process knows of, and once
\* its apply has moved on, envelope.json has the endpoint, whatever is pruned.
OneKnownVm ==
  Undisturbed =>
    /\ \A p1, p2 \in assigned \ lost : p1 = p2
    /\ \A p \in assigned \ lost : At(p, "record") \/ recorded

\* design.md: apply refuses a plan that was modified, "that same snapshot is
\* scanned and uploaded": a job that is launched has on its VM the files, all
\* and no others, with the content that `job plan` saw, however the user's
\* files and plan.json change between plan, preflight and upload.
RunsWhatWasPlanned == \A p \in Applies : At(p, "work") => remote[p] = bound
=============================================================================
