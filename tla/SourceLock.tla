----------------------------- MODULE SourceLock -----------------------------
(***************************************************************************)
(* What of the user's files reaches the VM (job/planner.py _collect_source, *)
(* job/payload_bundle.py): `job plan` locks each source file by its hash;   *)
(* `job apply` compares the files with the lock before it claims the job,   *)
(* and each file once more while it uploads it.  The files are the user's   *)
(* and change at any time; so may plan.json.                                *)
(*                                                                         *)
(* A module of actions for the processes that take them: ApplyClaim says    *)
(* when.  A hash stands for the content it was taken of.                    *)
(***************************************************************************)
EXTENDS Naturals

CONSTANTS Stagers,   \* the apply processes
          Sources,   \* the files that the source root may hold
          MaxEdits   \* bound: edits of the files, or of plan.json

ASSUME EditsAssumption == MaxEdits \in Nat

Absent == "absent"
Contents == {"old", "new"}
Trees == [Sources -> Contents \cup {Absent}]
Present(t) == {f \in Sources : t[f] # Absent}
Nothing == [f \in Sources |-> Absent]

VARIABLES
  tree,      \* the user's files
  edits,     \* how many edits there were
  planner,   \* where `job plan` is
  unhashed,  \* the files it has found and not read yet
  planned,   \* plan.json is there
  lock,      \* the content of each file by plan.json
  bound,     \* the content of each file that the plan's hash was taken of
  accepted,  \* the lock that each apply has read
  left,      \* the files that each apply has found and not uploaded yet
  copy,      \* the snapshot each apply has made of the file it uploads
  remote     \* the files in the src directory on the VM of a running apply

planVars == <<planner, unhashed, lock, bound>>
stageVars == <<accepted, left, copy, remote>>
sourceVars == <<tree, edits, planVars, planned, stageVars>>

\* A copy taken while the file was being written: a mixture, or none yet.
Mixed == "mixed"
NoCopy == "none"

SourceInit ==
  /\ tree \in Trees /\ edits = 0
  /\ planner = "list" /\ unhashed = {} /\ planned = FALSE
  /\ lock = Nothing /\ bound = Nothing
  /\ accepted = [p \in Stagers |-> Nothing]
  /\ left = [p \in Stagers |-> {}]
  /\ copy = [p \in Stagers |-> NoCopy]
  /\ remote = [p \in Stagers |-> Nothing]

\* The user writes, adds or removes a file.
EditsSource ==
  /\ edits < MaxEdits /\ edits' = edits + 1
  /\ tree' \in {[tree EXCEPT ![f] = c] : f \in Sources, c \in Contents \cup {Absent}}
  /\ UNCHANGED <<planVars, planned, stageVars>>

\* Somebody changes what plan.json says of a file.
EditsPlan ==
  /\ planned /\ edits < MaxEdits /\ edits' = edits + 1
  /\ lock' \in {[lock EXCEPT ![f] = c] : f \in Sources, c \in Contents \cup {Absent}}
  /\ UNCHANGED <<tree, planner, unhashed, bound, planned, stageVars>>

-----------------------------------------------------------------------------
(***************************************************************************)
(* job plan: one file after the other, then the spec, then the plan.        *)
(***************************************************************************)

PlanLists ==
  /\ planner = "list"
  /\ unhashed' = Present(tree)
  /\ planner' = "hash"
  /\ UNCHANGED <<tree, edits, lock, bound, planned, stageVars>>

\* When a file has gone meanwhile, the plan has an error and no lock.
PlanHashes(f) ==
  /\ planner = "hash" /\ f \in unhashed
  /\ IF tree[f] = Absent
     THEN lock' = Nothing /\ unhashed' = {}
     ELSE lock' = [lock EXCEPT ![f] = tree[f]] /\ unhashed' = unhashed \ {f}
  /\ UNCHANGED <<tree, edits, planner, bound, planned, stageVars>>

\* The hash of the plan is taken over the lock too; the spec is written.
PlanBinds ==
  /\ planner = "hash" /\ unhashed = {}
  /\ planner' = "write"
  /\ bound' = lock
  /\ UNCHANGED <<tree, edits, unhashed, lock, planned, stageVars>>

PlanWrites ==
  /\ planner = "write"
  /\ planner' = "done"
  /\ planned' = TRUE
  /\ UNCHANGED <<tree, edits, unhashed, lock, bound, stageVars>>

Plan == PlanLists \/ PlanBinds \/ PlanWrites \/ \E f \in Sources : PlanHashes(f)

-----------------------------------------------------------------------------
(***************************************************************************)
(* job apply.                                                              *)
(***************************************************************************)

SourceRest == UNCHANGED <<tree, edits, planVars, planned>>

\* A plan that has errors, and with them no lock, or whose content does not
\* have its hash, is refused.
AcceptsPlan(p) ==
  /\ planned /\ Present(lock) # {} /\ lock = bound
  /\ accepted' = [accepted EXCEPT ![p] = lock]
  /\ UNCHANGED <<left, copy, remote>> /\ SourceRest

\* The files to look at, or to upload, are found.
ListsSources(p) ==
  /\ left' = [left EXCEPT ![p] = Present(tree)]
  /\ UNCHANGED <<accepted, copy, remote>> /\ SourceRest

\* The next file in the order of their names.
NextFile(p) == CHOOSE f \in left[p] : TRUE

\* A listed file still has its planned content.
VerifiesFile(p) ==
  /\ left[p] # {} /\ tree[NextFile(p)] = accepted[p][NextFile(p)]
  /\ left' = [left EXCEPT ![p] = @ \ {NextFile(p)}]
  /\ UNCHANGED <<accepted, copy, remote>> /\ SourceRest

\* A planned file is copied, once and for all, to a private snapshot.
Snapshots(p) ==
  /\ left[p] # {} /\ copy[p] = NoCopy
  /\ tree[NextFile(p)] # Absent /\ accepted[p][NextFile(p)] # Absent
  /\ \E c \in {tree[NextFile(p)], Mixed} : copy' = [copy EXCEPT ![p] = c]
  /\ UNCHANGED <<accepted, left, remote>> /\ SourceRest

\* Mutant: the file is hashed, not the snapshot.
UploadsUnchecked(p) ==
  /\ copy[p] # NoCopy /\ tree[NextFile(p)] = accepted[p][NextFile(p)]
  /\ remote' = [remote EXCEPT ![p][NextFile(p)] = copy[p]]
  /\ left' = [left EXCEPT ![p] = @ \ {NextFile(p)}]
  /\ copy' = [copy EXCEPT ![p] = NoCopy]
  /\ UNCHANGED accepted /\ SourceRest

\* The snapshot has the planned hash: it is uploaded, and deleted.
UploadsSnapshot(p) ==
  /\ copy[p] # NoCopy /\ copy[p] = accepted[p][NextFile(p)]
  /\ remote' = [remote EXCEPT ![p][NextFile(p)] = copy[p]]
  /\ left' = [left EXCEPT ![p] = @ \ {NextFile(p)}]
  /\ copy' = [copy EXCEPT ![p] = NoCopy]
  /\ UNCHANGED accepted /\ SourceRest

\* The apply is over; its snapshot is deleted.
LeavesSources(p) ==
  /\ accepted' = [accepted EXCEPT ![p] = Nothing]
  /\ left' = [left EXCEPT ![p] = {}]
  /\ copy' = [copy EXCEPT ![p] = NoCopy]
  /\ remote' = [remote EXCEPT ![p] = Nothing]
  /\ SourceRest

\* Every planned file was found and uploaded.
Staged(p) ==
  /\ left[p] = {} /\ copy[p] = NoCopy
  /\ Present(remote[p]) = Present(accepted[p])
=============================================================================
