-------------------------- MODULE ApplyClaimProofs --------------------------
(***************************************************************************)
(* What ApplyClaim launches, who works, and on which VM.                   *)
(*                                                                         *)
(* For any number of applies, source files and edits, what is launched is   *)
(* what was planned: a plan that can be read is finished, so its hash no    *)
(* longer changes; an apply that goes on has accepted the very lock that    *)
(* the hash was taken of; each file it has uploaded has its accepted        *)
(* content; and it launches only with all of them.  What the files          *)
(* themselves hold, then or later, is not in it (IInv).                    *)
(*                                                                         *)
(* Who holds the claim holds the flock of the file it opened, whatever the  *)
(* name leads to (LockInv).  As long as no lock file is made while an apply *)
(* has another open, all have the same open: only one of them works, and   *)
(* the job has at most one known VM (ClaimInv).                            *)
(***************************************************************************)
EXTENDS ApplyClaim, FiniteSetTheorems, TLAPS

\* The places of an apply that has accepted a plan.
Accepted == {"list", "verify", "open", "lock", "identity", "check", "begin",
             "assign", "record", "stage", "upload", "work"}

SourceTypes ==
  /\ tree \in Trees /\ lock \in Trees /\ bound \in Trees
  /\ accepted \in [Applies -> Trees] /\ remote \in [Applies -> Trees]
  /\ pc = [p \in Applies |-> pc[p]]

PlanIsFinished == planned => planner = "done"

LockIsBound ==
  \A p \in Applies : pc[p] \in Accepted => planner = "done" /\ accepted[p] = bound

NothingBeforePlan ==
  \A p \in Applies : pc[p] \in {"start", "spawned"} => remote[p] = Nothing

UploadsAreAccepted ==
  \A p \in Applies, f \in Sources : remote[p][f] \in {Absent, accepted[p][f]}

AllAreUploaded ==
  \A p \in Applies : At(p, "work") => Present(remote[p]) = Present(accepted[p])

IInv ==
  /\ SourceTypes /\ PlanIsFinished /\ LockIsBound /\ NothingBeforePlan
  /\ UploadsAreAccepted /\ AllAreUploaded

-----------------------------------------------------------------------------

\* The files of an apply go to nothing.
LEMMA NothingIsTree == Nothing \in Trees /\ \A f \in Sources : Nothing[f] = Absent
  BY DEF Nothing, Trees, Contents, Absent

\* The initial states.
LEMMA InitOK == Init => IInv
  <1> SUFFICES ASSUME Init PROVE IInv
    OBVIOUS
  <1> USE AppliesAssumption, NothingIsTree DEF Init, SourceInit
  <1>1. SourceTypes
    BY DEF SourceTypes
  <1>2. PlanIsFinished /\ LockIsBound /\ NothingBeforePlan /\ AllAreUploaded
    BY DEF PlanIsFinished, LockIsBound, Accepted, NothingBeforePlan, AllAreUploaded, At
  <1>3. UploadsAreAccepted
    BY DEF UploadsAreAccepted
  <1> QED BY <1>1, <1>2, <1>3 DEF IInv

\* A step of one apply that touches no source, and enters no place for which
\* something has to be shown.
LEMMA Moving ==
  ASSUME IInv, NEW p \in Applies, NEW place, Goes(p, place), UNCHANGED sourceVars,
         place \in Accepted => pc[p] \in Accepted,
         place \in {"start", "spawned"} => pc[p] = "start",
         place = "work" => Present(remote[p]) = Present(accepted[p])
  PROVE  IInv'
  <1> USE DEF IInv, sourceVars, planVars, stageVars, Goes, SourceTypes
  <1>1. SourceTypes'
    OBVIOUS
  <1>2. \A q \in Applies : pc'[q] = IF q = p THEN place ELSE pc[q]
    OBVIOUS
  <1>3. PlanIsFinished' /\ LockIsBound' /\ NothingBeforePlan'
    BY <1>2 DEF PlanIsFinished, LockIsBound, NothingBeforePlan
  <1>4. UploadsAreAccepted'
    BY DEF UploadsAreAccepted
  <1>5. AllAreUploaded'
    BY <1>2 DEF AllAreUploaded, At, Present
  <1> QED BY <1>1, <1>3, <1>4, <1>5

\* An apply that is over, or only has its cleanup before it.
LEMMA Leaving ==
  ASSUME IInv, NEW p \in Applies, NEW place \in {"gone", "clear"}, Goes(p, place),
         LeavesSources(p)
  PROVE  IInv'
  <1> USE AppliesAssumption, NothingIsTree
      DEF IInv, LeavesSources, SourceRest, planVars, Goes, SourceTypes
  <1>1. SourceTypes'
    OBVIOUS
  <1>2. \A q \in Applies : pc'[q] = IF q = p THEN place ELSE pc[q]
    OBVIOUS
  <1>3. \A q \in Applies : /\ remote'[q] = IF q = p THEN Nothing ELSE remote[q]
                           /\ accepted'[q] = IF q = p THEN Nothing ELSE accepted[q]
    OBVIOUS
  <1>4. PlanIsFinished' /\ LockIsBound' /\ NothingBeforePlan'
    BY <1>2, <1>3 DEF PlanIsFinished, LockIsBound, NothingBeforePlan, Accepted
  <1>5. UploadsAreAccepted'
    BY <1>3 DEF UploadsAreAccepted
  <1>6. AllAreUploaded'
    BY <1>2, <1>3 DEF AllAreUploaded, At, Present
  <1> QED BY <1>1, <1>4, <1>5, <1>6

\* Nobody's place changes, and no upload: `job plan` and the user.
LEMMA ElsewhereStep == ASSUME IInv, Elsewhere, UNCHANGED <<pc, claimVars>> PROVE IInv'
  <1> USE NothingIsTree DEF IInv, SourceTypes, planVars, stageVars
  <1>1. ASSUME UNCHANGED <<planner, bound, planned, pc, stageVars>>, tree' \in Trees, lock' \in Trees
        PROVE  IInv'
    BY <1>1 DEF PlanIsFinished, LockIsBound, NothingBeforePlan, UploadsAreAccepted,
                AllAreUploaded, At, Present
  <1>2. CASE EditsSource
    <2>1. tree' \in Trees
      BY <1>2 DEF EditsSource, Trees
    <2> QED BY <1>1, <1>2, <2>1 DEF EditsSource
  <1>3. CASE EditsPlan
    <2>1. lock' \in Trees
      BY <1>3 DEF EditsPlan, Trees
    <2> QED BY <1>1, <1>3, <2>1 DEF EditsPlan
  <1>4. ASSUME NEW f \in Sources, PlanHashes(f) PROVE IInv'
    <2>1. lock' \in Trees
      BY <1>4 DEF PlanHashes, Trees
    <2> QED BY <1>1, <1>4, <2>1 DEF PlanHashes
  <1>5. ASSUME planner # "done", UNCHANGED <<pc, tree, lock, stageVars>>, bound' \in Trees,
               planned' => planner' = "done" \/ planned
        PROVE  IInv'
    BY <1>5 DEF PlanIsFinished, LockIsBound, NothingBeforePlan, UploadsAreAccepted,
                AllAreUploaded, At, Present
  <1>6. CASE PlanLists \/ PlanBinds \/ PlanWrites
    BY <1>5, <1>6 DEF PlanLists, PlanBinds, PlanWrites
  <1> QED BY <1>2, <1>3, <1>4, <1>6 DEF Elsewhere, Plan

\* prune takes plan.json, and nothing from the applies.
LEMMA PruneStep == ASSUME IInv, Prune PROVE IInv'
  <1>1. UNCHANGED <<pc, tree, planVars, stageVars>>
    <2>1. PruneRest
      BY Zenon DEF Prune, PruneReads, PruneProbes, PruneLetsGo, PruneDeletes
    <2> QED BY <2>1 DEF PruneRest
  <1>2. planned' => planned
    <2>1. planned' = planned \/ planned' = FALSE
      BY Zenon DEF Prune, PruneReads, PruneProbes, PruneLetsGo, PruneDeletes
    <2> QED BY <2>1
  <1> QED
    BY <1>1, <1>2 DEF IInv, SourceTypes, planVars, stageVars, PlanIsFinished, LockIsBound,
                NothingBeforePlan, UploadsAreAccepted, AllAreUploaded, At, Present

\* A plan that an apply accepts is finished, and has the hash it was written with.
LEMMA ReadsPlanStep == ASSUME IInv, NEW p \in Applies, ReadsPlan(p) PROVE IInv'
  <1> USE AppliesAssumption DEF IInv, SourceTypes, planVars
  <1>1. /\ UNCHANGED <<tree, planner, lock, bound, planned, remote>>
        /\ planner = "done" /\ lock = bound /\ remote[p] = Nothing
    BY DEF ReadsPlan, AcceptsPlan, SourceRest, PlanIsFinished, NothingBeforePlan
  <1>2. \A q \in Applies : /\ pc'[q] = IF q = p THEN "list" ELSE pc[q]
                           /\ accepted'[q] = IF q = p THEN lock ELSE accepted[q]
    BY DEF ReadsPlan, AcceptsPlan, Goes
  <1>3. SourceTypes'
    BY <1>1 DEF ReadsPlan, AcceptsPlan, Goes
  <1>4. PlanIsFinished' /\ LockIsBound' /\ NothingBeforePlan'
    BY <1>1, <1>2 DEF PlanIsFinished, LockIsBound, NothingBeforePlan
  <1>5. UploadsAreAccepted'
    BY <1>1, <1>2, NothingIsTree DEF UploadsAreAccepted
  <1>6. AllAreUploaded'
    BY <1>1, <1>2 DEF AllAreUploaded, At, Present
  <1> QED BY <1>3, <1>4, <1>5, <1>6

\* Where an apply looks at its files without uploading one, it has accepted its
\* plan and does not launch.
LEMMA Looking ==
  ASSUME IInv, NEW p \in Applies, pc[p] \in Accepted, NEW place \in Accepted \ {"work"},
         UNCHANGED <<tree, planVars, planned, accepted, remote>>,
         pc' = [pc EXCEPT ![p] = place]
  PROVE  IInv'
  <1> USE DEF IInv, planVars, SourceTypes
  <1>1. SourceTypes'
    OBVIOUS
  <1>2. \A q \in Applies : pc'[q] = IF q = p THEN place ELSE pc[q]
    OBVIOUS
  <1>3. PlanIsFinished' /\ LockIsBound'
    BY <1>2 DEF PlanIsFinished, LockIsBound
  <1>4. NothingBeforePlan' /\ AllAreUploaded'
    BY <1>2 DEF NothingBeforePlan, AllAreUploaded, At, Present, Accepted
  <1>5. UploadsAreAccepted'
    BY DEF UploadsAreAccepted
  <1> QED BY <1>1, <1>3, <1>4, <1>5

LEMMA ListsFilesStep == ASSUME IInv, NEW p \in Applies, ListsFiles(p) PROVE IInv'
  <1> USE DEF ListsFiles, ListsSources, SourceRest, At, Goes, Accepted
  <1>1. CASE At(p, "list")
    BY <1>1, Looking
  <1>2. CASE At(p, "stage")
    BY <1>2, Looking
  <1> QED BY <1>1, <1>2

LEMMA VerifiesSourcesStep == ASSUME IInv, NEW p \in Applies, VerifiesSources(p) PROVE IInv'
  <1> USE DEF VerifiesSources, At, Accepted
  <1>1. CASE VerifiesFile(p) /\ UNCHANGED pc
    <2>1. pc' = [pc EXCEPT ![p] = "verify"]
      BY <1>1 DEF IInv, SourceTypes
    <2> QED BY <1>1, <2>1, Looking DEF VerifiesFile, SourceRest
  <1>2. CASE Goes(p, "open") /\ UNCHANGED sourceVars
    BY <1>2, Looking DEF Goes, sourceVars, stageVars
  <1> QED BY <1>1, <1>2

\* What is uploaded is the snapshot, and it has the accepted content.
LEMMA StagesFileStep == ASSUME IInv, NEW p \in Applies, StagesFile(p) PROVE IInv'
  <1>0. At(p, "upload") /\ UNCHANGED pc
    BY DEF StagesFile
  <1>1. CASE Snapshots(p)
    <2>1. pc' = [pc EXCEPT ![p] = "upload"]
      BY <1>0 DEF IInv, SourceTypes, At
    <2>2. UNCHANGED <<tree, planVars, planned, accepted, remote>>
      BY <1>1 DEF Snapshots, SourceRest
    <2> QED BY <1>0, <2>1, <2>2, Looking DEF Accepted, At
  <1>2. CASE UploadsSnapshot(p)
    <2> DEFINE f == NextFile(p)
    <2>1. UNCHANGED <<tree, planVars, planned, accepted, pc>>
      BY <1>0, <1>2 DEF UploadsSnapshot, SourceRest
    <2>2. remote' = [remote EXCEPT ![p] = [remote[p] EXCEPT ![f] = accepted[p][f]]]
      BY <1>2 DEF UploadsSnapshot
    <2> HIDE DEF f
    <2>3. \A q \in Applies : q # p => remote'[q] = remote[q]
      BY <2>2 DEF IInv, SourceTypes
    <2>4. remote'[p] = [remote[p] EXCEPT ![f] = accepted[p][f]]
      BY <2>2 DEF IInv, SourceTypes
    <2>5. remote[p] \in Trees /\ accepted[p] \in Trees
      BY DEF IInv, SourceTypes
    <2>6. remote'[p] \in Trees
      BY <2>4, <2>5 DEF Trees
    <2>7. remote' \in [Applies -> Trees]
      BY <2>2, <2>3, <2>6 DEF IInv, SourceTypes
    <2>8. \A g \in Sources : remote'[p][g] \in {remote[p][g], accepted[p][g]}
      BY <2>4, <2>5 DEF Trees
    <2>9. SourceTypes'
      BY <2>1, <2>7 DEF IInv, SourceTypes, planVars
    <2>10. PlanIsFinished' /\ LockIsBound' /\ NothingBeforePlan'
      BY <1>0, <2>1, <2>3
         DEF IInv, PlanIsFinished, LockIsBound, NothingBeforePlan, planVars, At
    <2>11. UploadsAreAccepted'
      BY <2>1, <2>3, <2>8 DEF IInv, UploadsAreAccepted
    <2>12. AllAreUploaded'
      BY <1>0, <2>1, <2>3 DEF IInv, AllAreUploaded, At, Present
    <2> QED BY <2>9, <2>10, <2>11, <2>12 DEF IInv
  <1> QED BY <1>1, <1>2 DEF StagesFile

\* Each action of an apply.
LEMMA ApplyStep == ASSUME IInv, NEW p \in Applies, Apply(p) PROVE IInv'
  <1> USE DEF At, Accepted
  <1>1. CASE Spawns(p)
    BY <1>1, Moving DEF Spawns
  <1>2. CASE Refuses(p)
    BY <1>2, Leaving DEF Refuses
  <1>3. CASE ReadsPlan(p)
    BY <1>3, ReadsPlanStep
  <1>4. CASE ListsFiles(p)
    BY <1>4, ListsFilesStep
  <1>5. CASE VerifiesSources(p)
    BY <1>5, VerifiesSourcesStep
  <1>6. CASE StagesFile(p)
    BY <1>6, StagesFileStep
  <1>7. CASE Launches(p)
    BY <1>7, Moving DEF Launches, Staged
  <1>8. CASE Opens(p)
    BY <1>8, Moving DEF Opens
  <1>9. CASE Locks(p)
    <2>1. CASE Goes(p, "identity") /\ UNCHANGED sourceVars
      BY <1>9, <2>1, Moving DEF Locks
    <2>2. CASE Goes(p, "gone") /\ LeavesSources(p)
      BY <2>2, Leaving
    <2> QED BY <1>9, <2>1, <2>2 DEF Locks
  <1>10. CASE WritesIdentity(p)
    BY <1>10, Moving DEF WritesIdentity
  <1>11. CASE ChecksEndpoint(p)
    <2>1. CASE recorded
      BY <1>11, <2>1, Moving DEF ChecksEndpoint
    <2>2. CASE ~recorded
      BY <1>11, <2>2, Moving DEF ChecksEndpoint
    <2> QED BY <2>1, <2>2
  <1>12. CASE BeginsProvision(p)
    BY <1>12, Moving DEF BeginsProvision
  <1>13. CASE Assigns(p)
    <2>1. CASE Goes(p, "record")
      BY <1>13, <2>1, Moving DEF Assigns
    <2>2. CASE Goes(p, "clear")
      BY <1>13, <2>2, Moving DEF Assigns
    <2> QED BY <1>13, <2>1, <2>2 DEF Assigns
  <1>14. CASE RecordsEndpoint(p)
    BY <1>14, Moving DEF RecordsEndpoint
  <1>15. CASE Finishes(p)
    BY <1>15, Leaving DEF Finishes
  <1>16. CASE ClearsIdentity(p)
    BY <1>16, Moving DEF ClearsIdentity
  <1>17. CASE Unlocks(p)
    BY <1>17, Moving DEF Unlocks
  <1>18. CASE Unlinks(p)
    BY <1>18, Moving DEF Unlinks
  <1>19. CASE Dies(p)
    BY <1>19, Leaving DEF Dies
  <1> QED
    BY <1>1, <1>2, <1>3, <1>4, <1>5, <1>6, <1>7, <1>8, <1>9, <1>10, <1>11, <1>12, <1>13,
       <1>14, <1>15, <1>16, <1>17, <1>18, <1>19 DEF Apply

\* The sources, the plan and the uploads are only ever changed as IInv says.
THEOREM Invariance == Spec => []IInv
  <1>1. ASSUME IInv, [Next]_vars PROVE IInv'
    <2>1. CASE UNCHANGED vars
      BY <1>1, <2>1
         DEF vars, sourceVars, planVars, stageVars, IInv, SourceTypes, PlanIsFinished,
             LockIsBound, NothingBeforePlan, UploadsAreAccepted, AllAreUploaded, At, Present
    <2> QED BY <1>1, <2>1, ElsewhereStep, PruneStep, ApplyStep DEF Next
  <1> QED BY InitOK, <1>1, PTL DEF Spec

-----------------------------------------------------------------------------

\* An apply that launches has the planned files on its VM, all and no others,
\* each with the content that `job plan` saw.
THEOREM RunsPlanned == Spec => []RunsWhatWasPlanned
  <1>1. ASSUME IInv PROVE RunsWhatWasPlanned
    <2> SUFFICES ASSUME NEW p \in Applies, At(p, "work") PROVE remote[p] = bound
      BY DEF RunsWhatWasPlanned
    <2>1. remote[p] \in Trees /\ accepted[p] \in Trees /\ accepted[p] = bound
      BY <1>1 DEF IInv, SourceTypes, LockIsBound, Accepted, At
    <2>2. ASSUME NEW f \in Sources PROVE remote[p][f] = accepted[p][f]
      BY <1>1, <2>2 DEF IInv, UploadsAreAccepted, AllAreUploaded, Present
    <2> QED BY <2>1, <2>2 DEF Trees
  <1> QED BY Invariance, <1>1, PTL
-----------------------------------------------------------------------------
(***************************************************************************)
(* The lock files, for any number of applies: there is a file for each     *)
(* apply that opens one, and who holds the claim holds the flock of the    *)
(* file it opened.                                                         *)
(***************************************************************************)
Inside == {"lock", "identity", "check", "begin", "assign", "record", "stage", "upload",
           "work", "clear", "unlock"}
Opened(p) == pc[p] \in Inside
Unopened == {"open"} \cup Preflight
Begun == {p \in Applies : pc[p] \notin Unopened}
Known == assigned \ lost

Places == Unopened \cup Inside \cup {"unlink", "gone"}

ClaimTypes ==
  /\ pc \in [Applies -> Places] /\ fd \in [Applies -> Nat] /\ name \in Nat /\ made \in Nat
  /\ owner = [f \in Files |-> owner[f]]

FilesAreCounted ==
  /\ made <= Cardinality(Begun) /\ name <= made
  /\ \A p \in Applies : fd[p] <= made /\ (Opened(p) => fd[p] # NoFile)

HoldersOwn == \A p \in Applies : Holds(p) => owner[fd[p]] = p

LockInv == ClaimTypes /\ FilesAreCounted /\ HoldersOwn

LEMMA HoldersOpen == ASSUME NEW p, Holds(p) PROVE Opened(p) /\ pc[p] # "gone"
  BY DEF Holds, Opened, Inside

\* The cardinalities that FilesAreCounted speaks of are numbers.
LEMMA FilesSuffice ==
  /\ Cardinality(Applies) \in Nat /\ Cardinality(Begun) \in Nat
  /\ Cardinality(Begun) <= Cardinality(Applies)
  <1>1. Begun \in SUBSET Applies
    BY DEF Begun
  <1> QED BY <1>1, AppliesAssumption, FS_Subset, FS_CardinalityType

\* An apply is one of the begun or begins.
LEMMA BegunGrows ==
  ASSUME NEW p \in Applies, NEW place \in Places, ClaimTypes, Goes(p, place),
         place \in Unopened => pc[p] \in Unopened
  PROVE  /\ Cardinality(Begun)' \in Nat /\ Cardinality(Begun) <= Cardinality(Begun)'
         /\ pc[p] = "open" /\ place \notin Unopened =>
              Cardinality(Begun)' = Cardinality(Begun) + 1
  <1>1. \A q \in Applies : pc'[q] = IF q = p THEN place ELSE pc[q]
    BY DEF ClaimTypes, Goes
  <1>2. IsFiniteSet(Begun) /\ Begun \in SUBSET Applies
    <2>1. Begun \in SUBSET Applies
      BY DEF Begun
    <2> QED BY <2>1, AppliesAssumption, FS_Subset
  <1>3. CASE place \notin Unopened
    <2>1. Begun' = Begun \cup {p}
      BY <1>1, <1>3 DEF Begun
    <2>2. /\ Cardinality(Begun \cup {p}) =
             IF p \in Begun THEN Cardinality(Begun) ELSE Cardinality(Begun) + 1
          /\ Cardinality(Begun) \in Nat
      BY <1>2, FS_AddElement, FS_CardinalityType
    <2>3. pc[p] = "open" => p \notin Begun
      BY DEF Begun, Unopened
    <2>4. Cardinality(Begun)' = IF p \in Begun THEN Cardinality(Begun) ELSE Cardinality(Begun) + 1
      BY <2>1, <2>2
    <2> QED BY <2>2, <2>3, <2>4
  <1>4. CASE place \in Unopened
    <2>1. Begun' = Begun
      BY <1>1, <1>4 DEF Begun
    <2> QED BY <1>2, <1>4, <2>1, FS_CardinalityType
  <1> QED BY <1>3, <1>4

LEMMA HoldersHaveFiles ==
  ASSUME LockInv, NEW p \in Applies, Opened(p) PROVE fd[p] \in Files
  BY FilesSuffice DEF LockInv, ClaimTypes, FilesAreCounted, Files, NoFile

\* One apply goes on, and touches no lock file, save that it may remove the name.
LEMMA LockMoving ==
  ASSUME LockInv, NEW p \in Applies, NEW place \in Places, Goes(p, place),
         UNCHANGED <<fd, made, owner>>, name' \in {name, NoFile},
         place \in Unopened => pc[p] \in Unopened,
         place \notin Unopened \cup {"unlink", "gone"} => Holds(p)
  PROVE  LockInv'
  <1> USE DEF LockInv, ClaimTypes, NoFile
  <1>1. \A q \in Applies : pc'[q] = IF q = p THEN place ELSE pc[q]
    BY DEF Goes
  <1>2. ClaimTypes'
    BY DEF Goes
  <1>3. \A q \in Applies : /\ Holds(q)' => Holds(q)
                           /\ Opened(q)' => Opened(q)
    BY <1>1 DEF Holds, Opened, Inside, At, Unopened, Preflight
  <1>4. Cardinality(Begun)' \in Nat /\ Cardinality(Begun) <= Cardinality(Begun)'
    BY BegunGrows
  <1>5. FilesAreCounted'
    BY <1>3, <1>4, FilesSuffice DEF FilesAreCounted
  <1>6. HoldersOwn'
    BY <1>3 DEF HoldersOwn
  <1> QED BY <1>2, <1>5, <1>6

LEMMA OpensLock == ASSUME LockInv, NEW p \in Applies, Opens(p) PROVE LockInv'
  <1> USE DEF LockInv, ClaimTypes
  <1>0. pc[p] = "open" /\ "lock" \in Places /\ "lock" \notin Unopened /\ Goes(p, "lock")
    BY DEF Opens, At, Places, Inside, Unopened, Preflight
  <1>1. \A q \in Applies : pc'[q] = IF q = p THEN "lock" ELSE pc[q]
    BY <1>0 DEF Goes
  <1>2. /\ made' \in Nat /\ name' \in 1..made' /\ made <= made' /\ made' <= made + 1
        /\ \A q \in Applies : fd'[q] = IF q = p THEN name' ELSE fd[q]
    BY DEF Opens, NoFile, FilesAreCounted
  <1>3. ClaimTypes'
    BY <1>0, <1>2 DEF Goes, Opens
  <1>4. Cardinality(Begun)' = Cardinality(Begun) + 1
    BY <1>0, BegunGrows
  <1>5. \A q \in Applies : /\ Holds(q)' => Holds(q) /\ q # p
                           /\ Opened(q)' => q = p \/ Opened(q)
    BY <1>1 DEF Holds, Opened, Inside, At
  <1>6. FilesAreCounted'
    BY <1>2, <1>4, <1>5, FilesSuffice DEF FilesAreCounted, NoFile
  <1>7. HoldersOwn'
    BY <1>2, <1>5 DEF HoldersOwn, Opens
  <1> QED BY <1>3, <1>6, <1>7

\* The flock is free for the one that takes it.
LEMMA LocksLock == ASSUME LockInv, NEW p \in Applies, Locks(p) PROVE LockInv'
  <1> USE DEF LockInv, ClaimTypes
  <1>0. pc[p] = "lock" /\ {"identity", "gone"} \subseteq Places \ Unopened
    BY DEF Locks, At, Places, Inside, Unopened, Preflight
  <1>1. CASE owner[fd[p]] = NoApply
    <2>1. /\ owner' = [owner EXCEPT ![fd[p]] = p] /\ Goes(p, "identity")
          /\ UNCHANGED <<fd, name, made>>
      BY <1>1 DEF Locks
    <2>2. \A q \in Applies : pc'[q] = IF q = p THEN "identity" ELSE pc[q]
      BY <2>1 DEF Goes
    <2>3. ClaimTypes'
      BY <1>0, <2>1 DEF Goes
    <2>4. fd[p] \in Files
      BY <1>0, HoldersHaveFiles DEF Opened, Inside, At
    <2>5. Cardinality(Begun)' \in Nat /\ Cardinality(Begun) <= Cardinality(Begun)'
      BY <1>0, <2>1, BegunGrows
    <2>6. \A q \in Applies : /\ Holds(q)' => Holds(q) \/ q = p
                             /\ Opened(q)' => Opened(q)
      BY <1>0, <2>2 DEF Holds, Opened, Inside, At
    <2>7. FilesAreCounted'
      BY <2>1, <2>5, <2>6, FilesSuffice DEF FilesAreCounted
    <2>8. HoldersOwn'
      <3>1. owner'[fd[p]] = p
        BY <2>1, <2>4
      <3>2. \A q \in Applies : Holds(q) => fd[q] # fd[p]
        BY <1>1, NoApplyAssumption DEF HoldersOwn
      <3>3. \A q \in Applies : fd[q] # fd[p] => owner'[fd[q]] = owner[fd[q]]
        BY <2>1
      <3> QED BY <2>1, <2>6, <3>1, <3>2, <3>3 DEF HoldersOwn
    <2> QED BY <2>3, <2>7, <2>8
  <1>2. CASE owner[fd[p]] # NoApply
    <2>1. UNCHANGED <<fd, name, made, owner>> /\ Goes(p, "gone")
      BY <1>2 DEF Locks
    <2> QED BY <1>0, <2>1, LockMoving
  <1> QED BY <1>1, <1>2

\* Nobody but the one that goes loses a flock.
LEMMA LeavesLock ==
  ASSUME LockInv, NEW p \in Applies, NEW place \in {"unlink", "gone"}, Goes(p, place),
         fd' = [fd EXCEPT ![p] = NoFile], UNCHANGED <<name, made>>,
         owner' = [f \in Files |-> owner'[f]],
         \A q \in Applies \ {p} : Holds(q) /\ owner[fd[q]] = q => owner'[fd[q]] = q
  PROVE  LockInv'
  <1> USE DEF LockInv, ClaimTypes
  <1>0. place \in Places \ Unopened
    BY DEF Places, Inside, Unopened, Preflight
  <1>1. \A q \in Applies : /\ pc'[q] = IF q = p THEN place ELSE pc[q]
                           /\ fd'[q] = IF q = p THEN NoFile ELSE fd[q]
    BY DEF Goes
  <1>2. ClaimTypes'
    BY <1>0 DEF Goes, NoFile
  <1>3. Cardinality(Begun)' \in Nat /\ Cardinality(Begun) <= Cardinality(Begun)'
    BY <1>0, BegunGrows
  <1>4. \A q \in Applies : /\ Holds(q)' => Holds(q) /\ q # p
                           /\ Opened(q)' => Opened(q) /\ q # p
    BY <1>1 DEF Holds, Opened, Inside, At
  <1>5. FilesAreCounted'
    BY <1>1, <1>3, <1>4, FilesSuffice DEF FilesAreCounted, NoFile
  <1>6. HoldersOwn'
    BY <1>1, <1>4 DEF HoldersOwn
  <1> QED BY <1>2, <1>5, <1>6

\* Prune takes a flock that is free, and gives back that one.
LEMMA PruneLock ==
  ASSUME LockInv, UNCHANGED <<pc, fd, made>>, name' \in {name, NoFile},
         owner' = [f \in Files |-> owner'[f]],
         \A q \in Applies : Holds(q) /\ owner[fd[q]] = q => owner'[fd[q]] = q
  PROVE  LockInv'
  <1> USE DEF LockInv, ClaimTypes
  <1>1. ClaimTypes'
    BY DEF NoFile
  <1>2. /\ Begun' = Begun
        /\ \A q \in Applies : (Holds(q)' <=> Holds(q)) /\ (Opened(q)' <=> Opened(q))
    BY DEF Begun, Holds, Opened, Inside, At
  <1>3. FilesAreCounted'
    BY <1>2, FilesSuffice DEF FilesAreCounted, NoFile
  <1>4. HoldersOwn'
    BY <1>2 DEF HoldersOwn
  <1> QED BY <1>1, <1>3, <1>4

LEMMA LockUnchanged == ASSUME LockInv, UNCHANGED <<pc, lockVars>> PROVE LockInv'
  BY PruneLock DEF lockVars, LockInv, ClaimTypes

LEMMA LockApplyStep == ASSUME LockInv, NEW p \in Applies, Apply(p) PROVE LockInv'
  <1> USE DEF At, Holds, Places, Inside, Unopened, Preflight, lockVars
  <1>1. CASE Spawns(p) \/ Refuses(p) \/ ReadsPlan(p) \/ ListsFiles(p)
    BY <1>1, LockMoving DEF Spawns, Refuses, ReadsPlan, ListsFiles, claimVars
  <1>2. CASE VerifiesSources(p) \/ StagesFile(p)
    <2>1. CASE UNCHANGED pc
      BY <1>2, <2>1, LockUnchanged DEF VerifiesSources, StagesFile, claimVars
    <2>2. CASE pc[p] = "verify" /\ Goes(p, "open") /\ UNCHANGED lockVars
      BY <2>2, LockMoving
    <2> QED BY <1>2, <2>1, <2>2 DEF VerifiesSources, StagesFile, claimVars
  <1>3. CASE Opens(p) \/ Locks(p)
    BY <1>3, OpensLock, LocksLock
  <1>4. CASE Launches(p) \/ WritesIdentity(p) \/ ChecksEndpoint(p) \/ BeginsProvision(p)
    BY <1>4, LockMoving DEF Launches, WritesIdentity, ChecksEndpoint, BeginsProvision, claimVars
  <1>5. CASE Assigns(p) \/ RecordsEndpoint(p) \/ Finishes(p) \/ ClearsIdentity(p) \/ Unlinks(p)
    <2>1. CASE Unlinks(p)
      BY <2>1, LockMoving DEF Unlinks
    <2>2. CASE Assigns(p)
      BY <2>2, LockMoving DEF Assigns
    <2>3. CASE RecordsEndpoint(p) \/ Finishes(p) \/ ClearsIdentity(p)
      BY <2>3, LockMoving DEF RecordsEndpoint, Finishes, ClearsIdentity
    <2> QED BY <1>5, <2>1, <2>2, <2>3
  <1>6. CASE Unlocks(p)
    <2>1. \A q \in Applies \ {p} : owner[fd[q]] = q => owner'[fd[q]] = q
      BY <1>6 DEF Unlocks, LockInv, ClaimTypes, HoldersOwn
    <2> QED BY <1>6, <2>1, LeavesLock DEF Unlocks, LockInv, ClaimTypes
  <1>7. CASE Dies(p)
    <2>1. owner' = [f \in Files |-> IF owner[f] = p THEN NoApply ELSE owner[f]]
      BY <1>7 DEF Dies
    <2>2. \A q \in Applies : fd[q] \in Files \/ ~Holds(q)
      BY HoldersHaveFiles DEF Opened, Inside
    <2>3. owner' = [f \in Files |-> owner'[f]]
      BY <2>1
    <2>4. \A q \in Applies \ {p} : Holds(q) /\ owner[fd[q]] = q => owner'[fd[q]] = q
      BY <2>1, <2>2
    <2> QED BY <1>7, <2>3, <2>4, LeavesLock DEF Dies
  <1> QED BY <1>1, <1>2, <1>3, <1>4, <1>5, <1>6, <1>7 DEF Apply

LEMMA LockPruneStep == ASSUME LockInv, Prune PROVE LockInv'
  <1> USE DEF LockInv, ClaimTypes
  <1>1. UNCHANGED <<pc, fd, made>>
    <2>1. PruneRest
      BY Zenon DEF Prune, PruneReads, PruneProbes, PruneLetsGo, PruneDeletes
    <2> QED BY <2>1 DEF PruneRest
  <1>2. CASE PruneReads \/ PruneDeletes
    BY <1>1, <1>2, PruneLock DEF PruneReads, PruneDeletes
  <1>3. CASE PruneProbes \/ PruneLetsGo
    <2>1. owner' = [f \in Files |-> owner'[f]] /\ UNCHANGED name
      BY <1>3 DEF PruneProbes, PruneLetsGo
    <2>2. \A q \in Applies : Holds(q) /\ owner[fd[q]] = q => owner'[fd[q]] = q
      BY <1>3, HoldersOpen, HoldersHaveFiles, NoApplyAssumption DEF PruneProbes, PruneLetsGo
    <2> QED BY <1>1, <2>1, <2>2, PruneLock
  <1> QED BY <1>2, <1>3 DEF Prune

THEOREM LockInvariance == Spec => []LockInv
  <1>1. ASSUME Init PROVE LockInv
    <2>1. ClaimTypes /\ HoldersOwn
      BY <1>1 DEF Init, ClaimTypes, HoldersOwn, Holds, Places, Inside, Unopened, Preflight, NoFile
    <2>2. FilesAreCounted
      BY <1>1, FilesSuffice DEF Init, FilesAreCounted, Opened, Inside, Holds, At, NoFile
    <2> QED BY <2>1, <2>2 DEF LockInv
  <1>2. ASSUME LockInv, [Next]_vars PROVE LockInv'
    <2>1. CASE UNCHANGED vars \/ (Elsewhere /\ UNCHANGED <<pc, claimVars>>)
      BY <1>2, <2>1, LockUnchanged DEF vars, claimVars
    <2> QED BY <1>2, <2>1, LockPruneStep, LockApplyStep DEF Next
  <1> QED BY <1>1, <1>2, PTL DEF Spec

-----------------------------------------------------------------------------
(***************************************************************************)
(* Who works, and on which VM.  The claim excludes because all applies that *)
(* have a lock file open have the same: the name leads to it, or to nothing *)
(* once one has removed it.  One that comes then makes another file, and    *)
(* locks that: from there on nothing is claimed (raced).                    *)
(***************************************************************************)
NameIsOpened ==
  \A p, q \in Applies :
    Opened(p) => name \in {fd[p], NoFile} /\ (Opened(q) => fd[p] = fd[q])

HolderIsNamed ==
  \A p \in Applies : pc[p] \in Working \cup {"check", "clear"} => ident = p

VmTypes ==
  /\ envelope \in {"none", "open", "over"} /\ recorded \in BOOLEAN
  /\ assigned \subseteq {p \in Applies : pc[p] \notin Unopened}
  /\ lost \subseteq {p \in Applies : pc[p] = "gone"}

\* What the record says of the VMs, and that it says nothing of one while an
\* apply goes to assign one.
VmIsKnown ==
  /\ \A p, q \in Known : p = q
  /\ \A p \in Known : envelope = "open" /\ (At(p, "record") \/ recorded)
  /\ \A p \in Applies : pc[p] \in {"begin", "assign"} => ~recorded
  /\ \A p \in Applies : At(p, "assign") => envelope = "open"
  /\ \A p \in Applies : pc[p] \in {"record", "stage", "upload", "work"} => p \in Known
  /\ recorded => envelope # "none"

\* A name is taken away only after an envelope was written.
EndsHaveEnvelope ==
  prune = "off" /\ envelope = "none" =>
    /\ \A p \in Applies : pc[p] \notin {"clear", "unlock", "unlink"}
    /\ \A p \in Applies : Opened(p) => name = fd[p]

\* Prune saw only applies that are gone.  If it took one for gone that holds the
\* claim, another has removed the name, is gone, and prune has not seen that.
Missed == \E q \in Applies \ seen : pc[q] = "gone"

SeenAreGone ==
  /\ prune = "probe" =>
       /\ \A p \in Applies \cap seen : pc[p] = "gone" /\ p \notin Known
       /\ \A p \in Applies : Opened(p) /\ name # fd[p] => Missed
  /\ prune \in {"let go", "delete"} =>
       Missed \/ \A p \in Applies \cap seen : pc[p] \in {"unlink", "gone"} /\ p \notin Known

ClaimIsSound ==
  /\ NameIsOpened /\ EndsHaveEnvelope /\ SeenAreGone
  /\ HolderIsNamed /\ VmTypes /\ VmIsKnown

PruneOvertakesLast == prune # "done" => ~overtaken

ClaimInv == PruneOvertakesLast /\ (Undisturbed => ClaimIsSound)

\* The claim excludes: two holders have opened the file of one name.
LEMMA OneHolder ==
  ASSUME LockInv, NameIsOpened, NEW p \in Applies, NEW q \in Applies, Holds(p), Holds(q)
  PROVE  p = q
  <1> SUFFICES ASSUME p # q PROVE FALSE
    OBVIOUS
  <1>1. fd[p] = fd[q]
    BY HoldersOpen DEF NameIsOpened
  <1> QED BY <1>1 DEF LockInv, HoldersOwn

\* An apply goes on that neither opens a file nor removes the name.
LEMMA NameMoving ==
  ASSUME LockInv, NameIsOpened, EndsHaveEnvelope, SeenAreGone,
         NEW p \in Applies, NEW place \in Places, Goes(p, place), pc[p] # "gone",
         UNCHANGED <<name, pruneVars>>, \A q \in Applies : q # p => fd'[q] = fd[q],
         place \in Inside => pc[p] \in Inside /\ fd'[p] = fd[p],
         pc[p] = "unlink" => place = "gone",
         prune = "off" /\ envelope' = "none" =>
           envelope = "none" /\ place \notin {"clear", "unlock", "unlink"},
         \A q \in Known' : q \in Known \/ Holds(q)
  PROVE  NameIsOpened' /\ EndsHaveEnvelope' /\ SeenAreGone'
  <1> USE DEF pruneVars
  <1>1. \A q \in Applies : pc'[q] = IF q = p THEN place ELSE pc[q]
    BY DEF LockInv, ClaimTypes, Goes
  <1>2. \A q \in Applies : Opened(q)' => Opened(q) /\ fd'[q] = fd[q]
    BY <1>1 DEF Opened, Inside, Holds, At
  <1>3. NameIsOpened'
    BY <1>1, <1>2 DEF NameIsOpened
  <1>4. EndsHaveEnvelope'
    BY <1>1, <1>2 DEF EndsHaveEnvelope
  <1>5. Missed => Missed'
    BY <1>1 DEF Missed
  <1>6. \A q \in Applies : /\ pc[q] = "gone" => pc'[q] = "gone"
                           /\ pc[q] \in {"unlink", "gone"} =>
                                pc'[q] \in {"unlink", "gone"} /\ ~Holds(q)
    BY <1>1 DEF Holds
  <1>7. SeenAreGone'
    BY <1>2, <1>5, <1>6 DEF SeenAreGone
  <1> QED BY <1>3, <1>4, <1>7

\* An apply goes on, and changes neither the record nor a VM.
LEMMA VmMoving ==
  ASSUME LockInv, VmTypes, VmIsKnown,
         NEW p \in Applies, NEW place \in Places, Goes(p, place), pc[p] \notin {"gone", "record"},
         UNCHANGED <<envelope, recorded, vmVars>>,
         place \in Unopened => pc[p] \in Unopened, place # "record",
         place \in {"begin", "assign"} => ~recorded,
         place = "assign" => envelope = "open",
         place \in {"stage", "upload", "work"} => p \in Known
  PROVE  VmTypes' /\ VmIsKnown' /\ Known' = Known
  <1> USE DEF vmVars
  <1>1. \A q \in Applies : pc'[q] = IF q = p THEN place ELSE pc[q]
    BY DEF LockInv, ClaimTypes, Goes
  <1>2. VmTypes'
    BY <1>1 DEF VmTypes
  <1>3. Known' = Known /\ Known \subseteq Applies
    BY DEF Known, VmTypes
  <1>4. VmIsKnown'
    BY <1>1, <1>3 DEF VmIsKnown, At
  <1> QED BY <1>2, <1>3, <1>4

\* Both, when supervisor.json names the one that needs it.
LEMMA SoundMoving ==
  ASSUME LockInv, ClaimIsSound,
         NEW p \in Applies, NEW place \in Places, Goes(p, place), pc[p] \notin {"gone", "record"},
         UNCHANGED <<name, pruneVars, envelope, recorded, vmVars>>,
         \A q \in Applies : q # p => fd'[q] = fd[q],
         place \in Inside => pc[p] \in Inside /\ fd'[p] = fd[p],
         place \in Unopened => pc[p] \in Unopened, place # "record",
         pc[p] = "unlink" => place = "gone",
         prune = "off" /\ envelope = "none" => place \notin {"clear", "unlock", "unlink"},
         place \in {"begin", "assign"} => ~recorded,
         place = "assign" => envelope = "open",
         place \in {"stage", "upload", "work"} => p \in Known,
         \/ ident' = ident /\ (place \in Working \cup {"check", "clear"} =>
                                 pc[p] \in Working \cup {"check", "clear"})
         \/ Holds(p) /\ (ident' = p \/ place \notin Working \cup {"check", "clear"})
  PROVE  ClaimIsSound'
  <1> USE DEF ClaimIsSound
  <1>1. VmTypes' /\ VmIsKnown' /\ Known' = Known
    BY VmMoving
  <1>2. NameIsOpened' /\ EndsHaveEnvelope' /\ SeenAreGone'
    BY <1>1, NameMoving
  <1>3. \A q \in Applies : pc'[q] = IF q = p THEN place ELSE pc[q]
    BY DEF LockInv, ClaimTypes, Goes
  <1>4. HolderIsNamed'
    BY <1>3, OneHolder DEF HolderIsNamed, Holds, Working
  <1> QED BY <1>1, <1>2, <1>4

LEMMA SoundUnchanged == ASSUME ClaimIsSound, UNCHANGED <<pc, claimVars>> PROVE ClaimIsSound'
  <1> USE DEF claimVars, lockVars, recordVars, vmVars, pruneVars
  <1>1. /\ \A q \in Applies : Opened(q)' <=> Opened(q)
        /\ Missed' <=> Missed
        /\ Known' = Known
    BY DEF Opened, Inside, Missed, Known
  <1>2. NameIsOpened' /\ EndsHaveEnvelope' /\ SeenAreGone'
    BY <1>1 DEF ClaimIsSound, NameIsOpened, EndsHaveEnvelope, SeenAreGone
  <1>3. HolderIsNamed' /\ VmTypes' /\ VmIsKnown'
    BY <1>1 DEF ClaimIsSound, HolderIsNamed, VmTypes, VmIsKnown, At
  <1> QED BY <1>2, <1>3 DEF ClaimIsSound

\* The steps that change no record and no VM.
LEMMA QuietSteps ==
  ASSUME LockInv, ClaimIsSound, NEW p \in Applies,
         \/ Spawns(p) \/ Refuses(p) \/ ReadsPlan(p) \/ ListsFiles(p) \/ VerifiesSources(p)
         \/ StagesFile(p) \/ Launches(p) \/ Locks(p) \/ WritesIdentity(p) \/ ChecksEndpoint(p)
         \/ ClearsIdentity(p) \/ Unlocks(p)
  PROVE  ClaimIsSound'
  <1> USE DEF At, Inside, Places, Unopened, Preflight, Working, Holds, claimVars, lockVars,
              recordVars
  <1>1. CASE Spawns(p) \/ Refuses(p) \/ ReadsPlan(p) \/ VerifiesSources(p) \/ StagesFile(p)
    <2>1. CASE UNCHANGED <<pc, claimVars>>
      BY <2>1, SoundUnchanged
    <2>2. CASE Spawns(p)
      BY <2>2, SoundMoving DEF Spawns
    <2>3. CASE Refuses(p) \/ ReadsPlan(p)
      BY <2>3, SoundMoving DEF Refuses, ReadsPlan
    <2>4. CASE VerifiesSources(p) /\ Goes(p, "open")
      BY <2>4, SoundMoving DEF VerifiesSources
    <2> QED BY <1>1, <2>1, <2>2, <2>3, <2>4 DEF VerifiesSources, StagesFile
  <1>2. CASE ListsFiles(p) \/ Launches(p)
    <2>1. pc[p] \in {"stage", "upload"} => p \in Known
      BY DEF ClaimIsSound, VmIsKnown
    <2> QED BY <1>2, <2>1, SoundMoving DEF ListsFiles, Launches
  <1>3. CASE Locks(p)
    BY <1>3, SoundMoving DEF Locks
  <1>4. CASE WritesIdentity(p)
    BY <1>4, SoundMoving DEF WritesIdentity
  <1>5. CASE ChecksEndpoint(p)
    <2>1. recorded => envelope # "none"
      BY DEF ClaimIsSound, VmIsKnown
    <2> QED BY <1>5, <2>1, SoundMoving DEF ChecksEndpoint
  <1>6. CASE ClearsIdentity(p) \/ Unlocks(p)
    <2>1. pc[p] \in {"clear", "unlock"} => ~(prune = "off" /\ envelope = "none")
      BY DEF ClaimIsSound, EndsHaveEnvelope
    <2>2. CASE ClearsIdentity(p)
      BY <2>1, <2>2, SoundMoving DEF ClearsIdentity
    <2>3. CASE Unlocks(p)
      <3>1. \A q \in Applies : q # p => fd'[q] = fd[q]
        BY <2>3 DEF Unlocks, LockInv, ClaimTypes
      <3> QED BY <2>1, <2>3, <3>1, SoundMoving DEF Unlocks
    <2> QED BY <1>6, <2>2, <2>3
  <1> QED BY <1>1, <1>2, <1>3, <1>4, <1>5, <1>6

\* While one holds the claim the others are before it or past it, and a VM that
\* is known of is in the record, or this one's.
LEMMA OthersAreOut ==
  ASSUME LockInv, ClaimIsSound, NEW p \in Applies, Holds(p)
  PROVE  /\ \A q \in Applies \ {p} : ~Holds(q)
         /\ \A q \in Known : q \in Applies /\ (q = p \/ recorded)
         /\ Known \subseteq Applies
  <1>1. \A q \in Applies \ {p} : ~Holds(q)
    BY OneHolder DEF ClaimIsSound
  <1>2. Known \subseteq Applies
    BY DEF ClaimIsSound, VmTypes, Known
  <1>3. \A q \in Known : q = p \/ recorded
    BY <1>1, <1>2 DEF ClaimIsSound, VmIsKnown, At, Holds
  <1> QED BY <1>1, <1>2, <1>3

\* What is left to show of a step of a holder that changes the record or a VM.
LEMMA HolderMoving ==
  ASSUME LockInv, ClaimIsSound, NEW p \in Applies, Holds(p), NEW place \in Places,
         Goes(p, place), UNCHANGED <<lockVars, ident, pruneVars>>,
         place \in Inside, place \in Working \cup {"check", "clear"} => pc[p] \in Working,
         prune = "off" /\ envelope' = "none" => envelope = "none" /\ place # "clear",
         place # "unlock",
         VmTypes',
         \A q \in Known' : q = p,
         \A q \in Known' : envelope' = "open" /\ (place = "record" \/ recorded'),
         place \in {"begin", "assign"} => ~recorded',
         place = "assign" => envelope' = "open",
         place \in {"record", "stage", "upload", "work"} => p \in Known',
         recorded' => envelope' # "none"
  PROVE  ClaimIsSound'
  <1> USE DEF ClaimIsSound, lockVars
  <1>1. \A q \in Applies : pc'[q] = IF q = p THEN place ELSE pc[q]
    BY DEF LockInv, ClaimTypes, Goes
  <1>2. \A q \in Applies \ {p} : pc[q] \notin Working \cup {"check", "clear"}
    BY OthersAreOut DEF Holds, Working
  <1>3. HolderIsNamed'
    BY <1>1, <1>2 DEF HolderIsNamed
  <1>4. VmIsKnown'
    BY <1>1, <1>2 DEF VmIsKnown, At, Working
  <1>5. NameIsOpened' /\ EndsHaveEnvelope' /\ SeenAreGone'
    <2>1. pc[p] \in Inside /\ pc[p] # "gone" /\ pc[p] # "unlink"
      BY DEF Holds, Inside
    <2>2. place \notin {"unlink", "unlock"}
      BY DEF Inside
    <2> QED BY <2>1, <2>2, NameMoving
  <1> QED BY <1>3, <1>4, <1>5

LEMMA BeginsProvisionSound ==
  ASSUME LockInv, ClaimIsSound, NEW p \in Applies, BeginsProvision(p) PROVE ClaimIsSound'
  <1> USE DEF Places, Inside, Unopened, Preflight, Working
  <1>0. pc[p] = "begin" /\ Holds(p) /\ ~recorded
    BY DEF BeginsProvision, At, Holds, ClaimIsSound, VmIsKnown
  <1>1. \A q \in Applies : pc'[q] = IF q = p THEN "assign" ELSE pc[q]
    BY DEF BeginsProvision, LockInv, ClaimTypes, Goes
  <1>2. Known = {} /\ Known' = {}
    <2>1. p \notin Known
      BY <1>0 DEF ClaimIsSound, VmIsKnown, At
    <2>2. UNCHANGED vmVars
      BY DEF BeginsProvision
    <2> QED BY <1>0, <2>1, <2>2, OthersAreOut DEF Known, vmVars
  <1>3. VmTypes'
    BY <1>0, <1>1 DEF BeginsProvision, ClaimIsSound, VmTypes, vmVars
  <1> QED BY <1>0, <1>2, <1>3, HolderMoving DEF BeginsProvision

LEMMA AssignsSound ==
  ASSUME LockInv, ClaimIsSound, NEW p \in Applies, Assigns(p) PROVE ClaimIsSound'
  <1> USE DEF Places, Inside, Unopened, Preflight, Working
  <1>0. pc[p] = "assign" /\ Holds(p) /\ ~recorded /\ envelope = "open" /\ p \notin lost
    BY DEF Assigns, At, Holds, ClaimIsSound, VmIsKnown, VmTypes
  <1>1. p \notin Known
    BY <1>0 DEF ClaimIsSound, VmIsKnown, At
  <1>2. Known = {}
    BY <1>0, <1>1, OthersAreOut
  <1>3. UNCHANGED <<lockVars, ident, recorded, lost, pruneVars>>
    BY DEF Assigns
  <1>4. CASE assigned' = assigned \cup {p} /\ Goes(p, "record") /\ UNCHANGED envelope
    <2>1. \A q \in Applies : pc'[q] = IF q = p THEN "record" ELSE pc[q]
      BY <1>4 DEF LockInv, ClaimTypes, Goes
    <2>2. Known' = {p}
      BY <1>0, <1>2, <1>3, <1>4 DEF Known
    <2>3. VmTypes'
      BY <1>0, <1>3, <1>4, <2>1 DEF ClaimIsSound, VmTypes
    <2> QED BY <1>0, <1>3, <1>4, <2>2, <2>3, HolderMoving
  <1>5. CASE envelope' = "over" /\ Goes(p, "clear") /\ UNCHANGED assigned
    <2>1. \A q \in Applies : pc'[q] = IF q = p THEN "clear" ELSE pc[q]
      BY <1>5 DEF LockInv, ClaimTypes, Goes
    <2>2. Known' = {}
      BY <1>2, <1>3, <1>5 DEF Known
    <2>3. VmTypes'
      BY <1>0, <1>3, <1>5, <2>1 DEF ClaimIsSound, VmTypes
    <2> QED BY <1>0, <1>3, <1>5, <2>2, <2>3, HolderMoving
  <1> QED BY <1>4, <1>5 DEF Assigns

LEMMA RecordsEndpointSound ==
  ASSUME LockInv, ClaimIsSound, NEW p \in Applies, RecordsEndpoint(p) PROVE ClaimIsSound'
  <1> USE DEF Places, Inside, Unopened, Preflight, Working
  <1>0. pc[p] = "record" /\ Holds(p) /\ p \in Known
    BY DEF RecordsEndpoint, At, Holds, ClaimIsSound, VmIsKnown
  <1>1. \A q \in Applies : pc'[q] = IF q = p THEN "stage" ELSE pc[q]
    BY DEF RecordsEndpoint, LockInv, ClaimTypes, Goes
  <1>2. Known' = Known /\ \A q \in Known : q = p
    BY <1>0 DEF RecordsEndpoint, Known, vmVars, ClaimIsSound, VmIsKnown
  <1>3. VmTypes'
    BY <1>0, <1>1 DEF RecordsEndpoint, ClaimIsSound, VmTypes, vmVars
  <1> QED BY <1>0, <1>2, <1>3, HolderMoving DEF RecordsEndpoint

LEMMA FinishesSound ==
  ASSUME LockInv, ClaimIsSound, NEW p \in Applies, Finishes(p) PROVE ClaimIsSound'
  <1> USE DEF Places, Inside, Unopened, Preflight, Working
  <1>0. pc[p] \in {"stage", "upload", "work"} /\ Holds(p) /\ p \in Known
    BY DEF Finishes, Holds, ClaimIsSound, VmIsKnown
  <1>1. \A q \in Applies : pc'[q] = IF q = p THEN "clear" ELSE pc[q]
    BY DEF Finishes, LockInv, ClaimTypes, Goes
  <1>2. Known' = Known \/ Known' = Known \ {p}
    BY DEF Finishes, Known
  <1>3. \A q \in Known : q = p
    BY <1>0 DEF ClaimIsSound, VmIsKnown
  <1>4. envelope' \in {"over", "open"} /\ (\A q \in Known' : envelope' = "open" /\ recorded')
    BY <1>0, <1>3 DEF Finishes, Known
  <1>5. VmTypes'
    BY <1>0, <1>1 DEF Finishes, ClaimIsSound, VmTypes
  <1> QED BY <1>0, <1>2, <1>3, <1>4, <1>5, HolderMoving DEF Finishes

\* A VM that was not recorded yet is lost with the one that dies.
LEMMA DiesSound ==
  ASSUME LockInv, ClaimIsSound, NEW p \in Applies, Dies(p) PROVE ClaimIsSound'
  <1> USE DEF Places, Inside, Unopened, Preflight
  <1>0. pc[p] # "gone" /\ Goes(p, "gone")
    BY DEF Dies
  <1>1. \A q \in Applies : /\ pc'[q] = IF q = p THEN "gone" ELSE pc[q]
                           /\ q # p => fd'[q] = fd[q]
    BY DEF Dies, LockInv, ClaimTypes, Goes
  <1>2. Known' = IF At(p, "record") THEN Known \ {p} ELSE Known
    BY DEF Dies, Known
  <1>3. NameIsOpened' /\ EndsHaveEnvelope' /\ SeenAreGone'
    BY <1>0, <1>1, <1>2, NameMoving DEF Dies, ClaimIsSound, recordVars
  <1>4. HolderIsNamed'
    BY <1>1 DEF Dies, ClaimIsSound, HolderIsNamed, recordVars, Working
  <1>5. VmTypes'
    <2>1. assigned' \subseteq {q \in Applies : pc'[q] \notin Unopened}
      BY <1>1 DEF Dies, ClaimIsSound, VmTypes
    <2>2. lost' \subseteq {q \in Applies : pc'[q] = "gone"}
      BY <1>1 DEF Dies, ClaimIsSound, VmTypes
    <2> QED BY <2>1, <2>2 DEF Dies, ClaimIsSound, VmTypes, recordVars
  <1>6. VmIsKnown'
    <2>1. Known \subseteq Applies
      BY DEF Known, ClaimIsSound, VmTypes
    <2> QED BY <1>1, <1>2, <2>1 DEF Dies, ClaimIsSound, VmIsKnown, recordVars, At
  <1> QED BY <1>3, <1>4, <1>5, <1>6 DEF ClaimIsSound

\* The one that opens the file finds it under its name, or names a new one: no
\* other has a file open that has lost its name.
LEMMA OpensSound ==
  ASSUME LockInv, ClaimIsSound, NEW p \in Applies, Opens(p), ~raced' PROVE ClaimIsSound'
  <1> USE DEF Places, Unopened, Preflight
  <1>0. pc[p] = "open" /\ Goes(p, "lock") /\ UNCHANGED <<recordVars, vmVars, pruneVars>>
    BY DEF Opens, At
  <1>1. \A q \in Applies : /\ pc'[q] = IF q = p THEN "lock" ELSE pc[q]
                           /\ fd'[q] = IF q = p THEN name' ELSE fd[q]
    BY DEF Opens, LockInv, ClaimTypes, Goes
  <1>2. \A q \in Applies : Opened(q) => q # p /\ name = fd[q] /\ name' = fd[q]
    <2>1. \A q \in Applies : Opened(q) => q # p /\ fd[q] # NoFile /\ name \in {fd[q], NoFile}
      BY <1>0 DEF Opened, Inside, ClaimIsSound, NameIsOpened, LockInv, FilesAreCounted
    <2>2. (\E q \in Applies : fd[q] # NoFile) => name # NoFile
      BY DEF Opens
    <2> QED BY <2>1, <2>2 DEF Opens
  <1>3. \A q \in Applies : Opened(q)' => name' = fd'[q]
    BY <1>1, <1>2 DEF Opened
  <1>4. NameIsOpened'
    BY <1>3 DEF NameIsOpened
  <1>5. EndsHaveEnvelope'
    BY <1>0, <1>1, <1>3 DEF ClaimIsSound, EndsHaveEnvelope, recordVars, pruneVars
  <1>6. VmTypes' /\ VmIsKnown' /\ Known' = Known
    BY <1>0, VmMoving DEF ClaimIsSound, recordVars, Inside, Working
  <1>7. SeenAreGone'
    <2>1. Missed => Missed'
      BY <1>0, <1>1 DEF Missed, pruneVars
    <2>2. \A q \in Applies : pc[q] \in {"unlink", "gone"} => pc'[q] = pc[q]
      BY <1>0, <1>1
    <2> QED BY <1>0, <1>3, <1>6, <2>1, <2>2 DEF ClaimIsSound, SeenAreGone, pruneVars
  <1>8. HolderIsNamed'
    BY <1>0, <1>1 DEF ClaimIsSound, HolderIsNamed, Working, recordVars
  <1> QED BY <1>4, <1>5, <1>6, <1>7, <1>8 DEF ClaimIsSound

\* The name goes, and those that have its file open still have the same.
LEMMA UnlinksSound ==
  ASSUME LockInv, ClaimIsSound, NEW p \in Applies, Unlinks(p) PROVE ClaimIsSound'
  <1> USE DEF Places, Unopened, Preflight
  <1>0. /\ pc[p] = "unlink" /\ Goes(p, "gone") /\ name' = NoFile
        /\ UNCHANGED <<fd, recordVars, vmVars, pruneVars>>
    BY DEF Unlinks, At
  <1>1. \A q \in Applies : pc'[q] = IF q = p THEN "gone" ELSE pc[q]
    BY <1>0 DEF LockInv, ClaimTypes, Goes
  <1>2. ~(prune = "off" /\ envelope = "none")
    BY <1>0 DEF ClaimIsSound, EndsHaveEnvelope
  <1>3. \A q \in Applies : Opened(q)' => Opened(q)
    BY <1>1 DEF Opened, Inside
  <1>4. NameIsOpened'
    BY <1>0, <1>3 DEF ClaimIsSound, NameIsOpened
  <1>5. EndsHaveEnvelope'
    BY <1>0, <1>2 DEF EndsHaveEnvelope, recordVars, pruneVars
  <1>6. VmTypes' /\ VmIsKnown' /\ Known' = Known
    BY <1>0, VmMoving DEF ClaimIsSound, recordVars, Inside, Working
  <1>7. SeenAreGone'
    <2>1. Missed => Missed'
      BY <1>0, <1>1 DEF Missed, pruneVars
    <2>2. prune = "probe" => Missed'
      BY <1>0, <1>1 DEF ClaimIsSound, SeenAreGone, Missed, pruneVars
    <2> QED BY <1>0, <1>1, <1>6, <2>1, <2>2 DEF ClaimIsSound, SeenAreGone, pruneVars
  <1>8. HolderIsNamed'
    BY <1>0, <1>1 DEF ClaimIsSound, HolderIsNamed, Working, recordVars
  <1> QED BY <1>4, <1>5, <1>6, <1>7, <1>8 DEF ClaimIsSound

LEMMA SoundApplyStep ==
  ASSUME LockInv, ClaimIsSound, NEW p \in Applies, Apply(p), ~raced' PROVE ClaimIsSound'
  BY QuietSteps, BeginsProvisionSound, AssignsSound, RecordsEndpointSound, FinishesSound,
     DiesSound, OpensSound, UnlinksSound DEF Apply

\* Prune that only looks: what it has seen is still to be shown.
LEMMA PruneLooks ==
  ASSUME ClaimIsSound, prune' # "off",
         UNCHANGED <<pc, fd, name, ident, envelope, recorded, vmVars>>, SeenAreGone'
  PROVE  ClaimIsSound'
  <1> USE DEF ClaimIsSound, vmVars
  <1>1. Known' = Known /\ \A q \in Applies : Opened(q)' <=> Opened(q)
    BY DEF Known, Opened
  <1>2. NameIsOpened' /\ EndsHaveEnvelope'
    BY <1>1 DEF NameIsOpened, EndsHaveEnvelope
  <1>3. HolderIsNamed' /\ VmTypes' /\ VmIsKnown'
    BY <1>1 DEF HolderIsNamed, VmTypes, VmIsKnown, At
  <1> QED BY <1>2, <1>3

LEMMA PruneReadsSound == ASSUME LockInv, ClaimIsSound, PruneReads PROVE ClaimIsSound'
  <1>1. /\ UNCHANGED <<pc, fd, name, recordVars, vmVars>> /\ seen' = Past /\ prune = "off"
        /\ prune' = CASE envelope = "none" -> "probe"
                      [] envelope = "open" -> "done"
                      [] envelope = "over" -> "delete"
    BY DEF PruneReads, PruneRest, Prunes
  <1>2. prune' \in {"probe", "done", "delete"} /\ (prune' # "done" => Known = {})
        /\ (prune' = "probe" => envelope = "none")
    BY <1>1 DEF ClaimIsSound, VmTypes, VmIsKnown
  <1>3. Known' = Known
    BY <1>1 DEF Known, vmVars
  <1>4. SeenAreGone'
    BY <1>1, <1>2, <1>3 DEF SeenAreGone, ClaimIsSound, EndsHaveEnvelope, Past, Opened
  <1> QED BY <1>1, <1>2, <1>4, PruneLooks DEF recordVars

\* Where the name leads to no file that is locked, nobody holds the claim, or the
\* one that does has lost the name, to one that has gone since.
LEMMA PruneProbesSound == ASSUME LockInv, ClaimIsSound, PruneProbes PROVE ClaimIsSound'
  <1>1. /\ UNCHANGED <<pc, fd, name, recordVars, vmVars>>
        /\ seen' = seen \cup {p \in Applies : Holds(p)}
        /\ prune = "probe" /\ prune' \in {"let go", "delete", "done"}
        /\ prune' = "done" \/ name = NoFile \/ owner[name] = NoApply
    BY DEF PruneProbes, PruneRest, Prunes, Unheld
  <1>2. Known' = Known
    BY <1>1 DEF Known, vmVars
  <1>3. Missed => Missed'
    BY <1>1 DEF Missed, Holds
  <1>4. ASSUME NEW p \in Applies, Holds(p), prune' # "done" PROVE Missed'
    <2>1. owner[fd[p]] = p /\ fd[p] # NoFile
      BY <1>4, HoldersOpen DEF LockInv, HoldersOwn, FilesAreCounted
    <2>2. name # fd[p]
      BY <1>1, <1>4, <2>1, NoApplyAssumption
    <2> QED BY <1>1, <1>3, <1>4, <2>2, HoldersOpen DEF ClaimIsSound, SeenAreGone
  <1>5. SeenAreGone'
    BY <1>1, <1>2, <1>4 DEF SeenAreGone, ClaimIsSound
  <1> QED BY <1>1, <1>5, PruneLooks DEF recordVars

LEMMA PruneLetsGoSound == ASSUME LockInv, ClaimIsSound, PruneLetsGo PROVE ClaimIsSound'
  <1>1. /\ UNCHANGED <<pc, fd, name, recordVars, vmVars, seen>>
        /\ prune = "let go" /\ prune' \in {"delete", "done"}
    BY DEF PruneLetsGo, PruneRest, Prunes, Unheld
  <1>2. SeenAreGone'
    BY <1>1 DEF ClaimIsSound, SeenAreGone, Missed, Known, vmVars
  <1> QED BY <1>1, <1>2, PruneLooks DEF recordVars

\* When none is overtaken, nobody holds the claim, or a VM that is known of.
LEMMA PruneDeletesSound ==
  ASSUME LockInv, ClaimIsSound, PruneDeletes, ~overtaken' PROVE ClaimIsSound'
  <1>1. /\ UNCHANGED <<pc, fd, vmVars, seen>> /\ prune = "delete" /\ prune' = "done"
        /\ name' = NoFile /\ ident' = NoApply /\ envelope' = "none" /\ recorded' = FALSE
    BY DEF PruneDeletes, PruneRest, Prunes
  <1>2. \A p \in Applies \ seen : pc[p] \in Unopened
    BY DEF PruneDeletes, Unopened
  <1>3. ~Missed
    BY <1>2 DEF Missed, Unopened, Preflight
  <1>4. \A p \in Applies : pc[p] \in Unopened \cup {"unlink", "gone"} /\ p \notin Known
    BY <1>1, <1>2, <1>3 DEF ClaimIsSound, SeenAreGone, Known, VmTypes
  <1>5. \A p \in Applies : /\ ~Opened(p)
                           /\ pc[p] \notin Working \cup {"check", "clear", "record", "assign"}
    BY <1>4 DEF Opened, Inside, Unopened, Preflight, Working
  <1>6. Known' = {}
    BY <1>1, <1>4 DEF Known, vmVars, ClaimIsSound, VmTypes
  <1>7. NameIsOpened' /\ EndsHaveEnvelope' /\ SeenAreGone'
    BY <1>1, <1>5 DEF NameIsOpened, EndsHaveEnvelope, SeenAreGone, Opened
  <1>8. HolderIsNamed' /\ VmTypes'
    BY <1>1, <1>5 DEF HolderIsNamed, ClaimIsSound, VmTypes, vmVars
  <1>9. VmIsKnown'
    BY <1>1, <1>5, <1>6 DEF VmIsKnown, At, Working
  <1> QED BY <1>7, <1>8, <1>9 DEF ClaimIsSound

\* A step that prune does not take leaves it, and what it has seen.  A lock file
\* that was made too late stays so.
LEMMA ClaimStep ==
  ASSUME LockInv, ClaimInv, [Next]_vars PROVE ClaimInv'
  <1> USE DEF ClaimInv, PruneOvertakesLast, Undisturbed
  <1>1. CASE UNCHANGED vars \/ (Elsewhere /\ UNCHANGED <<pc, claimVars>>)
    BY <1>1, SoundUnchanged DEF vars, claimVars, pruneVars, lockVars
  <1>2. ASSUME NEW p \in Applies, Apply(p) PROVE ClaimInv'
    <2>1. UNCHANGED pruneVars
      BY <1>2, Zenon
         DEF Apply, Spawns, Refuses, ReadsPlan, ListsFiles, VerifiesSources, StagesFile, Launches,
             Opens, Locks, WritesIdentity, ChecksEndpoint, BeginsProvision, Assigns,
             RecordsEndpoint, Finishes, ClearsIdentity, Unlocks, Unlinks, Dies, claimVars
    <2>2. raced => raced'
      BY <1>2, Zenon
         DEF Apply, Spawns, Refuses, ReadsPlan, ListsFiles, VerifiesSources, StagesFile, Launches,
             Opens, Locks, WritesIdentity, ChecksEndpoint, BeginsProvision, Assigns,
             RecordsEndpoint, Finishes, ClearsIdentity, Unlocks, Unlinks, Dies, claimVars, lockVars
    <2> QED BY <1>2, <2>1, <2>2, SoundApplyStep DEF pruneVars
  <1>3. CASE PruneReads \/ PruneProbes \/ PruneLetsGo
    <2>1. UNCHANGED <<overtaken, raced>> /\ prune # "done"
      BY <1>3 DEF PruneReads, PruneProbes, PruneLetsGo, Prunes, PruneRest
    <2> QED BY <1>3, <2>1, PruneReadsSound, PruneProbesSound, PruneLetsGoSound
  <1>4. CASE PruneDeletes
    BY <1>4, PruneDeletesSound DEF PruneDeletes, Prunes, PruneRest
  <1> QED BY <1>1, <1>2, <1>3, <1>4 DEF Next, Prune

THEOREM ClaimInvariance == Spec => []ClaimInv
  <1>1. ASSUME Init PROVE ClaimInv
    <2> USE <1>1 DEF Init
    <2>1. \A p \in Applies : pc[p] = "start" /\ ~Opened(p)
      BY DEF Opened, Inside
    <2>2. Known = {}
      BY DEF Known
    <2>3. NameIsOpened /\ EndsHaveEnvelope /\ SeenAreGone
      BY <2>1 DEF NameIsOpened, EndsHaveEnvelope, SeenAreGone
    <2>4. HolderIsNamed /\ VmTypes /\ VmIsKnown
      BY <2>1, <2>2 DEF HolderIsNamed, VmTypes, VmIsKnown, Working, At
    <2> QED BY <2>3, <2>4 DEF ClaimInv, PruneOvertakesLast, ClaimIsSound
  <1> QED BY <1>1, ClaimStep, LockInvariance, PTL DEF Spec

\* However many applies of a job there are, only the one that supervisor.json
\* names works, as long as none makes a lock file beside another's.
THEOREM OneWorks == Spec => []IdentityNamesWorker
  <1>1. ClaimInv => IdentityNamesWorker
    BY DEF ClaimInv, ClaimIsSound, HolderIsNamed, IdentityNamesWorker
  <1> QED BY <1>1, ClaimInvariance, PTL

\* And the job has at most one VM that something knows of, which its record has
\* as soon as the apply has moved on.
THEOREM OneVm == Spec => []OneKnownVm
  <1>1. ClaimInv => OneKnownVm
    BY DEF ClaimInv, ClaimIsSound, VmIsKnown, OneKnownVm, Known
  <1> QED BY <1>1, ClaimInvariance, PTL
=============================================================================
