--------------------------- MODULE TransfersProofs ---------------------------
(***************************************************************************)
(* For any number of invocations, crashes, inputs and artifacts: one that   *)
(* retries after the others have settled starts no second consumer beside  *)
(* one whose runner lives, a workload sees the planned inputs, what an     *)
(* invocation that ran alone uploaded is in the store, and the advice on a *)
(* result can put right what it speaks of.                                 *)
(*                                                                         *)
(* ConsumerSeesPlan is not inductive: it does not say why every input is    *)
(* there when a consumer starts.  The strengthening IInv does: an input     *)
(* once there stays, and each invocation has installed all those it is     *)
(* past, whatever the others, which stage the same paths, do meanwhile.     *)
(* StoreIsTrue needs a second one, StoreInv, and OutcomeIsUsable, a        *)
(* property of the steps that absorb a result, a third, OutcomeInv.        *)
(***************************************************************************)
EXTENDS Transfers, FiniteSetTheorems, TLAPS

-------------------------------------------------------------------------------
(* The launch protocol alone (DuplicateLaunch).                            *)

Unsettled == {r \in alive : pc[r] # "consumer"}

\* Between two invocations' starts the launch.json protocol runs alone.
OneAtATime == \A r, q \in Unsettled : r = q

\* Whoever is writing the record still owns launch.json.
FillerOwnsFile == \A r \in alive : pc[r] = "fill" => file = r

\* The runners that are there, past their launch record.
Consuming == {r \in alive : pc[r] = "consumer"}

\* A consumer's runner owns launch.json, and nobody is taking it away.
ConsumerOwnsFile ==
  \A r \in Consuming :
    /\ file = r
    /\ \A q \in alive : pc[q] \notin {"swap", "recreate", "fill"}

\* What holds as long as every retry waited for the others to settle.
Serial == OneAtATime /\ FillerOwnsFile /\ ConsumerOwnsFile

LaunchInv == TypeOK /\ (~overlapped => Serial)

\* The invariant holds when no invocation has started.
LEMMA InitInvariant == Init => LaunchInv
<1> SUFFICES ASSUME Init PROVE LaunchInv
  OBVIOUS
<1> USE NoRunnerAssumption, BoundsAssumption DEF Init
<1>1. TypeOK
  <2>1. overlapped \in BOOLEAN
    BY Zenon
  <2>2. QED
    BY <2>1 DEF TypeOK
<1>2. Serial
  BY DEF Serial, OneAtATime, FillerOwnsFile, ConsumerOwnsFile, Unsettled, Consuming
<1>3. QED
  BY <1>1, <1>2 DEF LaunchInv

\* Every step keeps every variable within its kind, overlapping or not.
LEMMA TypeStep == TypeOK /\ [Next]_vars => TypeOK'
<1> SUFFICES ASSUME TypeOK, [Next]_vars PROVE TypeOK'
  OBVIOUS
<1> USE NoRunnerAssumption, BoundsAssumption DEF TypeOK
<1>1. CASE UNCHANGED vars
  BY <1>1 DEF vars
<1>2. ASSUME NEW r \in Runners, Start(r) PROVE TypeOK'
  <2>1. overlapped' = TRUE \/ overlapped' = FALSE
    BY <1>2, Zenon DEF Start
  <2>2. QED
    BY <1>2, <2>1 DEF Start, Goes
<1>3. ASSUME NEW r \in Runners, Create(r) PROVE TypeOK'
  BY <1>3 DEF Create, At, Goes
<1>4. ASSUME NEW r \in Runners, Read(r) PROVE TypeOK'
  BY <1>4 DEF Read, At, Goes
<1>5. ASSUME NEW r \in Runners, Swap(r) PROVE TypeOK'
  BY <1>5 DEF Swap, At, Goes
<1>6. ASSUME NEW r \in Runners, Recreate(r) PROVE TypeOK'
  BY <1>6 DEF Recreate, At, Goes
<1>7. ASSUME NEW r \in Runners, Fill(r) PROVE TypeOK'
  BY <1>7 DEF Fill, At, Goes
<1>8. ASSUME NEW r \in Runners, Finish(r) PROVE TypeOK'
  BY <1>8 DEF Finish, At
<1>9. ASSUME NEW r \in Runners, Crash(r) PROVE TypeOK'
  BY <1>9 DEF Crash
<1>10. QED
  BY <1>1, <1>2, <1>3, <1>4, <1>5, <1>6, <1>7, <1>8, <1>9 DEF Next

\* An overlap is never forgotten.
LEMMA OverlapStays == [Next]_vars => (overlapped => overlapped')
  BY DEF Next, vars, Start, Create, Read, Swap, Recreate, Fill, Finish, Crash

\* As long as no start overlapped, every step keeps the protocol serial.
LEMMA SerialStep == LaunchInv /\ [Next]_vars => LaunchInv'
<1> SUFFICES ASSUME TypeOK, Serial, [Next]_vars, ~overlapped' PROVE Serial'
  BY TypeStep, OverlapStays DEF LaunchInv
<1> USE NoRunnerAssumption, BoundsAssumption
    DEF Serial, TypeOK, OneAtATime, FillerOwnsFile, ConsumerOwnsFile, Unsettled, Consuming
<1>1. CASE UNCHANGED vars
  BY <1>1 DEF vars
<1>2. ASSUME NEW r \in Runners, Start(r) PROVE Serial'
  <2>1. \A q \in Runners : q \notin alive \/ pc[q] = "consumer"
    BY <1>2, Zenon DEF Start, Settled
  <2>2. /\ alive' = alive \cup {r} /\ pc' = [pc EXCEPT ![r] = "create"]
        /\ UNCHANGED <<file, filled>> /\ pc[r] = "off"
    BY <1>2, Zenon DEF Start, Goes
  <2>3. QED
    BY <2>1, <2>2
<1>3. ASSUME NEW r \in Runners, Create(r) PROVE Serial'
  BY <1>3 DEF Create, At, Goes
<1>4. ASSUME NEW r \in Runners, Read(r) PROVE Serial'
  BY <1>4 DEF Read, At, Goes, NamesLiveRunner
<1>5. ASSUME NEW r \in Runners, Swap(r) PROVE Serial'
  BY <1>5 DEF Swap, At, Goes
<1>6. ASSUME NEW r \in Runners, Recreate(r) PROVE Serial'
  BY <1>6 DEF Recreate, At, Goes
<1>7. ASSUME NEW r \in Runners, Fill(r) PROVE Serial'
  BY <1>7 DEF Fill, At, Goes
<1>8. ASSUME NEW r \in Runners, Finish(r) PROVE Serial'
  BY <1>8 DEF Finish, At
<1>9. ASSUME NEW r \in Runners, Crash(r) PROVE Serial'
  BY <1>9 DEF Crash
<1>10. QED
  BY <1>1, <1>2, <1>3, <1>4, <1>5, <1>6, <1>7, <1>8, <1>9 DEF Next

\* A VM that goes takes every invocation with it.
LEMMA VmGoesLaunch == LaunchInv /\ VmGoes => LaunchInv'
<1> SUFFICES ASSUME LaunchInv, VmGoes PROVE LaunchInv'
  OBVIOUS
<1>1. alive' = {} /\ UNCHANGED <<pc, file, filled, crashes, overlapped>>
  BY DEF VmGoes
<1>2. TypeOK'
  BY <1>1 DEF LaunchInv, TypeOK
<1>3. Serial'
  BY <1>1 DEF Serial, OneAtATime, FillerOwnsFile, ConsumerOwnsFile, Unsettled, Consuming
<1> QED BY <1>2, <1>3 DEF LaunchInv

\* What a step does to the protocol, and to the workloads: each belongs to an
\* invocation with its launch record.
LEMMA LaunchStep ==
  ASSUME [TransfersNext]_allVars
  PROVE  /\ [Next]_vars \/ VmGoes
         /\ \/ consumers' \subseteq consumers
            \/ \E r \in Runners : At(r, "consumer") /\ consumers' = consumers \cup {r}
<1>1. ASSUME NEW r \in Runners, Runner(r)
      PROVE  /\ [Next]_vars
             /\ \/ consumers' \subseteq consumers
                \/ At(r, "consumer") /\ consumers' = consumers \cup {r}
  <2>1. CASE Launches(r)
    BY <2>1 DEF Launches, Next
  <2>2. CASE RunnerCrashes(r)
    BY <2>2 DEF RunnerCrashes, Next
  <2>3. CASE CopiesResult(r)
    BY <2>3 DEF CopiesResult, Next
  <2>4. CASE ConsumerStarts(r)
    <3>1. UNCHANGED vars
      BY <2>4, Zenon DEF ConsumerStarts
    <3>2. At(r, "consumer") /\ consumers' = consumers \cup {r}
      BY <2>4, Zenon DEF ConsumerStarts, Here
    <3> QED BY <3>1, <3>2
  <2>5. CASE RunEnds(r) \/ OrphanEnds(r)
    BY <2>5 DEF RunEnds, OrphanEnds
  <2>6. CASE StageFetches(r) \/ StageInstalls(r) \/ SetupFails(r) \/ StageFails(r)
    BY <2>6, Zenon DEF StageFetches, StageInstalls, SetupFails, StageFails, StageRest
  <2>7. CASE (\E a \in Artifacts : SyncLooks(r, a)) \/ SyncLooksAgain(r) \/ SyncPuts(r)
    BY <2>7, Zenon DEF SyncLooks, SyncLooksAgain, SyncPuts, RunRest
  <2>9. CASE \/ (\E a \in Artifacts : OffloadPuts(r, a) \/ OffloadMisses(r, a))
             \/ OffloadCannotStart(r)
    BY <2>9, Zenon DEF OffloadPuts, OffloadMisses, OffloadCannotStart, RunRest
  <2>8. CASE WritesResult(r)
    BY <2>8, Zenon DEF WritesResult
  <2> QED BY <1>1, <2>1, <2>2, <2>3, <2>4, <2>5, <2>6, <2>7, <2>8, <2>9 DEF Runner
<1>2. ASSUME NEW a \in Artifacts, ConsumerWrites(a) PROVE UNCHANGED <<vars, consumers>>
  BY <1>2 DEF ConsumerWrites, RunRest
<1>3. ASSUME VmReclaimed \/ Absorbs \/ AbsorbsOverdue \/ GivesUp \/ Closes
      PROVE  UNCHANGED <<vars, consumers>> \/ (VmGoes /\ consumers' = {})
  BY <1>3, Zenon DEF VmReclaimed, Absorbs, AbsorbsOverdue, Reads, GivesUp, Closes, VmGoes
<1>4. CASE UNCHANGED allVars
  BY <1>4 DEF allVars, runVars
<1> QED BY <1>1, <1>2, <1>3, <1>4, Zenon DEF TransfersNext

Started == consumers \subseteq filled

LEMMA StartedStep ==
  ASSUME LaunchInv, Started, [TransfersNext]_allVars PROVE LaunchInv' /\ Started'
<1>1. LaunchInv'
  BY LaunchStep, SerialStep, VmGoesLaunch
<1>2. filled \subseteq filled'
  <2>1. CASE VmGoes
    BY <2>1 DEF VmGoes
  <2>2. CASE [Next]_vars
    BY <2>2 DEF Next, vars, Start, Create, Read, Swap, Recreate, Fill, Finish, Crash
  <2> QED BY <2>1, <2>2, LaunchStep
<1>3. \A r \in Runners : At(r, "consumer") => r \in filled
  BY DEF At, LaunchInv, TypeOK
<1> QED BY <1>1, <1>2, <1>3, LaunchStep DEF Started

\* runner.py, main: with invocations one after the other, of two consumers
\* side by side the runner of one at least is gone, whatever the crashes, and
\* whichever processes a sweep missed.
THEOREM SerialSingleConsumer == TransfersSpec => []SerialRetryIsSafe
<1>1. TransfersInit => LaunchInv /\ Started
  BY InitInvariant DEF TransfersInit, Started
<1>2. ASSUME LaunchInv, Started PROVE SerialRetryIsSafe
  <2> SUFFICES ASSUME ~overlapped, NEW r \in consumers, NEW q \in consumers, r \in alive, q \in alive
               PROVE  r = q
    BY DEF SerialRetryIsSafe
  <2>1. r \in Consuming /\ q \in Consuming
    BY <1>2 DEF Started, LaunchInv, TypeOK, Consuming
  <2> QED BY <1>2, <2>1 DEF LaunchInv, Serial, ConsumerOwnsFile
<1> QED BY <1>1, <1>2, StartedStep, PTL DEF TransfersSpec

\* runner.py, main: however the invocations interleave, no consumer starts
\* before launch.json is written.
THEOREM RecordBeforeConsumer == Spec => []TypeOK
<1>1. Init => TypeOK
  BY InitInvariant DEF LaunchInv
<1>2. QED
  BY <1>1, TypeStep, PTL DEF Spec

-----------------------------------------------------------------------------
(***************************************************************************)
(* That the protocol does not lose the launch.                             *)
(***************************************************************************)

Protocol == {"create", "read", "swap", "recreate", "fill"}

\* As long as nobody is killed: who is in the protocol is there; launch.json
\* belongs to one who fills it or has filled it; and after the first start
\* there is a launch.json, or somebody about to make one.
NotLost ==
  crashes = 0 =>
    /\ \A r \in Runners : pc[r] \in Protocol => r \in alive
    /\ file # NoRunner => pc[file] \in {"fill", "consumer"}
    /\ (\E r \in Runners : pc[r] # "off")
         => file # NoRunner \/ \E r \in Runners : pc[r] \in {"create", "recreate"}

LEMMA NotLostStep == TypeOK /\ NotLost /\ [Next]_vars => NotLost'
<1> SUFFICES ASSUME TypeOK, NotLost, [Next]_vars PROVE NotLost'
  OBVIOUS
<1> USE NoRunnerAssumption, BoundsAssumption DEF TypeOK, Protocol
<1>1. CASE UNCHANGED vars
  BY <1>1 DEF vars, NotLost
<1>2. ASSUME NEW r \in Runners, Start(r) PROVE NotLost'
  BY <1>2 DEF Start, Goes, NotLost
<1>3. ASSUME NEW r \in Runners, Create(r) PROVE NotLost'
  BY <1>3 DEF Create, At, Goes, NotLost
<1>4. ASSUME NEW r \in Runners, Read(r) PROVE NotLost'
  BY <1>4 DEF Read, At, Goes, NotLost
<1>5. ASSUME NEW r \in Runners, Swap(r) PROVE NotLost'
  BY <1>5 DEF Swap, At, Goes, NotLost
<1>6. ASSUME NEW r \in Runners, Recreate(r) PROVE NotLost'
  BY <1>6 DEF Recreate, At, Goes, NotLost
<1>7. ASSUME NEW r \in Runners, Fill(r) PROVE NotLost'
  BY <1>7 DEF Fill, At, Goes, NotLost
<1>8. ASSUME NEW r \in Runners, Finish(r) PROVE NotLost'
  BY <1>8 DEF Finish, At, NotLost
<1>9. ASSUME NEW r \in Runners, Crash(r) PROVE NotLost'
  BY <1>9 DEF Crash, NotLost
<1> QED
  BY <1>1, <1>2, <1>3, <1>4, <1>5, <1>6, <1>7, <1>8, <1>9 DEF Next

\* runner.py, main: O_EXCL, the swap and the second O_EXCL never make every
\* invocation give up, and poll finds a filled launch.json, for any number of
\* invocations, however they interleave, unless one of them is killed.
THEOREM LaunchNotLost == Spec => []LaunchIsNotLost
<1>1. Init => NotLost
  BY DEF Init, NotLost, Protocol
<1>2. TypeOK /\ NotLost => LaunchIsNotLost
  BY NoRunnerAssumption DEF TypeOK, NotLost, LaunchIsNotLost, Protocol
<1>3. LaunchInv => TypeOK
  BY DEF LaunchInv
<1> QED
  BY <1>1, <1>2, <1>3, NotLostStep, InitInvariant, TypeStep, PTL DEF Spec

-------------------------------------------------------------------------------
(* The inputs that a workload sees.                                        *)

\* A record with the fields of an invocation; those of its staging are typed.
Staging(x) ==
  /\ x = [field \in DOMAIN Fresh |-> x[field]]
  /\ x.next \in Nat \ {0}
  /\ x.tmp \in {"none", "planned", "other"}

RunTypes == run = [r \in Runners |-> run[r]] /\ \A r \in Runners : Staging(run[r])

InputTypes ==
  /\ input \in [Inputs -> {"absent", "planned", "other"}]
  /\ \A i \in Pinned : input[i] # "other"

PastInputsAreThere ==
  \A r \in Runners, i \in Inputs : i < run[r].next => input[i] # "absent"

ConsumersHaveInputs == consumers # {} => \A i \in Inputs : input[i] # "absent"

IInv == RunTypes /\ InputTypes /\ PastInputsAreThere /\ ConsumersHaveInputs

-----------------------------------------------------------------------------

LEMMA FreshStages == Staging(Fresh) /\ Fresh.next = 1 /\ Fresh.tmp = "none"
  <1>1. Fresh = [field \in DOMAIN Fresh |-> Fresh[field]]
    BY Zenon DEF Fresh
  <1>2. Fresh.next = 1 /\ Fresh.tmp = "none"
    BY DEF Fresh
  <1> QED BY <1>1, <1>2 DEF Staging

\* A change of any other field leaves the staging alone.
Beside == {"at", "failed", "syncs", "seen", "uploaded", "artifacts", "unreadable",
           "workload", "by"}

LEMMA FieldChanges ==
  ASSUME NEW x, Staging(x), NEW field \in Beside, NEW value
  PROVE  LET y == [x EXCEPT ![field] = value]
         IN  Staging(y) /\ y.next = x.next /\ y.tmp = x.tmp
  <1> DEFINE y == [x EXCEPT ![field] = value]
  <1>1. \A f \in DOMAIN Fresh : y[f] = IF f = field THEN value ELSE x[f]
    BY DEF Staging
  <1>2. y = [f \in DOMAIN Fresh |-> y[f]]
    BY DEF Staging
  <1>3. {"next", "tmp"} \subseteq DOMAIN Fresh /\ field \notin {"next", "tmp"}
    BY DEF Fresh, Beside
  <1>4. y.next = x.next /\ y.tmp = x.tmp
    BY <1>1, <1>3
  <1> QED BY <1>2, <1>4 DEF Staging

LEMMA TmpChanges ==
  ASSUME NEW x, Staging(x), NEW value \in {"none", "planned", "other"}
  PROVE  LET y == [x EXCEPT !.tmp = value]
         IN  Staging(y) /\ y.next = x.next /\ y.tmp = value
  BY DEF Staging, Fresh

\* A step of one invocation that installs no input: it goes on from where it
\* was, or forgets everything.
LEMMA Progress ==
  ASSUME IInv, NEW r \in Runners, NEW x, run' = [run EXCEPT ![r] = x],
         Staging(x), x.next \in {run[r].next, 1},
         UNCHANGED input, consumers' # {} => consumers # {}
  PROVE  IInv'
  <1>1. \A q \in Runners : run'[q] = IF q = r THEN x ELSE run[q]
    BY DEF IInv, RunTypes
  <1>2. RunTypes'
    BY <1>1 DEF IInv, RunTypes
  <1>3. InputTypes' /\ ConsumersHaveInputs'
    BY DEF IInv, InputTypes, ConsumersHaveInputs
  <1>4. PastInputsAreThere'
    BY <1>1 DEF IInv, PastInputsAreThere, Inputs
  <1> QED BY <1>2, <1>3, <1>4 DEF IInv

\* Nothing of the runners' staging changes.
LEMMA Apart ==
  ASSUME IInv, UNCHANGED <<input, run>>, consumers' # {} => consumers # {}
  PROVE  IInv'
  BY DEF IInv, RunTypes, InputTypes, PastInputsAreThere, ConsumersHaveInputs

-----------------------------------------------------------------------------

LEMMA InitOK == TransfersInit => IInv
  <1> SUFFICES ASSUME TransfersInit PROVE IInv
    OBVIOUS
  <1> USE TransfersAssumption DEF TransfersInit
  <1>1. RunTypes
    BY FreshStages DEF RunTypes
  <1>2. InputTypes
    BY DEF InputTypes, Inputs
  <1>3. PastInputsAreThere
    BY FreshStages DEF PastInputsAreThere, Inputs
  <1>4. ConsumersHaveInputs
    BY DEF ConsumersHaveInputs
  <1> QED BY <1>1, <1>2, <1>3, <1>4 DEF IInv

\* The rename: the file that was fetched has what was planned, if that is
\* declared.
LEMMA StageInstallsStep ==
  ASSUME IInv, NEW r \in Runners, StageInstalls(r) PROVE IInv'
  <1> DEFINE n == run[r].next
  <1> DEFINE x == [run[r] EXCEPT !.next = n + 1, !.tmp = "none"]
  <1>1. Staging(run[r])
    BY DEF IInv, RunTypes
  <1>2. run[r].tmp \in {"planned", "other"} /\ (n \in Pinned => run[r].tmp = "planned")
    BY <1>1 DEF StageInstalls, Acceptable, Staging
  <1>3. input' = [input EXCEPT ![n] = run[r].tmp]
    BY DEF StageInstalls
  <1>4. \A q \in Runners : run'[q] = IF q = r THEN x ELSE run[q]
    BY DEF StageInstalls, IInv, RunTypes
  <1>5. Staging(x) /\ x.next = n + 1
    <2>1. {"next", "tmp"} \subseteq DOMAIN Fresh
      BY DEF Fresh
    <2>2. x = [field \in DOMAIN Fresh |-> x[field]]
      BY <1>1 DEF Staging
    <2>3. x.next = n + 1 /\ x.tmp = "none"
      BY <1>1, <2>1 DEF Staging
    <2>4. n + 1 \in Nat \ {0}
      BY <1>1 DEF Staging
    <2> HIDE DEF x
    <2> QED BY <2>2, <2>3, <2>4 DEF Staging
  <1>6. n \in Nat
    BY <1>1 DEF Staging
  <1> HIDE DEF n, x
  <1>7. RunTypes'
    <2>1. run' = [q \in Runners |-> run'[q]]
      BY DEF StageInstalls, IInv, RunTypes
    <2> QED BY <1>4, <1>5, <2>1 DEF IInv, RunTypes
  <1>8. \A i \in Inputs : input'[i] = IF i = n THEN run[r].tmp ELSE input[i]
    BY <1>3 DEF IInv, InputTypes
  <1>9. InputTypes'
    <2>1. input' \in [Inputs -> {"absent", "planned", "other"}]
      BY <1>2, <1>3 DEF IInv, InputTypes
    <2>2. \A i \in Pinned : i \in Inputs
      BY TransfersAssumption DEF Inputs
    <2> QED BY <1>2, <1>8, <2>1, <2>2 DEF IInv, InputTypes
  <1>10. \A i \in Inputs : input[i] # "absent" \/ i = n => input'[i] # "absent"
    BY <1>2, <1>8
  <1>11. PastInputsAreThere'
    <2> SUFFICES ASSUME NEW q \in Runners, NEW i \in Inputs, i < run'[q].next
                 PROVE  input'[i] # "absent"
      BY DEF PastInputsAreThere
    <2>1. CASE q = r
      <3>1. i < n \/ i = n
        BY <1>4, <1>5, <1>6, <2>1 DEF Inputs
      <3> QED BY <1>10, <3>1 DEF IInv, PastInputsAreThere, n
    <2>2. CASE q # r
      BY <1>4, <1>10, <2>2 DEF IInv, PastInputsAreThere
    <2> QED BY <2>1, <2>2
  <1>12. ConsumersHaveInputs'
    BY <1>10 DEF IInv, ConsumersHaveInputs, StageInstalls, StageRest
  <1> QED BY <1>7, <1>9, <1>11, <1>12 DEF IInv

\* The first consumer starts when its invocation is past the last input.
LEMMA ConsumerStartsStep ==
  ASSUME IInv, NEW r \in Runners, ConsumerStarts(r) PROVE IInv'
  <1>1. Staging(run[r]) /\ run[r].next \notin Inputs
    BY DEF IInv, RunTypes, ConsumerStarts
  <1>2. \A i \in Inputs : i < run[r].next
    BY <1>1, TransfersAssumption DEF Staging, Inputs
  <1>3. \A i \in Inputs : input[i] # "absent"
    BY <1>2 DEF IInv, PastInputsAreThere
  <1>4. UNCHANGED input /\ run' = [run EXCEPT ![r] = [run[r] EXCEPT !.at = "run"]]
    BY DEF ConsumerStarts, Moves, dataVars
  <1>5. LET x == [run[r] EXCEPT !["at"] = "run"] IN Staging(x) /\ x.next = run[r].next
    BY <1>1, FieldChanges DEF Beside
  <1>6. \A q \in Runners :
          run'[q] = IF q = r THEN [run[r] EXCEPT !.at = "run"] ELSE run[q]
    BY <1>4 DEF IInv, RunTypes
  <1>7. RunTypes'
    BY <1>4, <1>5, <1>6 DEF IInv, RunTypes
  <1>8. PastInputsAreThere' /\ ConsumersHaveInputs' /\ InputTypes'
    BY <1>3, <1>4 DEF PastInputsAreThere, ConsumersHaveInputs, IInv, InputTypes
  <1> QED BY <1>7, <1>8 DEF IInv


\* What a step of r may do to the record of r when it installs no input.
Onward(r) ==
  /\ run' = [q \in Runners |-> run'[q]]
  /\ \A q \in Runners \ {r} : run'[q] = run[q]
  /\ run'[r] = [field \in DOMAIN Fresh |-> run'[r][field]]
  /\ run'[r].next = run[r].next
  /\ run'[r].tmp \in {run[r].tmp, "none", "planned", "other"}

LEMMA OnwardStep ==
  ASSUME IInv, NEW r \in Runners, Onward(r), UNCHANGED input, consumers' # {} => consumers # {}
  PROVE  IInv'
  <1>1. Staging(run[r])
    BY DEF IInv, RunTypes
  <1>2. run' = [run EXCEPT ![r] = run'[r]]
    BY DEF Onward, IInv, RunTypes
  <1>3. Staging(run'[r])
    BY <1>1 DEF Onward, Staging
  <1> QED BY <1>2, <1>3, Progress DEF Onward

\* The records of the invocations are functions, of the invocations and of
\* the fields.
Shape ==
  /\ run = [q \in Runners |-> run[q]]
  /\ \A q \in Runners : run[q] = [field \in DOMAIN Fresh |-> run[q][field]]

LEMMA Shaped == IInv => Shape
  BY DEF IInv, RunTypes, Staging, Shape

LEMMA HasFields == Beside \cup {"next", "tmp"} = DOMAIN Fresh
  BY DEF Beside, Fresh

LEMMA SyncSteps ==
  ASSUME IInv, NEW r \in Runners,
         (\E a \in Artifacts : SyncLooks(r, a)) \/ SyncLooksAgain(r) \/ SyncPuts(r)
  PROVE  Onward(r)
  <1>1. ASSUME NEW a \in Artifacts, SyncLooks(r, a) PROVE Onward(r)
    BY <1>1, Shaped, HasFields DEF SyncLooks, Onward, Shape, Beside
  <1>2. CASE SyncPuts(r)
    BY <1>2, Shaped, HasFields DEF SyncPuts, Onward, Shape, Beside
  <1>3. CASE SyncLooksAgain(r)
    BY <1>3, Shaped, HasFields DEF SyncLooksAgain, Onward, Shape, Beside
  <1> QED BY <1>1, <1>2, <1>3

LEMMA StagingSteps ==
  ASSUME IInv, NEW r \in Runners,
         StageFetches(r) \/ SetupFails(r) \/ StageFails(r)
  PROVE  Onward(r)
  <1>1. CASE StageFetches(r)
    <2>1. PICK body \in {"planned", "other"} : run' = [run EXCEPT ![r].tmp = body]
      BY <1>1 DEF StageFetches
    <2> QED BY <2>1, Shaped, HasFields DEF Onward, Shape, Beside
  <1>2. ASSUME NEW kind, StageEnds(r, kind) PROVE Onward(r)
    BY <1>2, Shaped, HasFields DEF StageEnds, Onward, Shape, Beside
  <1> QED BY <1>1, <1>2 DEF SetupFails, StageFails

\* What RunEnds writes of the invocation.
EndsWith(r, place, w, b) ==
  run' = [run EXCEPT ![r].at = place,
                     ![r].uploaded = Fresh.uploaded, ![r].workload = w, ![r].by = b]

LEMMA RunEndsWith ==
  ASSUME NEW r \in Runners, RunEnds(r)
  PROVE  \E place, w, b :
           /\ EndsWith(r, place, w, b)
           /\ place = IF Artifacts = {} THEN "write" ELSE "offload"
           /\ ~survived' => ~survived /\ consumers' = {}
  <1> DEFINE place == IF Artifacts = {} THEN "write" ELSE "offload"
  <1>1. \E w, b : EndsWith(r, place, w, b) /\ (~survived' => ~survived /\ consumers' = {})
    BY Zenon DEF RunEnds, EndsWith
  <1> HIDE DEF place
  <1>2. \E w, b : /\ EndsWith(r, place, w, b)
                  /\ place = IF Artifacts = {} THEN "write" ELSE "offload"
                  /\ ~survived' => ~survived /\ consumers' = {}
    BY <1>1 DEF place
  <1> QED BY <1>2

LEMMA EndingSteps ==
  ASSUME IInv, NEW r \in Runners,
         \/ RunEnds(r) \/ OffloadCannotStart(r) \/ WritesResult(r)
         \/ \E a \in Artifacts : OffloadPuts(r, a) \/ OffloadMisses(r, a)
  PROVE  Onward(r)
  <1>1. CASE RunEnds(r)
    <2>1. PICK place, w, b : EndsWith(r, place, w, b)
      BY <1>1, RunEndsWith
    <2> QED BY <2>1, Shaped, HasFields DEF EndsWith, Onward, Shape, Beside
  <1>2. CASE OffloadCannotStart(r)
    BY <1>2, Shaped, HasFields DEF OffloadCannotStart, Onward, Shape, Beside
  <1>3. CASE WritesResult(r)
    BY <1>3, Shaped, HasFields DEF WritesResult, Moves, Onward, Shape, Beside
  <1>4. ASSUME NEW a \in Artifacts, NEW status, OffloadNotes(r, a, status) PROVE Onward(r)
    BY <1>4, Shaped, HasFields DEF OffloadNotes, Onward, Shape, Beside
  <1> QED BY <1>1, <1>2, <1>3, <1>4 DEF OffloadPuts, OffloadMisses

LEMMA LaunchesStep == ASSUME IInv, NEW r \in Runners, Launches(r) PROVE IInv'
  <1>1. UNCHANGED <<input, consumers>>
    BY DEF Launches, dataVars
  <1>2. CASE run' = run
    BY <1>1, <1>2, Apart
  <1>3. CASE run' = [run EXCEPT ![r].at = "stage"]
    <2>1. Onward(r)
      BY <1>3, Shaped, HasFields DEF Onward, Shape, Beside
    <2> QED BY <1>1, <2>1, OnwardStep
  <1> QED BY <1>2, <1>3 DEF Launches

LEMMA ForgetsStep ==
  ASSUME IInv, NEW r \in Runners, Forgets(r), UNCHANGED <<input, consumers>> PROVE IInv'
  <1> DEFINE x == [Fresh EXCEPT !["at"] = "over"]
  <1>1. Staging(x) /\ x.next = 1
    BY FreshStages, FieldChanges DEF Beside
  <1>2. run' = [run EXCEPT ![r] = x]
    BY DEF Forgets
  <1> HIDE DEF x
  <1> QED BY <1>1, <1>2, Progress

\* The VM goes, and with it every workload.
LEMMA VmGoesStep == ASSUME IInv, VmGoes, UNCHANGED input PROVE IInv'
  BY FreshStages
     DEF VmGoes, IInv, RunTypes, InputTypes, PastInputsAreThere, ConsumersHaveInputs, Inputs

THEOREM Invariance == TransfersSpec => []IInv
  <1>1. ASSUME IInv, NEW r \in Runners, Runner(r) PROVE IInv'
    <2>1. CASE Launches(r)
      BY <1>1, <2>1, LaunchesStep
    <2>2. CASE RunnerCrashes(r) \/ CopiesResult(r)
      BY <1>1, <2>2, ForgetsStep DEF RunnerCrashes, CopiesResult, dataVars
    <2>3. CASE StageFetches(r) \/ SetupFails(r) \/ StageFails(r)
      <3>1. UNCHANGED <<input, consumers>>
        BY <2>3 DEF StageFetches, SetupFails, StageFails, StageRest
      <3> QED BY <1>1, <2>3, <3>1, StagingSteps, OnwardStep
    <2>4. CASE StageInstalls(r)
      BY <1>1, <2>4, StageInstallsStep
    <2>5. CASE ConsumerStarts(r)
      BY <1>1, <2>5, ConsumerStartsStep
    <2>6. CASE (\E a \in Artifacts : SyncLooks(r, a)) \/ SyncLooksAgain(r) \/ SyncPuts(r)
      <3>1. UNCHANGED <<input, consumers>>
        BY <2>6 DEF SyncLooks, SyncLooksAgain, SyncPuts, RunRest
      <3> QED BY <1>1, <2>6, <3>1, SyncSteps, OnwardStep
    <2>7. CASE \/ RunEnds(r) \/ OffloadCannotStart(r) \/ WritesResult(r)
               \/ \E a \in Artifacts : OffloadPuts(r, a) \/ OffloadMisses(r, a)
      <3>1. Onward(r)
        BY <1>1, <2>7, EndingSteps
      <3>2. UNCHANGED input /\ (consumers' # {} => consumers # {})
        <4>1. CASE RunEnds(r)
          BY <4>1 DEF RunEnds, dataVars
        <4>2. CASE WritesResult(r)
          BY <4>2 DEF WritesResult, dataVars
        <4>3. CASE OffloadCannotStart(r)
          BY <4>3 DEF OffloadCannotStart, RunRest
        <4>4. CASE \E a \in Artifacts : OffloadPuts(r, a) \/ OffloadMisses(r, a)
          BY <4>4 DEF OffloadPuts, OffloadMisses, RunRest
        <4> QED BY <2>7, <4>1, <4>2, <4>3, <4>4
      <3> QED BY <1>1, <3>1, <3>2, OnwardStep
    <2>8. CASE OrphanEnds(r)
      BY <1>1, <2>8, Apart DEF OrphanEnds, dataVars
    <2> QED BY <1>1, <2>1, <2>2, <2>3, <2>4, <2>5, <2>6, <2>7, <2>8 DEF Runner
  <1>2. ASSUME IInv, NEW a \in Artifacts, ConsumerWrites(a) PROVE IInv'
    BY <1>2, Apart DEF ConsumerWrites, RunRest
  <1>3. ASSUME IInv, VmReclaimed \/ Absorbs \/ AbsorbsOverdue \/ GivesUp \/ Closes PROVE IInv'
    <2>1. CASE Absorbs \/ AbsorbsOverdue \/ GivesUp
      BY <1>3, <2>1, Apart DEF Absorbs, AbsorbsOverdue, Reads, GivesUp, LocalRest, dataVars
    <2>2. CASE VmReclaimed
      BY <1>3, <2>2, VmGoesStep DEF VmReclaimed, dataVars
    <2>3. CASE Closes
      BY <1>3, <2>3, VmGoesStep, Apart DEF Closes, LocalRest, dataVars
    <2> QED BY <1>3, <2>1, <2>2, <2>3
  <1>4. ASSUME IInv, [TransfersNext]_allVars PROVE IInv'
    <2>1. CASE UNCHANGED allVars
      BY <1>4, <2>1, Apart DEF allVars, dataVars, runVars
    <2> QED BY <1>1, <1>2, <1>3, <1>4, <2>1 DEF TransfersNext
  <1> QED BY InitOK, <1>4, PTL DEF TransfersSpec

-----------------------------------------------------------------------------

\* runner.py _stage_one: at the path of an input with a declared checksum
\* there is nothing or what was planned, and a workload runs only when every
\* input is there, whichever invocations stage, fail or are killed meanwhile.
THEOREM ConsumerSeesPlanned == TransfersSpec => []ConsumerSeesPlan
  <1>1. ASSUME IInv PROVE ConsumerSeesPlan
    <2>1. \A i \in Pinned : i \in Inputs
      BY TransfersAssumption DEF Inputs
    <2> QED BY <1>1, <2>1 DEF IInv, InputTypes, ConsumersHaveInputs, ConsumerSeesPlan
  <1> QED BY Invariance, <1>1, PTL
-----------------------------------------------------------------------------
(***************************************************************************)
(* What was uploaded.  StoreIsTrue speaks of one invocation, Sole, and is  *)
(* not inductive either: a PUT that ends leaves a true record only because *)
(* what it began with was newer than the record and no newer than the file,*)
(* and a result stays true only because nobody is left who could upload an *)
(* artifact, or write one unless it outlived the verdict.                  *)
(***************************************************************************)

Sole == \A r, q \in filled : r = q

LaunchTypes ==
  /\ pc = [r \in Runners |-> pc[r]]
  /\ filled \subseteq Runners /\ IsFiniteSet(filled)
  /\ \A r \in Runners : pc[r] = "consumer" <=> r \in filled

Statuses == {"untried", "ok", "missing"} \cup Kinds

UploadTypes(r) ==
  /\ run[r].seen \in Nat
  /\ run[r].uploaded \in [Artifacts -> Nat]
  /\ run[r].artifacts \in [Artifacts -> Statuses]
  /\ run[r].at \in {"look", "put"} => run[r].syncs \in Artifacts

StoreTypes ==
  /\ content \in [Artifacts -> Nat] /\ store \in [Artifacts -> Nat]
  /\ \A r \in Runners : UploadTypes(r)

\* Only an invocation with its launch record stages, runs and offloads.
Owned == \A r \in Runners : run[r].at \notin {"none", "over"} => r \in filled

\* Before the offload nothing is recorded of it, before the run nothing of
\* the sync.
Begins(r) ==
  /\ run[r].at \in {"none", "over", "stage"} => run[r].uploaded = [a \in Artifacts |-> 0]
  /\ run[r].at \in {"none", "over", "stage", "run", "look", "put"} =>
       run[r].workload = "failed" /\ run[r].artifacts = [a \in Artifacts |-> "untried"]

\* What is recorded was uploaded, and what was looked at, or is being put, is
\* something newer.
Synced(r) ==
  run[r].at \in {"stage", "run", "look", "put"} =>
    /\ \A a \in Artifacts :
         /\ run[r].uploaded[a] <= content[a]
         /\ content[a] # 0 /\ run[r].uploaded[a] = content[a] => store[a] = content[a]
    /\ run[r].at \in {"look", "put"} => /\ run[r].uploaded[run[r].syncs] < run[r].seen
                                       /\ run[r].seen <= content[run[r].syncs]

\* A workload that succeeded has left nobody, unless somebody survived, and
\* what the offload has noted of its artifacts is so, but for what a survivor
\* writes.
Offloads(r) ==
  run[r].at \in {"offload", "write"} /\ run[r].workload = "succeeded" =>
    /\ ~survived => consumers = {}
    /\ \A a \in Artifacts :
         /\ run[r].artifacts[a] = "ok" =>
              store[a] # 0 /\ content[a] # 0 /\ (~survived => store[a] = content[a])
         /\ run[r].artifacts[a] = "missing" => content[a] = 0 \/ survived
         /\ run[r].at = "write" /\ ~run[r].unreadable => run[r].artifacts[a] # "untried"

\* Every artifact is in the store, and nobody can change that any more, but a
\* survivor by writing on.
Offloaded ==
  /\ filled # {} /\ (~survived => consumers = {})
  /\ \A r \in Runners : run[r].at \in {"none", "over", "copy"}
  /\ \A a \in Artifacts : /\ content[a] # 0 /\ ~survived => store[a] = content[a]
                          /\ a \in Required => store[a] # 0

Clean(found) == found.workload = "succeeded" /\ found.offload = "ok"

ResultIsTrue == \A found \in result \cup control : Clean(Absorbed(found)) => Offloaded
RecordIsTrue == local # "polling" /\ Clean(env) => Offloaded

StoreInv ==
  /\ LaunchTypes /\ StoreTypes /\ Owned
  /\ \A r \in Runners : Begins(r)
  /\ Sole => /\ \A r \in Runners : Synced(r) /\ Offloads(r)
             /\ ResultIsTrue /\ RecordIsTrue

LEMMA OneIsSole ==
  ASSUME NEW S, IsFiniteSet(S), Cardinality(S) <= 1, NEW r \in S, NEW q \in S
  PROVE  r = q
  <1> SUFFICES ASSUME r # q PROVE FALSE
    OBVIOUS
  <1>1. IsFiniteSet(S \ {r}) /\ Cardinality(S \ {r}) = Cardinality(S) - 1
    BY FS_RemoveElement
  <1>2. IsFiniteSet((S \ {r}) \ {q}) /\ Cardinality((S \ {r}) \ {q}) = Cardinality(S \ {r}) - 1
    BY <1>1, FS_RemoveElement
  <1>3. Cardinality(S) \in Nat /\ Cardinality((S \ {r}) \ {q}) \in Nat
    BY <1>2, FS_CardinalityType
  <1> QED BY <1>1, <1>2, <1>3

LEMMA FreshUploads ==
  /\ Fresh.at = "none" /\ Fresh.seen \in Nat /\ Fresh.workload = "failed"
  /\ Fresh.uploaded = [a \in Artifacts |-> 0]
  /\ Fresh.artifacts = [a \in Artifacts |-> "untried"]
  BY DEF Fresh

LEMMA StoreInitially == TransfersInit => StoreInv
  <1> SUFFICES ASSUME TransfersInit PROVE StoreInv
    OBVIOUS
  <1> USE FreshUploads DEF TransfersInit
  <1>1. LaunchTypes
    BY FS_EmptySet DEF LaunchTypes, Init
  <1>2. \A r \in Runners : run[r] = Fresh
    OBVIOUS
  <1>3. StoreTypes
    BY <1>2 DEF StoreTypes, UploadTypes, Statuses
  <1>4. Owned /\ \A r \in Runners : Begins(r) /\ Synced(r) /\ Offloads(r)
    BY <1>2 DEF Owned, Begins, Synced, Offloads
  <1>5. ResultIsTrue /\ RecordIsTrue
    BY DEF ResultIsTrue, RecordIsTrue
  <1> QED BY <1>1, <1>3, <1>4, <1>5 DEF StoreInv

\* A record of an invocation that is not there is fresh.
Nowhere(r) ==
  /\ run[r].at \in {"none", "over"} /\ run[r].seen \in Nat /\ run[r].workload = "failed"
  /\ run[r].uploaded = [a \in Artifacts |-> 0]
  /\ run[r].artifacts = [a \in Artifacts |-> "untried"]

LEMMA NowhereIsTrue ==
  ASSUME NEW r \in Runners, Nowhere(r)
  PROVE  UploadTypes(r) /\ Begins(r) /\ Synced(r) /\ Offloads(r)
  BY DEF Nowhere, UploadTypes, Begins, Synced, Offloads, Statuses

\* Whoever is at work is the only one.
LEMMA Alone ==
  ASSUME StoreInv, Sole, NEW r \in Runners, run[r].at \notin {"none", "over"},
         NEW q \in Runners, q # r
  PROVE  run[q].at \in {"none", "over"}
  BY DEF StoreInv, Sole, Owned

-----------------------------------------------------------------------------
(***************************************************************************)
(* A step of an invocation that is at work: what it does to its own record *)
(* is all there is to check, as nobody else is at work and no result says  *)
(* yet that everything was offloaded.                                      *)
(***************************************************************************)
Working == {"stage", "run", "look", "put", "offload", "write"}

WorkStep(r) ==
  /\ \A q \in Runners \ {r} : run'[q] = run[q]
  /\ content' \in [Artifacts -> Nat] /\ store' \in [Artifacts -> Nat]
  /\ UNCHANGED <<pc, filled, env, local>>

LEMMA Untouched ==
  ASSUME StoreInv, NEW q \in Runners, run'[q] = run[q]
  PROVE  /\ UploadTypes(q)' /\ Begins(q)'
         /\ run'[q].at \notin {"none", "over"} => q \in filled
         /\ run[q].at \in {"none", "over"} => Synced(q)' /\ Offloads(q)'
  <1>1. UploadTypes(q) /\ Begins(q) /\ (run[q].at \notin {"none", "over"} => q \in filled)
    BY DEF StoreInv, StoreTypes, Owned
  <1> QED BY <1>1 DEF UploadTypes, Begins, Synced, Offloads

LEMMA Works ==
  ASSUME StoreInv, NEW r \in Runners, run[r].at \in Working, WorkStep(r),
         UNCHANGED <<result, control>>,
         UploadTypes(r)', Begins(r)', Sole => Synced(r)' /\ Offloads(r)'
  PROVE  StoreInv'
  <1>1. r \in filled
    BY DEF Working, StoreInv, Owned
  <1>2. LaunchTypes'
    BY DEF StoreInv, LaunchTypes, WorkStep
  <1>3. StoreTypes' /\ Owned' /\ \A q \in Runners : Begins(q)'
    BY <1>1, Untouched DEF StoreTypes, Owned, WorkStep
  <1>4. ASSUME Sole' PROVE (\A q \in Runners : Synced(q) /\ Offloads(q))' /\ ResultIsTrue' /\ RecordIsTrue'
    <2>1. Sole
      BY <1>4 DEF Sole, WorkStep
    <2>2. \A q \in Runners \ {r} : run[q].at \in {"none", "over"}
      BY <2>1, Alone DEF Working
    <2>3. \A q \in Runners : Synced(q)' /\ Offloads(q)'
      BY <2>1, <2>2, Untouched DEF WorkStep
    <2>4. ~Offloaded
      BY DEF Offloaded, Working
    <2>5. ResultIsTrue' /\ RecordIsTrue'
      BY <2>1, <2>4 DEF StoreInv, ResultIsTrue, RecordIsTrue, WorkStep
    <2> QED BY <2>3, <2>5
  <1> QED BY <1>2, <1>3, <1>4 DEF StoreInv

\* The same, for a step that leaves the files and the store alone.
LEMMA WorksApart ==
  ASSUME StoreInv, NEW r \in Runners, run[r].at \in Working,
         \A q \in Runners \ {r} : run'[q] = run[q],
         UNCHANGED <<pc, filled, content, store, env, local, result, control>>,
         UploadTypes(r)', Begins(r)', Sole => Synced(r)' /\ Offloads(r)'
  PROVE  StoreInv'
  BY Works DEF WorkStep, StoreInv, StoreTypes

\* The uploads and the verdict are the ones of before.
SameUploads(r) ==
  /\ run'[r].uploaded = run[r].uploaded /\ run'[r].artifacts = run[r].artifacts
  /\ run'[r].workload = run[r].workload

LEMMA Stages ==
  ASSUME StoreInv, NEW r \in Runners, run[r].at = "stage",
         \A q \in Runners \ {r} : run'[q] = run[q], SameUploads(r),
         run'[r].seen = run[r].seen, run'[r].at \in {"stage", "run", "write"},
         UNCHANGED <<pc, filled, content, store, env, local, result, control>>
  PROVE  StoreInv'
  <1>1. UploadTypes(r) /\ Begins(r)
    BY DEF StoreInv, StoreTypes
  <1>2. UploadTypes(r)' /\ Begins(r)'
    BY <1>1 DEF UploadTypes, Begins, SameUploads
  <1>3. Sole => Synced(r)' /\ Offloads(r)'
    <2>1. \A x \in Artifacts : run'[r].uploaded[x] = 0 /\ content'[x] \in Nat
      BY <1>1 DEF Begins, SameUploads, StoreInv, StoreTypes
    <2> QED BY <1>1, <2>1 DEF Begins, Synced, Offloads, SameUploads
  <1> QED BY <1>2, <1>3, WorksApart DEF Working

LEMMA StagingKeepsStore ==
  ASSUME IInv, StoreInv, NEW r \in Runners,
         StageFetches(r) \/ StageInstalls(r) \/ SetupFails(r) \/ StageFails(r) \/ ConsumerStarts(r)
  PROVE  StoreInv'
  <1>1. run[r].at = "stage"
           /\ UNCHANGED <<pc, filled, content, store, env, local, result, control>>
    BY DEF StageFetches, StageInstalls, SetupFails, StageFails, ConsumerStarts, StageRest, Here,
           vars, dataVars, localVars
  <1>2. ASSUME NEW kind, StageEnds(r, kind)
        PROVE  /\ \A q \in Runners \ {r} : run'[q] = run[q]
               /\ SameUploads(r) /\ run'[r].seen = run[r].seen /\ run'[r].at = "write"
    BY <1>2, Shaped, HasFields DEF StageEnds, SameUploads, Shape, Beside
  <1>3. CASE SetupFails(r) \/ StageFails(r)
    <2>1. \E kind : StageEnds(r, kind)
      BY <1>3 DEF SetupFails, StageFails
    <2> QED BY <1>1, <1>2, <2>1, Stages
  <1>4. CASE StageFetches(r)
    <2>1. /\ \A q \in Runners \ {r} : run'[q] = run[q]
          /\ SameUploads(r) /\ run'[r].seen = run[r].seen /\ run'[r].at = run[r].at
      BY <1>4, Shaped, HasFields DEF StageFetches, SameUploads, Shape, Beside
    <2> QED BY <1>1, <2>1, Stages
  <1>5. CASE StageInstalls(r)
    <2>1. /\ \A q \in Runners \ {r} : run'[q] = run[q]
          /\ SameUploads(r) /\ run'[r].seen = run[r].seen /\ run'[r].at = run[r].at
      BY <1>5, Shaped, HasFields DEF StageInstalls, SameUploads, Shape, Beside
    <2> QED BY <1>1, <2>1, Stages
  <1>6. CASE ConsumerStarts(r)
    <2>1. /\ \A q \in Runners \ {r} : run'[q] = run[q]
          /\ SameUploads(r) /\ run'[r].seen = run[r].seen /\ run'[r].at = "run"
      BY <1>6, Shaped, HasFields DEF ConsumerStarts, Moves, SameUploads, Shape, Beside
    <2> QED BY <1>1, <2>1, Stages
  <1> QED BY <1>3, <1>4, <1>5, <1>6

LEMMA SyncLooksStep ==
  ASSUME IInv, StoreInv, NEW r \in Runners, NEW a \in Artifacts, SyncLooks(r, a)
  PROVE  StoreInv'
  <1>1. run[r].at = "run" /\ content[a] \notin {0, run[r].uploaded[a]}
           /\ UNCHANGED <<pc, filled, content, store, env, local, result, control>>
    BY DEF SyncLooks, RunRest, Here, vars, dataVars, localVars
  <1>2. /\ \A q \in Runners \ {r} : run'[q] = run[q]
        /\ SameUploads(r) /\ run'[r].seen = content[a] /\ run'[r].syncs = a /\ run'[r].at = "look"
    BY Shaped, HasFields DEF SyncLooks, SameUploads, Shape, Beside
  <1>3. UploadTypes(r) /\ Begins(r) /\ content \in [Artifacts -> Nat]
    BY DEF StoreInv, StoreTypes
  <1>4. UploadTypes(r)' /\ Begins(r)'
    BY <1>1, <1>2, <1>3 DEF UploadTypes, Begins, SameUploads
  <1>5. ASSUME Sole PROVE Synced(r)' /\ Offloads(r)'
    <2>1. Synced(r)
      BY <1>5 DEF StoreInv
    <2>2. run[r].uploaded[a] < content[a]
      BY <1>1, <1>3, <2>1 DEF Synced, UploadTypes
    <2> QED BY <1>1, <1>2, <1>3, <2>1, <2>2 DEF Synced, Offloads, SameUploads
  <1> QED BY <1>1, <1>2, <1>4, <1>5, WorksApart DEF Working

\* The second look lets the PUT begin, or goes back.
LEMMA SyncLooksAgainStep ==
  ASSUME IInv, StoreInv, NEW r \in Runners, SyncLooksAgain(r)
  PROVE  StoreInv'
  <1>1. run[r].at = "look"
           /\ UNCHANGED <<pc, filled, content, store, env, local, result, control>>
    BY DEF SyncLooksAgain, RunRest, Here, vars, dataVars, localVars
  <1>2. /\ \A q \in Runners \ {r} : run'[q] = run[q]
        /\ SameUploads(r)
        /\ \/ run'[r].seen = run[r].seen /\ run'[r].syncs = run[r].syncs /\ run'[r].at = "put"
           \/ run'[r].seen = 0 /\ run'[r].at = "run"
    BY Shaped, HasFields DEF SyncLooksAgain, SameUploads, Shape, Beside
  <1>3. UploadTypes(r) /\ Begins(r)
    BY DEF StoreInv, StoreTypes
  <1>4. UploadTypes(r)' /\ Begins(r)'
    BY <1>1, <1>2, <1>3 DEF UploadTypes, Begins, SameUploads
  <1>5. ASSUME Sole PROVE Synced(r)' /\ Offloads(r)'
    <2>1. Synced(r)
      BY <1>5 DEF StoreInv
    <2> QED BY <1>1, <1>2, <2>1 DEF Synced, Offloads, SameUploads
  <1> QED BY <1>1, <1>2, <1>4, <1>5, WorksApart DEF Working

\* A PUT that ends, with its record or without.
LEMMA SyncPutsStep ==
  ASSUME IInv, StoreInv, NEW r \in Runners, SyncPuts(r) PROVE StoreInv'
  <1> DEFINE a == run[r].syncs
  <1>1. run[r].at = "put"
          /\ UNCHANGED <<pc, filled, content, env, local, result, control>>
    BY DEF SyncPuts, RunRest, Here, vars, localVars
  <1>2. UploadTypes(r) /\ Begins(r) /\ content \in [Artifacts -> Nat] /\ store \in [Artifacts -> Nat]
          /\ a \in Artifacts
    BY <1>1 DEF StoreInv, StoreTypes, UploadTypes
  <1>3. /\ \A q \in Runners \ {r} : run'[q] = run[q]
        /\ run'[r].artifacts = run[r].artifacts /\ run'[r].workload = run[r].workload
        /\ run'[r].seen = 0 /\ run'[r].at = "run"
    BY Shaped, HasFields DEF SyncPuts, Shape, Beside
  <1>4. \/ /\ \E body \in Uploaded(r, a) : store' = [store EXCEPT ![a] = body]
           /\ run'[r].uploaded = [run[r].uploaded EXCEPT ![a] = run[r].seen]
        \/ /\ store' = store \/ \E body \in Uploaded(r, a) : store' = [store EXCEPT ![a] = body]
           /\ run'[r].uploaded = run[r].uploaded
    BY Shaped, HasFields DEF SyncPuts, Shape, Beside
  <1> HIDE DEF a
  <1>5. Uploaded(r, a) \subseteq Nat /\ (content[a] = run[r].seen => Uploaded(r, a) = {content[a]})
    BY <1>2, TransfersAssumption DEF Uploaded, Torn
  <1>6. store' \in [Artifacts -> Nat] /\ \A b \in Artifacts \ {a} : store'[b] = store[b]
    BY <1>2, <1>4, <1>5
  <1>7. run'[r].uploaded \in [Artifacts -> Nat]
          /\ \A b \in Artifacts \ {a} : run'[r].uploaded[b] = run[r].uploaded[b]
    BY <1>2, <1>4 DEF UploadTypes
  <1>8. UploadTypes(r)' /\ Begins(r)'
    BY <1>1, <1>2, <1>3, <1>7 DEF UploadTypes, Begins
  <1>9. ASSUME Sole PROVE Synced(r)' /\ Offloads(r)'
    <2>1. Synced(r)
      BY <1>9 DEF StoreInv
    <2>2. run[r].uploaded[a] < run[r].seen /\ run[r].seen <= content[a]
      BY <1>1, <2>1 DEF Synced, a
    <2>3. run'[r].uploaded[a] <= content[a]
            /\ (run'[r].uploaded[a] = content[a] => store'[a] = content[a])
      BY <1>2, <1>4, <1>5, <2>2 DEF UploadTypes
    <2> QED BY <1>1, <1>3, <1>6, <1>7, <2>1, <2>3 DEF Synced, Offloads
  <1>10. WorkStep(r)
    BY <1>1, <1>2, <1>3, <1>6 DEF WorkStep
  <1> QED BY <1>1, <1>8, <1>9, <1>10, Works DEF Working

\* The verdict is known: it has left nobody, or survivors.
LEMMA RunEndsStep ==
  ASSUME IInv, StoreInv, NEW r \in Runners, RunEnds(r) PROVE StoreInv'
  <1>1. PICK place, w, b :
          /\ EndsWith(r, place, w, b)
          /\ place = IF Artifacts = {} THEN "write" ELSE "offload"
          /\ ~survived' => ~survived /\ consumers' = {}
    BY RunEndsWith
  <1>2. run[r].at = "run" /\ UNCHANGED <<pc, filled, content, store, env, local, result, control>>
    BY DEF RunEnds, Here, vars, dataVars, localVars
  <1>3. /\ \A q \in Runners \ {r} : run'[q] = run[q]
        /\ run'[r].artifacts = run[r].artifacts /\ run'[r].seen = run[r].seen
        /\ run'[r].workload = w /\ run'[r].uploaded = [a \in Artifacts |-> 0]
        /\ run'[r].at = place
    <2>1. run' = [run EXCEPT ![r].at = place, ![r].uploaded = [a \in Artifacts |-> 0],
                             ![r].workload = w, ![r].by = b]
      BY <1>1, FreshUploads DEF EndsWith
    <2> QED BY <2>1, Shaped, HasFields DEF Shape, Beside
  <1>4. UploadTypes(r) /\ Begins(r)
    BY DEF StoreInv, StoreTypes
  <1>5. UploadTypes(r)' /\ Begins(r)'
    BY <1>1, <1>3, <1>4 DEF UploadTypes, Begins
  <1>6. Synced(r)' /\ Offloads(r)'
    <2>1. \A a \in Artifacts : run'[r].artifacts[a] = "untried"
      BY <1>2, <1>3, <1>4 DEF Begins
    <2>2. ~survived' => consumers' = {}
      BY <1>1
    <2>3. run'[r].at \in {"write", "offload"} /\ (run'[r].at = "write" => Artifacts = {})
      BY <1>1, <1>3
    <2> QED BY <1>3, <2>1, <2>2, <2>3 DEF Synced, Offloads
  <1> QED BY <1>2, <1>3, <1>5, <1>6, WorksApart DEF Working

\* What an attempt at an artifact notes.
Notes(r, a, status) ==
  /\ \A q \in Runners \ {r} : run'[q] = run[q]
  /\ run'[r].uploaded = run[r].uploaded /\ run'[r].seen = run[r].seen
  /\ run'[r].workload = run[r].workload /\ run'[r].unreadable = run[r].unreadable
  /\ run'[r].at \in {"offload", "write"}
  /\ run'[r].artifacts = [run[r].artifacts EXCEPT ![a] = status]
  /\ run'[r].at = "write" => Untried(r) = {a}

LEMMA Noted ==
  ASSUME IInv, StoreInv, NEW r \in Runners, NEW a, NEW status, OffloadNotes(r, a, status)
  PROVE  Notes(r, a, status)
  BY Shaped, HasFields DEF OffloadNotes, Notes, Shape, Beside

LEMMA NotesKeep ==
  ASSUME StoreInv, NEW r \in Runners, NEW a \in Artifacts, NEW status \in Statuses \ {"untried"},
         run[r].at = "offload", run[r].artifacts[a] = "untried", Notes(r, a, status),
         UNCHANGED <<pc, filled, env, local, result, control, content, consumers, survived>>,
         store' = store \/ (store' = [store EXCEPT ![a] = store'[a]] /\ store'[a] \in Nat),
         status = "ok" =>
           store'[a] # 0 /\ content[a] # 0 /\ (consumers = {} => store'[a] = content[a]),
         status = "missing" => content[a] = 0
  PROVE  StoreInv'
  <1>1. UploadTypes(r) /\ Begins(r) /\ content \in [Artifacts -> Nat] /\ store \in [Artifacts -> Nat]
    BY DEF StoreInv, StoreTypes
  <1>2. store' \in [Artifacts -> Nat] /\ \A b \in Artifacts \ {a} : store'[b] = store[b]
    BY <1>1
  <1>3. /\ run'[r].artifacts \in [Artifacts -> Statuses] /\ run'[r].artifacts[a] = status
        /\ \A b \in Artifacts \ {a} : run'[r].artifacts[b] = run[r].artifacts[b]
    BY <1>1 DEF UploadTypes, Notes
  <1>4. UploadTypes(r)' /\ Begins(r)'
    BY <1>1, <1>3 DEF UploadTypes, Begins, Notes
  <1>5. ASSUME Sole PROVE Synced(r)' /\ Offloads(r)'
    <2>1. Offloads(r)
      BY <1>5 DEF StoreInv
    <2>2. CASE run[r].workload # "succeeded"
      BY <2>2 DEF Synced, Offloads, Notes
    <2>3. CASE run[r].workload = "succeeded"
      <3>1. ~survived' => ~survived /\ consumers = {} /\ consumers' = {}
        BY <2>1, <2>3 DEF Offloads
      <3>2. \A b \in Artifacts :
              /\ run'[r].artifacts[b] = "ok" =>
                   store'[b] # 0 /\ content[b] # 0 /\ (~survived' => store'[b] = content[b])
              /\ run'[r].artifacts[b] = "missing" => content[b] = 0 \/ survived'
        BY <1>2, <1>3, <2>1, <2>3, <3>1 DEF Offloads
      <3>3. run'[r].at = "write" => \A b \in Artifacts : run'[r].artifacts[b] # "untried"
        BY <1>3 DEF Notes, Untried
      <3> QED BY <3>1, <3>2, <3>3 DEF Synced, Offloads, Notes
    <2> QED BY <2>2, <2>3
  <1>6. WorkStep(r)
    BY <1>1, <1>2 DEF WorkStep, Notes
  <1> QED BY <1>4, <1>5, <1>6, Works DEF Working

LEMMA OffloadMissesStep ==
  ASSUME IInv, StoreInv, NEW r \in Runners, NEW a \in Artifacts, OffloadMisses(r, a) PROVE StoreInv'
  <1>1. /\ run[r].at = "offload" /\ run[r].artifacts[a] = "untried" /\ content[a] = 0
        /\ OffloadNotes(r, a, "missing")
        /\ UNCHANGED <<pc, filled, env, local, result, control, content, consumers, survived>>
        /\ store' = store
    BY DEF OffloadMisses, NowOffloads, Untried, RunRest, Here, vars, localVars
  <1>2. "missing" \in Statuses \ {"untried"}
    BY DEF Statuses
  <1>3. Notes(r, a, "missing")
    BY <1>1, Noted
  <1> QED BY <1>1, <1>2, <1>3, NotesKeep

LEMMA OffloadPutsStep ==
  ASSUME IInv, StoreInv, NEW r \in Runners, NEW a \in Artifacts, OffloadPuts(r, a) PROVE StoreInv'
  <1>1. /\ run[r].at = "offload" /\ run[r].artifacts[a] = "untried" /\ content[a] # 0
        /\ UNCHANGED <<pc, filled, env, local, result, control, content, consumers, survived>>
    BY DEF OffloadPuts, NowOffloads, Untried, RunRest, Here, vars, localVars
  <1>2. content[a] \in Nat /\ Torn \in Nat \ {0} /\ store \in [Artifacts -> Nat]
    BY TransfersAssumption DEF StoreInv, StoreTypes, Torn
  <1>3. CASE /\ store' \in {[store EXCEPT ![a] = body] :
                              body \in {content[a]} \cup (IF consumers # {} THEN {Torn} ELSE {})}
             /\ OffloadNotes(r, a, "ok")
    <2>1. PICK body \in {content[a], Torn} :
            store' = [store EXCEPT ![a] = body] /\ (consumers = {} => body = content[a])
      BY <1>3
    <2>2. store' = [store EXCEPT ![a] = store'[a]] /\ store'[a] = body
      BY <1>2, <2>1
    <2>3. "ok" \in Statuses \ {"untried"}
      BY DEF Statuses
    <2>4. Notes(r, a, "ok")
      BY <1>3, Noted
    <2> QED BY <1>1, <1>2, <2>1, <2>2, <2>3, <2>4, NotesKeep
  <1>4. ASSUME NEW kind \in Failures \ {"setup"},
               store' \in IF kind = "transient" THEN {store, [store EXCEPT ![a] = content[a]]} ELSE {store},
               OffloadNotes(r, a, kind)
        PROVE  StoreInv'
    <2>1. kind \in Statuses \ {"untried"} /\ kind \notin {"ok", "missing"}
      BY TransfersAssumption DEF Statuses, Kinds
    <2>2. store' = store \/ (store' = [store EXCEPT ![a] = store'[a]] /\ store'[a] \in Nat)
      <3>1. store' = store \/ store' = [store EXCEPT ![a] = content[a]]
        BY <1>4
      <3> QED BY <1>2, <3>1
    <2>3. Notes(r, a, kind)
      BY <1>4, Noted
    <2> QED BY <1>1, <2>1, <2>2, <2>3, NotesKeep
  <1> QED BY <1>3, <1>4 DEF OffloadPuts

LEMMA OffloadCannotStartStep ==
  ASSUME IInv, StoreInv, NEW r \in Runners, OffloadCannotStart(r) PROVE StoreInv'
  <1>1. run[r].at = "offload"
          /\ UNCHANGED <<pc, filled, content, store, consumers, survived, env, local, result, control>>
    BY DEF OffloadCannotStart, RunRest, Here, vars, localVars
  <1>2. /\ \A q \in Runners \ {r} : run'[q] = run[q]
        /\ SameUploads(r) /\ run'[r].seen = run[r].seen
        /\ run'[r].at = "write" /\ run'[r].unreadable
    BY Shaped, HasFields DEF OffloadCannotStart, SameUploads, Shape, Beside
  <1>3. UploadTypes(r) /\ Begins(r)
    BY DEF StoreInv, StoreTypes
  <1>4. UploadTypes(r)' /\ Begins(r)'
    BY <1>2, <1>3 DEF UploadTypes, Begins, SameUploads
  <1>5. Sole => Offloads(r)
    BY DEF StoreInv
  <1>6. Sole => Synced(r)' /\ Offloads(r)'
    BY <1>1, <1>2, <1>5 DEF Synced, Offloads, SameUploads
  <1> QED BY <1>1, <1>2, <1>4, <1>6, WorksApart DEF Working

\* A result that says everything was offloaded says so of this state.
LEMMA CleanResult ==
  ASSUME StoreInv, Sole, NEW r \in Runners, run[r].at = "write", Clean(Absorbed(Result(r)))
  PROVE  /\ filled # {} /\ (~survived => consumers = {})
         /\ \A a \in Artifacts : /\ content[a] # 0 /\ ~survived => store[a] = content[a]
                                 /\ a \in Required => store[a] # 0
  <1> DEFINE found == Result(r)
  <1>1. /\ found.workload = "succeeded" /\ Artifacts # {} /\ ~StageFailed(found) /\ ~OffloadFailed(found)
    BY DEF Clean, Absorbed
  <1>2. /\ run[r].workload = "succeeded" /\ found.artifacts = run[r].artifacts
        /\ found.unreadable = run[r].unreadable
    BY <1>1 DEF Result
  <1> HIDE DEF found
  <1>3. /\ ~run[r].unreadable
        /\ \A a \in Artifacts : run[r].artifacts[a] \notin Kinds
        /\ \A a \in Required : run[r].artifacts[a] \notin {"missing", "untried"}
    BY <1>1, <1>2 DEF OffloadFailed, Missing, FailedUploads
  <1>4. Offloads(r) /\ run[r].artifacts \in [Artifacts -> Statuses] /\ r \in filled
    BY DEF StoreInv, StoreTypes, UploadTypes, Owned
  <1>5. \A a \in Artifacts : run[r].artifacts[a] \in {"ok", "missing"}
    BY <1>2, <1>3, <1>4 DEF Offloads, Statuses
  <1> QED BY <1>2, <1>3, <1>4, <1>5, RequiredAssumption DEF Offloads

LEMMA WritesResultStep ==
  ASSUME IInv, StoreInv, NEW r \in Runners, WritesResult(r) PROVE StoreInv'
  <1>1. run[r].at = "write" /\ result' = {Result(r)}
          /\ UNCHANGED <<pc, filled, content, store, consumers, survived, env, local, control>>
    BY DEF WritesResult, Here, vars, dataVars, localVars
  <1>2. /\ \A q \in Runners \ {r} : run'[q] = run[q]
        /\ SameUploads(r) /\ run'[r].seen = run[r].seen /\ run'[r].at = "copy"
    BY Shaped, HasFields DEF WritesResult, Moves, SameUploads, Shape, Beside
  <1>3. UploadTypes(r) /\ Begins(r) /\ r \in filled /\ LaunchTypes
          /\ content \in [Artifacts -> Nat] /\ store \in [Artifacts -> Nat]
    BY <1>1 DEF StoreInv, StoreTypes, Owned
  <1>4. UploadTypes(r)' /\ Begins(r)' /\ Synced(r)' /\ Offloads(r)'
    BY <1>2, <1>3 DEF UploadTypes, Begins, SameUploads, Synced, Offloads
  <1>5. LaunchTypes' /\ StoreTypes' /\ Owned' /\ \A q \in Runners : Begins(q)'
    <2>1. LaunchTypes'
      BY <1>1, <1>3 DEF LaunchTypes
    <2> QED BY <1>1, <1>2, <1>3, <1>4, <2>1, Untouched DEF StoreTypes, Owned
  <1>6. ASSUME Sole'
        PROVE  (\A q \in Runners : Synced(q) /\ Offloads(q))' /\ ResultIsTrue' /\ RecordIsTrue'
    <2>1. Sole
      BY <1>1, <1>6 DEF Sole
    <2>2. \A q \in Runners \ {r} : run[q].at \in {"none", "over"}
      BY <1>1, <2>1, Alone
    <2>3. \A q \in Runners : Synced(q)' /\ Offloads(q)'
      BY <1>2, <1>4, <2>2, Untouched
    <2>4. ~Offloaded
      BY <1>1 DEF Offloaded
    <2>5. \A q \in Runners : run'[q].at \in {"none", "over", "copy"}
      BY <1>2, <2>2
    <2>6. Clean(Absorbed(Result(r))) => Offloaded'
      BY <1>1, <2>1, <2>5, CleanResult DEF Offloaded
    <2>7. ResultIsTrue /\ RecordIsTrue
      BY <2>1 DEF StoreInv
    <2>8. ResultIsTrue'
      BY <1>1, <2>4, <2>6, <2>7 DEF ResultIsTrue
    <2>9. RecordIsTrue'
      BY <1>1, <2>4, <2>7 DEF RecordIsTrue
    <2> QED BY <2>3, <2>8, <2>9
  <1> QED BY <1>5, <1>6 DEF StoreInv

LEMMA ConsumerWritesStep ==
  ASSUME IInv, StoreInv, NEW a \in Artifacts, ConsumerWrites(a) PROVE StoreInv'
  <1>1. consumers # {} /\ content' = [content EXCEPT ![a] = @ + 1]
          /\ UNCHANGED <<pc, filled, run, store, consumers, survived, env, local>>
          /\ UNCHANGED <<result, control>>
    BY DEF ConsumerWrites, RunRest, vars, localVars
  <1>2. LaunchTypes /\ StoreTypes /\ Owned /\ \A r \in Runners : Begins(r)
    BY DEF StoreInv
  <1>3. /\ content' \in [Artifacts -> Nat] /\ content'[a] = content[a] + 1
        /\ \A b \in Artifacts \ {a} : content'[b] = content[b]
    BY <1>1, <1>2 DEF StoreTypes
  <1>4. LaunchTypes' /\ StoreTypes' /\ Owned' /\ \A r \in Runners : Begins(r)'
    <2>1. LaunchTypes' /\ Owned' /\ \A r \in Runners : Begins(r)'
      BY <1>1, <1>2 DEF LaunchTypes, Owned, Begins
    <2>2. StoreTypes'
      BY <1>1, <1>2, <1>3 DEF StoreTypes, UploadTypes
    <2> QED BY <2>1, <2>2
  <1>5. ASSUME Sole, NEW r \in Runners PROVE Synced(r)' /\ Offloads(r)'
    <2>1. Synced(r) /\ Offloads(r) /\ UploadTypes(r) /\ content \in [Artifacts -> Nat]
      BY <1>2, <1>5 DEF StoreInv, StoreTypes
    <2>2. \A b \in Artifacts : content[b] <= content'[b] /\ (b = a => content[b] < content'[b])
      BY <1>3, <2>1
    <2>3. Offloads(r)'
      <3> SUFFICES ASSUME run[r].at \in {"offload", "write"}, run[r].workload = "succeeded"
                   PROVE  Offloads(r)'
        BY <1>1 DEF Offloads
      <3>1. survived /\ survived'
        BY <1>1, <2>1 DEF Offloads
      <3>2. \A b \in Artifacts : content[b] # 0 => content'[b] # 0
        BY <2>2, <1>3, <2>1
      <3> QED BY <1>1, <2>1, <3>1, <3>2 DEF Offloads
    <2>4. ASSUME run[r].at \in {"stage", "run", "look", "put"}, NEW b \in Artifacts
          PROVE  /\ run[r].uploaded[b] <= content'[b]
                 /\ content'[b] # 0 /\ run[r].uploaded[b] = content'[b] => store[b] = content'[b]
      BY <1>3, <2>1, <2>2, <2>4 DEF Synced, UploadTypes
    <2>5. ASSUME run[r].at \in {"look", "put"}
          PROVE  /\ run[r].uploaded[run[r].syncs] < run[r].seen
                 /\ run[r].seen <= content'[run[r].syncs]
      BY <1>3, <2>1, <2>2, <2>5 DEF Synced, UploadTypes
    <2> QED BY <1>1, <2>3, <2>4, <2>5 DEF Synced
  <1>6. ASSUME Sole PROVE ResultIsTrue' /\ RecordIsTrue'
    <2>1. ResultIsTrue /\ RecordIsTrue
      BY <1>6 DEF StoreInv
    <2>2. Offloaded => Offloaded'
      BY <1>1 DEF Offloaded
    <2> QED BY <1>1, <2>1, <2>2 DEF ResultIsTrue, RecordIsTrue
  <1>7. Sole' => Sole
    BY <1>1 DEF Sole
  <1> QED BY <1>4, <1>5, <1>6, <1>7 DEF StoreInv

-----------------------------------------------------------------------------
(***************************************************************************)
(* Steps that write neither an artifact nor the store.                     *)
(***************************************************************************)

\* Invocations stay as they were or go, and so do the workloads.
Wanes ==
  /\ UNCHANGED <<pc, filled, content, store, survived>>
  /\ \A q \in Runners : run'[q] = run[q] \/ Nowhere(q)'
  /\ consumers = {} => consumers' = {}

LEMMA WanesKeeps ==
  ASSUME StoreInv, Wanes
  PROVE  /\ LaunchTypes' /\ StoreTypes' /\ Owned' /\ \A r \in Runners : Begins(r)'
         /\ Sole' => Sole /\ \A r \in Runners : Synced(r)' /\ Offloads(r)'
         /\ Offloaded => Offloaded'
  <1>1. LaunchTypes /\ StoreTypes /\ Owned /\ \A r \in Runners : Begins(r)
    BY DEF StoreInv
  <1>2. UNCHANGED <<pc, filled, content, store, survived>> /\ (consumers = {} => consumers' = {})
    BY DEF Wanes
  <1>3. ASSUME NEW r \in Runners
        PROVE  /\ UploadTypes(r)' /\ Begins(r)' /\ (run'[r].at \notin {"none", "over"} => r \in filled)
               /\ Synced(r) /\ Offloads(r) => Synced(r)' /\ Offloads(r)'
               /\ run[r].at \in {"none", "over", "copy"} => run'[r].at \in {"none", "over", "copy"}
    <2>1. CASE run'[r] = run[r]
      <3>1. UploadTypes(r) /\ Begins(r) /\ (run[r].at \notin {"none", "over"} => r \in filled)
        BY <1>1 DEF StoreTypes, Owned
      <3> QED BY <1>2, <2>1, <3>1 DEF UploadTypes, Begins, Synced, Offloads
    <2>2. CASE Nowhere(r)'
      BY <2>2 DEF Nowhere, UploadTypes, Begins, Synced, Offloads, Statuses
    <2> QED BY <2>1, <2>2 DEF Wanes
  <1>4. LaunchTypes'
    BY <1>1, <1>2 DEF LaunchTypes
  <1>5. StoreTypes' /\ Owned' /\ \A r \in Runners : Begins(r)'
    BY <1>1, <1>2, <1>3 DEF StoreTypes, Owned
  <1>6. ASSUME Sole' PROVE Sole /\ \A r \in Runners : Synced(r)' /\ Offloads(r)'
    <2>1. Sole
      BY <1>2, <1>6 DEF Sole
    <2> QED BY <1>3, <2>1 DEF StoreInv
  <1>7. Offloaded => Offloaded'
    BY <1>2, <1>3 DEF Offloaded
  <1> QED BY <1>4, <1>5, <1>6, <1>7

\* The deadline's cancel touches only the advice.
LEMMA OverdueSays ==
  ASSUME NEW found
  PROVE  LET late == Overdue(Absorbed(found))
         IN  /\ late.workload = Absorbed(found).workload
             /\ late.offload = Absorbed(found).offload
             /\ late.retry = IF Absorbed(found).retry = NoClass THEN "retry_same"
                             ELSE Absorbed(found).retry
  BY DEF Overdue, Absorbed

\* No result but those there were, no outcome but one of them or none.
LEMMA WanesStep ==
  ASSUME StoreInv, Wanes, result' \cup control' \subseteq result \cup control,
         \/ env' = env /\ (local' # "polling" => local # "polling")
         \/ env' = FinishedWithout
         \/ \E found \in result \cup control : env' \in {Absorbed(found), Overdue(Absorbed(found))}
  PROVE  StoreInv'
  <1>1. /\ LaunchTypes' /\ StoreTypes' /\ Owned' /\ \A r \in Runners : Begins(r)'
        /\ Sole' => Sole /\ \A r \in Runners : Synced(r)' /\ Offloads(r)'
        /\ Offloaded => Offloaded'
    BY WanesKeeps
  <1>2. ASSUME Sole PROVE ResultIsTrue' /\ RecordIsTrue'
    <2>1. ResultIsTrue /\ RecordIsTrue
      BY <1>2 DEF StoreInv
    <2>2. ResultIsTrue'
      BY <1>1, <2>1 DEF ResultIsTrue
    <2>3. CASE env' = env /\ (local' # "polling" => local # "polling")
      BY <1>1, <2>1, <2>2, <2>3 DEF RecordIsTrue, Clean
    <2>4. CASE env' = FinishedWithout
      <3>1. FinishedWithout.workload = "unknown"
        BY DEF FinishedWithout
      <3>2. env'.workload # "succeeded"
        BY <2>4, <3>1
      <3> QED BY <2>2, <3>2 DEF RecordIsTrue, Clean
    <2>5. ASSUME NEW found \in result \cup control,
                 env' \in {Absorbed(found), Overdue(Absorbed(found))}
          PROVE  RecordIsTrue'
      <3>1. Clean(env') => Clean(Absorbed(found))
        BY <2>5, OverdueSays DEF Clean
      <3> QED BY <1>1, <2>1, <3>1 DEF ResultIsTrue, RecordIsTrue
    <2> QED BY <2>2, <2>3, <2>4, <2>5
  <1> QED BY <1>1, <1>2 DEF StoreInv

LEMMA Gone ==
  ASSUME IInv, NEW r \in Runners, Forgets(r)
  PROVE  \A q \in Runners : run'[q] = run[q] \/ Nowhere(q)'
  <1> DEFINE x == [Fresh EXCEPT !.at = "over"]
  <1>1. /\ x.at = "over" /\ x.seen \in Nat /\ x.workload = "failed"
        /\ x.uploaded = [a \in Artifacts |-> 0]
        /\ x.artifacts = [a \in Artifacts |-> "untried"]
    BY DEF Fresh
  <1>2. run' = [run EXCEPT ![r] = x]
    BY DEF Forgets
  <1> HIDE DEF x
  <1>3. run'[r] = x /\ \A q \in Runners \ {r} : run'[q] = run[q]
    BY <1>2, Shaped DEF Shape
  <1> QED BY <1>1, <1>3 DEF Nowhere

LEMMA RunnerGoesStep ==
  ASSUME IInv, StoreInv, NEW r \in Runners, RunnerCrashes(r) \/ CopiesResult(r) \/ OrphanEnds(r)
  PROVE  StoreInv'
  <1>1. UNCHANGED <<pc, filled, content, store, survived, env, local>> /\ consumers' \subseteq consumers
    BY DEF RunnerCrashes, CopiesResult, OrphanEnds, Crash, Finish, vars, dataVars, localVars
  <1>2. result' \cup control' \subseteq result \cup control
    BY DEF RunnerCrashes, CopiesResult, OrphanEnds
  <1>3. \A q \in Runners : run'[q] = run[q] \/ Nowhere(q)'
    <2>1. CASE run' = run
      BY <2>1
    <2> QED BY <2>1, Gone DEF RunnerCrashes, CopiesResult, OrphanEnds
  <1>4. Wanes
    BY <1>1, <1>3 DEF Wanes
  <1> QED BY <1>1, <1>2, <1>4, WanesStep

LEMMA LocalStep ==
  ASSUME StoreInv, VmReclaimed \/ Absorbs \/ AbsorbsOverdue \/ GivesUp \/ Closes
  PROVE  StoreInv'
  <1>1. UNCHANGED <<pc, filled, content, store, survived>> /\ UNCHANGED <<result, control>>
    BY DEF VmReclaimed, VmGoes, Absorbs, AbsorbsOverdue, Reads, GivesUp, Closes, LocalRest, vars, dataVars
  <1>2. (run' = run /\ consumers' = consumers) \/ (run' = [q \in Runners |-> Fresh] /\ consumers' = {})
    BY DEF VmReclaimed, VmGoes, Absorbs, AbsorbsOverdue, Reads, GivesUp, Closes
  <1>3. Wanes
    <2>1. CASE run' = run /\ consumers' = consumers
      BY <1>1, <2>1 DEF Wanes
    <2>2. CASE run' = [q \in Runners |-> Fresh] /\ consumers' = {}
      <3>1. \A q \in Runners : Nowhere(q)'
        BY <2>2, FreshUploads DEF Nowhere
      <3> QED BY <1>1, <2>2, <3>1 DEF Wanes
    <2> QED BY <1>2, <2>1, <2>2
  <1>4. \/ env' = env /\ (local' # "polling" => local # "polling")
        \/ env' = FinishedWithout
        \/ \E found \in result \cup control : env' \in {Absorbed(found), Overdue(Absorbed(found))}
    <2>1. CASE VmReclaimed \/ Closes
      BY <2>1 DEF VmReclaimed, Closes
    <2>2. CASE Absorbs \/ AbsorbsOverdue
      BY <2>2 DEF Absorbs, AbsorbsOverdue
    <2>3. CASE GivesUp
      BY <2>3 DEF GivesUp
    <2> QED BY <2>1, <2>2, <2>3
  <1> QED BY <1>1, <1>3, <1>4, WanesStep

\* The launch record is written: an invocation more begins, with nothing
\* uploaded.
LEMMA FillStep ==
  ASSUME IInv, StoreInv, NEW r \in Runners, Fill(r), run' = [run EXCEPT ![r].at = "stage"],
         UNCHANGED <<dataVars, consumers, result, control, survived, localVars>>
  PROVE  StoreInv'
  <1>1. LaunchTypes /\ StoreTypes /\ Owned /\ \A q \in Runners : Begins(q)
    BY DEF StoreInv
  <1>2. pc[r] = "fill" /\ filled' = filled \cup {r} /\ pc' = [pc EXCEPT ![r] = "consumer"]
          /\ UNCHANGED <<content, store, consumers, survived, result, control, env, local>>
    BY DEF Fill, At, Goes, dataVars, localVars
  <1>3. r \notin filled /\ run[r].at \in {"none", "over"}
    BY <1>1, <1>2 DEF LaunchTypes, Owned
  <1>4. LaunchTypes'
    <2>1. pc' = [q \in Runners |-> pc'[q]] /\ pc'[r] = "consumer"
             /\ \A q \in Runners \ {r} : pc'[q] = pc[q]
      BY <1>1, <1>2 DEF LaunchTypes
    <2>2. IsFiniteSet(filled')
      BY <1>1, <1>2, FS_AddElement DEF LaunchTypes
    <2> QED BY <1>1, <1>2, <2>1, <2>2 DEF LaunchTypes
  <1>5. /\ \A q \in Runners \ {r} : run'[q] = run[q]
        /\ SameUploads(r) /\ run'[r].seen = run[r].seen /\ run'[r].at = "stage"
    BY Shaped, HasFields DEF SameUploads, Shape, Beside
  <1>6. UploadTypes(r)' /\ Begins(r)' /\ Synced(r)' /\ Offloads(r)'
    <2>1. UploadTypes(r) /\ Begins(r) /\ content \in [Artifacts -> Nat]
      BY <1>1 DEF StoreTypes
    <2>2. \A a \in Artifacts : run'[r].uploaded[a] = 0 /\ content'[a] \in Nat
      BY <1>2, <1>3, <1>5, <2>1 DEF Begins, SameUploads
    <2>3. UploadTypes(r)' /\ Begins(r)'
      BY <1>3, <1>5, <2>1 DEF UploadTypes, Begins, SameUploads
    <2>4. Synced(r)' /\ Offloads(r)'
      BY <1>5, <2>2 DEF Synced, Offloads
    <2> QED BY <2>3, <2>4
  <1>7. StoreTypes' /\ Owned' /\ \A q \in Runners : Begins(q)'
    BY <1>1, <1>2, <1>5, <1>6, Untouched DEF StoreTypes, Owned
  <1>8. ASSUME Sole'
        PROVE  (\A q \in Runners : Synced(q) /\ Offloads(q))' /\ ResultIsTrue' /\ RecordIsTrue'
    <2>1. filled = {}
      BY <1>2, <1>3, <1>8 DEF Sole
    <2>2. Sole /\ ~Offloaded /\ \A q \in Runners : run[q].at \in {"none", "over"}
      BY <1>1, <2>1 DEF Sole, Offloaded, Owned
    <2>3. \A q \in Runners : Synced(q)' /\ Offloads(q)'
      BY <1>5, <1>6, <2>2, Untouched
    <2>4. ResultIsTrue /\ RecordIsTrue
      BY <2>2 DEF StoreInv
    <2>5. ResultIsTrue' /\ RecordIsTrue'
      BY <1>2, <2>2, <2>4 DEF ResultIsTrue, RecordIsTrue
    <2> QED BY <2>3, <2>5
  <1> QED BY <1>4, <1>7, <1>8 DEF StoreInv

\* Until then nothing is there to stage.
LEMMA BeforeFillStep ==
  ASSUME StoreInv, NEW r \in Runners, NEW where \in {"create", "fill", "read", "swap", "recreate",
                                                     "duplicate", "failed"},
         pc[r] # "consumer", Goes(r, where), run' = run,
         UNCHANGED <<filled, dataVars, consumers, result, control, survived, localVars>>
  PROVE  StoreInv'
  <1>1. LaunchTypes /\ StoreTypes /\ Owned /\ \A q \in Runners : Begins(q)
    BY DEF StoreInv
  <1>2. UNCHANGED <<filled, run, content, store, consumers, survived>>
          /\ UNCHANGED <<result, control, env, local>>
    BY DEF dataVars, localVars
  <1>3. LaunchTypes'
    BY <1>1, <1>2 DEF LaunchTypes, Goes
  <1>4. StoreTypes' /\ Owned' /\ \A q \in Runners : Begins(q)'
    BY <1>1, <1>2 DEF StoreTypes, UploadTypes, Owned, Begins
  <1>5. ASSUME Sole'
        PROVE  (\A q \in Runners : Synced(q) /\ Offloads(q))' /\ ResultIsTrue' /\ RecordIsTrue'
    <2>1. Sole
      BY <1>2, <1>5 DEF Sole
    <2>2. (\A q \in Runners : Synced(q) /\ Offloads(q)) /\ ResultIsTrue /\ RecordIsTrue
      BY <2>1 DEF StoreInv
    <2>3. \A q \in Runners : Synced(q)' /\ Offloads(q)'
      BY <1>2, <2>2 DEF Synced, Offloads
    <2>4. Offloaded' = Offloaded
      BY <1>2 DEF Offloaded
    <2>5. ResultIsTrue' /\ RecordIsTrue'
      BY <1>2, <2>2, <2>4 DEF ResultIsTrue, RecordIsTrue
    <2> QED BY <2>3, <2>5
  <1> QED BY <1>3, <1>4, <1>5 DEF StoreInv

LEMMA LaunchesKeeps ==
  ASSUME IInv, StoreInv, NEW r \in Runners, Launches(r) PROVE StoreInv'
  <1>1. UNCHANGED <<dataVars, consumers, result, control, survived, localVars>> /\ LaunchTypes
          /\ run' = IF pc'[r] = "consumer" THEN [run EXCEPT ![r].at = "stage"] ELSE run
    BY DEF Launches, StoreInv
  <1>2. CASE Fill(r)
    <2>1. pc'[r] = "consumer"
      BY <1>1, <1>2 DEF Fill, Goes, LaunchTypes
    <2> QED BY <1>1, <1>2, <2>1, FillStep
  <1>3. ASSUME NEW where \in {"create", "fill", "read", "swap", "recreate", "duplicate", "failed"},
               pc[r] # "consumer", Goes(r, where), UNCHANGED filled
        PROVE  StoreInv'
    <2>1. pc'[r] = where
      BY <1>1, <1>3 DEF Goes, LaunchTypes
    <2> QED BY <1>1, <1>3, <2>1, BeforeFillStep
  <1>4. CASE Start(r)
    BY <1>3, <1>4 DEF Start
  <1>5. CASE Create(r)
    BY <1>3, <1>5 DEF Create, At
  <1>6. CASE Read(r)
    BY <1>3, <1>6 DEF Read, At
  <1>7. CASE Swap(r)
    BY <1>3, <1>7 DEF Swap, At
  <1>8. CASE Recreate(r)
    BY <1>3, <1>8 DEF Recreate, At
  <1> QED BY <1>2, <1>4, <1>5, <1>6, <1>7, <1>8 DEF Launches

\* StoreInv holds of every execution: it is kept by every step from a state
\* where IInv holds too.
THEOREM StoreInvariance == TransfersSpec => []StoreInv
  <1>1. ASSUME IInv, StoreInv, NEW r \in Runners, Runner(r) PROVE StoreInv'
    <2>1. CASE Launches(r)
      BY <1>1, <2>1, LaunchesKeeps
    <2>2. CASE RunnerCrashes(r) \/ CopiesResult(r) \/ OrphanEnds(r)
      BY <1>1, <2>2, RunnerGoesStep
    <2>3. CASE \/ StageFetches(r) \/ StageInstalls(r) \/ SetupFails(r) \/ StageFails(r)
               \/ ConsumerStarts(r)
      BY <1>1, <2>3, StagingKeepsStore
    <2>4. CASE (\E a \in Artifacts : SyncLooks(r, a)) \/ SyncLooksAgain(r) \/ SyncPuts(r)
      BY <1>1, <2>4, SyncLooksStep, SyncLooksAgainStep, SyncPutsStep
    <2>5. CASE (\E a \in Artifacts : OffloadPuts(r, a) \/ OffloadMisses(r, a)) \/ OffloadCannotStart(r)
      BY <1>1, <2>5, OffloadPutsStep, OffloadMissesStep, OffloadCannotStartStep
    <2>6. CASE RunEnds(r) \/ WritesResult(r)
      BY <1>1, <2>6, RunEndsStep, WritesResultStep
    <2> QED BY <1>1, <2>1, <2>2, <2>3, <2>4, <2>5, <2>6 DEF Runner
  <1>2. ASSUME IInv, StoreInv, [TransfersNext]_allVars PROVE StoreInv'
    <2>1. CASE UNCHANGED allVars
      <3>1. UNCHANGED <<pc, filled, content, store, survived>> /\ UNCHANGED <<run, consumers>>
              /\ UNCHANGED <<result, control, env, local>>
        BY <2>1 DEF allVars, vars, dataVars, runVars, localVars
      <3>2. Wanes
        BY <3>1 DEF Wanes
      <3> QED BY <1>2, <3>1, <3>2, WanesStep
    <2>2. ASSUME NEW a \in Artifacts, ConsumerWrites(a) PROVE StoreInv'
      BY <1>2, <2>2, ConsumerWritesStep
    <2>3. CASE VmReclaimed \/ Absorbs \/ AbsorbsOverdue \/ GivesUp \/ Closes
      BY <1>2, <2>3, LocalStep
    <2> QED BY <1>1, <1>2, <2>1, <2>2, <2>3 DEF TransfersNext
  <1> QED BY Invariance, StoreInitially, <1>2, PTL DEF TransfersSpec

\* runner.py:613, _sync_artifacts_once: what the sync remembers as uploaded is
\* behind the URL, and a record of a succeeded workload that was offloaded is
\* true of every artifact, whatever was written, lost or torn meanwhile; of
\* its last version only when no process outlived the verdict.
THEOREM StoreIsKept == TransfersSpec => []StoreIsTrue
  <1>1. ASSUME StoreInv PROVE StoreIsTrue
    <2>1. OneInvocation => Sole
      BY <1>1, OneIsSole DEF OneInvocation, Sole, StoreInv, LaunchTypes
    <2>2. SUFFICES ASSUME Sole PROVE StoreIsTrue
      BY <2>1 DEF StoreIsTrue
    <2>3. /\ \A r \in filled : r \in Runners /\ Synced(r)
          /\ RecordIsTrue
      BY <1>1, <2>2 DEF StoreInv, LaunchTypes
    <2>4. ASSUME NEW r \in filled, NEW a \in Artifacts,
                 run[r].at \in {"run", "look"}, content[a] = run[r].uploaded[a], content[a] # 0
          PROVE  store[a] = content[a]
      BY <2>3, <2>4 DEF Synced
    <2> QED BY <2>3, <2>4 DEF RecordIsTrue, Offloaded, Clean, StoreIsTrue
  <1> QED BY StoreInvariance, <1>1, PTL
-----------------------------------------------------------------------------
(***************************************************************************)
(* What the supervisor makes of a result.  OutcomeIsUsable is a property   *)
(* of the step that absorbs one; what the runner knows at each place       *)
(* leads to what every result says.                                        *)
(***************************************************************************)
Verdicts == {"succeeded", "failed", "cancelled", "unknown"}

Ended(x) ==
  /\ x.workload \in Verdicts /\ x.by \in {"nobody", "wall_clock", "person"}
  /\ x.by # "nobody" <=> x.workload = "cancelled"

\* Before the result every artifact was tried, or none.
Told(x) ==
  /\ x.failed \in {"ok"} \cup Kinds
  /\ x.at \in {"offload", "write"} /\ x.failed = "ok" => Ended(x)
  /\ x.at = "write" /\ x.failed = "ok" /\ ~x.unreadable =>
       \A a \in Artifacts : x.artifacts[a] # "untried"

Sound(found) ==
  /\ found.artifacts \in [Artifacts -> Statuses]
  /\ found.phase = "stage" => found.workload = "failed" /\ found.input \in Kinds
  /\ found.phase # "stage" =>
       /\ Ended(found)
       /\ ~found.unreadable => \A a \in Artifacts : found.artifacts[a] # "untried"

OutcomeInv ==
  /\ \A r \in Runners : Told(run[r])
  /\ \A found \in result \cup control : Sound(found)

Classes == {"do_not_retry", "fix_human", "fix_code", "retry_different", "refresh_urls", "retry_same"}

LEMMA Strengths ==
  /\ DOMAIN Strength = 1..6
  /\ Strength[1] = "do_not_retry" /\ Strength[2] = "fix_human" /\ Strength[3] = "fix_code"
  /\ Strength[4] = "retry_different" /\ Strength[5] = "refresh_urls" /\ Strength[6] = "retry_same"
  BY DEF Strength

\* The strongest of some classes is the first of them.
LEMMA StrongestIsFirst ==
  ASSUME NEW S \in SUBSET Classes, S # {}
  PROVE  \E i \in 1..6 : /\ Strongest(S) = Strength[i]
                        /\ \A j \in 1..6 : Strength[j] \in S => i <= j
  <1> DEFINE First(i) == Strength[i] \in S /\ \A j \in 1..6 : Strength[j] \in S => i <= j
  <1>1. \E i \in 1..6 : First(i)
    <2>2. 1..6 = {1, 2, 3, 4, 5, 6}
      OBVIOUS
    <2>1. \E i \in 1..6 : Strength[i] \in S
      <3>1. PICK c \in S : c \in Classes
        OBVIOUS
      <3>2. c \in {Strength[1], Strength[2], Strength[3], Strength[4], Strength[5], Strength[6]}
        BY <3>1, Strengths DEF Classes
      <3> QED BY <2>2, <3>2
    <2> HIDE DEF First
    <2>3. CASE Strength[1] \in S
      BY <2>3 DEF First
    <2>4. CASE Strength[1] \notin S /\ Strength[2] \in S
      BY <2>2, <2>4 DEF First
    <2>5. CASE Strength[1] \notin S /\ Strength[2] \notin S /\ Strength[3] \in S
      BY <2>2, <2>5 DEF First
    <2>6. CASE Strength[1] \notin S /\ Strength[2] \notin S /\ Strength[3] \notin S /\ Strength[4] \in S
      BY <2>2, <2>6 DEF First
    <2>7. CASE /\ Strength[1] \notin S /\ Strength[2] \notin S /\ Strength[3] \notin S /\ Strength[4] \notin S
               /\ Strength[5] \in S
      BY <2>2, <2>7 DEF First
    <2>8. CASE /\ Strength[1] \notin S /\ Strength[2] \notin S /\ Strength[3] \notin S /\ Strength[4] \notin S
               /\ Strength[5] \notin S /\ Strength[6] \in S
      BY <2>2, <2>8 DEF First
    <2> QED BY <2>1, <2>2, <2>3, <2>4, <2>5, <2>6, <2>7, <2>8
  <1>2. Strongest(S) = Strength[CHOOSE i \in 1..6 : First(i)]
    BY Strengths DEF Strongest
  <1> QED BY <1>1, <1>2

\* It is one of the two weakest only when there is no stronger one.
LEMMA OnlyTheWeakest ==
  ASSUME NEW S \in SUBSET Classes, Strongest(S) \in {"refresh_urls", "retry_same"}
  PROVE  /\ S \subseteq {"refresh_urls", "retry_same"}
         /\ Strongest(S) = "retry_same" => S \subseteq {"retry_same"}
  <1>1. S # {}
    BY DEF Strongest, NoClass
  <1>2. PICK i \in 1..6 : /\ Strongest(S) = Strength[i]
                         /\ \A j \in 1..6 : Strength[j] \in S => i <= j
    BY <1>1, StrongestIsFirst
  <1>3. 1..6 = {1, 2, 3, 4, 5, 6} /\ 1..4 = {1, 2, 3, 4}
    OBVIOUS
  <1>4. i = 5 \/ i = 6
    BY <1>2, <1>3, Strengths
  <1>5. \A j \in 1..6 : j < i => Strength[j] \notin S
    BY <1>2
  <1>6. Strength[1] \notin S /\ Strength[2] \notin S /\ Strength[3] \notin S /\ Strength[4] \notin S
    BY <1>4, <1>5
  <1>7. i = 6 => Strength[5] \notin S
    BY <1>5
  <1>8. Strongest(S) = "retry_same" => i = 6
    BY <1>2, <1>4, Strengths
  <1> QED BY <1>6, <1>7, <1>8, Strengths DEF Classes

LEMMA KindClasses ==
  ASSUME NEW kind \in Kinds, NEW method
  PROVE  /\ TransferRetryClass(kind, method) \in Classes
         /\ TransferRetryClass(kind, method) = "retry_same" => kind = "transient"
         /\ TransferRetryClass(kind, method) = "refresh_urls" => kind \in {"expired", "absent"}
  BY DEF Kinds, TransferRetryClass, Classes

\* What failed besides the workload can be put right by the advice.
NothingElse(retry, found) ==
  /\ ~found.unreadable
  /\ \A a \in Artifacts : \/ found.artifacts[a] \in {"ok"} \cup Cured(retry)
                          \/ a \notin Required /\ found.artifacts[a] = "missing"

LEMMA OffloadAdvice ==
  ASSUME NEW found, Sound(found), found.phase # "stage", NEW advice,
         \/ OffloadRetry(found) = advice /\ advice \in {"retry_same", "refresh_urls"}
         \/ OffloadRetry(found) = NoClass /\ advice = "retry_same"
  PROVE  NothingElse(advice, found)
  <1> DEFINE S ==   (IF found.unreadable THEN {"do_not_retry"} ELSE {})
               \cup (IF Missing(found) # {} THEN {"fix_code"} ELSE {})
               \cup {TransferRetryClass(found.artifacts[a], "PUT") : a \in FailedUploads(found)}
  <1>1. S \in SUBSET Classes
    BY KindClasses DEF FailedUploads, Classes
  <1>2. OffloadRetry(found) = Strongest(S)
    BY DEF OffloadRetry
  <1>3. S \subseteq {"refresh_urls", "retry_same"} /\ (advice = "retry_same" => S \subseteq {"retry_same"})
    <2> HIDE DEF S
    <2>1. CASE OffloadRetry(found) = advice /\ advice \in {"retry_same", "refresh_urls"}
      BY <1>1, <1>2, <2>1, OnlyTheWeakest
    <2>2. CASE OffloadRetry(found) = NoClass
      <3>1. ASSUME S # {} PROVE FALSE
        <4>1. PICK i \in 1..6 : Strongest(S) = Strength[i]
          BY <1>1, <3>1, StrongestIsFirst
        <4>2. 1..6 = {1, 2, 3, 4, 5, 6}
          OBVIOUS
        <4> QED BY <1>2, <2>2, <4>1, <4>2, Strengths DEF NoClass
      <3> QED BY <3>1
    <2> QED BY <2>1, <2>2
  <1>4. ~found.unreadable /\ Missing(found) = {}
    BY <1>3
  <1>5. \A a \in FailedUploads(found) : found.artifacts[a] \in Cured(advice)
    <2> SUFFICES ASSUME NEW a \in FailedUploads(found) PROVE found.artifacts[a] \in Cured(advice)
      OBVIOUS
    <2>1. found.artifacts[a] \in Kinds /\ TransferRetryClass(found.artifacts[a], "PUT") \in S
      BY DEF FailedUploads
    <2> HIDE DEF S
    <2> QED BY <1>3, <2>1, KindClasses DEF Cured
  <1>6. ASSUME NEW a \in Artifacts
        PROVE  \/ found.artifacts[a] \in {"ok"} \cup Cured(advice)
               \/ a \notin Required /\ found.artifacts[a] = "missing"
    <2>1. found.artifacts[a] \in {"ok", "missing"} \cup Kinds
      BY <1>4 DEF Sound, Statuses
    <2>2. found.artifacts[a] \in Kinds => found.artifacts[a] \in Cured(advice)
      BY <1>5 DEF FailedUploads
    <2>3. a \in Required => found.artifacts[a] # "missing"
      BY <1>4 DEF Missing
    <2> QED BY <2>1, <2>2, <2>3
  <1> QED BY <1>4, <1>6 DEF NothingElse

\* A new URL, or once more, is advised for an input that could not be
\* fetched, or for uploads of a run that is over.
LEMMA RetryIsOfTransfers ==
  ASSUME NEW found, Sound(found), Absorbed(found).retry \in {"retry_same", "refresh_urls"}
  PROVE  MayDo(Absorbed(found).retry, found)
  <1> DEFINE advice == Absorbed(found).retry
  <1>1. CASE StageFailed(found)
    <2>1. advice = TransferRetryClass(found.input, "GET")
      BY <1>1 DEF Absorbed
    <2>2. found.phase = "stage" /\ found.input \in Kinds
      BY <1>1 DEF Sound, StageFailed
    <2> HIDE DEF advice
    <2>3. found.input \in Cured(advice)
      BY <2>1, <2>2, KindClasses DEF Cured, advice
    <2> QED BY <2>2, <2>3 DEF MayDo, advice
  <1>2. CASE ~StageFailed(found)
    <2>1. found.phase # "stage" /\ Ended(found)
      BY <1>2 DEF Sound, StageFailed
    <2>2. WorkloadRetry(found) = NoClass /\ OffloadRetry(found) = advice
      <3>1. advice = IF WorkloadRetry(found) # NoClass THEN WorkloadRetry(found)
                     ELSE OffloadRetry(found)
        BY <1>2 DEF Absorbed
      <3>2. WorkloadRetry(found) \in {NoClass, "fix_code", "do_not_retry"}
        BY <2>1 DEF WorkloadRetry, Ended, Verdicts
      <3> QED BY <3>1, <3>2
    <2>3. found.workload = "succeeded" \/ found.by = "person"
      BY <2>1, <2>2 DEF WorkloadRetry, Ended, Verdicts, NoClass
    <2>4. NothingElse(advice, found)
      BY <2>1, <2>2, OffloadAdvice
    <2> QED BY <2>3, <2>4 DEF MayDo, NothingElse
  <1> QED BY <1>1, <1>2

\* With no advice at all nothing has failed, and the deadline's advice to do
\* the same once more is enough.
LEMMA OverdueIsOfTransfers ==
  ASSUME NEW found, Sound(found), Absorbed(found).retry = NoClass
  PROVE  MayDo("retry_same", found)
  <1>1. ~StageFailed(found)
    <2> SUFFICES ASSUME StageFailed(found) PROVE FALSE
      OBVIOUS
    <2>1. Absorbed(found).retry = TransferRetryClass(found.input, "GET") /\ found.input \in Kinds
      BY DEF Absorbed, Sound, StageFailed
    <2> QED BY <2>1, KindClasses DEF Classes, NoClass
  <1>2. found.phase # "stage" /\ Ended(found)
    BY <1>1 DEF Sound, StageFailed
  <1>3. WorkloadRetry(found) = NoClass /\ OffloadRetry(found) = NoClass
    BY <1>1 DEF Absorbed
  <1>4. found.workload = "succeeded" \/ found.by = "person"
    BY <1>2, <1>3 DEF WorkloadRetry, Ended, Verdicts, NoClass
  <1>5. NothingElse("retry_same", found)
    BY <1>2, <1>3, OffloadAdvice
  <1> QED BY <1>4, <1>5 DEF MayDo, NothingElse

-----------------------------------------------------------------------------

LEMMA FreshIsTold ==
  /\ Told(Fresh) /\ Told([Fresh EXCEPT !.at = "over"])
  /\ \A x : x.failed = Fresh.failed /\ x.at \in {"none", "over"} => Told(x)
  BY DEF Fresh, Told

LEMMA OutcomeInitially == TransfersInit => OutcomeInv
  BY FreshIsTold DEF TransfersInit, OutcomeInv

\* An invocation whose record is told of, beside others that stay as they are.
LEMMA TellsOn ==
  ASSUME OutcomeInv, NEW r \in Runners, \A q \in Runners \ {r} : run'[q] = run[q],
         Told(run'[r]), UNCHANGED <<result, control>>
  PROVE  OutcomeInv'
  BY DEF OutcomeInv, Told, Ended, Sound

LEMMA StagingIsTold ==
  ASSUME IInv, OutcomeInv, NEW r \in Runners,
         StageFetches(r) \/ StageInstalls(r) \/ SetupFails(r) \/ StageFails(r) \/ ConsumerStarts(r)
  PROVE  OutcomeInv'
  <1>1. UNCHANGED <<result, control>> /\ Told(run[r])
    BY DEF StageFetches, StageInstalls, SetupFails, StageFails, ConsumerStarts, StageRest, OutcomeInv
  <1>2. ASSUME NEW kind \in Kinds, StageEnds(r, kind) PROVE OutcomeInv'
    <2>1. /\ \A q \in Runners \ {r} : run'[q] = run[q]
          /\ run'[r].failed = kind /\ run'[r].at = "write"
      BY <1>2, Shaped, HasFields DEF StageEnds, Shape, Beside
    <2>2. kind # "ok"
      BY <1>2 DEF Kinds
    <2> QED BY <1>1, <2>1, <2>2, TellsOn DEF Told
  <1>3. CASE SetupFails(r) \/ StageFails(r)
    <2>1. Failures \subseteq Kinds /\ {"setup", "mismatch"} \subseteq Kinds
      BY TransfersAssumption DEF Kinds
    <2>2. \E kind \in Kinds : StageEnds(r, kind)
      BY <1>3, <2>1 DEF SetupFails, StageFails
    <2> QED BY <1>2, <2>2
  <1>4. CASE StageFetches(r) \/ StageInstalls(r) \/ ConsumerStarts(r)
    <2>1. run[r].at = "stage"
      BY <1>4 DEF StageFetches, StageInstalls, ConsumerStarts, Here
    <2>2. /\ \A q \in Runners \ {r} : run'[q] = run[q]
          /\ run'[r].failed = run[r].failed /\ run'[r].at \in {"stage", "run"}
      <3>1. CASE StageFetches(r)
        BY <2>1, <3>1, Shaped, HasFields DEF StageFetches, Shape, Beside
      <3>2. CASE StageInstalls(r)
        BY <2>1, <3>2, Shaped, HasFields DEF StageInstalls, Shape, Beside
      <3>3. CASE ConsumerStarts(r)
        BY <2>1, <3>3, Shaped, HasFields DEF ConsumerStarts, Moves, Shape, Beside
      <3> QED BY <1>4, <3>1, <3>2, <3>3
    <2> QED BY <1>1, <2>2, TellsOn DEF Told
  <1> QED BY <1>3, <1>4

LEMMA SyncIsTold ==
  ASSUME IInv, OutcomeInv, NEW r \in Runners,
         (\E a \in Artifacts : SyncLooks(r, a)) \/ SyncLooksAgain(r) \/ SyncPuts(r)
  PROVE  OutcomeInv'
  <1>1. UNCHANGED <<result, control>> /\ Told(run[r])
    BY DEF SyncLooks, SyncLooksAgain, SyncPuts, RunRest, OutcomeInv
  <1>2. /\ \A q \in Runners \ {r} : run'[q] = run[q]
        /\ run'[r].failed = run[r].failed /\ run'[r].at \in {"run", "look", "put"}
    <2>1. ASSUME NEW a \in Artifacts, SyncLooks(r, a)
          PROVE  /\ \A q \in Runners \ {r} : run'[q] = run[q]
                 /\ run'[r].failed = run[r].failed /\ run'[r].at = "look"
      BY <2>1, Shaped, HasFields DEF SyncLooks, Shape, Beside
    <2>2. CASE SyncPuts(r)
      BY <2>2, Shaped, HasFields DEF SyncPuts, Shape, Beside
    <2>3. CASE SyncLooksAgain(r)
      BY <2>3, Shaped, HasFields DEF SyncLooksAgain, Shape, Beside
    <2> QED BY <2>1, <2>2, <2>3
  <1> QED BY <1>1, <1>2, TellsOn DEF Told

\* The verdict of a run, and who asked for its end.
LEMMA RunEndsTold ==
  ASSUME IInv, OutcomeInv, NEW r \in Runners, RunEnds(r) PROVE OutcomeInv'
  <1>1. PICK place \in {"write", "offload"}, w \in Verdicts, b \in {"nobody", "wall_clock", "person"} :
          /\ b # "nobody" <=> w = "cancelled"
          /\ place = "write" => Artifacts = {}
          /\ EndsWith(r, place, w, b)
    <2> DEFINE place == IF Artifacts = {} THEN "write" ELSE "offload"
    <2>1. \E w \in Verdicts, b \in {"nobody", "wall_clock", "person"} :
            (b # "nobody" <=> w = "cancelled") /\ EndsWith(r, place, w, b)
      BY Zenon DEF RunEnds, EndsWith, Verdicts
    <2>2. place \in {"write", "offload"} /\ (place = "write" => Artifacts = {})
      OBVIOUS
    <2> HIDE DEF place
    <2> QED BY <2>1, <2>2
  <1>2. /\ \A q \in Runners \ {r} : run'[q] = run[q]
        /\ run'[r].failed = run[r].failed /\ run'[r].at = place
        /\ run'[r].workload = w /\ run'[r].by = b
    BY <1>1, Shaped, HasFields DEF EndsWith, Shape, Beside
  <1>3. UNCHANGED <<result, control>> /\ Told(run[r])
    BY DEF RunEnds, OutcomeInv
  <1>4. Told(run'[r])
    BY <1>1, <1>2, <1>3 DEF Told, Ended
  <1> QED BY <1>2, <1>3, <1>4, TellsOn

LEMMA OffloadIsTold ==
  ASSUME IInv, StoreInv, OutcomeInv, NEW r \in Runners,
         \/ \E a \in Artifacts : OffloadPuts(r, a) \/ OffloadMisses(r, a)
         \/ OffloadCannotStart(r)
  PROVE  OutcomeInv'
  <1>1. /\ run[r].at = "offload" /\ UNCHANGED <<result, control>> /\ Told(run[r])
        /\ run[r].artifacts \in [Artifacts -> Statuses]
    BY DEF OffloadPuts, OffloadMisses, OffloadCannotStart, NowOffloads, RunRest, Here, OutcomeInv,
           StoreInv, StoreTypes, UploadTypes
  <1>2. ASSUME NEW a \in Artifacts, NEW status \in Statuses \ {"untried"}, OffloadNotes(r, a, status)
        PROVE  OutcomeInv'
    <2>1. Notes(r, a, status)
      BY <1>2, Noted
    <2>2. /\ run'[r].failed = run[r].failed /\ run'[r].by = run[r].by
          /\ run'[r].workload = run[r].workload
      BY <1>2, Shaped, HasFields DEF OffloadNotes, Shape, Beside
    <2>3. run'[r].at = "write" => \A x \in Artifacts : run'[r].artifacts[x] # "untried"
      BY <1>1, <1>2, <2>1 DEF Notes, Untried
    <2>4. Told(run'[r])
      BY <1>1, <2>2, <2>3 DEF Told, Ended
    <2> QED BY <1>1, <2>1, <2>4, TellsOn DEF Notes
  <1>3. ASSUME NEW a \in Artifacts, OffloadPuts(r, a) \/ OffloadMisses(r, a) PROVE OutcomeInv'
    <2>1. {"ok", "missing"} \cup (Failures \ {"setup"}) \subseteq Statuses \ {"untried"}
      BY TransfersAssumption DEF Statuses, Kinds
    <2>2. \E status \in Statuses \ {"untried"} : OffloadNotes(r, a, status)
      BY <1>3, <2>1 DEF OffloadPuts, OffloadMisses
    <2> QED BY <1>2, <2>2
  <1>4. CASE OffloadCannotStart(r)
    <2>1. /\ \A q \in Runners \ {r} : run'[q] = run[q]
          /\ run'[r].failed = run[r].failed /\ run'[r].by = run[r].by
          /\ run'[r].workload = run[r].workload /\ run'[r].unreadable
      BY <1>4, Shaped, HasFields DEF OffloadCannotStart, Shape, Beside
    <2>2. Told(run'[r])
      BY <1>1, <2>1 DEF Told, Ended
    <2> QED BY <1>1, <2>1, <2>2, TellsOn
  <1> QED BY <1>3, <1>4

\* What is written says what the invocation knew.
LEMMA ResultIsSound ==
  ASSUME StoreInv, OutcomeInv, NEW r \in Runners, run[r].at = "write" PROVE Sound(Result(r))
  <1>1. Told(run[r]) /\ run[r].artifacts \in [Artifacts -> Statuses]
    BY DEF OutcomeInv, StoreInv, StoreTypes, UploadTypes
  <1>2. Result(r).artifacts = run[r].artifacts /\ Result(r).unreadable = run[r].unreadable
    BY DEF Result
  <1>3. CASE run[r].failed # "ok"
    <2>1. Result(r).phase = "stage" /\ Result(r).workload = "failed" /\ Result(r).input = run[r].failed
      BY <1>3 DEF Result
    <2> QED BY <1>1, <1>2, <1>3, <2>1 DEF Told, Sound
  <1>4. CASE run[r].failed = "ok"
    <2>1. /\ Result(r).phase \in {"run", "offload"}
          /\ Result(r).workload = run[r].workload /\ Result(r).by = run[r].by
      BY <1>4 DEF Result
    <2> QED BY <1>1, <1>2, <1>4, <2>1 DEF Told, Sound, Ended
  <1> QED BY <1>3, <1>4

LEMMA WritesSound ==
  ASSUME IInv, StoreInv, OutcomeInv, NEW r \in Runners, WritesResult(r) PROVE OutcomeInv'
  <1>1. run[r].at = "write" /\ result' = {Result(r)} /\ UNCHANGED control
    BY DEF WritesResult, Here
  <1>2. /\ \A q \in Runners \ {r} : run'[q] = run[q]
        /\ run'[r].failed = run[r].failed /\ run'[r].at = "copy"
    BY Shaped, HasFields DEF WritesResult, Moves, Shape, Beside
  <1>3. \A q \in Runners : Told(run'[q])
    BY <1>2 DEF OutcomeInv, Told
  <1>4. \A found \in result' \cup control' : Sound(found)
    BY <1>1, ResultIsSound DEF OutcomeInv
  <1> QED BY <1>3, <1>4 DEF OutcomeInv

\* What an invocation knew goes with it, what it wrote stays.
LEMMA GoesTold ==
  ASSUME IInv, OutcomeInv, NEW r \in Runners, RunnerCrashes(r) \/ CopiesResult(r) PROVE OutcomeInv'
  <1>1. run' = [run EXCEPT ![r] = [Fresh EXCEPT !.at = "over"]]
    BY DEF RunnerCrashes, CopiesResult, Forgets
  <1>2. \A q \in Runners : Told(run'[q])
    <2> DEFINE x == [Fresh EXCEPT !.at = "over"]
    <2>1. Told(x) /\ run' = [run EXCEPT ![r] = x]
      BY <1>1, FreshIsTold
    <2> HIDE DEF x
    <2>2. \A q \in Runners : run'[q] = IF q = r THEN x ELSE run[q]
      BY <2>1, Shaped DEF Shape
    <2> QED BY <2>1, <2>2 DEF OutcomeInv
  <1>3. result' = result /\ control' \in {control, result}
    BY DEF RunnerCrashes, CopiesResult
  <1>4. \A found \in result' \cup control' : Sound(found)
    BY <1>3 DEF OutcomeInv
  <1> QED BY <1>2, <1>4 DEF OutcomeInv

LEMMA LaunchesTold ==
  ASSUME IInv, OutcomeInv, NEW r \in Runners, Launches(r) PROVE OutcomeInv'
  <1>1. UNCHANGED <<result, control>> /\ Told(run[r])
    BY DEF Launches, OutcomeInv
  <1>2. CASE run' = run
    BY <1>1, <1>2 DEF OutcomeInv, Told, Ended, Sound
  <1>3. CASE run' = [run EXCEPT ![r].at = "stage"]
    <2>1. /\ \A q \in Runners \ {r} : run'[q] = run[q]
          /\ run'[r].failed = run[r].failed /\ run'[r].at = "stage"
      BY <1>3, Shaped, HasFields DEF Shape, Beside
    <2> QED BY <1>1, <2>1, TellsOn DEF Told
  <1> QED BY <1>2, <1>3 DEF Launches

LEMMA SameTold ==
  ASSUME OutcomeInv, run' = run \/ run' = [r \in Runners |-> Fresh], UNCHANGED <<result, control>>
  PROVE  OutcomeInv'
  BY FreshIsTold DEF OutcomeInv

THEOREM OutcomeInvariance == TransfersSpec => []OutcomeInv
  <1>1. ASSUME IInv, StoreInv, OutcomeInv, NEW r \in Runners, Runner(r) PROVE OutcomeInv'
    <2>1. CASE OrphanEnds(r)
      BY <1>1, <2>1, SameTold DEF OrphanEnds
    <2> QED BY <1>1, <2>1, LaunchesTold, GoesTold, StagingIsTold, SyncIsTold, RunEndsTold,
               OffloadIsTold, WritesSound DEF Runner
  <1>2. ASSUME OutcomeInv, VmReclaimed \/ Absorbs \/ AbsorbsOverdue \/ GivesUp \/ Closes
        PROVE  OutcomeInv'
    <2>1. UNCHANGED <<result, control>> /\ (run' = run \/ run' = [r \in Runners |-> Fresh])
      BY <1>2 DEF VmReclaimed, Absorbs, AbsorbsOverdue, Reads, GivesUp, Closes, VmGoes, LocalRest
    <2> QED BY <1>2, <2>1, SameTold
  <1>3. ASSUME OutcomeInv, NEW a \in Artifacts, ConsumerWrites(a) PROVE OutcomeInv'
    BY <1>3, SameTold DEF ConsumerWrites, RunRest
  <1>4. ASSUME OutcomeInv, UNCHANGED allVars PROVE OutcomeInv'
    BY <1>4, SameTold DEF allVars, runVars
  <1>5. ASSUME IInv, StoreInv, OutcomeInv, [TransfersNext]_allVars PROVE OutcomeInv'
    BY <1>1, <1>2, <1>3, <1>4, <1>5 DEF TransfersNext
  <1> QED BY Invariance, StoreInvariance, OutcomeInitially, <1>5, PTL DEF TransfersSpec

\* orchestrator.py, absorb_result and the end without a result: a supervisor
\* that stops polling with a result advises the same job once more, or the
\* same with new URLs, only when that can put right all that went wrong.
THEOREM OutcomeStaysUsable == TransfersSpec => OutcomeIsUsable
  <1>1. ASSUME OutcomeInv, [TransfersNext]_allVars, local = "polling", local' # "polling",
               env'.retry \in {"retry_same", "refresh_urls"}, env'.workload # "unknown"
        PROVE  \E found \in result \cup control :
                 found.workload = env'.workload /\ MayDo(env'.retry, found)
    <2>1. Absorbs \/ AbsorbsOverdue \/ GivesUp
      <3>1. ASSUME NEW r \in Runners, Runner(r) PROVE UNCHANGED local
        BY <3>1, Zenon DEF Runner, Launches, RunnerCrashes, StageFetches, StageInstalls, SetupFails,
           StageFails, ConsumerStarts, SyncLooks, SyncLooksAgain, SyncPuts, RunEnds, OrphanEnds,
           OffloadPuts, OffloadMisses, OffloadCannotStart, WritesResult, CopiesResult, StageRest,
           RunRest, localVars
      <3>2. ASSUME NEW a \in Artifacts, ConsumerWrites(a) PROVE UNCHANGED local
        BY <3>2 DEF ConsumerWrites, RunRest, localVars
      <3> QED BY <1>1, <3>1, <3>2 DEF TransfersNext, VmReclaimed, Closes, allVars, localVars
    <2>2. env' # FinishedWithout
      BY <1>1 DEF FinishedWithout
    <2>3. PICK found \in result \cup control : env' \in {Absorbed(found), Overdue(Absorbed(found))}
      BY <2>1, <2>2 DEF Absorbs, AbsorbsOverdue, GivesUp
    <2>4. Sound(found) /\ env'.workload = found.workload
      <3>1. Absorbed(found).workload = found.workload
        BY DEF Absorbed
      <3> QED BY <1>1, <2>3, <3>1, OverdueSays DEF OutcomeInv
    <2>5. MayDo(env'.retry, found)
      <3>1. CASE env'.retry = Absorbed(found).retry
        BY <1>1, <2>4, <3>1, RetryIsOfTransfers
      <3>2. CASE Absorbed(found).retry = NoClass /\ env'.retry = "retry_same"
        BY <2>4, <3>2, OverdueIsOfTransfers
      <3> QED BY <2>3, <3>1, <3>2, OverdueSays
    <2> QED BY <2>4, <2>5
  <1> QED BY <1>1, OutcomeInvariance, PTL DEF OutcomeIsUsable, TransfersSpec
=============================================================================
