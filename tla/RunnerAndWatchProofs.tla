------------------------ MODULE RunnerAndWatchProofs ------------------------
(***************************************************************************)
(* Proofs about the two ends of a job's life: JobRunner, which runs it on  *)
(* the VM, for any set of kids and any number of crashes, and McpServer,   *)
(* which tells a client how it goes, for any number of jobs and requests.  *)
(* Their specifications are independent, and so are the two halves here.   *)
(*                                                                         *)
(* The argument about JobRunner is one inductive invariant.  Its parts     *)
(* say, in the order of a run: nothing of the workload exists before the   *)
(* shim is started; a signal is sent only once cancel.json exists, and to  *)
(* those a sweep may signal; the probe that finds nothing leaves nothing   *)
(* tagged alive but what was started behind its back, and a process that   *)
(* is not there cannot start a tagged one; and the verdict is written      *)
(* once, by a runner that is alive.                                        *)
(***************************************************************************)
EXTENDS JobRunner, McpServer, SequenceTheorems, TLAPS

Workload == {"shim"} \cup Kids

\* Before the shim is started there is no workload, and no watchdog before it.
Unstarted ==
  /\ rpc \in {"launch", "stage", "stagefail"} =>
       alive \subseteq {"runner"} /\ shimExit = "none" /\ ~stopped
  /\ rpc \in {"launch", "stage", "stagefail", "watch"} => wpc = "off"

\* The shim's wait status appears when it dies, and the runner reaps that.
Waited ==
  /\ "shim" \in alive => shimExit = "none"
  /\ rExit \in {"none", shimExit}
  /\ stopped => shimExit = "signal"

\* No signal without a durable intent, and only to the workload, unless the
\* watchdog does not know which process is the runner.
Intended ==
  /\ rpc \in {"term", "termtagged", "killtagged"} \/ rTerm => cancel # "none"
  /\ wpc \in {"term", "termtagged", "killtagged"} \/ wTerm => cancel # "none"
  /\ rScan \subseteq Workload
  /\ wScan \subseteq Workload \cup {"runner"} /\ wScan \cap WatchExclude = {}
  /\ wScan # {} => wpc \in {"termtagged", "killtagged"}

\* Only the sweep after a failed wait loop stops a shim nobody asked to stop.
Explained ==
  stopped => \/ cancel # "none"
             \/ /\ rExit = "none"
                /\ rpc \in {"sweepkill", "probe", "look", "judge", "offload",
                            "write", "stopwatch", "put", "done"}

\* What the probe and the verdict say of the workload.
Judged ==
  /\ rpc = "look" /\ CanDetect => Escapees \subseteq rScan \cup unseen
  /\ rpc = "judge" /\ detect /\ found = {} => Escapees \subseteq unseen
  /\ rpc = "judge" /\ rExit # "none" => "shim" \notin alive
  /\ verdict # "none" => rpc \in {"stagefail", "offload", "write",
                                  "stopwatch", "put", "done"}
  /\ verdict = "none" => rpc \notin {"stagefail", "offload", "write",
                                     "stopwatch", "put", "done"}
  /\ verdict = "succeeded" => Escapees \subseteq unseen
  /\ verdict = "cancelled" => cancel # "none"
  /\ verdict \in {"succeeded", "failed"} => "shim" \notin alive /\ ~stopped

\* result.json is the verdict, written on the way out.
Written ==
  /\ result # "none" => result = verdict
  /\ result # "none" <=> rpc \in {"stopwatch", "put", "done"}

\* What watchdog.json tells.
Recorded == watchRec = "dead" => "runner" \notin alive

IInv ==
  /\ TypeOK /\ Unstarted /\ Waited /\ Intended /\ Explained
  /\ Judged /\ Written /\ Recorded
-----------------------------------------------------------------------------

USE DEF Supervisors, Procs, Verdicts

\* What a signal may change that is not sent to the supervisors in spared.
Signalled(spared) ==
  /\ alive' \subseteq alive
  /\ alive' \cap spared = alive \cap spared
  /\ shimExit' \in Exits /\ stopped' \in BOOLEAN
  /\ "shim" \in alive' \/ "shim" \notin alive => UNCHANGED <<shimExit, stopped>>
  /\ stopped' => stopped \/ "shim" \in alive
  /\ stopped' => shimExit' = "signal"
  /\ rExit = "none" \/ shimExit' = shimExit
  /\ UNCHANGED <<born, grouped, tagged, unseen>>

\* SIGTERM has no other effect.
LEMMA TermSignals ==
  ASSUME TypeOK, Waited, NEW spared, spared \subseteq Supervisors,
         NEW targets, targets \cap spared = {}, Term(targets)
  PROVE  Signalled(spared)
BY DEF TypeOK, Waited, Term, Signalled, Exits

\* Nor has SIGKILL.
LEMMA KillSignals ==
  ASSUME TypeOK, Waited, NEW spared, spared \subseteq Supervisors,
         NEW targets, targets \cap spared = {}, Kill(targets)
  PROVE  Signalled(spared)
BY DEF TypeOK, Waited, Kill, Signalled, Exits

\* No supervisor is in the shim's process group, so killpg spares both.
LEMMA GroupIsWorkload == TypeOK => Group \cap Supervisors = {}
BY KidsAssumption DEF TypeOK, Group

\* Every step of the three kinds of process preserves the invariant.
LEMMA Step == IInv /\ [Next]_vars => IInv'
<1> USE KidsAssumption, BoundsAssumption
<1> SUFFICES ASSUME IInv, [Next]_vars PROVE IInv'
  OBVIOUS
<1> USE DEF IInv
<1>1. CASE RunnerLaunch
  BY <1>1 DEF TypeOK, Unstarted, Waited, Intended, Explained, Judged,
    Written, Recorded, Exits, Escapees, WatchExclude,
    RunnerLaunch, RunnerAt, RunnerUnchanged, procVars, runnerVars, watchVars, fileVars
<1>2. CASE RunnerStage
  BY <1>2 DEF TypeOK, Unstarted, Waited, Intended, Explained, Judged,
    Written, Recorded, Exits, Escapees, WatchExclude,
    RunnerStage, RunnerAt, RunnerUnchanged, procVars, runnerVars, watchVars, fileVars
<1>3. CASE RunnerStageFails
  BY <1>3 DEF TypeOK, Unstarted, Waited, Intended, Explained, Judged,
    Written, Recorded, Exits, Escapees, WatchExclude,
    RunnerStageFails, RunnerAt, procVars, runnerVars, watchVars, fileVars
<1>4. CASE RunnerStartsWatchdog
  <2>1. TypeOK'
    <3>1. /\ alive' \subseteq Supervisors \cup {"shim"} \cup born
          /\ wpc' \in {wpc, "record"}
      BY <1>4 DEF TypeOK, RunnerStartsWatchdog
    <3>2. rpc' = "wait"
      BY <1>4 DEF RunnerStartsWatchdog
    <3>3. QED
      BY <1>4, <3>1, <3>2 DEF TypeOK, RunnerStartsWatchdog, RunnerUnchanged,
        procVars, runnerVars, watchVars, fileVars
  <2>2. Unstarted'
    BY <1>4 DEF Unstarted, TypeOK,
      RunnerStartsWatchdog, RunnerAt, RunnerUnchanged, procVars, runnerVars, watchVars, fileVars
  <2>3. Waited'
    BY <1>4 DEF Waited, TypeOK, Unstarted, Exits,
      RunnerStartsWatchdog, RunnerAt, RunnerUnchanged, procVars, runnerVars, watchVars, fileVars
  <2>4. Intended'
    BY <1>4 DEF Intended, TypeOK, Workload, WatchExclude, Unstarted,
      RunnerStartsWatchdog, RunnerAt, RunnerUnchanged, procVars, runnerVars, watchVars, fileVars
  <2>5. Explained'
    BY <1>4 DEF Explained, TypeOK, Waited, Intended, Unstarted,
      RunnerStartsWatchdog, RunnerAt, RunnerUnchanged, procVars, runnerVars, watchVars, fileVars
  <2>6. Judged'
    BY <1>4 DEF Judged, TypeOK, Waited, Unstarted, Explained, Escapees,
      RunnerStartsWatchdog, RunnerAt, RunnerUnchanged, procVars, runnerVars, watchVars, fileVars
  <2>7. Written'
    BY <1>4 DEF Written, TypeOK, Judged,
      RunnerStartsWatchdog, RunnerAt, RunnerUnchanged, procVars, runnerVars, watchVars, fileVars
  <2>8. Recorded'
    BY <1>4 DEF Recorded, TypeOK,
      RunnerStartsWatchdog, RunnerAt, RunnerUnchanged, procVars, runnerVars, watchVars, fileVars
  <2>10. QED
    BY <2>1, <2>2, <2>3, <2>4, <2>5, <2>6, <2>7, <2>8
<1>5. CASE RunnerReaps
  BY <1>5 DEF TypeOK, Unstarted, Waited, Intended, Explained, Judged,
    Written, Recorded, Exits, Escapees, WatchExclude,
    RunnerReaps, RunnerAt, procVars, runnerVars, watchVars, fileVars
<1>6. CASE RunnerLoopError
  BY <1>6 DEF TypeOK, Unstarted, Waited, Intended, Explained, Judged,
    Written, Recorded, Exits, Escapees, WatchExclude,
    RunnerLoopError, RunnerUnchanged, procVars, runnerVars, watchVars, fileVars
<1>7. CASE RunnerSeesCancel
  BY <1>7 DEF TypeOK, Unstarted, Waited, Intended, Explained, Judged,
    Written, Recorded, Exits, Escapees, WatchExclude,
    RunnerSeesCancel, RunnerAt, RunnerUnchanged, procVars, runnerVars, watchVars, fileVars
<1>8. CASE RunnerSeesDeadline
  BY <1>8 DEF TypeOK, Unstarted, Waited, Intended, Explained, Judged,
    Written, Recorded, Exits, Escapees, WatchExclude,
    RunnerSeesDeadline, RunnerAt, RunnerUnchanged, procVars, runnerVars, watchVars, fileVars
<1>9. CASE RunnerWritesCancel
  BY <1>9 DEF TypeOK, Unstarted, Waited, Intended, Explained, Judged,
    Written, Recorded, Exits, Escapees, WatchExclude,
    RunnerWritesCancel, RunnerAt, RunnerUnchanged, procVars, runnerVars, watchVars, fileVars
<1>10. CASE RunnerScans
  <2>1. TypeOK'
    BY <1>10 DEF TypeOK, Exits,
      RunnerScans, RunnerAt, Sweeps, TaggedIn, RunnerExclude, procVars, runnerVars, watchVars, fileVars
  <2>2. Unstarted'
    BY <1>10 DEF Unstarted, TypeOK,
      RunnerScans, RunnerAt, Sweeps, TaggedIn, RunnerExclude, procVars, runnerVars, watchVars, fileVars
  <2>3. Waited'
    BY <1>10 DEF Waited, TypeOK, Unstarted, Exits,
      RunnerScans, RunnerAt, Sweeps, TaggedIn, RunnerExclude, procVars, runnerVars, watchVars, fileVars
  <2>4. Intended'
    BY <1>10 DEF Intended, TypeOK, Workload, WatchExclude,
      RunnerScans, RunnerAt, Sweeps, TaggedIn, RunnerExclude, procVars, runnerVars, watchVars, fileVars
  <2>5. Explained'
    BY <1>10 DEF Explained, TypeOK, Waited, Intended, Unstarted,
      RunnerScans, RunnerAt, Sweeps, TaggedIn, RunnerExclude, procVars, runnerVars, watchVars, fileVars
  <2>6. Judged'
    BY <1>10 DEF Judged, TypeOK, Waited, Unstarted, Explained, Escapees,
      RunnerScans, RunnerAt, Sweeps, TaggedIn, RunnerExclude, procVars, runnerVars, watchVars, fileVars
  <2>7. Written'
    BY <1>10 DEF Written, TypeOK, Judged,
      RunnerScans, RunnerAt, Sweeps, TaggedIn, RunnerExclude, procVars, runnerVars, watchVars, fileVars
  <2>8. Recorded'
    BY <1>10 DEF Recorded, TypeOK,
      RunnerScans, RunnerAt, Sweeps, TaggedIn, RunnerExclude, procVars, runnerVars, watchVars, fileVars
  <2>10. QED
    BY <2>1, <2>2, <2>3, <2>4, <2>5, <2>6, <2>7, <2>8
<1>11. CASE RunnerProbes
  <2>1. TypeOK'
    <3>1. found' \subseteq Procs /\ detect' \in BOOLEAN /\ rpc' = "judge"
      BY <1>11, BoundsAssumption
      DEF TypeOK, RunnerProbes, Sweeps, TaggedIn, RunnerExclude
    <3>2. QED
      BY <1>11, <3>1 DEF TypeOK, RunnerProbes, procVars, watchVars, fileVars
  <2>2. Unstarted'
    BY <1>11 DEF Unstarted, TypeOK,
      RunnerProbes, RunnerAt, Sweeps, TaggedIn, RunnerExclude, procVars, runnerVars, watchVars, fileVars
  <2>3. Waited'
    BY <1>11 DEF Waited, TypeOK, Unstarted, Exits,
      RunnerProbes, RunnerAt, Sweeps, TaggedIn, RunnerExclude, procVars, runnerVars, watchVars, fileVars
  <2>4. Intended'
    BY <1>11 DEF Intended, TypeOK, Workload, WatchExclude,
      RunnerProbes, RunnerAt, Sweeps, TaggedIn, RunnerExclude, procVars, runnerVars, watchVars, fileVars
  <2>5. Explained'
    BY <1>11 DEF Explained, TypeOK, Waited, Intended, Unstarted,
      RunnerProbes, RunnerAt, Sweeps, TaggedIn, RunnerExclude, procVars, runnerVars, watchVars, fileVars
  <2>6. Judged'
    <3>1. found' = {} /\ detect' => rScan \cap alive = {} /\ CanDetect
      BY <1>11, BoundsAssumption DEF RunnerProbes
    <3>2. found' = {} /\ detect' => Escapees' \subseteq unseen'
      BY <1>11, <3>1 DEF Judged, RunnerProbes, RunnerAt, Escapees, procVars
    <3> QED
      BY <1>11, <3>2 DEF Judged, TypeOK, Waited, Explained, Escapees,
        RunnerProbes, RunnerAt, procVars, watchVars, fileVars
  <2>7. Written'
    BY <1>11 DEF Written, TypeOK, Judged,
      RunnerProbes, RunnerAt, Sweeps, TaggedIn, RunnerExclude, procVars, runnerVars, watchVars, fileVars
  <2>8. Recorded'
    BY <1>11 DEF Recorded, TypeOK,
      RunnerProbes, RunnerAt, Sweeps, TaggedIn, RunnerExclude, procVars, runnerVars, watchVars, fileVars
  <2>10. QED
    BY <2>1, <2>2, <2>3, <2>4, <2>5, <2>6, <2>7, <2>8
<1>12. CASE RunnerJudges
  BY <1>12 DEF TypeOK, Unstarted, Waited, Intended, Explained, Judged,
    Written, Recorded, Exits, Escapees, WatchExclude,
    RunnerJudges, RunnerAt, Outcome, Classify, procVars, runnerVars, watchVars, fileVars
<1>13. CASE RunnerOffloads
  BY <1>13 DEF TypeOK, Unstarted, Waited, Intended, Explained, Judged,
    Written, Recorded, Exits, Escapees, WatchExclude,
    RunnerOffloads, RunnerAt, RunnerUnchanged, procVars, runnerVars, watchVars, fileVars
<1>14. CASE RunnerWritesResult
  BY <1>14 DEF TypeOK, Unstarted, Waited, Intended, Explained, Judged,
    Written, Recorded, Exits, Escapees, WatchExclude,
    RunnerWritesResult, RunnerUnchanged, procVars, runnerVars, watchVars, fileVars
<1>15. CASE RunnerStopsWatchdog
  BY <1>15 DEF TypeOK, Unstarted, Waited, Intended, Explained, Judged,
    Written, Recorded, Exits, Escapees, WatchExclude,
    RunnerStopsWatchdog, RunnerAt, RunnerUnchanged, procVars, runnerVars, watchVars, fileVars
<1>16. CASE RunnerPuts
  BY <1>16 DEF TypeOK, Unstarted, Waited, Intended, Explained, Judged,
    Written, Recorded, Exits, Escapees, WatchExclude,
    RunnerPuts, RunnerAt, RunnerUnchanged, procVars, runnerVars, watchVars, fileVars
<1>17. CASE RunnerWriteFails
  BY <1>17 DEF TypeOK, Unstarted, Waited, Intended, Explained, Judged,
    Written, Recorded, Exits, Escapees, WatchExclude,
    RunnerWriteFails, procVars, runnerVars, watchVars, fileVars
<1>18. CASE WatchRecords
  <2>1. /\ wKnows' \in BOOLEAN /\ watchRec' \in {"none", "dead"} /\ wScan = {}
        /\ watchRec' = "dead" => "runner" \notin alive
    BY <1>18 DEF WatchRecords, WatchAt, TypeOK, Intended, Recorded
  <2>2. QED
    BY <1>18, <2>1 DEF TypeOK, Unstarted, Waited, Intended, Explained, Judged,
      Written, Recorded, Exits, Escapees, WatchExclude,
      WatchRecords, WatchAt, procVars, runnerVars, fileVars
<1>19. CASE WatchExits
  BY <1>19 DEF TypeOK, Unstarted, Waited, Intended, Explained, Judged,
    Written, Recorded, Exits, Escapees, WatchExclude,
    WatchExits, WatchAt, procVars, runnerVars, watchVars, fileVars
<1>20. CASE WatchSeesCancel
  BY <1>20 DEF TypeOK, Unstarted, Waited, Intended, Explained, Judged,
    Written, Recorded, Exits, Escapees, WatchExclude,
    WatchSeesCancel, WatchAt, WatchUnchanged, procVars, runnerVars, watchVars, fileVars
<1>21. CASE WatchSeesDeadline
  BY <1>21 DEF TypeOK, Unstarted, Waited, Intended, Explained, Judged,
    Written, Recorded, Exits, Escapees, WatchExclude,
    WatchSeesDeadline, WatchAt, WatchUnchanged, procVars, runnerVars, watchVars, fileVars
<1>22. CASE WatchRechecks
  BY <1>22 DEF TypeOK, Unstarted, Waited, Intended, Explained, Judged,
    Written, Recorded, Exits, Escapees, WatchExclude,
    WatchRechecks, WatchAt, WatchUnchanged, procVars, runnerVars, watchVars, fileVars
<1>23. CASE WatchWritesCancel
  BY <1>23 DEF TypeOK, Unstarted, Waited, Intended, Explained, Judged,
    Written, Recorded, Exits, Escapees, WatchExclude,
    WatchWritesCancel, WatchAt, WatchUnchanged, procVars, runnerVars, watchVars, fileVars
<1>24. CASE WatchWriteFails
  BY <1>24 DEF TypeOK, Unstarted, Waited, Intended, Explained, Judged,
    Written, Recorded, Exits, Escapees, WatchExclude,
    WatchWriteFails, WatchAt, WatchUnchanged, procVars, runnerVars, watchVars, fileVars
<1>25. CASE WatchSleeps
  BY <1>25 DEF TypeOK, Unstarted, Waited, Intended, Explained, Judged,
    Written, Recorded, Exits, Escapees, WatchExclude,
    WatchSleeps, WatchAt, procVars, runnerVars, watchVars, fileVars
<1>26. CASE ShimExits
  BY <1>26 DEF TypeOK, Unstarted, Waited, Intended, Explained, Judged,
    Written, Recorded, Exits, Escapees, WatchExclude,
    ShimExits, procVars, runnerVars, watchVars, fileVars
<1>27. CASE DeadlinePasses
  BY <1>27 DEF TypeOK, Unstarted, Waited, Intended, Explained, Judged,
    Written, Recorded, Exits, Escapees, WatchExclude,
    DeadlinePasses, procVars, runnerVars, watchVars, fileVars
<1>28. CASE RequestCancel
  BY <1>28 DEF TypeOK, Unstarted, Waited, Intended, Explained, Judged,
    Written, Recorded, Exits, Escapees, WatchExclude,
    RequestCancel, procVars, runnerVars, watchVars, fileVars
<1>29. CASE RunnerTerms
  <2>1. Signalled(Supervisors)
    BY <1>29, TermSignals, GroupIsWorkload DEF RunnerTerms, Intended, Workload
  <2>2. QED
    BY <1>29, <2>1 DEF Signalled, TypeOK, Unstarted, Waited, Intended, Explained,
      Judged, Written, Recorded, Exits, Escapees, Workload, WatchExclude,
      RunnerTerms, RunnerAt, Sweeps, TaggedIn, RunnerExclude, procVars, runnerVars, watchVars, fileVars
<1>30. CASE RunnerTermsTagged
  <2>1. Signalled(Supervisors)
    BY <1>30, TermSignals DEF RunnerTermsTagged, Intended, Workload
  <2>2. QED
    BY <1>30, <2>1 DEF Signalled, TypeOK, Unstarted, Waited, Intended, Explained,
      Judged, Written, Recorded, Exits, Escapees, Workload, WatchExclude,
      RunnerTermsTagged, RunnerAt, procVars, runnerVars, watchVars, fileVars
<1>31. CASE RunnerKills
  <2>1. Signalled(Supervisors)
    BY <1>31, KillSignals, GroupIsWorkload DEF RunnerKills, Intended, Workload
  <2>2. QED
    BY <1>31, <2>1 DEF Signalled, TypeOK, Unstarted, Waited, Intended, Explained,
      Judged, Written, Recorded, Exits, Escapees, Workload, WatchExclude,
      RunnerKills, RunnerAt, Sweeps, TaggedIn, RunnerExclude, procVars, runnerVars, watchVars, fileVars
<1>32. CASE RunnerKillsTagged
  <2>1. Signalled(Supervisors)
    BY <1>32, KillSignals DEF RunnerKillsTagged, Intended, Workload
  <2>2. QED
    BY <1>32, <2>1 DEF Signalled, TypeOK, Unstarted, Waited, Intended, Explained,
      Judged, Written, Recorded, Exits, Escapees, Workload, WatchExclude,
      RunnerKillsTagged, RunnerAt, procVars, runnerVars, watchVars, fileVars
<1>33. CASE RunnerSweepTerms
  <2>1. Signalled(Supervisors)
    BY <1>33, TermSignals DEF RunnerSweepTerms, Intended, Workload
  <2>2. QED
    BY <1>33, <2>1 DEF Signalled, TypeOK, Unstarted, Waited, Intended, Explained,
      Judged, Written, Recorded, Exits, Escapees, Workload, WatchExclude,
      RunnerSweepTerms, RunnerAt, RunnerUnchanged, procVars, runnerVars, watchVars, fileVars
<1>34. CASE RunnerSweepKills
  <2>1. Signalled(Supervisors)
    BY <1>34, KillSignals DEF RunnerSweepKills, Intended, Workload
  <2>2. QED
    BY <1>34, <2>1 DEF Signalled, TypeOK, Unstarted, Waited, Intended, Explained,
      Judged, Written, Recorded, Exits, Escapees, Workload, WatchExclude,
      RunnerSweepKills, RunnerAt, procVars, runnerVars, watchVars, fileVars
<1>35. CASE WatchTerms
  <2>1. Signalled(WatchExclude)
    BY <1>35, TermSignals, GroupIsWorkload DEF WatchTerms, Intended, WatchExclude
  <2>2. TypeOK'
    BY <1>35, <2>1 DEF TypeOK, Exits,
      Signalled, WatchTerms, WatchAt, Sweeps, TaggedIn, WatchExclude, procVars, runnerVars, watchVars, fileVars
  <2>3. Unstarted'
    BY <1>35, <2>1 DEF Unstarted, TypeOK,
      Signalled, WatchTerms, WatchAt, Sweeps, TaggedIn, WatchExclude, procVars, runnerVars, watchVars, fileVars
  <2>4. Waited'
    BY <1>35, <2>1 DEF Waited, TypeOK, Unstarted, Exits,
      Signalled, WatchTerms, WatchAt, Sweeps, TaggedIn, WatchExclude, procVars, runnerVars, watchVars, fileVars
  <2>5. Intended'
    BY <1>35, <2>1 DEF Intended, TypeOK, Workload,
      Signalled, WatchTerms, WatchAt, Sweeps, TaggedIn, WatchExclude, procVars, runnerVars, watchVars, fileVars
  <2>6. Explained'
    BY <1>35, <2>1 DEF Explained, TypeOK, Waited, Intended, Unstarted,
      Signalled, WatchTerms, WatchAt, Sweeps, TaggedIn, WatchExclude, procVars, runnerVars, watchVars, fileVars
  <2>7. Judged'
    BY <1>35, <2>1 DEF Judged, TypeOK, Waited, Unstarted, Explained, Escapees,
      Signalled, WatchTerms, WatchAt, Sweeps, TaggedIn, WatchExclude, procVars, runnerVars, watchVars, fileVars
  <2>8. Written'
    BY <1>35, <2>1 DEF Written, TypeOK, Judged,
      Signalled, WatchTerms, WatchAt, Sweeps, TaggedIn, WatchExclude, procVars, runnerVars, watchVars, fileVars
  <2>9. Recorded'
    BY <1>35, <2>1 DEF Recorded, TypeOK,
      Signalled, WatchTerms, WatchAt, Sweeps, TaggedIn, WatchExclude, procVars, runnerVars, watchVars, fileVars
  <2>11. QED
    BY <2>2, <2>3, <2>4, <2>5, <2>6, <2>7, <2>8, <2>9
<1>36. CASE WatchTermsTagged
  <2>1. Signalled(WatchExclude)
    BY <1>36, TermSignals DEF WatchTermsTagged, Intended, WatchExclude
  <2>2. TypeOK'
    BY <1>36, <2>1 DEF TypeOK, Exits,
      Signalled, WatchTermsTagged, WatchAt, procVars, runnerVars, watchVars, fileVars
  <2>3. Unstarted'
    BY <1>36, <2>1 DEF Unstarted, TypeOK,
      Signalled, WatchTermsTagged, WatchAt, procVars, runnerVars, watchVars, fileVars
  <2>4. Waited'
    BY <1>36, <2>1 DEF Waited, TypeOK, Unstarted, Exits,
      Signalled, WatchTermsTagged, WatchAt, procVars, runnerVars, watchVars, fileVars
  <2>5. Intended'
    BY <1>36, <2>1 DEF Intended, TypeOK, Workload, WatchExclude,
      Signalled, WatchTermsTagged, WatchAt, procVars, runnerVars, watchVars, fileVars
  <2>6. Explained'
    BY <1>36, <2>1 DEF Explained, TypeOK, Waited, Intended, Unstarted,
      Signalled, WatchTermsTagged, WatchAt, procVars, runnerVars, watchVars, fileVars
  <2>7. Judged'
    BY <1>36, <2>1 DEF Judged, TypeOK, Waited, Unstarted, Explained, Escapees,
      Signalled, WatchTermsTagged, WatchAt, procVars, runnerVars, watchVars, fileVars
  <2>8. Written'
    BY <1>36, <2>1 DEF Written, TypeOK, Judged,
      Signalled, WatchTermsTagged, WatchAt, procVars, runnerVars, watchVars, fileVars
  <2>9. Recorded'
    BY <1>36, <2>1 DEF Recorded, TypeOK,
      Signalled, WatchTermsTagged, WatchAt, procVars, runnerVars, watchVars, fileVars
  <2>11. QED
    BY <2>2, <2>3, <2>4, <2>5, <2>6, <2>7, <2>8, <2>9
<1>37. CASE WatchKills
  <2>1. Signalled(WatchExclude)
    BY <1>37, KillSignals, GroupIsWorkload DEF WatchKills, Intended, WatchExclude
  <2>2. TypeOK'
    BY <1>37, <2>1 DEF TypeOK, Exits,
      Signalled, WatchKills, WatchAt, Sweeps, TaggedIn, WatchExclude, procVars, runnerVars, watchVars, fileVars
  <2>3. Unstarted'
    BY <1>37, <2>1 DEF Unstarted, TypeOK,
      Signalled, WatchKills, WatchAt, Sweeps, TaggedIn, WatchExclude, procVars, runnerVars, watchVars, fileVars
  <2>4. Waited'
    BY <1>37, <2>1 DEF Waited, TypeOK, Unstarted, Exits,
      Signalled, WatchKills, WatchAt, Sweeps, TaggedIn, WatchExclude, procVars, runnerVars, watchVars, fileVars
  <2>5. Intended'
    BY <1>37, <2>1 DEF Intended, TypeOK, Workload,
      Signalled, WatchKills, WatchAt, Sweeps, TaggedIn, WatchExclude, procVars, runnerVars, watchVars, fileVars
  <2>6. Explained'
    BY <1>37, <2>1 DEF Explained, TypeOK, Waited, Intended, Unstarted,
      Signalled, WatchKills, WatchAt, Sweeps, TaggedIn, WatchExclude, procVars, runnerVars, watchVars, fileVars
  <2>7. Judged'
    BY <1>37, <2>1 DEF Judged, TypeOK, Waited, Unstarted, Explained, Escapees,
      Signalled, WatchKills, WatchAt, Sweeps, TaggedIn, WatchExclude, procVars, runnerVars, watchVars, fileVars
  <2>8. Written'
    BY <1>37, <2>1 DEF Written, TypeOK, Judged,
      Signalled, WatchKills, WatchAt, Sweeps, TaggedIn, WatchExclude, procVars, runnerVars, watchVars, fileVars
  <2>9. Recorded'
    BY <1>37, <2>1 DEF Recorded, TypeOK,
      Signalled, WatchKills, WatchAt, Sweeps, TaggedIn, WatchExclude, procVars, runnerVars, watchVars, fileVars
  <2>11. QED
    BY <2>2, <2>3, <2>4, <2>5, <2>6, <2>7, <2>8, <2>9
<1>38. CASE WatchKillsTagged
  <2>1. Signalled(WatchExclude)
    BY <1>38, KillSignals DEF WatchKillsTagged, Intended, WatchExclude
  <2>2. TypeOK'
    BY <1>38, <2>1 DEF TypeOK, Exits,
      Signalled, WatchKillsTagged, WatchAt, procVars, runnerVars, watchVars, fileVars
  <2>3. Unstarted'
    BY <1>38, <2>1 DEF Unstarted, TypeOK,
      Signalled, WatchKillsTagged, WatchAt, procVars, runnerVars, watchVars, fileVars
  <2>4. Waited'
    BY <1>38, <2>1 DEF Waited, TypeOK, Unstarted, Exits,
      Signalled, WatchKillsTagged, WatchAt, procVars, runnerVars, watchVars, fileVars
  <2>5. Intended'
    BY <1>38, <2>1 DEF Intended, TypeOK, Workload, WatchExclude,
      Signalled, WatchKillsTagged, WatchAt, procVars, runnerVars, watchVars, fileVars
  <2>6. Explained'
    BY <1>38, <2>1 DEF Explained, TypeOK, Waited, Intended, Unstarted,
      Signalled, WatchKillsTagged, WatchAt, procVars, runnerVars, watchVars, fileVars
  <2>7. Judged'
    BY <1>38, <2>1 DEF Judged, TypeOK, Waited, Unstarted, Explained, Escapees,
      Signalled, WatchKillsTagged, WatchAt, procVars, runnerVars, watchVars, fileVars
  <2>8. Written'
    BY <1>38, <2>1 DEF Written, TypeOK, Judged,
      Signalled, WatchKillsTagged, WatchAt, procVars, runnerVars, watchVars, fileVars
  <2>9. Recorded'
    BY <1>38, <2>1 DEF Recorded, TypeOK,
      Signalled, WatchKillsTagged, WatchAt, procVars, runnerVars, watchVars, fileVars
  <2>11. QED
    BY <2>2, <2>3, <2>4, <2>5, <2>6, <2>7, <2>8, <2>9
<1>39. CASE \E k \in Kids : KidExits(k)
  BY <1>39 DEF TypeOK, Unstarted, Waited, Intended, Explained, Judged,
    Written, Recorded, Exits, Escapees, WatchExclude, KidExits, procVars, runnerVars, watchVars, fileVars
<1>40. CASE \E k \in Kids, p \in {"shim"} \cup Kids : Forks(p, k)
  <2>1. TypeOK'
    <3>1. PICK k \in Kids, p \in {"shim"} \cup Kids : Forks(p, k)
      BY <1>40
    <3>2. /\ born' \subseteq Kids /\ grouped' \subseteq born'
          /\ tagged' \subseteq born'
          /\ alive' \subseteq Supervisors \cup {"shim"} \cup born'
      BY <3>1 DEF TypeOK, Forks
    <3>3. QED
      BY <3>1, <3>2 DEF TypeOK, Forks, runnerVars, watchVars, fileVars
  <2>2. Unstarted'
    BY <1>40 DEF Unstarted, TypeOK,
      Forks, procVars, runnerVars, watchVars, fileVars
  <2>3. Waited'
    BY <1>40 DEF Waited, TypeOK, Unstarted, Exits,
      Forks, procVars, runnerVars, watchVars, fileVars
  <2>4. Intended'
    BY <1>40 DEF Intended, TypeOK, Workload, WatchExclude,
      Forks, procVars, runnerVars, watchVars, fileVars
  <2>5. Explained'
    BY <1>40 DEF Explained, TypeOK, Waited, Intended, Unstarted,
      Forks, procVars, runnerVars, watchVars, fileVars
  <2>6. Judged'
    BY <1>40 DEF Judged, TypeOK, Waited, Unstarted, Explained, Escapees,
      Forks, procVars, runnerVars, watchVars, fileVars
  <2>7. Written'
    BY <1>40 DEF Written, TypeOK, Judged,
      Forks, procVars, runnerVars, watchVars, fileVars
  <2>8. Recorded'
    BY <1>40 DEF Recorded, TypeOK,
      Forks, procVars, runnerVars, watchVars, fileVars
  <2>10. QED
    BY <2>1, <2>2, <2>3, <2>4, <2>5, <2>6, <2>7, <2>8
<1>41. CASE \E s \in Supervisors : Crash(s)
  BY <1>41 DEF TypeOK, Unstarted, Waited, Intended, Explained, Judged,
    Written, Recorded, Exits, Escapees, WatchExclude, Crash, procVars, runnerVars, watchVars, fileVars
<1>42. CASE UNCHANGED vars
  BY <1>42 DEF TypeOK, Unstarted, Waited, Intended, Explained, Judged,
    Written, Recorded, Exits, Escapees, WatchExclude, vars, procVars, runnerVars, watchVars, fileVars
<1>43. CASE RunnerSweepFails
  BY <1>43 DEF TypeOK, Unstarted, Waited, Intended, Explained, Judged,
    Written, Recorded, Exits, Escapees, WatchExclude,
    RunnerSweepFails, procVars, runnerVars, watchVars, fileVars
<1>44. CASE RunnerLists
  <2>1. rScan' \subseteq Workload /\ (CanDetect => Escapees \subseteq rScan')
    BY <1>44 DEF RunnerLists, TaggedIn, RunnerExclude, Workload, TypeOK, Escapees
  <2> QED
    BY <1>44, <2>1 DEF TypeOK, Unstarted, Waited, Intended, Explained, Judged,
      Written, Recorded, Exits, Escapees, Workload, WatchExclude,
      RunnerLists, RunnerAt, procVars, watchVars, fileVars
<1>45. QED
  BY <1>1, <1>2, <1>3, <1>4, <1>5, <1>6, <1>7, <1>8, <1>9, <1>10, <1>11,
     <1>12, <1>13, <1>14, <1>15, <1>16, <1>17, <1>18, <1>19, <1>20, <1>21,
     <1>22, <1>23, <1>24, <1>25, <1>26, <1>27, <1>28, <1>29, <1>30, <1>31,
     <1>32, <1>33, <1>34, <1>35, <1>36, <1>37, <1>38, <1>39, <1>40, <1>41,
     <1>42, <1>43, <1>44
  DEF Next, Runner, RunnerStops, RunnerEnds, Watchdog, Environment

-----------------------------------------------------------------------------

\* The invariant holds when the runner is started.
LEMMA Initially == Init => IInv
<1> SUFFICES ASSUME Init PROVE IInv
  OBVIOUS
<1>1. TypeOK
  <2>1. crashes \in 0..MaxCrashes
    BY BoundsAssumption DEF Init
  <2>2. born \subseteq Kids /\ grouped \subseteq born /\ tagged \subseteq born
    BY DEF Init
  <2>3. rScan \subseteq Procs /\ wScan \subseteq Procs /\ found \subseteq Procs
    BY DEF Init
  <2>4. QED
    BY <2>1, <2>2, <2>3 DEF Init, TypeOK, Exits
<1>2. Unstarted /\ Waited /\ Intended /\ Explained
  BY DEF Init, Unstarted, Waited, Intended, Explained, WatchExclude
<1>3. Judged /\ Written /\ Recorded
  BY DEF Init, Judged, Written, Recorded
<1>4. QED
  BY <1>1, <1>2, <1>3 DEF IInv

\* The inductive invariant, which the theorems below draw on.
LEMMA Invariance == Spec => []IInv
BY Initially, Step, PTL DEF Spec

\* The types of runner.py's and watchdog.py's state, for any set of kids.
THEOREM TypeCorrect == Spec => []TypeOK
BY Invariance, PTL DEF IInv

\* runner.py:80 _classify_workload: a job reported as succeeded has left no
\* tagged process on the VM, whatever was forked, signalled or killed.
THEOREM SucceededContained == Spec => []SucceededIsContained
<1>1. IInv => SucceededIsContained
  BY DEF IInv, Judged, Written, SucceededIsContained
<1>2. QED
  BY <1>1, Invariance, PTL

\* runner.py:1162-1173: no job stopped by the runner or by the watchdog is
\* reported as having ended on its own.
THEOREM StopExplained == Spec => []StopIsExplained
<1>1. IInv => StopIsExplained
  BY DEF IInv, Judged, Written, StopIsExplained
<1>2. QED
  BY <1>1, Invariance, PTL

\* runner.py:66 _escapee_exclude and watchdog.py:49 _signal_escapees: neither
\* supervisor's sweep takes down the other, unless launch.json cannot be read.
THEOREM SupervisorsAreSpared == Spec => SupervisorsSpared
<1> DEFINE Spared ==
      /\ "runner" \in alive \ alive' =>
           \/ crashes' # crashes
           \/ rpc' = "done"
           \/ Faults /\ rpc \in {"write", "stagefail"} /\ wpc' = wpc
           \/ ~wKnows /\ wpc \in {"termtagged", "killtagged"}
      /\ "watchdog" \in alive \ alive' =>
           crashes' # crashes \/ wpc' = "failed" \/ result # "none"
<1>1. IInv /\ [Next]_vars => [Spared]_vars
  <2> SUFFICES ASSUME IInv, Next PROVE Spared
    BY DEF vars
  <2> USE DEF IInv
  <2>1. CASE RunnerStops
    <3>1. CASE RunnerTerms \/ RunnerTermsTagged \/ RunnerKills \/ RunnerKillsTagged
      <4>1. Signalled(Supervisors)
        BY <3>1, TermSignals, KillSignals, GroupIsWorkload, KidsAssumption
        DEF Intended, Workload, RunnerTerms, RunnerTermsTagged, RunnerKills,
          RunnerKillsTagged
      <4> QED BY <4>1 DEF Signalled
    <3> QED
      BY <2>1, <3>1 DEF RunnerStops, RunnerSeesCancel, RunnerSeesDeadline,
        RunnerWritesCancel, procVars
  <2>2. CASE RunnerEnds
    <3>1. CASE RunnerSweepTerms \/ RunnerSweepKills
      <4>1. Signalled(Supervisors)
        BY <3>1, TermSignals, KillSignals, KidsAssumption
        DEF Intended, Workload, RunnerSweepTerms, RunnerSweepKills
      <4> QED BY <4>1 DEF Signalled
    <3>2. CASE RunnerStopsWatchdog \/ RunnerPuts
      BY <3>2 DEF RunnerStopsWatchdog, RunnerPuts, RunnerAt, Written
    <3> QED
      BY <2>2, <3>1, <3>2 DEF RunnerEnds, RunnerScans, RunnerSweepFails, RunnerLists,
        RunnerProbes, RunnerJudges, RunnerOffloads, RunnerWritesResult, procVars
  <2>3. CASE Runner /\ ~RunnerStops /\ ~RunnerEnds
    BY <2>3 DEF Runner, RunnerLaunch, RunnerStage, RunnerStageFails,
      RunnerStartsWatchdog, RunnerReaps, RunnerLoopError, RunnerWriteFails,
      procVars, watchVars
  <2>4. CASE WatchTerms \/ WatchTermsTagged \/ WatchKills \/ WatchKillsTagged
    <3>1. Signalled(WatchExclude)
      BY <2>4, TermSignals, KillSignals, GroupIsWorkload, KidsAssumption
      DEF Intended, WatchExclude, WatchTerms, WatchTermsTagged, WatchKills,
        WatchKillsTagged
    <3>2. CASE WatchTerms \/ WatchKills
      <4>1. Signalled(Supervisors)
        BY <3>2, TermSignals, KillSignals, GroupIsWorkload DEF WatchTerms, WatchKills
      <4> QED BY <4>1 DEF Signalled
    <3>3. CASE WatchTermsTagged \/ WatchKillsTagged
      BY <3>1, <3>3 DEF Signalled, WatchExclude, WatchTermsTagged, WatchKillsTagged, WatchAt
    <3> QED BY <2>4, <3>2, <3>3
  <2>5. CASE Watchdog /\ ~(WatchTerms \/ WatchTermsTagged \/ WatchKills \/ WatchKillsTagged)
    BY <2>5 DEF Watchdog, WatchRecords, WatchExits, WatchSeesCancel,
      WatchSeesDeadline, WatchRechecks, WatchWritesCancel, WatchWriteFails,
      WatchSleeps, procVars
  <2>6. CASE Environment
    <3>1. CASE \E k \in Kids, p \in {"shim"} \cup Kids : Forks(p, k)
      BY <3>1 DEF Forks
    <3>2. CASE \E x \in Supervisors : Crash(x)
      BY <3>2 DEF Crash, TypeOK
    <3> QED
      BY <2>6, <3>1, <3>2, KidsAssumption DEF Environment, ShimExits, KidExits,
        DeadlinePasses, RequestCancel, procVars
  <2> QED
    BY <2>1, <2>2, <2>3, <2>4, <2>5, <2>6 DEF Next
<1>2. QED
  BY <1>1, Invariance, PTL DEF Spec, SupervisorsSpared

\* orchestrator.py, poll: runner_alive false in watchdog.json means result.json
\* is as it will stay.
THEOREM DeadRecordFinal == Spec => DeadRecordIsFinal
<1>1. IInv /\ [Next]_vars => [watchRec = "dead" => UNCHANGED result]_vars
  <2> SUFFICES ASSUME IInv, Next, watchRec = "dead"
               PROVE  UNCHANGED result
    BY DEF vars
  <2>1. "runner" \notin alive
    BY DEF IInv, Recorded
  <2>2. CASE Runner
    BY <2>1, <2>2 DEF Runner, RunnerStops, RunnerEnds, RunnerAt, RunnerLaunch,
      RunnerStage, RunnerStageFails, RunnerStartsWatchdog, RunnerReaps,
      RunnerLoopError, RunnerSeesCancel, RunnerSeesDeadline,
      RunnerWritesCancel, RunnerTerms, RunnerTermsTagged, RunnerKills,
      RunnerKillsTagged, RunnerScans, RunnerSweepTerms, RunnerSweepKills,
      RunnerSweepFails, RunnerLists, RunnerProbes, RunnerJudges, RunnerOffloads, RunnerWritesResult,
      RunnerWriteFails, RunnerStopsWatchdog, RunnerPuts
  <2>3. CASE Watchdog
    BY <2>1, <2>3 DEF Watchdog, WatchRecords, WatchExits, WatchSeesCancel,
      WatchSeesDeadline, WatchRechecks, WatchWritesCancel, WatchWriteFails,
      WatchTerms, WatchTermsTagged, WatchKills, WatchKillsTagged,
      WatchSleeps, fileVars
  <2>4. CASE Environment
    BY <2>4 DEF Environment, ShimExits, KidExits, Forks, DeadlinePasses,
      RequestCancel, Crash, fileVars
  <2>5. QED
    BY <2>2, <2>3, <2>4 DEF Next
<1>2. QED
  BY <1>1, Invariance, PTL DEF Spec, DeadRecordIsFinal

-----------------------------------------------------------------------------

\* A step the local supervisor cannot tell from no step.
Unseen ==
  /\ UNCHANGED <<result, cancel, watchRec>>
  /\ ("runner" \in alive') <=> ("runner" \in alive)
  /\ (rpc' = "launch") <=> (rpc = "launch")

\* Every step of the VM is a step RemoteJob allows, or is not seen from it.
LEMMA Implementation ==
  IInv /\ [Next]_vars => [Remote!Next]_(Remote!vars)
<1> SUFFICES ASSUME IInv, [Next]_vars
             PROVE  [Remote!Next]_(Remote!vars)
  OBVIOUS
<1> USE DEF Remote!Next, Remote!vars
<1>1. CASE RunnerLaunch
  BY <1>1 DEF RunnerLaunch, RunnerAt, RunnerUnchanged, procVars, fileVars,
    Remote!Launch, IInv, TypeOK
<1>2. CASE RunnerWritesCancel
  BY <1>2 DEF RunnerWritesCancel, RunnerAt, RunnerUnchanged, procVars,
    Remote!RequestStop, IInv, TypeOK
<1>3. CASE RunnerWritesResult
  BY <1>3 DEF RunnerWritesResult, RunnerUnchanged, procVars,
    Remote!Publish, IInv, TypeOK, Judged, Written
<1>4. CASE RunnerWriteFails \/ RunnerPuts
  BY <1>4 DEF RunnerWriteFails, RunnerPuts, RunnerAt, RunnerUnchanged,
    runnerVars, fileVars, Remote!Lose, IInv, TypeOK
<1>5. CASE WatchWritesCancel \/ RequestCancel
  BY <1>5 DEF WatchWritesCancel, WatchAt, RequestCancel, procVars, runnerVars,
    Remote!RequestStop, IInv, TypeOK
<1>6. CASE \E s \in Supervisors : Crash(s)
  BY <1>6 DEF Crash, runnerVars, fileVars, Remote!Lose, IInv, TypeOK
<1>7. Unseen => UNCHANGED (Remote!vars)
  BY DEF Unseen
<1>8. CASE \/ RunnerStage \/ RunnerStageFails \/ RunnerStartsWatchdog
           \/ RunnerReaps \/ RunnerLoopError \/ RunnerSeesCancel
           \/ RunnerSeesDeadline \/ RunnerScans \/ RunnerSweepFails
           \/ RunnerLists \/ RunnerProbes
           \/ RunnerJudges \/ RunnerOffloads \/ RunnerStopsWatchdog
  BY <1>7, <1>8 DEF Unseen, RunnerStage, RunnerStageFails,
    RunnerStartsWatchdog, RunnerReaps, RunnerLoopError, RunnerSeesCancel,
    RunnerSeesDeadline, RunnerScans, RunnerSweepFails, RunnerLists, RunnerProbes,
    RunnerJudges, RunnerOffloads, RunnerStopsWatchdog, RunnerAt, procVars, fileVars
<1>9. CASE \/ RunnerTerms \/ RunnerTermsTagged \/ RunnerKills
           \/ RunnerKillsTagged \/ RunnerSweepTerms \/ RunnerSweepKills
  <2>1. Signalled(Supervisors)
    BY <1>9, TermSignals, KillSignals, GroupIsWorkload, KidsAssumption
    DEF IInv, Intended, Workload, RunnerTerms, RunnerTermsTagged, RunnerKills,
      RunnerKillsTagged, RunnerSweepTerms, RunnerSweepKills
  <2>2. QED
    BY <1>7, <1>9, <2>1 DEF Signalled, Unseen, RunnerTerms, RunnerTermsTagged,
      RunnerKills, RunnerKillsTagged, RunnerSweepTerms, RunnerSweepKills,
      RunnerAt, fileVars
<1>10. CASE \/ WatchTerms \/ WatchTermsTagged \/ WatchKills \/ WatchKillsTagged
  <2>1. Signalled(WatchExclude)
    BY <1>10, TermSignals, KillSignals, GroupIsWorkload, KidsAssumption
    DEF IInv, Intended, WatchExclude, WatchTerms, WatchTermsTagged, WatchKills,
      WatchKillsTagged
  <2>2. /\ UNCHANGED <<result, cancel, watchRec, rpc>> /\ alive' \subseteq alive
        /\ "runner" \in alive => rpc # "launch"
    BY <1>10, <2>1 DEF Signalled, WatchTerms, WatchTermsTagged, WatchKills,
      WatchKillsTagged, WatchAt, runnerVars, fileVars, IInv, Unstarted
  <2>3. CASE ("runner" \in alive') <=> ("runner" \in alive)
    BY <1>7, <2>2, <2>3 DEF Unseen
  <2>4. CASE "runner" \in alive /\ "runner" \notin alive'
    BY <2>2, <2>4 DEF Remote!Lose
  <2>5. QED
    BY <2>2, <2>3, <2>4
<1>11. CASE \/ WatchExits \/ WatchSeesCancel \/ WatchSeesDeadline
            \/ WatchRechecks \/ WatchWriteFails \/ WatchSleeps
  BY <1>7, <1>11 DEF Unseen, WatchExits, WatchSeesCancel,
    WatchSeesDeadline, WatchRechecks, WatchWriteFails, WatchSleeps,
    procVars, runnerVars, fileVars
<1>12. CASE \/ ShimExits \/ DeadlinePasses
            \/ \E k \in Kids : KidExits(k)
            \/ \E k \in Kids, p \in {"shim"} \cup Kids : Forks(p, k)
  BY <1>7, <1>12, KidsAssumption DEF Unseen, ShimExits, KidExits, Forks,
    DeadlinePasses, procVars, runnerVars, fileVars
<1>13. CASE UNCHANGED vars
  BY <1>7, <1>13 DEF Unseen, vars, procVars, runnerVars, fileVars
<1>14. CASE WatchRecords
  BY <1>14 DEF WatchRecords, WatchAt, procVars, runnerVars,
    Remote!Report, IInv, TypeOK, Unstarted, Recorded
<1>15. QED
  BY <1>1, <1>2, <1>3, <1>4, <1>5, <1>6, <1>8, <1>9, <1>10, <1>11, <1>12,
    <1>13, <1>14
  DEF Next, Runner, RunnerStops, RunnerEnds, Watchdog, Environment

\* The VM implements the abstract job: what the supervisor sees of it is one
\* verdict from a live runner, or a runner that is gone.
THEOREM RunnerImplementsRemoteJob == Spec => ImplementsRemoteJob
<1>1. Init => Remote!Init
  BY DEF Init, Remote!Init
<1>2. QED
  BY <1>1, Implementation, Invariance, PTL DEF Spec, Remote!Spec, ImplementsRemoteJob

-----------------------------------------------------------------------------
(***************************************************************************)
(* McpServer: at most one watch task of a job runs on, and its client is   *)
(* told at most twice per apply of the job, for any number of jobs, tasks  *)
(* and requests.                                                           *)
(*                                                                         *)
(* What makes it hard is the await in the middle of subscribe: the record  *)
(* was read before the old task ended, and that task may still send what   *)
(* belongs to an earlier apply.  The invariant counts the message under    *)
(* way and what the task, or the waiting handler's, may yet tell.          *)
(***************************************************************************)

Requests == [op : {"subscribe", "unsubscribe"}, job : Jobs]
Waits ==
  [job : Jobs, op : {"subscribe", "unsubscribe"}, task : Tasks, notified : BOOLEAN]
\* The tasks of a job that have not ended.
Of(j) == {t \in Alive : task[t].job = j}

\* A record that is not past pending.
Early == {"absent", "planned", "pending"}
TaskTypes == [job : Jobs \cup {None}, pc : {"new", "sleep", "senddone", "sendleft", "ended"},
              notified : BOOLEAN, cancelled : BOOLEAN]
Types ==
  /\ McpTypeOK
  /\ inbox \in Seq(Requests)
  /\ task \in [Tasks -> TaskTypes]
  /\ told \in [Jobs -> Nat] /\ overlapped \in [Jobs -> BOOLEAN]
  /\ applies \in [Jobs -> Nat]

\* Whatever the client does, the table names tasks of the job that run, and
\* that nobody has cancelled.
TableIsLive ==
  \A j \in Jobs : table[j] # None => table[j] \in Of(j) /\ ~task[table[j]].cancelled

\* What runs is the task of a job.
TasksHaveJobs == \A t \in Alive : task[t].job \in Jobs

\* A client that waits for its replies has one request open, ...
OneOpen(j) ==
  /\ \A i, k \in 1..Len(inbox) : inbox[i].job = j /\ inbox[k].job = j => i = k
  /\ \A i \in 1..Len(inbox), w \in waiting : ~(inbox[i].job = j /\ w.job = j)
  /\ \A w, x \in waiting : w.job = j /\ x.job = j => w = x

\* ... and one task, which is in the table until it is cancelled and whose end
\* the handler that cancelled it awaits.
OneTask(j) ==
  /\ \A t, u \in Of(j) : t = u
  /\ \A t \in Of(j) :
       /\ ~task[t].cancelled => table[j] = t
       /\ task[t].cancelled =>
            /\ table[j] = None
            /\ server = "serving" => \E w \in waiting : w.job = j /\ w.task = t
  /\ \A w \in waiting : w.job = j => table[j] = None

\* What is under way, and what is yet to be told: that the job left pending,
\* by a task that has not told it, and that it is done, by any.
Restart(w, j) == w.job = j /\ w.op = "subscribe"
UnderWay(j) == \E t \in Of(j) : task[t].pc \in {"sendleft", "senddone"}
MayTellLeft(j) ==
  \/ phase[j] \in Early
  \/ /\ phase[j] = "running"
     /\ \/ \E t \in Of(j) : ~task[t].notified /\ task[t].pc # "sendleft"
        \/ \E w \in waiting : Restart(w, j) /\ ~w.notified
MayTellDone(j) ==
  \/ phase[j] \in Early \cup {"running"}
  \/ /\ phase[j] = "done"
     /\ \/ \E t \in Of(j) : task[t].pc # "senddone"
        \/ \E w \in waiting : Restart(w, j)

\* Together with what has been told it is two for each apply.
One(b) == IF b THEN 1 ELSE 0
Counted(j) ==
  told[j] + One(UnderWay(j)) + One(MayTellLeft(j)) + One(MayTellDone(j)) <= 2 * applies[j]

\* A client that has sent a request before the reply to the one before gives
\* all of that up for the job.
JobInv(j) == ~overlapped[j] => OneOpen(j) /\ OneTask(j) /\ Counted(j)

WatchInv == Types /\ TasksHaveJobs /\ TableIsLive /\ \A j \in Jobs : JobInv(j)

-----------------------------------------------------------------------------

\* Types in groups that change together.
RequestTypes == inbox \in Seq(Requests) /\ waiting \subseteq Waits
WatchTypes == task \in [Tasks -> TaskTypes] /\ table \in [Jobs -> Tasks \cup {None}]
RestTypes ==
  /\ phase \in [Jobs -> Phases] /\ lister \in {"off", "sleep", "send"} /\ known \subseteq Jobs
  /\ server \in {"serving", "closing", "down"}
  /\ told \in [Jobs -> Nat] /\ overlapped \in [Jobs -> BOOLEAN]
  /\ applies \in [Jobs -> Nat]

\* The types are those groups.
LEMMA TypeParts == RequestTypes /\ WatchTypes /\ RestTypes <=> Types
  <1>1. inbox \in Seq(Requests) => \A i \in DOMAIN inbox : inbox[i] \in Requests
    OBVIOUS
  <1>2. task \in [Tasks -> TaskTypes] =>
          \A t \in Tasks : task[t].pc \in {"new", "sleep", "senddone", "sendleft", "ended"}
    BY DEF TaskTypes
  <1> QED BY <1>1, <1>2
     DEF RequestTypes, WatchTypes, RestTypes, Types, McpTypeOK, Requests, Waits

\* The same of the next state.
LEMMA TypePartsNext == RequestTypes' /\ WatchTypes' /\ RestTypes' => Types'
  <1>1. inbox' \in Seq(Requests) => \A i \in DOMAIN inbox' : inbox'[i] \in Requests
    OBVIOUS
  <1>2. task' \in [Tasks -> TaskTypes] =>
          \A t \in Tasks : task'[t].pc \in {"new", "sleep", "senddone", "sendleft", "ended"}
    BY DEF TaskTypes
  <1> QED BY <1>1, <1>2
     DEF RequestTypes, WatchTypes, RestTypes, Types, McpTypeOK, Requests, Waits

\* What a task slot holds.
LEMMA TaskFields ==
  ASSUME Types, NEW t \in Tasks
  PROVE  /\ task[t] \in TaskTypes /\ task[t].job \in Jobs \cup {None}
         /\ task[t].pc \in {"new", "sleep", "senddone", "sendleft", "ended"}
         /\ task[t].notified \in BOOLEAN /\ task[t].cancelled \in BOOLEAN
  BY DEF Types, TaskTypes

\* What the updates of a slot, and of an entry of _tasks, make.
LEMMA Changed ==
  ASSUME Types, NEW t \in Tasks, NEW j \in Jobs
  PROVE  /\ \A x \in TaskTypes : [task EXCEPT ![t] = x] \in [Tasks -> TaskTypes]
         /\ [task EXCEPT ![t].cancelled = TRUE] \in [Tasks -> TaskTypes]
         /\ [task EXCEPT ![t].pc = "sleep", ![t].notified = TRUE] \in [Tasks -> TaskTypes]
         /\ \A x \in Tasks \cup {None} : [table EXCEPT ![j] = x] \in [Jobs -> Tasks \cup {None}]
         /\ Ended \in TaskTypes
         /\ \A b \in BOOLEAN : [job |-> j, pc |-> "new", notified |-> b, cancelled |-> FALSE] \in TaskTypes
  <1>1. /\ task \in [Tasks -> TaskTypes] /\ table \in [Jobs -> Tasks \cup {None}]
        /\ task[t] \in TaskTypes
    BY DEF Types, McpTypeOK
  <1>2. \A x \in TaskTypes : [task EXCEPT ![t] = x] \in [Tasks -> TaskTypes]
    BY <1>1
  <1>4. /\ [task[t] EXCEPT !.cancelled = TRUE] \in TaskTypes
        /\ [task[t] EXCEPT !.pc = "sleep", !.notified = TRUE] \in TaskTypes
    BY <1>1, Zenon DEF TaskTypes
  <1>6. /\ [task EXCEPT ![t].cancelled = TRUE] \in [Tasks -> TaskTypes]
        /\ [task EXCEPT ![t].pc = "sleep", ![t].notified = TRUE] \in [Tasks -> TaskTypes]
    BY <1>1, <1>4
  <1>7. \A x \in Tasks \cup {None} : [table EXCEPT ![j] = x] \in [Jobs -> Tasks \cup {None}]
    BY <1>1
  <1>8. /\ Ended \in TaskTypes
        /\ \A b \in BOOLEAN : [job |-> j, pc |-> "new", notified |-> b, cancelled |-> FALSE] \in TaskTypes
    BY DEF Ended, TaskTypes
  <1> QED BY <1>2, <1>6, <1>7, <1>8

\* A task that goes elsewhere is still a task.
LEMMA ChangedPc ==
  ASSUME Types, NEW t \in Tasks, NEW pc \in {"new", "sleep", "senddone", "sendleft", "ended"}
  PROVE  [task EXCEPT ![t].pc = pc] \in [Tasks -> TaskTypes]
  <1>1. task \in [Tasks -> TaskTypes] /\ task[t] \in TaskTypes
    BY DEF Types
  <1>2. [task[t] EXCEPT !.pc = pc] \in TaskTypes
    BY <1>1 DEF TaskTypes
  <1> QED BY <1>1, <1>2

\* A task that runs has a job, and what the table names is a task.
LEMMA Places ==
  ASSUME Types, TasksHaveJobs
  PROVE  /\ \A t \in Alive : t \in Tasks /\ task[t].job \in Jobs
         /\ \A j \in Jobs : table[j] # None => table[j] \in Tasks
         /\ \A w \in waiting : w.job \in Jobs /\ w.task \in Tasks /\ w.notified \in BOOLEAN
         /\ inbox # <<>> => Head(inbox).job \in Jobs /\ Head(inbox).op \in {"subscribe", "unsubscribe"}
  <1>1. \A t \in Alive : t \in Tasks /\ task[t].job \in Jobs
    BY DEF TasksHaveJobs, Alive
  <1>2. \A j \in Jobs : table[j] # None => table[j] \in Tasks
    BY DEF Types, McpTypeOK
  <1>3. \A w \in waiting : w.job \in Jobs /\ w.task \in Tasks /\ w.notified \in BOOLEAN
    BY DEF Types, McpTypeOK
  <1>4. inbox # <<>> => Head(inbox) \in Requests
    BY DEF Types
  <1> QED BY <1>1, <1>2, <1>3, <1>4 DEF Requests

\* A new task, the end of one, and a cancelled one.
LEMMA CreatesTypes ==
  ASSUME Types, NEW j \in Jobs, NEW b \in BOOLEAN, Creates(j, b)
  PROVE  WatchTypes'
  <1>1. PICK t \in Free : /\ task' = [task EXCEPT ![t] = [job |-> j, pc |-> "new", notified |-> b, cancelled |-> FALSE]]
                          /\ table' = [table EXCEPT ![j] = t]
    BY DEF Creates
  <1>2. t \in Tasks
    BY DEF Free
  <1> QED BY <1>1, <1>2, Changed DEF WatchTypes

\* _watch, its finally clause.
LEMMA EndsTypes ==
  ASSUME Types, TasksHaveJobs, NEW t \in Alive, Ends(t)
  PROVE  WatchTypes'
  BY Changed, Places DEF Ends, WatchTypes

\* subscribe and unsubscribe, up to their await.
LEMMA CancelsTypes ==
  ASSUME Types, TasksHaveJobs, NEW j \in Jobs, table[j] # None, Cancels(j)
  PROVE  WatchTypes'
  BY Changed, Places DEF Cancels, WatchTypes

\* A turn of _watch that does not end it.
LEMMA GoesTypes ==
  ASSUME Types, NEW t \in Alive, NEW pc \in {"new", "sleep", "senddone", "sendleft", "ended"},
         Goes(t, pc),
         UNCHANGED table
  PROVE  WatchTypes'
  <1>1. t \in Tasks /\ task' = [task EXCEPT ![t].pc = pc] /\ table' = table
    BY DEF Goes, Alive
  <1>2. table \in [Jobs -> Tasks \cup {None}]
    BY DEF Types, McpTypeOK
  <1>3. [task EXCEPT ![t].pc = pc] \in [Tasks -> TaskTypes]
    BY <1>1, ChangedPc
  <1> QED BY <1>1, <1>2, <1>3 DEF WatchTypes

\* The handler that waits.
LEMMA AwaitsTypes ==
  ASSUME Types, TasksHaveJobs, NEW j \in Jobs, table[j] # None,
         NEW op \in {"subscribe", "unsubscribe"},
         NEW b \in BOOLEAN, Awaits(j, op, b)
  PROVE  waiting' \subseteq Waits
  <1>1. [job |-> j, op |-> op, task |-> table[j], notified |-> b] \in Waits
    BY Places DEF Waits
  <1> QED BY <1>1 DEF Awaits, Types, McpTypeOK, Waits

\* The handler of a request, up to its await.
LEMMA ServesTypes == ASSUME Types, TasksHaveJobs, Serves PROVE Types'
  <1> DEFINE j == Head(inbox).job
  <1>1. /\ j \in Jobs /\ inbox # <<>> /\ inbox' = Tail(inbox)
        /\ UNCHANGED <<phase, applies, lister, known, server, told, overlapped>>
    BY Places, Zenon DEF Serves, storeVars, listVars
  <1>2. inbox' \in Seq(Requests)
    BY <1>1 DEF Types
  <1>3. WatchTypes' /\ waiting' \subseteq Waits
    <2>0. Left(j) \in BOOLEAN
      BY DEF Left
    <2>a. UNCHANGED <<task, table, waiting>> => WatchTypes' /\ waiting' \subseteq Waits
      BY DEF Types, McpTypeOK, WatchTypes, Waits
    <2>1. CASE Head(inbox).op = "subscribe"
      <3>0. Subscribe(j)
        BY <2>1 DEF Serves
      <3>1. CASE SubscribeDone(j) \/ SubscribeFails(j)
        BY <3>1, <2>a, Zenon DEF SubscribeDone, SubscribeFails
      <3>2. CASE SubscribeWatches(j)
        BY <3>2, <1>1, <2>0, CreatesTypes DEF SubscribeWatches, Types, McpTypeOK, Waits
      <3>3. CASE SubscribeRestarts(j)
        BY <3>3, <1>1, <2>0, CancelsTypes, AwaitsTypes DEF SubscribeRestarts
      <3> QED BY <3>0, <3>1, <3>2, <3>3 DEF Subscribe
    <2>2. CASE Head(inbox).op # "subscribe"
      <3>0. Unsubscribe(j)
        BY <2>2 DEF Serves
      <3>1. CASE table[j] = None
        BY <3>0, <3>1, <2>a DEF Unsubscribe
      <3>2. CASE table[j] # None
        BY <3>0, <3>2, <1>1, CancelsTypes, AwaitsTypes DEF Unsubscribe
      <3> QED BY <3>1, <3>2
    <2> QED BY <2>1, <2>2
  <1>4. RestTypes'
    BY <1>1 DEF Types, McpTypeOK, RestTypes
  <1> QED BY <1>2, <1>3, <1>4, TypePartsNext DEF RequestTypes

\* The handler, after its await.
LEMMA ResumesTypes == ASSUME Types, TasksHaveJobs, NEW w \in waiting, Resumes(w) PROVE Types'
  <1>1. /\ UNCHANGED <<inbox, phase, applies, lister, known, server, told, overlapped>>
        /\ waiting' \subseteq waiting
    BY Zenon DEF Resumes, storeVars, listVars
  <1>2. w.job \in Jobs /\ w.notified \in BOOLEAN
    BY Places
  <1>3. WatchTypes'
    <2>1. CASE w.op = "subscribe"
      BY <1>2, <2>1, CreatesTypes DEF Resumes
    <2>2. CASE w.op # "subscribe"
      BY <2>2 DEF Resumes, Types, McpTypeOK, WatchTypes
    <2> QED BY <2>1, <2>2
  <1>4. RestTypes' /\ RequestTypes'
    BY <1>1 DEF Types, McpTypeOK, RestTypes, RequestTypes, Waits
  <1> QED BY <1>3, <1>4, TypePartsNext

\* One turn of a watch task.
LEMMA WatchTypeStep ==
  ASSUME Types, TasksHaveJobs, NEW t \in Tasks, Watch(t) \/ WatchFails(t)
  PROVE  Types'
  <1>1. UNCHANGED <<inbox, waiting, phase, applies, lister, known, server, overlapped>> /\ t \in Alive
    BY Zenon DEF Watch, WatchFails, WatchLooks, WatchTellsDone, WatchTellsLeft,
       WatchCannotTell, WatchCancelled,
       WatchRest, Turns, storeVars, listVars
  <1>2. task[t].job \in Jobs
    BY <1>1, Places
  <1>3. \/ Ends(t)
        \/ \E pc \in {"new", "sleep", "senddone", "sendleft", "ended"} : Goes(t, pc) /\ UNCHANGED table
        \/ task' = [task EXCEPT ![t].pc = "sleep", ![t].notified = TRUE] /\ UNCHANGED table
    BY DEF Watch, WatchFails, WatchLooks, WatchTellsDone, WatchTellsLeft, WatchCannotTell,
       WatchCancelled
  <1>4. WatchTypes'
    <2>1. CASE Ends(t)
      BY <1>1, <2>1, EndsTypes
    <2>2. ASSUME NEW pc \in {"new", "sleep", "senddone", "sendleft", "ended"}, Goes(t, pc),
                 UNCHANGED table
          PROVE  WatchTypes'
      BY <1>1, <2>2, GoesTypes
    <2>3. CASE task' = [task EXCEPT ![t].pc = "sleep", ![t].notified = TRUE] /\ UNCHANGED table
      BY <1>2, <2>3, Changed DEF WatchTypes, Types, McpTypeOK
    <2> QED BY <1>3, <2>1, <2>2, <2>3
  <1>5. told' \in [Jobs -> Nat]
    <2>1. told' = told \/ told' = [told EXCEPT ![task[t].job] = @ + 1]
      BY DEF Watch, WatchFails, WatchLooks, WatchTellsDone, WatchTellsLeft, WatchCannotTell,
         WatchCancelled, Tells
    <2>2. told \in [Jobs -> Nat]
      BY DEF Types
    <2> QED BY <1>2, <2>1, <2>2
  <1>6. RestTypes' /\ RequestTypes'
    BY <1>1, <1>5 DEF Types, McpTypeOK, RestTypes, RequestTypes, Waits
  <1> QED BY <1>4, <1>6, TypePartsNext

\* A request, and the end of the server.
LEMMA ClientTypeStep ==
  ASSUME Types, TasksHaveJobs,
         \/ \E op \in {"subscribe", "unsubscribe"}, j \in Jobs : ClientSends(op, j)
         \/ Closes \/ \E j \in Jobs : ClosesOne(j)
  PROVE  Types'
  <1>1. ASSUME NEW op \in {"subscribe", "unsubscribe"}, NEW j \in Jobs, ClientSends(op, j)
        PROVE  Types'
    <2>1. UNCHANGED <<waiting, task, table, phase, applies, lister, known, server, told>>
      BY <1>1, Zenon DEF ClientSends, storeVars, listVars
    <2>2. inbox' \in Seq(Requests)
      <3>1. [op |-> op, job |-> j] \in Requests /\ inbox \in Seq(Requests)
        BY DEF Requests, Types
      <3> QED BY <1>1, <3>1 DEF ClientSends
    <2>3. overlapped' \in [Jobs -> BOOLEAN]
      <3>1. overlapped \in [Jobs -> BOOLEAN] /\ (overlapped[j] \/ Open(j)) \in BOOLEAN
        BY DEF Types
      <3>2. overlapped' = [overlapped EXCEPT ![j] = overlapped[j] \/ Open(j)]
        BY <1>1 DEF ClientSends
      <3> QED BY <3>1, <3>2
    <2>4. RestTypes' /\ RequestTypes' /\ WatchTypes'
      BY <2>1, <2>2, <2>3 DEF Types, McpTypeOK, RestTypes, RequestTypes, WatchTypes, Waits
    <2> QED BY <2>4, TypePartsNext
  <1>2. CASE Closes
    <2>1. /\ UNCHANGED <<task, table, phase, applies, lister, known, told, overlapped>>
          /\ inbox' = <<>> /\ waiting' = {} /\ server' = "closing"
      BY <1>2, Zenon DEF Closes, storeVars, listVars, clientVars
    <2>2. RestTypes' /\ RequestTypes' /\ WatchTypes'
      BY <2>1 DEF Types, McpTypeOK, RestTypes, RequestTypes, WatchTypes
    <2> QED BY <2>2, TypePartsNext
  <1>3. ASSUME NEW j \in Jobs, ClosesOne(j) PROVE Types'
    <2>1. UNCHANGED <<inbox, waiting, phase, applies, lister, known, server, told, overlapped>>
      BY <1>3, Zenon DEF ClosesOne, storeVars, listVars, clientVars
    <2>2. WatchTypes'
      BY <1>3, CancelsTypes DEF ClosesOne
    <2>3. RestTypes' /\ RequestTypes'
      BY <2>1 DEF Types, McpTypeOK, RestTypes, RequestTypes, Waits
    <2> QED BY <2>2, <2>3, TypePartsNext
  <1> QED BY <1>1, <1>2, <1>3

\* The steps that touch neither a watch task nor a request.
Quiet ==
  \/ Lister \/ ToolStarts \/ ToolEnds \/ ClientLists \/ (\E j \in Jobs : ClientReads(j))
  \/ ClientLeaves \/ GoesDown \/ UNCHANGED mcpVars

\* What they leave alone.
LEMMA QuietKeeps ==
  ASSUME Quiet
  PROVE  /\ UNCHANGED <<phase, applies, inbox, waiting, task, table, told, overlapped>>
         /\ server' \in {server, "down"}
  BY Zenon DEF Quiet, Lister, ListLooks, ListTells, ToolStarts, ToolEnds, ClientLists,
     ClientReads, ClientLeaves,
     GoesDown, StartsLister, storeVars, serverVars, listVars, clientVars, mcpVars

\* They, and the other processes, keep the types.
LEMMA RestTypeStep ==
  ASSUME Types, Quiet \/ \E j \in Jobs : StoreChanges(j)
  PROVE  Types'
  <1>a. Present \subseteq Jobs
    BY DEF Present
  <1>1. CASE Quiet
    <2>1. /\ UNCHANGED <<phase, applies, inbox, waiting, task, table, told, overlapped>>
          /\ server' \in {server, "down"}
      BY <1>1, QuietKeeps
    <2>2. lister' \in {lister, "off", "sleep", "send"} /\ known' \in {known, Present}
      BY <1>1, Zenon DEF Quiet, Lister, ListLooks, ListTells, ToolStarts, ToolEnds,
         ClientLists, ClientReads,
         ClientLeaves, GoesDown, StartsLister, storeVars, serverVars, listVars, clientVars,
         mcpVars
    <2>3. RestTypes' /\ RequestTypes' /\ WatchTypes'
      BY <1>a, <2>1, <2>2 DEF Types, McpTypeOK, RestTypes, RequestTypes, WatchTypes, Waits
    <2> QED BY <2>3, TypePartsNext
  <1>2. ASSUME NEW j \in Jobs, StoreChanges(j) PROVE Types'
    <2>1. UNCHANGED <<inbox, waiting, task, table, told, overlapped, lister, known, server>>
      BY <1>2, Zenon DEF StoreChanges, Advances, Reapplies, serverVars, listVars, clientVars
    <2>2. phase' \in [Jobs -> Phases] /\ applies' \in [Jobs -> Nat]
      <3>1. CASE Reapplies(j)
        BY <3>1 DEF Reapplies, Types, McpTypeOK, Phases
      <3>2. CASE ~Reapplies(j)
        BY <1>2, <3>2 DEF StoreChanges, Advances, Types, McpTypeOK, Phases
      <3> QED BY <3>1, <3>2
    <2>3. RestTypes' /\ RequestTypes' /\ WatchTypes'
      BY <2>1, <2>2 DEF Types, McpTypeOK, RestTypes, RequestTypes, WatchTypes, Waits
    <2> QED BY <2>3, TypePartsNext
  <1> QED BY <1>1, <1>2

\* So every step keeps them.
LEMMA TypeStep == ASSUME Types, TasksHaveJobs, [McpNext]_mcpVars PROVE Types'
  BY ServesTypes, ResumesTypes, WatchTypeStep, ClientTypeStep, RestTypeStep
     DEF McpNext, Client, Quiet

-----------------------------------------------------------------------------

\* The part of the invariant that no client can give up.
Global == TasksHaveJobs /\ TableIsLive

\* A new task takes a slot that no job and no handler has.
LEMMA Created ==
  ASSUME Types, NEW j \in Jobs, NEW b \in BOOLEAN, Creates(j, b)
  PROVE  \E t \in Free :
           /\ t \in Tasks /\ task[t].pc = "ended" /\ (\A k \in Jobs : table[k] # t)
           /\ \A w \in waiting : w.task # t
           /\ task'[t] = [job |-> j, pc |-> "new", notified |-> b, cancelled |-> FALSE]
           /\ \A u \in Tasks : u # t => task'[u] = task[u]
           /\ table'[j] = t /\ \A k \in Jobs : k # j => table'[k] = table[k]
           /\ Of(j)' = Of(j) \cup {t} /\ t \notin Of(j) /\ \A k \in Jobs : k # j => Of(k)' = Of(k)
           /\ \A k \in Jobs : \A u \in Of(k) : task'[u] = task[u]
  <1>1. PICK t \in Free : /\ task' = [task EXCEPT ![t] = [job |-> j, pc |-> "new", notified |-> b, cancelled |-> FALSE]]
                          /\ table' = [table EXCEPT ![j] = t]
    BY DEF Creates
  <1>2. /\ t \in Tasks /\ task[t].pc = "ended" /\ (\A k \in Jobs : table[k] # t)
        /\ \A w \in waiting : w.task # t
    BY DEF Free, Alive
  <1>3. /\ task'[t] = [job |-> j, pc |-> "new", notified |-> b, cancelled |-> FALSE]
        /\ \A u \in Tasks : u # t => task'[u] = task[u]
    BY <1>1, <1>2 DEF Types
  <1>4. table'[j] = t /\ \A k \in Jobs : k # j => table'[k] = table[k]
    BY <1>1 DEF Types, McpTypeOK
  <1>5. Of(j)' = Of(j) \cup {t} /\ t \notin Of(j) /\ \A k \in Jobs : k # j => Of(k)' = Of(k)
    BY <1>2, <1>3 DEF Of, Alive
  <1>6. \A k \in Jobs : \A u \in Of(k) : task'[u] = task[u]
    BY <1>2, <1>3 DEF Of, Alive
  <1> QED BY <1>2, <1>3, <1>4, <1>5, <1>6

\* A task that ends takes its job's entry with it.
LEMMA TaskEnds ==
  ASSUME Types, TasksHaveJobs, NEW t \in Alive, Ends(t)
  PROVE  /\ t \in Tasks /\ task[t].job \in Jobs /\ t \in Of(task[t].job)
         /\ \A k \in Jobs : Of(k)' = Of(k) \ {t}
         /\ \A u \in Tasks : u # t => task'[u] = task[u]
         /\ table'[task[t].job] = None
         /\ \A k \in Jobs : k # task[t].job => table'[k] = table[k] /\ Of(k)' = Of(k)
  <1>1. t \in Tasks /\ task[t].job \in Jobs /\ t \in Of(task[t].job)
    BY Places DEF Alive, Of
  <1>2. task'[t] = Ended /\ \A u \in Tasks : u # t => task'[u] = task[u]
    BY <1>1 DEF Ends, Types
  <1>3. table'[task[t].job] = None /\ \A k \in Jobs : k # task[t].job => table'[k] = table[k]
    BY <1>1 DEF Ends, Types, McpTypeOK
  <1>4. \A k \in Jobs : Of(k)' = Of(k) \ {t}
    BY <1>1, <1>2 DEF Of, Alive, Ended
  <1>5. \A k \in Jobs : k # task[t].job => t \notin Of(k)
    BY DEF Of
  <1> QED BY <1>1, <1>2, <1>3, <1>4, <1>5

\* A task that is cancelled goes on to its next await.
LEMMA Cancelled ==
  ASSUME Types, TasksHaveJobs, NEW j \in Jobs, table[j] # None, Cancels(j)
  PROVE  /\ table[j] \in Tasks /\ table'[j] = None
         /\ \A k \in Jobs : k # j => table'[k] = table[k]
         /\ \A u \in Tasks : /\ task'[u].job = task[u].job /\ task'[u].pc = task[u].pc
                             /\ task'[u].notified = task[u].notified
                             /\ task'[u].cancelled = (task[u].cancelled \/ u = table[j])
                             /\ u # table[j] => task'[u] = task[u]
         /\ \A k \in Jobs : Of(k)' = Of(k)
  <1>1. table[j] \in Tasks
    BY Places
  <1>2. table'[j] = None /\ \A k \in Jobs : k # j => table'[k] = table[k]
    BY DEF Cancels, Types, McpTypeOK
  <1>3. PICK t \in Tasks : t = table[j]
    BY <1>1
  <1>4. task' = [task EXCEPT ![t].cancelled = TRUE] /\ task \in [Tasks -> TaskTypes]
    BY <1>3 DEF Cancels, Types
  <1>5. \A u \in Tasks : /\ task'[u].job = task[u].job /\ task'[u].pc = task[u].pc
                         /\ task'[u].notified = task[u].notified
                         /\ u # t => task'[u] = task[u]
    BY <1>4 DEF TaskTypes
  <1>6. \A u \in Tasks : task'[u].cancelled = (task[u].cancelled \/ u = t)
    <2>1. \A u \in Tasks : task[u].cancelled \in BOOLEAN
      BY TaskFields
    <2>2. task'[t].cancelled = TRUE
      BY <1>4 DEF TaskTypes
    <2> QED BY <1>5, <2>1, <2>2
  <1>7. \A k \in Jobs : Of(k)' = Of(k)
    BY <1>5 DEF Of, Alive
  <1> QED BY <1>1, <1>2, <1>3, <1>5, <1>6, <1>7

\* A task that takes a step and has not ended.
LEMMA Moved ==
  ASSUME Types, NEW t \in Alive, NEW pc \in {"new", "sleep", "senddone", "sendleft"}, Goes(t, pc)
  PROVE  /\ t \in Tasks
         /\ \A u \in Tasks : u # t => task'[u] = task[u]
         /\ task'[t].pc = pc /\ task'[t].job = task[t].job /\ task'[t].notified = task[t].notified
         /\ task'[t].cancelled = task[t].cancelled
         /\ \A k \in Jobs : Of(k)' = Of(k)
  <1>1. /\ t \in Tasks /\ task[t].pc # "ended" /\ task' = [task EXCEPT ![t].pc = pc]
        /\ task \in [Tasks -> TaskTypes]
    BY DEF Alive, Goes, Types
  <1>2. /\ \A u \in Tasks : u # t => task'[u] = task[u]
        /\ task'[t].pc = pc /\ task'[t].job = task[t].job /\ task'[t].notified = task[t].notified
        /\ task'[t].cancelled = task[t].cancelled
    BY <1>1 DEF TaskTypes
  <1>3. \A k \in Jobs : Of(k)' = Of(k)
    BY <1>1, <1>2 DEF Of, Alive
  <1> QED BY <1>1, <1>2, <1>3

-----------------------------------------------------------------------------

\* What holds of every job, whatever its client does.
LEMMA GlobalSame ==
  ASSUME Types, Global, UNCHANGED <<task, table>> PROVE Global'
  BY DEF Global, TasksHaveJobs, TableIsLive, Of, Alive

\* subscribe makes a task.
LEMMA GlobalCreates ==
  ASSUME Types, Global, NEW j \in Jobs, NEW b \in BOOLEAN, Creates(j, b)
  PROVE  Global'
  <1>1. PICK t \in Free :
           /\ t \in Tasks /\ task[t].pc = "ended" /\ (\A k \in Jobs : table[k] # t)
           /\ task'[t] = [job |-> j, pc |-> "new", notified |-> b, cancelled |-> FALSE]
           /\ \A u \in Tasks : u # t => task'[u] = task[u]
           /\ table'[j] = t /\ \A k \in Jobs : k # j => table'[k] = table[k]
           /\ Of(j)' = Of(j) \cup {t} /\ \A k \in Jobs : k # j => Of(k)' = Of(k)
           /\ \A k \in Jobs : \A u \in Of(k) : task'[u] = task[u]
    BY Created
  <1>2. task'[t].pc = "new" /\ task'[t].job = j /\ task'[t].cancelled = FALSE
    BY <1>1
  <1>3. TasksHaveJobs'
    BY <1>1, <1>2 DEF Global, TasksHaveJobs, Alive
  <1>4. TableIsLive'
    BY <1>1, <1>2 DEF Global, TableIsLive
  <1> QED BY <1>3, <1>4 DEF Global

\* A task ends.
LEMMA GlobalEnds ==
  ASSUME Types, Global, NEW t \in Alive, Ends(t)
  PROVE  Global'
  <1>1. /\ t \in Tasks /\ task[t].job \in Jobs /\ t \in Of(task[t].job)
        /\ \A k \in Jobs : Of(k)' = Of(k) \ {t}
        /\ \A u \in Tasks : u # t => task'[u] = task[u]
        /\ table'[task[t].job] = None
        /\ \A k \in Jobs : k # task[t].job => table'[k] = table[k] /\ Of(k)' = Of(k)
    BY TaskEnds DEF Global
  <1>2. task'[t] = Ended
    BY <1>1 DEF Ends, Types
  <1>3. TasksHaveJobs'
    BY <1>1, <1>2 DEF Global, TasksHaveJobs, Alive, Ended
  <1>4. TableIsLive'
    BY <1>1 DEF Global, TableIsLive, Of, Alive
  <1> QED BY <1>3, <1>4 DEF Global

\* A task is cancelled.
LEMMA GlobalCancels ==
  ASSUME Types, Global, NEW j \in Jobs, table[j] # None, Cancels(j)
  PROVE  Global'
  <1>1. /\ table[j] \in Tasks /\ table'[j] = None /\ \A k \in Jobs : k # j => table'[k] = table[k]
        /\ \A u \in Tasks : /\ task'[u].job = task[u].job /\ task'[u].pc = task[u].pc
                            /\ u # table[j] => task'[u] = task[u]
        /\ \A k \in Jobs : Of(k)' = Of(k)
    BY Cancelled DEF Global
  <1>2. TasksHaveJobs'
    BY <1>1 DEF Global, TasksHaveJobs, Alive
  <1>3. TableIsLive'
    <2>1. ASSUME NEW k \in Jobs, table'[k] # None
          PROVE  table'[k] \in Of(k)' /\ ~task'[table'[k]].cancelled
      <3>1. k # j /\ table'[k] = table[k]
        BY <1>1, <2>1
      <3>2. table[k] \in Of(k) /\ ~task[table[k]].cancelled /\ table[j] \in Of(j)
        BY <2>1, <3>1 DEF Global, TableIsLive
      <3>3. table[k] # table[j] /\ table[k] \in Tasks
        BY <3>1, <3>2 DEF Of, Alive
      <3> QED BY <1>1, <3>1, <3>2, <3>3
    <2> QED BY <2>1 DEF TableIsLive
  <1> QED BY <1>2, <1>3 DEF Global

\* A task goes on.
LEMMA GlobalMoves ==
  ASSUME Types, Global, NEW t \in Alive, NEW pc \in {"new", "sleep", "senddone", "sendleft"},
         Goes(t, pc), UNCHANGED table
  PROVE  Global'
  <1>1. /\ t \in Tasks
        /\ \A u \in Tasks : u # t => task'[u] = task[u]
        /\ task'[t].pc = pc /\ task'[t].job = task[t].job
        /\ task'[t].cancelled = task[t].cancelled
        /\ \A k \in Jobs : Of(k)' = Of(k)
    BY Moved
  <1>2. TasksHaveJobs'
    BY <1>1 DEF Global, TasksHaveJobs, Alive
  <1>3. TableIsLive'
    BY <1>1 DEF Global, TableIsLive, Of, Alive
  <1> QED BY <1>2, <1>3 DEF Global

\* Nothing is told, and nothing more may be.
LEMMA CountKeeps ==
  ASSUME Types, NEW j \in Jobs, Counted(j), told'[j] = told[j], applies'[j] = applies[j],
         UnderWay(j)' => UnderWay(j), MayTellLeft(j)' => MayTellLeft(j),
         MayTellDone(j)' => MayTellDone(j)
  PROVE  Counted(j)'
  <1>1. told[j] \in Nat /\ applies[j] \in Nat
    BY DEF Types
  <1> QED BY <1>1 DEF Counted, One

\* A message is out.
LEMMA CountTells ==
  ASSUME Types, NEW j \in Jobs, Counted(j), told'[j] = told[j] + 1, applies'[j] = applies[j],
         UnderWay(j), ~UnderWay(j)', MayTellLeft(j)' => MayTellLeft(j),
         MayTellDone(j)' => MayTellDone(j)
  PROVE  Counted(j)'
  <1>1. told[j] \in Nat /\ applies[j] \in Nat
    BY DEF Types
  <1> QED BY <1>1 DEF Counted, One

\* A message is on its way that nothing will tell again.
LEMMA CountLooks ==
  ASSUME Types, NEW j \in Jobs, Counted(j), told'[j] = told[j], applies'[j] = applies[j],
         ~UnderWay(j), MayTellLeft(j)' => MayTellLeft(j), MayTellDone(j)' => MayTellDone(j),
         (MayTellLeft(j) /\ ~MayTellLeft(j)') \/ (MayTellDone(j) /\ ~MayTellDone(j)')
  PROVE  Counted(j)'
  <1>1. told[j] \in Nat /\ applies[j] \in Nat
    BY DEF Types
  <1> QED BY <1>1 DEF Counted, One

\* A step that leaves a job's task, its record and its open requests alone.
LEMMA Frame ==
  ASSUME Types, NEW j \in Jobs, JobInv(j),
         Of(j)' = Of(j), \A t \in Of(j) : task'[t] = task[t],
         table'[j] = table[j], phase'[j] = phase[j], told'[j] = told[j],
         applies'[j] = applies[j],
         overlapped[j] => overlapped'[j],
         \A w : w.job = j => (w \in waiting' <=> w \in waiting),
         server' = "serving" => server = "serving",
         ~overlapped'[j] => OneOpen(j)'
  PROVE  JobInv(j)'
  <1> SUFFICES ASSUME ~overlapped'[j]
               PROVE  OneOpen(j)' /\ OneTask(j)' /\ Counted(j)'
    BY DEF JobInv
  <1>1. OneTask(j) /\ Counted(j)
    BY DEF JobInv
  <1>2. OneTask(j)'
    BY <1>1 DEF OneTask
  <1>3. UnderWay(j)' => UnderWay(j)
    BY DEF UnderWay
  <1>4. (MayTellLeft(j)' => MayTellLeft(j)) /\ (MayTellDone(j)' => MayTellDone(j))
    BY DEF MayTellLeft, MayTellDone, Restart
  <1>5. Counted(j)'
    BY <1>1, <1>3, <1>4, CountKeeps
  <1> QED BY <1>2, <1>5

\* Fewer requests are open than before.
LEMMA FewerOpen ==
  ASSUME NEW j \in Jobs, OneOpen(j), \A w \in waiting' : w.job = j => w \in waiting,
         inbox \in Seq(Requests),
         inbox' = inbox \/ (inbox # <<>> /\ inbox' = Tail(inbox)) \/ inbox' = <<>>
  PROVE  OneOpen(j)'
  <1>1. CASE inbox' = inbox
    BY <1>1 DEF OneOpen
  <1>2. CASE inbox # <<>> /\ inbox' = Tail(inbox)
    <2>1. /\ Len(inbox) \in Nat /\ Len(inbox') = Len(inbox) - 1
          /\ \A i \in 1..Len(inbox') : i + 1 \in 1..Len(inbox) /\ inbox'[i] = inbox[i + 1]
      BY <1>2
    <2>2. \A i, k \in 1..Len(inbox') : inbox'[i].job = j /\ inbox'[k].job = j => i = k
      <3>1. ASSUME NEW i \in 1..Len(inbox'), NEW k \in 1..Len(inbox'), inbox'[i].job = j,
                   inbox'[k].job = j
            PROVE  i = k
        <4>1. i + 1 = k + 1
          BY <2>1, <3>1 DEF OneOpen
        <4> QED BY <2>1, <4>1
      <3> QED BY <3>1
    <2>3. \A i \in 1..Len(inbox'), w \in waiting' : ~(inbox'[i].job = j /\ w.job = j)
      BY <2>1 DEF OneOpen
    <2> QED BY <2>2, <2>3 DEF OneOpen
  <1>3. CASE inbox' = <<>>
    BY <1>3 DEF OneOpen
  <1> QED BY <1>1, <1>2, <1>3

-----------------------------------------------------------------------------

\* The job list, the tools and the reads of the client concern no watch.
LEMMA QuietStep == ASSUME WatchInv, Quiet PROVE Global' /\ \A j \in Jobs : JobInv(j)'
  <1>1. /\ UNCHANGED <<phase, applies, inbox, waiting, task, table, told, overlapped>>
        /\ server' \in {server, "down"}
    BY QuietKeeps
  <1>2. Global'
    BY <1>1, GlobalSame DEF WatchInv, Global
  <1>3. ASSUME NEW j \in Jobs PROVE JobInv(j)'
    <2>1. JobInv(j)
      BY DEF WatchInv
    <2>2. Of(j)' = Of(j)
      BY <1>1 DEF Of, Alive
    <2>3. ~overlapped'[j] => OneOpen(j)'
      BY <1>1, <2>1 DEF JobInv, OneOpen
    <2> QED BY <1>1, <2>1, <2>2, <2>3, Frame DEF WatchInv
  <1> QED BY <1>2, <1>3

\* The record of a job goes forward, or the job is applied again: two more
\* messages are due.
LEMMA StoreStep ==
  ASSUME WatchInv, NEW j \in Jobs, StoreChanges(j)
  PROVE  Global' /\ \A k \in Jobs : JobInv(k)'
  <1>1. UNCHANGED <<inbox, waiting, task, table, server, told, overlapped>>
    BY Zenon DEF StoreChanges, Advances, Reapplies, serverVars, clientVars
  <1>2. PICK to \in Phases :
          /\ phase' = [phase EXCEPT ![j] = to]
          /\ \/ phase[j] \in Early /\ to \in Early /\ applies' = applies
             \/ phase[j] = "pending" /\ to = "running" /\ applies' = applies
             \/ phase[j] \in {"pending", "running"} /\ to = "done" /\ applies' = applies
             \/ phase[j] \in {"planned", "done"} /\ to = "pruned" /\ applies' = applies
             \/ to = "pending" /\ applies' = [applies EXCEPT ![j] = @ + 1]
    BY DEF StoreChanges, Advances, Reapplies, Phases, Early
  <1>3. phase'[j] = to /\ \A k \in Jobs : k # j => phase'[k] = phase[k]
    BY <1>2 DEF WatchInv, Types, McpTypeOK
  <1>4. \A k : Of(k)' = Of(k)
    BY <1>1 DEF Of, Alive
  <1>5. Global'
    BY <1>1, GlobalSame DEF WatchInv, Global
  <1>6. ASSUME NEW k \in Jobs, k # j PROVE JobInv(k)'
    <2>1. JobInv(k) /\ (~overlapped'[k] => OneOpen(k)')
      BY <1>1 DEF WatchInv, JobInv, OneOpen
    <2>2. applies'[k] = applies[k]
      BY <1>2, <1>6 DEF WatchInv, Types
    <2> QED BY <1>1, <1>3, <1>4, <1>6, <2>1, <2>2, Frame DEF WatchInv
  <1>7. JobInv(j)'
    <2>1. SUFFICES ASSUME ~overlapped[j]
                   PROVE  OneOpen(j)' /\ OneTask(j)' /\ Counted(j)'
      BY <1>1 DEF JobInv
    <2>2. OneOpen(j) /\ OneTask(j) /\ Counted(j)
      BY <2>1 DEF WatchInv, JobInv
    <2>3. OneOpen(j)' /\ OneTask(j)'
      BY <1>1, <1>4, <2>2 DEF OneOpen, OneTask
    <2>4. UnderWay(j)' <=> UnderWay(j)
      BY <1>1, <1>4 DEF UnderWay
    <2>5. CASE applies' = applies
      <3>1. MayTellLeft(j)' => MayTellLeft(j)
        BY <1>2, <1>3, <2>5 DEF MayTellLeft, Early, WatchInv, Types
      <3>2. MayTellDone(j)' => MayTellDone(j)
        BY <1>2, <1>3, <2>5 DEF MayTellDone, Early, WatchInv, Types
      <3> QED BY <1>1, <2>2, <2>3, <2>4, <2>5, <3>1, <3>2, CountKeeps DEF WatchInv
    <2>6. CASE applies' = [applies EXCEPT ![j] = @ + 1]
      <3>1. applies'[j] = applies[j] + 1 /\ applies[j] \in Nat /\ told[j] \in Nat
        BY <2>6 DEF WatchInv, Types
      <3>2. told'[j] = told[j]
        BY <1>1
      <3>3. Counted(j)'
        BY <2>2, <2>4, <3>1, <3>2 DEF Counted, One
      <3> QED BY <2>3, <3>3
    <2> QED BY <1>2, <2>5, <2>6
  <1> QED BY <1>5, <1>6, <1>7

\* A client that does not wait for the reply gives up the promise.
LEMMA SendStep ==
  ASSUME WatchInv, NEW op \in {"subscribe", "unsubscribe"}, NEW j \in Jobs, ClientSends(op, j)
  PROVE  Global' /\ \A k \in Jobs : JobInv(k)'
  <1>1. UNCHANGED <<phase, applies, waiting, task, table, server, told>>
    BY Zenon DEF ClientSends, storeVars
  <1>2. Global'
    BY <1>1, GlobalSame DEF WatchInv, Global
  <1>3. /\ Len(inbox) \in Nat /\ Len(inbox') = Len(inbox) + 1 /\ inbox'[Len(inbox) + 1].job = j
        /\ \A i \in 1..Len(inbox) : inbox'[i] = inbox[i]
    <2>1. inbox \in Seq(Requests) /\ [op |-> op, job |-> j] \in Requests
      BY DEF WatchInv, Types, Requests
    <2>2. inbox' = Append(inbox, [op |-> op, job |-> j])
      BY DEF ClientSends
    <2> QED BY <2>1, <2>2
  <1>4. /\ overlapped' = [overlapped EXCEPT ![j] = overlapped[j] \/ Open(j)]
        /\ overlapped \in [Jobs -> BOOLEAN]
    BY DEF ClientSends, WatchInv, Types
  <1>5. ASSUME NEW k \in Jobs PROVE JobInv(k)'
    <2>1. JobInv(k)
      BY DEF WatchInv
    <2>2. (overlapped[k] => overlapped'[k]) /\ (~overlapped'[k] => k # j \/ ~Open(j))
      BY <1>4
    <2>3. ~overlapped'[k] => OneOpen(k)'
      <3>1. SUFFICES ASSUME ~overlapped'[k] PROVE OneOpen(k)'
        OBVIOUS
      <3>2. OneOpen(k)
        BY <2>1, <2>2, <3>1 DEF JobInv
      <3>3. CASE k # j
        BY <1>1, <1>3, <3>2, <3>3 DEF OneOpen
      <3>4. CASE k = j /\ ~Open(j)
        <4>1. (\A i \in 1..Len(inbox) : inbox[i].job # j) /\ \A w \in waiting : w.job # j
          <5>1. inbox \in Seq(Requests)
            BY DEF WatchInv, Types
          <5>2. DOMAIN inbox = 1..Len(inbox)
            BY <5>1
          <5> QED BY <3>4, <5>2 DEF Open
        <4> QED BY <1>1, <1>3, <3>4, <4>1 DEF OneOpen
      <3> QED BY <2>2, <3>1, <3>3, <3>4
    <2>4. Of(k)' = Of(k)
      BY <1>1 DEF Of, Alive
    <2> QED BY <1>1, <2>1, <2>2, <2>3, <2>4, Frame DEF WatchInv
  <1> QED BY <1>2, <1>5

\* The handlers are cancelled, and then the tasks.
LEMMA ClosesStep == ASSUME WatchInv, Closes PROVE Global' /\ \A k \in Jobs : JobInv(k)'
  <1>1. /\ UNCHANGED <<phase, applies, task, table, told, overlapped>> /\ inbox' = <<>> /\ waiting' = {}
        /\ server' = "closing"
    BY Zenon DEF Closes, storeVars, clientVars
  <1>2. Global'
    BY <1>1, GlobalSame DEF WatchInv, Global
  <1>3. ASSUME NEW k \in Jobs PROVE JobInv(k)'
    <2>1. SUFFICES ASSUME ~overlapped[k]
                   PROVE  OneOpen(k)' /\ OneTask(k)' /\ Counted(k)'
      BY <1>1 DEF JobInv
    <2>2. OneTask(k) /\ Counted(k)
      BY <2>1 DEF WatchInv, JobInv
    <2>3. Of(k)' = Of(k)
      BY <1>1 DEF Of, Alive
    <2>4. OneOpen(k)'
      BY <1>1 DEF OneOpen
    <2>5. OneTask(k)'
      BY <1>1, <2>2, <2>3 DEF OneTask
    <2>6. (MayTellLeft(k)' => MayTellLeft(k)) /\ (MayTellDone(k)' => MayTellDone(k))
      BY <1>1, <2>3 DEF MayTellLeft, MayTellDone
    <2>7. UnderWay(k)' => UnderWay(k)
      BY <1>1, <2>3 DEF UnderWay
    <2> QED BY <1>1, <2>2, <2>4, <2>5, <2>6, <2>7, CountKeeps DEF WatchInv
  <1> QED BY <1>2, <1>3

\* A cancelled task has told, and may yet tell, what it had before.
LEMMA CancelKeeps ==
  ASSUME WatchInv, NEW j \in Jobs, table[j] # None, Cancels(j), UNCHANGED <<phase, applies, told>>
  PROVE  /\ \A k \in Jobs : Of(k)' = Of(k)
         /\ \A k \in Jobs : k # j => table'[k] = table[k] /\ \A u \in Of(k) : task'[u] = task[u]
         /\ table'[j] = None /\ table[j] \in Of(j)
         /\ \A u \in Of(j) : task'[u].pc = task[u].pc /\ task'[u].notified = task[u].notified
         /\ ~overlapped[j] => \A u \in Of(j) : u = table[j]
         /\ task'[table[j]].cancelled
  <1>1. /\ table[j] \in Tasks /\ table'[j] = None /\ \A k \in Jobs : k # j => table'[k] = table[k]
        /\ \A u \in Tasks : /\ task'[u].pc = task[u].pc
                            /\ task'[u].notified = task[u].notified
                            /\ task'[u].cancelled = (task[u].cancelled \/ u = table[j])
                            /\ u # table[j] => task'[u] = task[u]
        /\ \A k \in Jobs : Of(k)' = Of(k)
    BY Cancelled DEF WatchInv
  <1>2. table[j] \in Of(j)
    BY DEF WatchInv, TableIsLive
  <1>3. \A k \in Jobs : k # j => table[j] \notin Of(k)
    BY <1>2 DEF Of
  <1>4. \A k, u : u \in Of(k) => u \in Tasks
    BY DEF Of, Alive
  <1>5. ~overlapped[j] => \A u \in Of(j) : u = table[j]
    BY <1>2 DEF WatchInv, JobInv, OneTask
  <1> QED BY <1>1, <1>2, <1>3, <1>4, <1>5

\* unsubscribe_all, one URI.
LEMMA ClosesOneStep ==
  ASSUME WatchInv, NEW j \in Jobs, ClosesOne(j)
  PROVE  Global' /\ \A k \in Jobs : JobInv(k)'
  <1>1. /\ UNCHANGED <<phase, applies, inbox, waiting, server, told, overlapped>> /\ server = "closing"
        /\ table[j] # None
        /\ Cancels(j)
    BY Zenon DEF ClosesOne, storeVars, clientVars
  <1>2. Global'
    BY <1>1, GlobalCancels DEF WatchInv, Global
  <1>3. /\ \A k \in Jobs : Of(k)' = Of(k)
        /\ \A k \in Jobs : k # j => table'[k] = table[k] /\ \A u \in Of(k) : task'[u] = task[u]
        /\ table'[j] = None /\ table[j] \in Of(j)
        /\ \A u \in Of(j) : task'[u].pc = task[u].pc /\ task'[u].notified = task[u].notified
        /\ ~overlapped[j] => \A u \in Of(j) : u = table[j]
        /\ task'[table[j]].cancelled
    BY <1>1, CancelKeeps
  <1>4. ASSUME NEW k \in Jobs, k # j PROVE JobInv(k)'
    <2>1. JobInv(k) /\ (~overlapped'[k] => OneOpen(k)')
      BY <1>1 DEF WatchInv, JobInv, OneOpen
    <2> QED BY <1>1, <1>3, <1>4, <2>1, Frame DEF WatchInv
  <1>5. JobInv(j)'
    <2>1. SUFFICES ASSUME ~overlapped[j]
                   PROVE  OneOpen(j)' /\ OneTask(j)' /\ Counted(j)'
      BY <1>1 DEF JobInv
    <2>2. OneOpen(j) /\ OneTask(j) /\ Counted(j)
      BY <2>1 DEF WatchInv, JobInv
    <2>3. OneOpen(j)'
      BY <1>1, <2>2 DEF OneOpen
    <2>4. OneTask(j)'
      BY <1>1, <1>3, <2>1, <2>2 DEF OneTask
    <2>5. (MayTellLeft(j)' => MayTellLeft(j)) /\ (MayTellDone(j)' => MayTellDone(j))
      BY <1>1, <1>3 DEF MayTellLeft, MayTellDone, Restart
    <2>6. UnderWay(j)' => UnderWay(j)
      BY <1>3 DEF UnderWay
    <2> QED BY <1>1, <2>2, <2>3, <2>4, <2>5, <2>6, CountKeeps DEF WatchInv
  <1> QED BY <1>2, <1>4, <1>5

-----------------------------------------------------------------------------

\* A handler that has cancelled a task awaits its end.
LEMMA AwaitsStep ==
  ASSUME WatchInv, Serves, NEW j \in Jobs, j = Head(inbox).job, table[j] # None, Cancels(j),
         NEW op \in {"subscribe", "unsubscribe"}, Awaits(j, op, op = "subscribe" /\ Left(j)),
         op = "subscribe" => phase[j] # "done"
  PROVE  Global' /\ \A k \in Jobs : JobInv(k)'
  <1>1. /\ UNCHANGED <<phase, applies, told, overlapped, server>> /\ server = "serving" /\ inbox # <<>>
        /\ inbox' = Tail(inbox)
    BY Zenon DEF Serves, storeVars, Loop
  <1>2. Global'
    BY <1>1, GlobalCancels DEF WatchInv, Global
  <1>3. /\ \A k \in Jobs : Of(k)' = Of(k)
        /\ \A k \in Jobs : k # j => table'[k] = table[k] /\ \A u \in Of(k) : task'[u] = task[u]
        /\ table'[j] = None /\ table[j] \in Of(j)
        /\ \A u \in Of(j) : task'[u].pc = task[u].pc /\ task'[u].notified = task[u].notified
        /\ ~overlapped[j] => \A u \in Of(j) : u = table[j]
        /\ task'[table[j]].cancelled
    BY <1>1, CancelKeeps
  <1>a. (op = "subscribe" /\ Left(j)) \in BOOLEAN
    OBVIOUS
  <1>b. PICK b \in BOOLEAN : b = (op = "subscribe" /\ Left(j))
    BY <1>a
  <1>c. PICK w : w = [job |-> j, op |-> op, task |-> table[j], notified |-> b]
    OBVIOUS
  <1>d. w.job = j /\ w.op = op /\ w.task = table[j] /\ w.notified = b
    BY <1>c
  <1>e. waiting' = waiting \cup {w}
    BY <1>b, <1>c DEF Awaits
  <1>4. /\ waiting' = waiting \cup {w} /\ w.job = j /\ w.op = op /\ w.task = table[j]
        /\ w.notified = (op = "subscribe" /\ Left(j))
    BY <1>b, <1>d, <1>e
  <1>5. ASSUME NEW k \in Jobs, k # j PROVE JobInv(k)'
    <2>1. JobInv(k)
      BY DEF WatchInv
    <2>2. \A x : x.job = k => (x \in waiting' <=> x \in waiting)
      BY <1>4, <1>5
    <2>3. ~overlapped'[k] => OneOpen(k)'
      BY <1>1, <2>1, <2>2, FewerOpen DEF JobInv, WatchInv, Types
    <2> QED BY <1>1, <1>3, <1>5, <2>1, <2>2, <2>3, Frame DEF WatchInv
  <1>6. JobInv(j)'
    <2>1. SUFFICES ASSUME ~overlapped[j]
                   PROVE  OneOpen(j)' /\ OneTask(j)' /\ Counted(j)'
      BY <1>1 DEF JobInv
    <2>2. OneOpen(j) /\ OneTask(j) /\ Counted(j)
      BY <2>1 DEF WatchInv, JobInv
    <2>3. /\ Len(inbox) \in Nat /\ Len(inbox') = Len(inbox) - 1 /\ inbox[1].job = j
          /\ 1 \in 1..Len(inbox)
          /\ \A i \in 1..Len(inbox') : i + 1 \in 1..Len(inbox) /\ i + 1 # 1 /\ inbox'[i] = inbox[i + 1]
      <3>1. inbox \in Seq(Requests)
        BY DEF WatchInv, Types
      <3> QED BY <1>1, <3>1
    <2>4. (\A x \in waiting : x.job # j) /\ \A i \in 1..Len(inbox') : inbox'[i].job # j
      BY <2>2, <2>3 DEF OneOpen
    <2>5. OneOpen(j)'
      BY <1>4, <2>4 DEF OneOpen
    <2>6. OneTask(j)'
      BY <1>1, <1>3, <1>4, <2>1 DEF OneTask
    <2>7. MayTellLeft(j)' => MayTellLeft(j)
      BY <1>1, <1>3, <1>4 DEF MayTellLeft, Restart, Left
    <2>8. MayTellDone(j)' => MayTellDone(j)
      BY <1>1, <1>3, <1>4 DEF MayTellDone, Restart, Left
    <2>9. UnderWay(j)' => UnderWay(j)
      BY <1>3 DEF UnderWay
    <2> QED BY <1>1, <2>2, <2>5, <2>6, <2>7, <2>8, <2>9, CountKeeps DEF WatchInv
  <1> QED BY <1>2, <1>5, <1>6

\* A new task is made where the old one has ended, or there is none.
LEMMA CreatesStep ==
  ASSUME WatchInv, NEW j \in Jobs, NEW b \in BOOLEAN, Creates(j, b),
         UNCHANGED <<phase, applies, told, overlapped, server>>,
         ~overlapped[j] => Of(j) = {},
         ~overlapped[j] => \A w \in waiting' : w.job # j,
         ~overlapped[j] /\ ~b /\ phase[j] = "running" => MayTellLeft(j),
         ~overlapped[j] /\ phase[j] = "done" => MayTellDone(j),
         \A w \in waiting' : w \in waiting,
         \A k \in Jobs : k # j => \A w \in waiting : w.job = k => w \in waiting',
         inbox' = inbox \/ (inbox # <<>> /\ inbox' = Tail(inbox))
  PROVE  Global' /\ \A k \in Jobs : JobInv(k)'
  <1>1. Global'
    BY GlobalCreates DEF WatchInv, Global
  <1>2. PICK t \in Free :
           /\ task'[t] = [job |-> j, pc |-> "new", notified |-> b, cancelled |-> FALSE]
           /\ table'[j] = t /\ \A k \in Jobs : k # j => table'[k] = table[k]
           /\ Of(j)' = Of(j) \cup {t} /\ \A k \in Jobs : k # j => Of(k)' = Of(k)
           /\ \A k \in Jobs : \A u \in Of(k) : task'[u] = task[u]
    BY Created DEF WatchInv
  <1>3. task'[t].pc = "new" /\ task'[t].notified = b /\ task'[t].cancelled = FALSE
    BY <1>2
  <1>4. ASSUME NEW k \in Jobs PROVE ~overlapped'[k] => OneOpen(k)'
    BY FewerOpen DEF WatchInv, JobInv, Types
  <1>5. ASSUME NEW k \in Jobs, k # j PROVE JobInv(k)'
    <2>1. JobInv(k)
      BY DEF WatchInv
    <2> QED BY <1>2, <1>4, <1>5, <2>1, Frame DEF WatchInv
  <1>6. JobInv(j)'
    <2>1. SUFFICES ASSUME ~overlapped[j]
                   PROVE  OneOpen(j)' /\ OneTask(j)' /\ Counted(j)'
      BY DEF JobInv
    <2>2. Counted(j) /\ Of(j)' = {t} /\ \A w \in waiting' : w.job # j
      BY <1>2, <2>1 DEF WatchInv, JobInv
    <2>3. OneTask(j)'
      BY <1>2, <1>3, <2>2 DEF OneTask
    <2>4. MayTellLeft(j)' => MayTellLeft(j)
      <3>1. CASE phase[j] \in Early
        BY <3>1 DEF MayTellLeft
      <3>2. CASE phase[j] \notin Early
        BY <1>3, <2>1, <2>2, <3>2 DEF MayTellLeft, Restart
      <3> QED BY <3>1, <3>2
    <2>5. MayTellDone(j)' => MayTellDone(j)
      BY <2>1 DEF MayTellDone
    <2>6. ~UnderWay(j)'
      BY <1>3, <2>2 DEF UnderWay
    <2>7. Counted(j)'
      BY <2>2, <2>4, <2>5, <2>6, CountKeeps DEF WatchInv
    <2> QED BY <1>4, <2>1, <2>3, <2>7
  <1> QED BY <1>1, <1>5, <1>6

\* The next request, begun.
LEMMA ServesStep == ASSUME WatchInv, Serves PROVE Global' /\ \A k \in Jobs : JobInv(k)'
  <1> DEFINE j == Head(inbox).job
  <1>1. /\ UNCHANGED <<phase, applies, told, overlapped, server>> /\ server = "serving" /\ inbox # <<>>
        /\ inbox' = Tail(inbox) /\ j \in Jobs /\ Head(inbox).op \in {"subscribe", "unsubscribe"}
    BY Places, Zenon DEF Serves, storeVars, Loop, WatchInv
  <1>2. CASE UNCHANGED <<waiting, task, table>>
    <2>1. Global'
      BY <1>1, <1>2, GlobalSame DEF WatchInv, Global
    <2>2. ASSUME NEW k \in Jobs PROVE JobInv(k)'
      <3>1. JobInv(k)
        BY DEF WatchInv
      <3>2. ~overlapped'[k] => OneOpen(k)'
        BY <1>1, <1>2, <3>1, FewerOpen DEF JobInv, WatchInv, Types
      <3>3. Of(k)' = Of(k)
        BY <1>2 DEF Of, Alive
      <3> QED BY <1>1, <1>2, <3>1, <3>2, <3>3, Frame DEF WatchInv
    <2> QED BY <2>1, <2>2
  <1>3. CASE SubscribeWatches(j)
    <2>1. /\ phase[j] # "done" /\ table[j] = None /\ Creates(j, Left(j)) /\ waiting' = waiting
          /\ Left(j) \in BOOLEAN
      BY <1>3 DEF SubscribeWatches, Left
    <2>2. ASSUME ~overlapped[j]
          PROVE  Of(j) = {} /\ \A w \in waiting : w.job # j
      <3>1. OneOpen(j) /\ OneTask(j)
        BY <1>1, <2>2 DEF WatchInv, JobInv
      <3>2. Len(inbox) \in Nat /\ inbox[1].job = j /\ 1 \in 1..Len(inbox)
        <4>1. inbox \in Seq(Requests)
          BY DEF WatchInv, Types
        <4> QED BY <1>1, <4>1
      <3>3. \A w \in waiting : w.job # j
        BY <3>1, <3>2 DEF OneOpen
      <3>4. \A u \in Of(j) : u # None
        BY NoneAssumption DEF Of, Alive
      <3>5. Of(j) = {}
        BY <1>1, <2>1, <3>1, <3>3, <3>4 DEF OneTask
      <3> QED BY <3>3, <3>5
    <2>3. ~Left(j) => phase[j] # "running"
      BY DEF Left
    <2>4. \A b \in BOOLEAN : b = Left(j) => Global' /\ \A k \in Jobs : JobInv(k)'
      BY <1>1, <2>1, <2>2, <2>3, CreatesStep
    <2> QED BY <2>1, <2>4
  <1>4. CASE SubscribeRestarts(j) /\ Head(inbox).op = "subscribe"
    <2>1. /\ table[j] # None /\ Cancels(j) /\ phase[j] # "done"
          /\ Awaits(j, Head(inbox).op, Head(inbox).op = "subscribe" /\ Left(j))
      BY <1>4 DEF SubscribeRestarts, Awaits, Left
    <2> QED BY <1>1, <2>1, AwaitsStep
  <1>5. CASE table[j] # None /\ Unsubscribe(j) /\ Head(inbox).op # "subscribe"
    <2>1. /\ Cancels(j)
          /\ Awaits(j, Head(inbox).op, Head(inbox).op = "subscribe" /\ Left(j))
      BY <1>1, <1>5 DEF Unsubscribe, Awaits
    <2> QED BY <1>1, <1>5, <2>1, AwaitsStep
  <1>6. CASE Head(inbox).op = "subscribe"
    <2>1. Subscribe(j)
      BY <1>6 DEF Serves
    <2>2. CASE SubscribeDone(j) \/ SubscribeFails(j)
      BY <1>2, <2>2, Zenon DEF SubscribeDone, SubscribeFails
    <2> QED BY <1>3, <1>4, <1>6, <2>1, <2>2 DEF Subscribe
  <1>7. CASE Head(inbox).op # "subscribe"
    <2>1. Unsubscribe(j)
      BY <1>7 DEF Serves
    <2>2. CASE table[j] = None
      BY <1>2, <2>1, <2>2, Zenon DEF Unsubscribe
    <2> QED BY <1>5, <1>7, <2>1, <2>2
  <1> QED BY <1>6, <1>7

\* The handler goes on when the task it cancelled has ended: the job has none.
LEMMA ResumesStep ==
  ASSUME WatchInv, NEW w \in waiting, Resumes(w)
  PROVE  Global' /\ \A k \in Jobs : JobInv(k)'
  <1>1. /\ UNCHANGED <<phase, applies, inbox, told, overlapped, server>> /\ waiting' = waiting \ {w}
        /\ task[w.task].pc = "ended" /\ server = "serving"
    BY Zenon DEF Resumes, storeVars, Loop
  <1>2. PICK j \in Jobs : w.job = j
    BY Places DEF WatchInv
  <1>3. ASSUME ~overlapped[j]
        PROVE  Of(j) = {} /\ table[j] = None /\ \A x \in waiting' : x.job # j
    <2>1. OneOpen(j) /\ OneTask(j)
      BY <1>3 DEF WatchInv, JobInv
    <2>2. \A x \in waiting : x.job = j => x = w
      BY <1>2, <2>1 DEF OneOpen
    <2>3. table[j] = None
      BY <1>2, <2>1 DEF OneTask
    <2>4. ASSUME NEW u \in Of(j) PROVE FALSE
      <3>1. u \in Tasks /\ task[u].pc # "ended" /\ u # None
        BY NoneAssumption DEF Of, Alive
      <3>2. task[u].cancelled
        BY <2>1, <2>3, <3>1 DEF OneTask
      <3> QED BY <1>1, <2>1, <2>2, <3>1, <3>2 DEF OneTask
    <2> QED BY <1>1, <2>2, <2>3, <2>4
  <1>4. CASE w.op = "subscribe"
    <2>1. Creates(j, w.notified) /\ w.notified \in BOOLEAN
      BY <1>2, <1>4, Places DEF Resumes, WatchInv
    <2>2. ~w.notified /\ phase[j] = "running" => MayTellLeft(j)
      BY <1>2, <1>4 DEF MayTellLeft, Restart
    <2>3. phase[j] = "done" => MayTellDone(j)
      BY <1>2, <1>4 DEF MayTellDone, Restart
    <2> QED BY <1>1, <1>2, <1>3, <2>1, <2>2, <2>3, CreatesStep
  <1>5. CASE w.op # "subscribe"
    <2>1. UNCHANGED <<task, table>>
      BY <1>5 DEF Resumes
    <2>2. Global'
      BY <1>1, <2>1, GlobalSame DEF WatchInv, Global
    <2>3. ASSUME NEW k \in Jobs PROVE JobInv(k)'
      <3>1. JobInv(k)
        BY DEF WatchInv
      <3>2. ~overlapped'[k] => OneOpen(k)'
        BY <1>1, <3>1, FewerOpen DEF JobInv, WatchInv, Types
      <3>3. Of(k)' = Of(k)
        BY <2>1 DEF Of, Alive
      <3>4. CASE k # j
        <4>1. \A x : x.job = k => (x \in waiting' <=> x \in waiting)
          BY <1>1, <1>2, <3>4
        <4> QED BY <1>1, <2>1, <3>1, <3>2, <3>3, <4>1, Frame DEF WatchInv
      <3>5. CASE k = j
        <4>1. SUFFICES ASSUME ~overlapped[j]
                       PROVE  OneTask(j)' /\ Counted(j)'
          BY <1>1, <3>2, <3>5 DEF JobInv
        <4>2. Counted(j) /\ Of(j)' = {}
          BY <1>3, <3>1, <3>3, <3>5, <4>1 DEF JobInv
        <4>3. OneTask(j)'
          BY <1>3, <4>1, <4>2 DEF OneTask
        <4>4. (MayTellLeft(j)' => MayTellLeft(j)) /\ (MayTellDone(j)' => MayTellDone(j))
          BY <1>1, <4>2 DEF MayTellLeft, MayTellDone
        <4>5. ~UnderWay(j)'
          BY <4>2 DEF UnderWay
        <4> QED BY <1>1, <4>2, <4>3, <4>4, <4>5, CountKeeps DEF WatchInv
      <3> QED BY <3>4, <3>5
    <2> QED BY <2>2, <2>3
  <1> QED BY <1>4, <1>5

-----------------------------------------------------------------------------

\* A turn of a task does not concern the other jobs.
LEMMA OtherJobs ==
  ASSUME WatchInv, NEW t \in Alive, NEW j \in Jobs, NEW k \in Jobs, k # j, task[t].job = j,
         \A u \in Tasks : u # t => task'[u] = task[u],
         Of(k)' = Of(k), table'[k] = table[k], told'[k] = told[k], WatchRest
  PROVE  JobInv(k)'
  <1>1. UNCHANGED <<phase, applies, inbox, waiting, overlapped, server>>
    BY Zenon DEF WatchRest, storeVars
  <1>2. \A u \in Of(k) : task'[u] = task[u]
    BY DEF Of, Alive
  <1>3. JobInv(k) /\ (~overlapped'[k] => OneOpen(k)')
    BY <1>1 DEF WatchInv, JobInv, OneOpen
  <1> QED BY <1>1, <1>2, <1>3, Frame DEF WatchInv

\* A job whose task has gone, with the last message of the task or without.
LEMMA TaskGone ==
  ASSUME WatchInv, NEW j \in Jobs, NEW t \in Of(j), Of(j)' = Of(j) \ {t},
         ~overlapped[j] => table'[j] = None, WatchRest,
         \/ told'[j] = told[j]
         \/ told'[j] = told[j] + 1 /\ task[t].pc \in {"senddone", "sendleft"}
  PROVE  JobInv(j)'
  <1>1. UNCHANGED <<phase, applies, inbox, waiting, overlapped, server>>
    BY Zenon DEF WatchRest, storeVars
  <1> SUFFICES ASSUME ~overlapped[j]
               PROVE  OneOpen(j)' /\ OneTask(j)' /\ Counted(j)'
    BY <1>1 DEF JobInv
  <1>2. OneOpen(j) /\ OneTask(j) /\ Counted(j) /\ Types
    BY DEF WatchInv, JobInv
  <1>3. Of(j)' = {} /\ OneOpen(j)'
    BY <1>1, <1>2 DEF OneTask, OneOpen
  <1>4. OneTask(j)' /\ ~UnderWay(j)'
    BY <1>1, <1>2, <1>3 DEF OneTask, UnderWay
  <1>5. (MayTellLeft(j)' => MayTellLeft(j)) /\ (MayTellDone(j)' => MayTellDone(j))
    BY <1>1, <1>3 DEF MayTellLeft, MayTellDone, Restart
  <1>6. CASE told'[j] = told[j]
    BY <1>1, <1>2, <1>3, <1>4, <1>5, <1>6, CountKeeps
  <1>7. CASE told'[j] = told[j] + 1 /\ task[t].pc \in {"senddone", "sendleft"}
    <2>1. UnderWay(j)
      BY <1>7 DEF UnderWay
    <2> QED BY <1>1, <1>2, <1>3, <1>4, <1>5, <1>7, <2>1, CountTells
  <1> QED BY <1>6, <1>7

\* The task of a job that nobody has cancelled goes on.
LEMMA TaskMoves ==
  ASSUME WatchInv, NEW j \in Jobs, NEW t \in Of(j), ~task[t].cancelled, Of(j)' = Of(j),
         table'[j] = table[j],
         ~task'[t].cancelled, WatchRest,
         \/ /\ told'[j] = told[j] /\ task'[t].notified = task[t].notified
            /\ task[t].pc \in {"new", "sleep"}
            /\ \/ task'[t].pc = "sleep"
               \/ task'[t].pc = "sendleft" /\ phase[j] = "running" /\ ~task[t].notified
               \/ task'[t].pc = "senddone" /\ phase[j] = "done"
         \/ /\ told'[j] = told[j] + 1 /\ task[t].pc = "sendleft"
            /\ task'[t].pc = "sleep" /\ task'[t].notified = TRUE
  PROVE  JobInv(j)'
  <1>1. UNCHANGED <<phase, applies, inbox, waiting, overlapped, server>>
    BY Zenon DEF WatchRest, storeVars
  <1> SUFFICES ASSUME ~overlapped[j]
               PROVE  OneOpen(j)' /\ OneTask(j)' /\ Counted(j)'
    BY <1>1 DEF JobInv
  <1>2. /\ OneOpen(j) /\ OneTask(j) /\ Counted(j) /\ Types
        /\ t \in Alive /\ t \in Tasks /\ task[t].job = j
    BY DEF WatchInv, JobInv, Of, Alive
  <1>3. Of(j) = {t} /\ table[j] = t /\ t # None
    BY <1>2, NoneAssumption DEF OneTask
  <1>4. \A w \in waiting : w.job # j
    BY <1>2, <1>3 DEF OneTask
  <1>5. OneOpen(j)' /\ OneTask(j)'
    BY <1>1, <1>2, <1>3, <1>4 DEF OneOpen, OneTask
  <1>6. CASE told'[j] = told[j] /\ task[t].pc \in {"new", "sleep"} /\ task'[t].notified = task[t].notified
    <2>1. ~UnderWay(j)
      BY <1>3, <1>6 DEF UnderWay
    <2>2. MayTellLeft(j)' => MayTellLeft(j)
      BY <1>1, <1>3, <1>4, <1>6 DEF MayTellLeft, Restart
    <2>3. MayTellDone(j)' => MayTellDone(j)
      BY <1>1, <1>3, <1>4, <1>6 DEF MayTellDone, Restart
    <2>4. CASE task'[t].pc = "sleep"
      <3>1. ~UnderWay(j)'
        BY <1>3, <2>4 DEF UnderWay
      <3> QED BY <1>1, <1>2, <1>5, <1>6, <2>2, <2>3, <3>1, CountKeeps
    <2>5. CASE task'[t].pc = "sendleft" /\ phase[j] = "running" /\ ~task[t].notified
      <3>1. MayTellLeft(j) /\ ~MayTellLeft(j)'
        BY <1>1, <1>3, <1>4, <1>6, <2>5 DEF MayTellLeft, Restart, Early
      <3> QED BY <1>1, <1>2, <1>5, <1>6, <2>1, <2>2, <2>3, <3>1, CountLooks
    <2>6. CASE task'[t].pc = "senddone" /\ phase[j] = "done"
      <3>1. MayTellDone(j) /\ ~MayTellDone(j)'
        BY <1>1, <1>3, <1>4, <1>6, <2>6 DEF MayTellDone, Restart, Early
      <3> QED BY <1>1, <1>2, <1>5, <1>6, <2>1, <2>2, <2>3, <3>1, CountLooks
    <2> QED BY <1>6, <2>4, <2>5, <2>6
  <1>7. CASE /\ told'[j] = told[j] + 1 /\ task[t].pc = "sendleft"
             /\ task'[t].pc = "sleep" /\ task'[t].notified = TRUE
    <2>1. UnderWay(j) /\ ~UnderWay(j)'
      BY <1>3, <1>7 DEF UnderWay
    <2>2. MayTellLeft(j)' => MayTellLeft(j)
      BY <1>1, <1>3, <1>4, <1>7 DEF MayTellLeft, Restart
    <2>3. MayTellDone(j)' => MayTellDone(j)
      BY <1>1, <1>3, <1>4, <1>7 DEF MayTellDone, Restart
    <2> QED BY <1>1, <1>2, <1>5, <1>7, <2>1, <2>2, <2>3, CountTells
  <1> QED BY <1>6, <1>7

\* A job is told of, and the others are not.
LEMMA Told ==
  ASSUME Types, NEW j \in Jobs, Tells(j)
  PROVE  told'[j] = told[j] + 1 /\ \A k \in Jobs : k # j => told'[k] = told[k]
  BY DEF Tells, Types

\* One turn of a watch task.
LEMMA WatchStep ==
  ASSUME WatchInv, NEW t \in Tasks, Watch(t) \/ WatchFails(t)
  PROVE  Global' /\ \A k \in Jobs : JobInv(k)'
  <1>1. t \in Alive /\ WatchRest /\ phase' = phase /\ applies' = applies
    BY Zenon DEF Watch, WatchFails, WatchLooks, WatchTellsDone, WatchTellsLeft, WatchCannotTell,
       WatchCancelled, Turns, WatchRest, storeVars
  <1>2. PICK j \in Jobs : task[t].job = j
    BY <1>1, Places DEF WatchInv
  <1>3. t \in Of(j) /\ Types /\ Global
    BY <1>1, <1>2 DEF Of, WatchInv, Global
  <1>a. ASSUME Ends(t),
               \/ told' = told
               \/ Tells(j) /\ task[t].pc \in {"senddone", "sendleft"}
        PROVE  Global' /\ \A k \in Jobs : JobInv(k)'
    <2>1. /\ Of(j)' = Of(j) \ {t} /\ table'[j] = None
          /\ \A u \in Tasks : u # t => task'[u] = task[u]
          /\ \A k \in Jobs : k # j => table'[k] = table[k] /\ Of(k)' = Of(k)
      BY <1>1, <1>2, <1>3, <1>a, TaskEnds DEF WatchInv
    <2>2. /\ \/ told'[j] = told[j]
             \/ told'[j] = told[j] + 1 /\ task[t].pc \in {"senddone", "sendleft"}
          /\ \A k \in Jobs : k # j => told'[k] = told[k]
      BY <1>3, <1>a, Told
    <2>3. Global'
      BY <1>1, <1>3, <1>a, GlobalEnds
    <2>4. JobInv(j)'
      BY <1>1, <1>3, <2>1, <2>2, TaskGone
    <2>5. \A k \in Jobs : k # j => JobInv(k)'
      BY <1>1, <1>2, <2>1, <2>2, OtherJobs
    <2> QED BY <2>3, <2>4, <2>5
  <1>b. ASSUME ~task[t].cancelled, task[t].pc \in {"new", "sleep"},
               NEW pc \in {"sleep", "senddone", "sendleft"}, Goes(t, pc),
               UNCHANGED <<table, told>>,
               pc = "sendleft" => phase[j] = "running" /\ ~task[t].notified,
               pc = "senddone" => phase[j] = "done"
        PROVE  Global' /\ \A k \in Jobs : JobInv(k)'
    <2>1. /\ \A u \in Tasks : u # t => task'[u] = task[u]
          /\ task'[t].pc = pc /\ task'[t].notified = task[t].notified
          /\ task'[t].cancelled = task[t].cancelled
          /\ \A k \in Jobs : Of(k)' = Of(k)
      BY <1>1, <1>3, <1>b, Moved
    <2>2. Global'
      BY <1>1, <1>2, <1>3, <1>b, GlobalMoves
    <2>3. JobInv(j)'
      BY <1>1, <1>3, <1>b, <2>1, TaskMoves
    <2>4. \A k \in Jobs : k # j => JobInv(k)'
      BY <1>1, <1>2, <1>b, <2>1, OtherJobs
    <2> QED BY <2>2, <2>3, <2>4
  <1>4. CASE WatchLooks(t)
    <2>1. ~task[t].cancelled /\ task[t].pc \in {"new", "sleep"} /\ UNCHANGED <<table, told>>
      BY <1>4 DEF WatchLooks, Turns
    <2>2. \/ phase[j] = "done" /\ Goes(t, "senddone")
          \/ phase[j] = "running" /\ ~task[t].notified /\ Goes(t, "sendleft")
          \/ Goes(t, "sleep")
      BY <1>2, <1>4 DEF WatchLooks
    <2> QED BY <1>b, <2>1, <2>2
  <1>5. CASE WatchFails(t)
    BY <1>b, <1>5 DEF WatchFails, Turns
  <1>6. CASE WatchTellsDone(t)
    BY <1>2, <1>a, <1>6 DEF WatchTellsDone
  <1>7. CASE WatchCannotTell(t)
    BY <1>a, <1>7 DEF WatchCannotTell
  <1>8. CASE WatchTellsLeft(t)
    <2>1. /\ ~task[t].cancelled /\ task[t].pc = "sendleft" /\ Tells(j) /\ table' = table
          /\ task' = [task EXCEPT ![t].pc = "sleep", ![t].notified = TRUE]
      BY <1>2, <1>8 DEF WatchTellsLeft, Turns
    <2>2. task \in [Tasks -> TaskTypes]
      BY <1>3 DEF Types
    <2>3. \A u \in Tasks : u # t => task'[u] = task[u]
      BY <2>1, <2>2
    <2>4. /\ task'[t].pc = "sleep" /\ task'[t].notified = TRUE /\ task'[t].job = task[t].job
          /\ task'[t].cancelled = task[t].cancelled
      <3>1. task'[t] = [task[t] EXCEPT !.pc = "sleep", !.notified = TRUE] /\ task[t] \in TaskTypes
        BY <2>1, <2>2
      <3> QED BY <3>1, Zenon DEF TaskTypes
    <2>5. \A k \in Jobs : Of(k)' = Of(k)
      BY <1>1, <2>3, <2>4 DEF Of, Alive
    <2>6. told'[j] = told[j] + 1 /\ \A k \in Jobs : k # j => told'[k] = told[k]
      BY <1>3, <2>1, Told
    <2>7. Global'
      <3>1. TasksHaveJobs'
        BY <1>1, <1>3, <2>3, <2>4 DEF Global, TasksHaveJobs, Alive
      <3>2. TableIsLive'
        <4>1. ASSUME NEW k \in Jobs, table'[k] # None
              PROVE  table'[k] \in Of(k)' /\ ~task'[table'[k]].cancelled
          <5>1. table[k] \in Of(k) /\ ~task[table[k]].cancelled /\ table'[k] = table[k]
            BY <1>3, <2>1, <4>1 DEF Global, TableIsLive
          <5>2. table[k] \in Tasks
            BY <5>1 DEF Of, Alive
          <5>3. ~task'[table[k]].cancelled
            BY <2>1, <2>3, <2>4, <5>1, <5>2
          <5> QED BY <2>5, <5>1, <5>3
        <4> QED BY <4>1 DEF TableIsLive
      <3> QED BY <3>1, <3>2 DEF Global
    <2>8. JobInv(j)'
      BY <1>1, <1>3, <2>1, <2>4, <2>5, <2>6, TaskMoves
    <2>9. \A k \in Jobs : k # j => JobInv(k)'
      BY <1>1, <1>2, <2>1, <2>3, <2>5, <2>6, OtherJobs
    <2> QED BY <2>7, <2>8, <2>9
  <1>9. CASE WatchCancelled(t) /\ task[t].pc # "new"
    BY <1>2, <1>9, <1>a DEF WatchCancelled
  <1>10. CASE WatchCancelled(t) /\ task[t].pc = "new"
    <2>1. /\ task' = [task EXCEPT ![t].pc = "ended"] /\ UNCHANGED <<table, told>>
          /\ task[t].cancelled
          /\ task \in [Tasks -> TaskTypes]
      BY <1>3, <1>10 DEF WatchCancelled, Goes, Types
    <2>2. (\A u \in Tasks : u # t => task'[u] = task[u]) /\ task'[t].pc = "ended"
      BY <2>1 DEF TaskTypes
    <2>3. Of(j)' = Of(j) \ {t} /\ \A k \in Jobs : k # j => Of(k)' = Of(k)
      BY <1>1, <1>2, <2>2 DEF Of, Alive
    <2>4. Global'
      <3>1. TasksHaveJobs'
        BY <1>1, <1>3, <2>2 DEF Global, TasksHaveJobs, Alive
      <3>2. TableIsLive'
        <4>1. ASSUME NEW k \in Jobs, table'[k] # None
              PROVE  table'[k] \in Of(k)' /\ ~task'[table'[k]].cancelled
          <5>1. table[k] \in Of(k) /\ ~task[table[k]].cancelled /\ table'[k] = table[k]
            BY <1>3, <2>1, <4>1 DEF Global, TableIsLive
          <5>2. table[k] # t /\ table[k] \in Tasks
            BY <2>1, <5>1 DEF Of, Alive
          <5> QED BY <2>2, <2>3, <5>1, <5>2
        <4> QED BY <4>1 DEF TableIsLive
      <3> QED BY <3>1, <3>2 DEF Global
    <2>5. ~overlapped[j] => table'[j] = None
      BY <1>3, <2>1 DEF WatchInv, JobInv, OneTask
    <2>6. JobInv(j)'
      BY <1>1, <1>3, <2>1, <2>3, <2>5, TaskGone
    <2>7. \A k \in Jobs : k # j => JobInv(k)'
      BY <1>1, <1>2, <2>1, <2>2, <2>3, OtherJobs
    <2> QED BY <2>4, <2>6, <2>7
  <1> QED BY <1>4, <1>5, <1>6, <1>7, <1>8, <1>9, <1>10 DEF Watch

-----------------------------------------------------------------------------

\* At first there are no requests and no tasks.
LEMMA WatchInitially == ASSUME McpInit PROVE WatchInv
  <1>1. Alive = {} /\ waiting = {} /\ inbox = <<>>
    BY DEF McpInit, Alive, Ended
  <1>2. Types
    <2>1. Ended \in TaskTypes
      BY DEF Ended, TaskTypes
    <2>2. task \in [Tasks -> TaskTypes]
      BY <2>1 DEF McpInit
    <2>3. phase \in [Jobs -> Phases]
      BY DEF McpInit, Phases
    <2>4. /\ told \in [Jobs -> Nat] /\ overlapped \in [Jobs -> BOOLEAN]
          /\ applies \in [Jobs -> Nat]
      BY DEF McpInit
    <2>5. table \in [Jobs -> Tasks \cup {None}]
      BY DEF McpInit
    <2>6. RequestTypes /\ WatchTypes /\ RestTypes
      BY <2>2, <2>3, <2>4, <2>5 DEF McpInit, RequestTypes, WatchTypes, RestTypes
    <2> QED BY <2>6, TypeParts
  <1>3. TasksHaveJobs
    BY <1>1 DEF TasksHaveJobs
  <1>4. TableIsLive
    BY DEF McpInit, TableIsLive
  <1>5. ASSUME NEW j \in Jobs PROVE JobInv(j)
    <2>1. Of(j) = {} /\ table[j] = None /\ told[j] = 0 /\ applies[j] = 1
      BY <1>1 DEF Of, McpInit
    <2>2. OneOpen(j)
      BY <1>1 DEF OneOpen
    <2>3. OneTask(j) /\ ~UnderWay(j)
      BY <1>1, <2>1 DEF OneTask, UnderWay
    <2>4. Counted(j)
      BY <2>1, <2>3 DEF Counted, One
    <2> QED BY <2>2, <2>3, <2>4 DEF JobInv
  <1> QED BY <1>2, <1>3, <1>4, <1>5 DEF WatchInv

\* One step of whichever part, from those lemmas.
LEMMA WatchInvStep == ASSUME WatchInv, [McpNext]_mcpVars PROVE WatchInv'
  <1>1. Types'
    BY TypeStep DEF WatchInv
  <1>2. Global' /\ \A k \in Jobs : JobInv(k)'
    <2>1. CASE Quiet
      BY <2>1, QuietStep
    <2>2. CASE \E j \in Jobs : StoreChanges(j)
      BY <2>2, StoreStep
    <2>3. CASE Serves
      BY <2>3, ServesStep
    <2>4. CASE \E w \in waiting : Resumes(w)
      BY <2>4, ResumesStep
    <2>5. CASE \E t \in Tasks : Watch(t) \/ WatchFails(t)
      BY <2>5, WatchStep
    <2>6. CASE \E op \in {"subscribe", "unsubscribe"}, j \in Jobs : ClientSends(op, j)
      BY <2>6, SendStep
    <2>7. CASE Closes
      BY <2>7, ClosesStep
    <2>8. CASE \E j \in Jobs : ClosesOne(j)
      BY <2>8, ClosesOneStep
    <2> QED BY <2>1, <2>2, <2>3, <2>4, <2>5, <2>6, <2>7, <2>8 DEF McpNext, Client, Quiet
  <1> QED BY <1>1, <1>2 DEF Global, WatchInv

\* The inductive invariant of the server.
LEMMA WatchInvariance == McpSpec => []WatchInv
  BY WatchInitially, WatchInvStep, PTL DEF McpSpec

\* mcp_server.py: the records of requests, handlers and watch tasks are well
\* formed in every state the server reaches.
THEOREM ServerTypeCorrect == McpSpec => []McpTypeOK
  <1>1. WatchInv => McpTypeOK
    BY DEF WatchInv, Types
  <1> QED BY <1>1, WatchInvariance, PTL

\* A job has one task that runs on, the one _tasks names, and its client hears
\* of it at most twice per apply, through any number of subscriptions
\* (mcp_server.py:740, docs/job/mcp.md).
THEOREM OneWatchHolds == McpSpec => []OneWatch
  <1>1. ASSUME WatchInv, NEW j \in Jobs, ~overlapped[j]
        PROVE  /\ told[j] <= 2 * applies[j]
               /\ \A t \in Alive : task[t].job = j /\ ~task[t].cancelled => table[j] = t
    <2>1. OneTask(j) /\ Counted(j) /\ told[j] \in Nat /\ applies[j] \in Nat
      BY <1>1 DEF WatchInv, JobInv, Types
    <2>2. told[j] <= 2 * applies[j]
      BY <2>1 DEF Counted, One
    <2> QED BY <2>1, <2>2 DEF OneTask, Of
  <1>2. WatchInv => OneWatch
    BY <1>1 DEF OneWatch
  <1> QED BY <1>2, WatchInvariance, PTL
=============================================================================
