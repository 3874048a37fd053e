-------------------------- MODULE DuplicateLaunch --------------------------
(***************************************************************************)
(* Several invocations of the runner for one job directory, as a lost      *)
(* reply or a retried call makes them, up to the start of the consumer:    *)
(*   job/runtime_payload/runner.py    main(), the launch.json protocol     *)
(*                                                                         *)
(* launch.json is created with O_EXCL, filled afterwards, read by those    *)
(* who find it there, and renamed to launch.json.stale by one who finds    *)
(* its owner dead.  Each of these is one system call, so they interleave.  *)
(***************************************************************************)
EXTENDS FiniteSets, Naturals

CONSTANTS
  Runners,      \* the invocations
  NoRunner,     \* no launch.json
  MaxCrashes    \* bound: how many of them may be killed

ASSUME NoRunnerAssumption == NoRunner \notin Runners
ASSUME BoundsAssumption == MaxCrashes \in Nat

VARIABLES
  pc,       \* where each invocation is
  file,     \* the owner of launch.json, or NoRunner
  filled,   \* the invocations that have written their record
  alive,    \* the invocations that exist
  crashes,  \* invocations killed from outside
  overlapped  \* history: one started while another was still starting

vars == <<pc, file, filled, alive, crashes, overlapped>>

Init ==
  /\ pc = [r \in Runners |-> "off"]
  /\ file = NoRunner
  /\ filled = {} /\ alive = {}
  /\ crashes = 0 /\ overlapped = FALSE

At(r, where) == r \in alive /\ pc[r] = where
Goes(r, where) == pc' = [pc EXCEPT ![r] = where]

\* An invocation past the protocol, or gone.
Settled(r) == r \notin alive \/ pc[r] = "consumer"

\* The kernel starts an invocation: a retry after the others settled, or
\* while one of them is still on its way.
Start(r) ==
  /\ pc[r] = "off"
  /\ overlapped' = (overlapped \/ \E q \in Runners : ~Settled(q))
  /\ alive' = alive \cup {r}
  /\ Goes(r, "create")
  /\ UNCHANGED <<file, filled, crashes>>

\* os.open(O_CREAT | O_EXCL), for the first time.
Create(r) ==
  /\ At(r, "create")
  /\ IF file = NoRunner
     THEN file' = r /\ Goes(r, "fill")
     ELSE UNCHANGED file /\ Goes(r, "read")
  /\ UNCHANGED <<filled, alive, crashes, overlapped>>

NamesDeadRunner == file \in filled \ alive

\* The record names a process that is there; a file that is gone, or not
\* yet filled, names nobody.
NamesLiveRunner == file \in filled \cap alive

Read(r) ==
  /\ At(r, "read")
  /\ IF NamesLiveRunner
     THEN alive' = alive \ {r} /\ Goes(r, "duplicate")
     ELSE UNCHANGED alive /\ Goes(r, "swap")
  /\ UNCHANGED <<file, filled, crashes, overlapped>>

\* os.replace to launch.json.stale raises when the file has gone.
Swap(r) ==
  /\ At(r, "swap")
  /\ IF file = NoRunner
     THEN UNCHANGED file /\ alive' = alive \ {r} /\ Goes(r, "failed")
     ELSE file' = NoRunner /\ UNCHANGED alive /\ Goes(r, "recreate")
  /\ UNCHANGED <<filled, crashes, overlapped>>

NeverRecreates(r) ==
  /\ At(r, "recreate")
  /\ alive' = alive \ {r}
  /\ Goes(r, "failed")
  /\ UNCHANGED <<file, filled, crashes, overlapped>>

\* The second os.open raises when somebody else has created the file.
Recreate(r) ==
  /\ At(r, "recreate")
  /\ IF file = NoRunner
     THEN file' = r /\ UNCHANGED alive /\ Goes(r, "fill")
     ELSE UNCHANGED file /\ alive' = alive \ {r} /\ Goes(r, "failed")
  /\ UNCHANGED <<filled, crashes, overlapped>>

\* The record is written through the descriptor, wherever the file is now;
\* the consumer starts after it.
Fill(r) ==
  /\ At(r, "fill")
  /\ filled' = filled \cup {r}
  /\ Goes(r, "consumer")
  /\ UNCHANGED <<file, alive, crashes, overlapped>>

\* The consumer has ended, result.json is written, the runner exits.
Finish(r) ==
  /\ At(r, "consumer")
  /\ alive' = alive \ {r}
  /\ UNCHANGED <<pc, file, filled, crashes, overlapped>>

Crash(r) ==
  /\ r \in alive
  /\ crashes < MaxCrashes
  /\ crashes' = crashes + 1
  /\ alive' = alive \ {r}
  /\ UNCHANGED <<pc, file, filled, overlapped>>

Next ==
  \E r \in Runners :
    \/ Start(r) \/ Create(r) \/ Read(r) \/ Swap(r) \/ Recreate(r)
    \/ Fill(r) \/ Finish(r) \/ Crash(r)

Spec == Init /\ [][Next]_vars
-----------------------------------------------------------------------------
(***************************************************************************)
(* Properties.                                                             *)
(***************************************************************************)

\* Every variable holds a value of its kind, and no consumer starts before
\* the record of its runner is in launch.json (runner.py, main).
TypeOK ==
  /\ pc \in [Runners -> {"off", "create", "read", "swap", "recreate", "fill",
                         "consumer", "duplicate", "failed"}]
  /\ file \in Runners \cup {NoRunner}
  /\ filled \subseteq Runners /\ alive \subseteq Runners
  /\ crashes \in 0..MaxCrashes /\ overlapped \in BOOLEAN
  /\ \A r \in Runners : pc[r] = "consumer" <=> r \in filled

\* The O_EXCL protocol refuses too much as little as too often: as long as
\* nobody is killed, the invocations cannot all give up and leave the job
\* without a consumer, and the winner keeps a launch.json for poll to find.
LaunchIsNotLost ==
  /\ crashes = 0
  /\ \A r \in Runners : pc[r] \notin {"create", "read", "swap", "recreate", "fill"}
  /\ \E r \in Runners : pc[r] # "off"
  => /\ \E r \in Runners : pc[r] = "consumer"
     /\ file \in filled
=============================================================================
