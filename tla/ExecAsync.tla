------------------------------ MODULE ExecAsync ------------------------------
(***************************************************************************)
(* Background execution in one session: exec-async spawns a detached exec  *)
(* (commands/execution.py), which writes a log and, under --json, a        *)
(* sidecar with its verdict; log --tail --json polls both and log -f       *)
(* follows the log (commands/utility.py).  stop, new and the keep-alive    *)
(* daemon share the session's record, which every party reads whole and    *)
(* stores whole, later.                                                    *)
(*                                                                         *)
(* The workers of a session write the verdict of their run; what a verdict *)
(* says is left out, and a verdict is the number of its run.               *)
(***************************************************************************)
EXTENDS Naturals

CONSTANTS Cmds,        \* the processes that run exec-async, stop and new
          Paths,       \* the logs that a session's runs write
          Default,     \* the one derived from its name; others are given by --output-log
          None,        \* no log
          Interrupts,  \* whether a starter may be killed
          MaxStarts,   \* how often exec-async gets past its check
          MaxChunks    \* how much a worker prints

ASSUME BoundsAssumption == Interrupts \in BOOLEAN /\ MaxStarts \in Nat /\ MaxChunks \in Nat
ASSUME PathsAssumption == Default \in Paths /\ None \notin Paths

Runs == 1..MaxStarts             \* a run, and the pid of its worker
NoRun == 0

\* exec_pid and exec_log_path.
Records == [pid : 0..MaxStarts, path : Paths \cup {None}]
NoRecord == [pid |-> NoRun, path |-> "no record"]
NewRecord == [pid |-> NoRun, path |-> None]

VARIABLES
  rec,        \* the session's record
  log,        \* the run that truncated each log last, and how much it holds
  side,       \* the run whose sidecar is there, and whether it parses
  worker,
  cmd,
  keeper,     \* the record that the keep-alive daemon is about to store back
  reader,     \* a log --tail --json or a log -f: what it reads, and its answer if that matters
  starts,     \* how many exec-async got past their check
  untracked   \* a copy that does not name a live worker was stored, or two starts overlapped

vars == <<rec, log, side, worker, cmd, keeper, reader, starts, untracked>>

NoWorker == [pc |-> "none", path |-> None, rec |-> NoRecord]
Idle == [pc |-> "idle", run |-> NoRun, path |-> None, rec |-> NoRecord]
NoReader == [pc |-> "idle", path |-> None, pid |-> NoRun, off |-> 0, verdict |-> NoRun, ended |-> FALSE]

Init ==
  /\ rec = NewRecord
  /\ log = [p \in Paths |-> [run |-> NoRun, len |-> 0]]
  /\ side = [p \in Paths |-> [run |-> NoRun, whole |-> FALSE]]
  /\ worker = [r \in Runs |-> NoWorker]
  /\ cmd = [c \in Cmds |-> Idle]
  /\ keeper = NoRecord
  /\ reader = NoReader
  /\ starts = 0
  /\ untracked = FALSE

Live == {r \in Runs : worker[r].pc \in {"boot", "work", "open", "write", "last"}}
PidAlive(pid) == pid \in Live

\* A stored copy that does not name a worker that is alive loses track of it.
Stores(r) ==
  /\ rec' = r
  /\ untracked' = (untracked \/ Live \ {r.pid} # {})
Keeps == UNCHANGED <<rec, untracked>>

----------------------------------------------------------------------------
(* exec-async *)

At(c, place) == cmd[c].pc = place
Goes(c, place) == cmd' = [cmd EXCEPT ![c].pc = place]
Starting(c) == cmd[c].pc \in {"record", "clean", "spawn", "pid"}
Calm == \A c \in Cmds : ~Starting(c)

StartsAnyway(c, path) ==
  /\ At(c, "idle") /\ rec # NoRecord /\ starts < MaxStarts
  /\ starts' = starts + 1
  /\ cmd' = [cmd EXCEPT ![c] = [pc |-> "record", run |-> starts', path |-> path,
                                rec |-> [rec EXCEPT !.path = path]]]
  /\ untracked' = (untracked \/ ~Calm)
  /\ UNCHANGED <<rec, log, side, worker, keeper, reader>>

\* Refused while the recorded worker is alive.
StartChecks(c, path) ==
  /\ At(c, "idle") /\ rec # NoRecord /\ ~PidAlive(rec.pid) /\ starts < MaxStarts
  /\ starts' = starts + 1
  /\ cmd' = [cmd EXCEPT ![c] = [pc |-> "record", run |-> starts', path |-> path,
                                rec |-> [rec EXCEPT !.path = path]]]
  /\ untracked' = (untracked \/ ~Calm)
  /\ UNCHANGED <<rec, log, side, worker, keeper, reader>>

\* The log's path goes into the record before the worker starts.
StartRecords(c) ==
  /\ At(c, "record") /\ Stores(cmd[c].rec) /\ Goes(c, "clean")
  /\ UNCHANGED <<log, side, worker, keeper, reader, starts>>

StartLeavesSidecar(c) ==
  /\ At(c, "clean") /\ Goes(c, "spawn")
  /\ Keeps /\ UNCHANGED <<log, side, worker, keeper, reader, starts>>

\* A sidecar of an earlier run must not be taken for this one's.
StartCleans(c) ==
  /\ At(c, "clean") /\ Goes(c, "spawn")
  /\ side' = [side EXCEPT ![cmd[c].path] = [run |-> NoRun, whole |-> FALSE]]
  /\ Keeps /\ UNCHANGED <<log, worker, keeper, reader, starts>>

StartSpawns(c) ==
  /\ At(c, "spawn") /\ Goes(c, "pid")
  /\ log' = [log EXCEPT ![cmd[c].path] = [run |-> cmd[c].run, len |-> 0]]
  /\ worker' = [worker EXCEPT ![cmd[c].run] =
                  [NoWorker EXCEPT !.pc = "boot", !.path = cmd[c].path]]
  /\ Keeps /\ UNCHANGED <<side, keeper, reader, starts>>

StartStoresPid(c) ==
  /\ At(c, "pid") /\ Stores([cmd[c].rec EXCEPT !.pid = cmd[c].run])
  /\ cmd' = [cmd EXCEPT ![c] = Idle]
  /\ UNCHANGED <<log, side, worker, keeper, reader, starts>>

\* The starter is interrupted, or its spawn fails.
StartDies(c) ==
  /\ Interrupts \/ At(c, "spawn")
  /\ Starting(c)
  /\ cmd' = [cmd EXCEPT ![c] = Idle]
  /\ untracked' = (untracked \/ cmd[c].run \in Live)
  /\ UNCHANGED <<rec, log, side, worker, keeper, reader, starts>>

----------------------------------------------------------------------------
(* stop and new, and the keep-alive daemon *)

StopReads(c) ==
  /\ At(c, "idle") /\ rec # NoRecord
  /\ cmd' = [cmd EXCEPT ![c] = [Idle EXCEPT !.pc = "kill", !.rec = rec]]
  /\ Keeps /\ UNCHANGED <<log, side, worker, keeper, reader, starts>>

\* The daemon and the worker that the record names.
StopKills(c) ==
  /\ At(c, "kill") /\ cmd' = [cmd EXCEPT ![c] = [Idle EXCEPT !.pc = "remove"]]
  /\ keeper' = NoRecord
  /\ worker' = IF PidAlive(cmd[c].rec.pid)
               THEN [worker EXCEPT ![cmd[c].rec.pid].pc = "dead", ![cmd[c].rec.pid].rec = NoRecord]
               ELSE worker
  /\ Keeps /\ UNCHANGED <<log, side, reader, starts>>

\* unassign fails and the record stays, or it goes.
StopRemoves(c) ==
  /\ At(c, "remove") /\ cmd' = [cmd EXCEPT ![c] = Idle]
  /\ Keeps \/ Stores(NoRecord)
  /\ UNCHANGED <<log, side, worker, keeper, reader, starts>>

NewRecords(c) ==
  /\ At(c, "idle") /\ rec = NoRecord /\ Stores(NewRecord)
  /\ UNCHANGED <<log, side, worker, cmd, keeper, reader, starts>>

KeeperGets ==
  /\ keeper = NoRecord /\ rec # NoRecord /\ keeper' = rec
  /\ Keeps /\ UNCHANGED <<log, side, worker, cmd, reader, starts>>

KeeperAdds ==
  /\ keeper # NoRecord /\ Stores(keeper) /\ keeper' = NoRecord
  /\ UNCHANGED <<log, side, worker, cmd, reader, starts>>

----------------------------------------------------------------------------
(* The worker: exec *)

WorkerAt(r, place) == worker[r].pc = place
\* From here on its copy of the record is not used: only a failed run keeps it.
WorkerGoes(r, place) == worker' = [worker EXCEPT ![r].pc = place, ![r].rec = NoRecord]
\* With or without --json.
Leaves(r) == \E place \in {"open", "dead"} : WorkerGoes(r, place)

\* A session that is gone is a verdict too.
WorkerGets(r) ==
  /\ WorkerAt(r, "boot")
  /\ IF rec = NoRecord
     THEN Leaves(r)
     ELSE worker' = [worker EXCEPT ![r].pc = "work", ![r].rec = rec]
  /\ Keeps /\ UNCHANGED <<log, side, cmd, keeper, reader, starts>>

\* kernel_id, session_id, running, last_execution: the whole record each time.
WorkerStores(r) ==
  /\ WorkerAt(r, "work") /\ Stores(worker[r].rec)
  /\ UNCHANGED <<log, side, worker, cmd, keeper, reader, starts>>

\* Its output goes to the log for as long as it lives: also notes and a traceback
\* after the run.  Output of a worker whose log a later run has truncated is not
\* told apart.
WorkerPrints(r) ==
  /\ r \in Live
  /\ log[worker[r].path].run = r /\ log[worker[r].path].len < MaxChunks
  /\ log' = [log EXCEPT ![worker[r].path].len = @ + 1]
  /\ Keeps /\ UNCHANGED <<side, worker, cmd, keeper, reader, starts>>

\* The finally block stores the record once more, before the verdict of a run
\* that went through; the preflight's failure does not, and prunes the session
\* when the backend confirms that it is gone.
WorkerEnds(r) ==
  /\ WorkerAt(r, "work") /\ Leaves(r)
  /\ Stores(worker[r].rec) \/ Keeps \/ Stores(NoRecord)
  /\ UNCHANGED <<log, side, cmd, keeper, reader, starts>>

\* An exception of the run writes its verdict before the finally block.
WorkerFails(r) ==
  /\ WorkerAt(r, "work") /\ worker' = [worker EXCEPT ![r].pc = "open"]
  /\ Keeps /\ UNCHANGED <<log, side, cmd, keeper, reader, starts>>

WorkerOpensSidecar(r) ==
  /\ WorkerAt(r, "open") /\ worker' = [worker EXCEPT ![r].pc = "write"]
  /\ side' = [side EXCEPT ![worker[r].path] = [run |-> r, whole |-> FALSE]]
  /\ Keeps /\ UNCHANGED <<log, cmd, keeper, reader, starts>>

\* It ends as soon as the verdict is written, unless its run has failed; the
\* file may have been removed or truncated by another run meanwhile.
Failed(r) == worker[r].rec # NoRecord

WorkerWritesSidecar(r) ==
  /\ WorkerAt(r, "write")
  /\ worker' = [worker EXCEPT ![r].pc = IF Failed(r) THEN "last" ELSE "done"]
  /\ side' = IF side[worker[r].path].run = NoRun THEN side
             ELSE [side EXCEPT ![worker[r].path] = [run |-> r, whole |-> TRUE]]
  /\ Keeps /\ UNCHANGED <<log, cmd, keeper, reader, starts>>

\* The finally block of a failed run: its store, or it is killed before.
WorkerStoresLast(r) ==
  /\ WorkerAt(r, "last") /\ WorkerGoes(r, "done")
  /\ Stores(worker[r].rec) \/ Keeps
  /\ UNCHANGED <<log, side, cmd, keeper, reader, starts>>

WorkerDies(r) ==
  /\ r \in Live /\ WorkerGoes(r, "dead")
  /\ Keeps /\ UNCHANGED <<log, side, cmd, keeper, reader, starts>>

----------------------------------------------------------------------------
(* log --tail --json *)

ReaderAt(place) == reader.pc = place
Begins(place, path, pid) ==
  reader' = [NoReader EXCEPT !.pc = place, !.path = path, !.pid = pid,
                             !.ended = ~PidAlive(pid)]
Answers(what) == reader' = [reader EXCEPT !.pc = what]
ReaderOnly == Keeps /\ UNCHANGED <<log, side, worker, cmd, keeper, starts>>
Resting == {"idle", "finished", "terminated", "followed"}

\* A session that is gone is looked for at its default path.
PollReads ==
  /\ reader.pc \in Resting
  /\ \/ rec = NoRecord /\ Begins("content", Default, NoRun)
     \/ rec.path \in Paths /\ Begins("content", rec.path, rec.pid)
  /\ ReaderOnly

\* Neither log nor sidecar: no_job_found.  The log is never removed.
PollsContent ==
  /\ ReaderAt("content")
  /\ IF log[reader.path].run = NoRun /\ side[reader.path].run = NoRun
     THEN reader' = NoReader
     ELSE Answers("sidecar")
  /\ ReaderOnly

\* A sidecar that does not parse is as good as none.
PollsSidecar ==
  /\ ReaderAt("sidecar")
  /\ IF side[reader.path].whole
     THEN reader' = [reader EXCEPT !.pc = "finished", !.verdict = side[reader.path].run]
     ELSE Answers("pid")
  /\ ReaderOnly

PollsPid ==
  /\ ReaderAt("pid")
  /\ \/ PidAlive(reader.pid) /\ reader' = NoReader
     \/ ~PidAlive(reader.pid) /\ Answers("terminated")
  /\ ReaderOnly

----------------------------------------------------------------------------
(* log -f *)

FollowReads ==
  /\ reader.pc \in Resting /\ rec.path \in Paths /\ Begins("wait", rec.path, rec.pid)
  /\ ReaderOnly

FollowWaits ==
  /\ ReaderAt("wait")
  /\ \/ log[reader.path].run # NoRun /\ Answers("read")
     \/ log[reader.path].run = NoRun /\ ~PidAlive(reader.pid) /\ reader' = NoReader
  /\ ReaderOnly

\* A truncated log leaves the position behind its end: nothing is read there.
ReadsOn == IF log[reader.path].len > reader.off THEN log[reader.path].len ELSE reader.off

FollowReadsOn ==
  /\ ReaderAt("read")
  /\ reader' = [reader EXCEPT !.off = ReadsOn, !.pc = IF ReadsOn > reader.off THEN "read" ELSE "check"]
  /\ ReaderOnly

FollowStops ==
  /\ ReaderAt("check") /\ Answers(IF PidAlive(reader.pid) THEN "read" ELSE "followed")
  /\ ReaderOnly

FollowChecks ==
  /\ ReaderAt("check") /\ Answers(IF PidAlive(reader.pid) THEN "read" ELSE "last")
  /\ ReaderOnly

\* One last read: the worker may have written between the read and the check.
FollowReadsLast ==
  /\ ReaderAt("last") /\ reader' = [reader EXCEPT !.off = ReadsOn, !.pc = "followed"]
  /\ ReaderOnly

Command(c) ==
  \/ \E p \in Paths : StartChecks(c, p)
  \/ StartRecords(c) \/ StartCleans(c) \/ StartSpawns(c) \/ StartStoresPid(c) \/ StartDies(c)
  \/ StopReads(c) \/ StopKills(c) \/ StopRemoves(c) \/ NewRecords(c)

Worker(r) == WorkerGets(r) \/ WorkerStores(r) \/ WorkerPrints(r) \/ WorkerEnds(r)
             \/ WorkerFails(r) \/ WorkerOpensSidecar(r) \/ WorkerWritesSidecar(r)
             \/ WorkerStoresLast(r) \/ WorkerDies(r)

Reader == PollReads \/ PollsContent \/ PollsSidecar \/ PollsPid
          \/ FollowReads \/ FollowWaits \/ FollowReadsOn \/ FollowChecks \/ FollowReadsLast

Next == (\E c \in Cmds : Command(c)) \/ (\E r \in Runs : Worker(r)) \/ Reader
        \/ KeeperGets \/ KeeperAdds
Spec == Init /\ [][Next]_vars

----------------------------------------------------------------------------
TypeOK ==
  /\ rec \in Records \cup {NoRecord}
  /\ log \in [Paths -> [run : 0..MaxStarts, len : 0..MaxChunks]]
  /\ side \in [Paths -> [run : 0..MaxStarts, whole : BOOLEAN]]
  /\ worker \in [Runs -> [pc : {"none", "boot", "work", "open", "write", "last", "done", "dead"},
                          path : Paths \cup {None},
                          rec : Records \cup {NoRecord}]]
  /\ cmd \in [Cmds -> [pc : {"idle", "record", "clean", "spawn", "pid", "kill", "remove"},
                       run : 0..MaxStarts, path : Paths \cup {None},
                       rec : Records \cup {NoRecord}]]
  /\ keeper \in Records \cup {NoRecord}
  /\ reader \in [pc : Resting \cup {"content", "sidecar", "pid", "wait", "read", "check", "last"},
                 path : Paths \cup {None}, pid : 0..MaxStarts, off : 0..MaxChunks,
                 verdict : 0..MaxStarts, ended : BOOLEAN]
  /\ starts \in 0..MaxStarts /\ untracked \in BOOLEAN

\* Two workers of a session are alive only when somebody stored a stale copy
\* of the record, or a starter was cut off, while one was; two starters do
\* that to each other (execution.py:681-695, 759-764, 801-802).
SecondNeedsLostPid == ~untracked => \A r, s \in Live : r = s

\* What log --json says of a worker is its own, unless a pid was lost before: a
\* finished verdict is not that of an earlier run than the one the record named
\* when it was read, if the record's log was that run's and not yet the next
\* one's; and a worker that ended before the poll began, and wrote its verdict,
\* is not reported as terminated, unless a later start removed the verdict
\* (execution.py:759-777, utility.py:163-197).
PollIsTrue ==
  ~untracked /\ reader.pid \in Runs =>
    /\ ReaderAt("finished") /\ worker[reader.pid].path = reader.path =>
         reader.verdict >= reader.pid
    /\ ReaderAt("terminated") /\ reader.ended /\ reader.pid = starts =>
         worker[reader.pid].pc # "done"

\* log -f ends with everything its worker wrote, unless another run has
\* truncated the log (utility.py:70-84).
FollowIsComplete ==
  ReaderAt("followed") /\ log[reader.path].run = reader.pid =>
    reader.off = log[reader.path].len
=============================================================================
