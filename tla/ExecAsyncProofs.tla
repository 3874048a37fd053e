--------------------------- MODULE ExecAsyncProofs ---------------------------
(***************************************************************************)
(* Proofs about ExecAsync, for any number of commands, starts, logs and    *)
(* prints, whoever is killed.                                              *)
(*                                                                         *)
(* None of the three properties is inductive.  Base says what the records  *)
(* that are copied about name; TrackInv, why one worker at most is alive   *)
(* and whose the sidecars are while no pid is lost; PollInv and FollowInv, *)
(* what a reader knows on its way.                                         *)
(***************************************************************************)
EXTENDS ExecAsync, TLAPS

\* The places of a worker that has written its verdict.
Told == {"last", "done"}

\* A run whose worker has been spawned.
Spawned(r) == r \in Runs /\ worker[r].pc # "none"

\* A start has a number of its own, which its worker gets.
StartsAreNumbered ==
  /\ \A r \in Runs : Spawned(r) => r <= starts /\ worker[r].path \in Paths
  /\ \A c \in Cmds : Starting(c) =>
       /\ cmd[c].run \in Runs /\ cmd[c].run <= starts /\ cmd[c].path \in Paths
       /\ cmd[c].rec.path = cmd[c].path
       /\ IF At(c, "pid") THEN /\ Spawned(cmd[c].run)
                               /\ worker[cmd[c].run].path = cmd[c].path
                          ELSE ~Spawned(cmd[c].run)
       /\ \A d \in Cmds : Starting(d) /\ cmd[d].run = cmd[c].run => d = c

\* The worker that a copy of the record names has been spawned, with the copy's
\* log unless a later start has put another one there.
Copy(x) ==
  x.pid \in Runs =>
    /\ Spawned(x.pid)
    /\ x.pid = starts => x.path = worker[x.pid].path

CopiesNameSpawned ==
  /\ Copy(rec) /\ Copy(keeper) /\ Copy(reader)
  /\ \A c \in Cmds : Copy(cmd[c].rec)
  /\ \A r \in Runs : Copy(worker[r].rec)

\* What a log holds was written by a worker.
LogsAreOwned == \A p \in Paths : log[p].run \in Runs => Spawned(log[p].run)

Following == {"read", "check", "last", "followed"}

ReaderHasLog ==
  reader.pc \in {"content", "sidecar", "pid", "wait"} \cup Following => reader.path \in Paths

Base == TypeOK /\ StartsAreNumbered /\ CopiesNameSpawned /\ LogsAreOwned /\ ReaderHasLog

\* While no pid is lost there is one start at a time, and only the worker that
\* it has spawned or that the record names is alive.
OneStart == \A c, d \in Cmds : Starting(c) /\ Starting(d) => c = d

LiveIsNamed ==
  \A r \in Live : IF Calm THEN rec.pid = r
                          ELSE \E c \in Cmds : At(c, "pid") /\ cmd[c].run = r

LastStarted ==
  /\ \A c \in Cmds : Starting(c) => cmd[c].run = starts
  /\ \A r \in Live, p \in Runs : Spawned(p) => p <= r

\* No sidecar is that of an earlier run than one that has had its log, and the
\* last run's is its own.
SideIsOwned ==
  /\ \A p \in Paths : side[p].whole => side[p].run \in Runs
  /\ \A c \in Cmds : At(c, "spawn") => side[cmd[c].path].run = NoRun
  /\ \A r \in Runs : Spawned(r) =>
       side[worker[r].path].run = NoRun \/ side[worker[r].path].run >= r
  /\ Spawned(starts) /\ WorkerAt(starts, "write") => side[worker[starts].path].run = starts
  /\ Spawned(starts) /\ worker[starts].pc \in Told => side[worker[starts].path].whole

Tracking == OneStart /\ LiveIsNamed /\ LastStarted /\ SideIsOwned

TrackInv == ~untracked => Tracking

\* A worker that is not alive has ended, and a poll that found so has read
\* its verdict if there is one.
PollInv ==
  /\ reader.ended => reader.pid \notin Live
  /\ ~untracked /\ reader.pid \in Runs =>
       /\ ReaderAt("finished") /\ worker[reader.pid].path = reader.path =>
            reader.verdict >= reader.pid
       /\ reader.pc \in {"pid", "terminated"} /\ reader.ended /\ reader.pid = starts =>
            worker[reader.pid].pc # "done"

\* The position is in the log while it is the same run's, and after the check
\* nothing more is written to it.
FollowInv ==
  /\ ReaderAt("wait") => reader.off = 0
  /\ reader.pc \in Following => log[reader.path].run # NoRun
  /\ reader.pc \in Following /\ log[reader.path].run = reader.pid =>
       /\ reader.off <= log[reader.path].len
       /\ reader.pc \in {"last", "followed"} => reader.pid \notin Live
       /\ ReaderAt("followed") => reader.off = log[reader.path].len

-------------------------------------------------------------------------------
(* Types.                                                                  *)

Copied == Records \cup {NoRecord}

WorkerTypes == [pc : {"none", "boot", "work", "open", "write", "last", "done", "dead"},
                path : Paths \cup {None}, rec : Copied]
CmdTypes == [pc : {"idle", "record", "clean", "spawn", "pid", "kill", "remove"},
             run : 0..MaxStarts, path : Paths \cup {None}, rec : Copied]
ReaderTypes == [pc : Resting \cup {"content", "sidecar", "pid", "wait", "read", "check", "last"},
                path : Paths \cup {None}, pid : 0..MaxStarts, off : 0..MaxChunks,
                verdict : 0..MaxStarts, ended : BOOLEAN]

LEMMA Constants ==
  /\ MaxStarts \in Nat /\ MaxChunks \in Nat
  /\ 0 \in 0..MaxStarts /\ 0 \in 0..MaxChunks /\ Runs \subseteq 0..MaxStarts /\ NoRun \notin Runs
  /\ Default \in Paths /\ NoRun = 0
BY BoundsAssumption, PathsAssumption DEF Runs, NoRun

LEMMA NoneTypes ==
  /\ NoRecord \in Copied /\ NewRecord \in Copied
  /\ NoWorker \in WorkerTypes /\ Idle \in CmdTypes /\ NoReader \in ReaderTypes
<1>1. NoRecord \in Copied /\ NewRecord \in Copied
  BY Constants DEF NoRecord, NewRecord, Copied, Records, NoRun
<1>2. NoWorker \in WorkerTypes /\ Idle \in CmdTypes
  BY <1>1, Constants DEF NoWorker, Idle, WorkerTypes, CmdTypes, NoRun
<1>3. NoReader \in ReaderTypes
  BY Constants DEF NoReader, ReaderTypes, NoRun, Resting
<1> QED
  BY <1>1, <1>2, <1>3

LEMMA CopiedFields ==
  ASSUME NEW x \in Copied
  PROVE  /\ x.pid \in 0..MaxStarts
         /\ \A p \in Paths : /\ [x EXCEPT !.path = p] \in Records
                             /\ [x EXCEPT !.path = p].pid = x.pid
                             /\ [x EXCEPT !.path = p].path = p
         /\ \A r \in Runs : x.path \in Paths => /\ [x EXCEPT !.pid = r] \in Records
                                                /\ [x EXCEPT !.pid = r].pid = r
                                                /\ [x EXCEPT !.pid = r].path = x.path
<1>1. x = [pid |-> x.pid, path |-> x.path] /\ x.pid \in 0..MaxStarts
  <2>1. CASE x \in Records
    BY <2>1 DEF Records
  <2>2. CASE x = NoRecord
    BY <2>2, Constants DEF NoRecord
  <2> QED
    BY <2>1, <2>2 DEF Copied
<1>2. ASSUME NEW p \in Paths
      PROVE  [x EXCEPT !.path = p] = [pid |-> x.pid, path |-> p]
  BY <1>1
<1>3. ASSUME NEW r \in Runs
      PROVE  [x EXCEPT !.pid = r] = [pid |-> r, path |-> x.path]
  BY <1>1
<1> QED
  BY <1>1, <1>2, <1>3, Constants DEF Records

LEMMA TypeParts ==
  TypeOK <=> /\ rec \in Copied /\ keeper \in Copied
             /\ log \in [Paths -> [run : 0..MaxStarts, len : 0..MaxChunks]]
             /\ side \in [Paths -> [run : 0..MaxStarts, whole : BOOLEAN]]
             /\ worker \in [Runs -> WorkerTypes] /\ cmd \in [Cmds -> CmdTypes]
             /\ reader \in ReaderTypes /\ starts \in 0..MaxStarts /\ untracked \in BOOLEAN
BY DEF TypeOK, Copied, WorkerTypes, CmdTypes, ReaderTypes

\* A worker where it goes.
Row(r, place, copy) == [worker[r] EXCEPT !.pc = place, !.rec = copy]

LEMMA RowFields ==
  ASSUME TypeOK, NEW r \in Runs, NEW copy \in Copied,
         NEW place \in {"none", "boot", "work", "open", "write", "last", "done", "dead"}
  PROVE  /\ Row(r, place, copy) \in WorkerTypes
         /\ Row(r, place, copy).pc = place /\ Row(r, place, copy).rec = copy
         /\ Row(r, place, copy).path = worker[r].path
<1>1. worker[r] \in WorkerTypes
  BY TypeParts
<1> QED
  BY <1>1 DEF Row, WorkerTypes

LEMMA GoesRow ==
  ASSUME TypeOK, NEW r \in Runs, NEW place, NEW copy \in Copied,
         worker' = [worker EXCEPT ![r].pc = place, ![r].rec = copy]
  PROVE  worker' = [worker EXCEPT ![r] = Row(r, place, copy)]
<1>1. worker \in [Runs -> WorkerTypes] /\ worker[r] \in WorkerTypes
  BY TypeParts
<1> QED
  BY <1>1 DEF Row, WorkerTypes

LEMMA MovesRow ==
  ASSUME TypeOK, NEW r \in Runs, NEW place, worker' = [worker EXCEPT ![r].pc = place]
  PROVE  /\ worker' = [worker EXCEPT ![r] = Row(r, place, worker[r].rec)]
         /\ worker[r].rec \in Copied
<1>1. worker \in [Runs -> WorkerTypes] /\ worker[r] \in WorkerTypes
  BY TypeParts
<1> QED
  BY <1>1 DEF Row, WorkerTypes

LEMMA GoesThere ==
  ASSUME TypeOK, NEW r \in Runs, NEW place, WorkerGoes(r, place)
  PROVE  worker' = [worker EXCEPT ![r] = Row(r, place, NoRecord)]
BY GoesRow, NoneTypes DEF WorkerGoes

\* What a step of a worker, or of who kills it, does to it.
Row1(r) ==
  \E place \in {"work", "open", "write", "last", "done", "dead"},
     copy \in {rec, worker[r].rec, NoRecord} :
    /\ worker' = [worker EXCEPT ![r] = Row(r, place, copy)]
    /\ place \in Told => worker[r].pc \in Told \/ WorkerWritesSidecar(r)
    /\ place = "write" => WorkerOpensSidecar(r)

LEMMA WorkerSteps ==
  ASSUME TypeOK, NEW r \in Runs, Worker(r)
  PROVE  r \in Live /\ (UNCHANGED worker \/ Row1(r))
<1>0. rec \in Copied /\ NoRecord \in Copied
  BY TypeParts, NoneTypes
<1>1. CASE WorkerGets(r)
  <2>1. r \in Live
    BY <1>1 DEF WorkerGets, WorkerAt, Live
  <2>2. CASE rec = NoRecord
    BY <1>0, <1>1, <2>1, <2>2, GoesRow DEF WorkerGets, Leaves, WorkerGoes, Row1, Told
  <2>3. CASE rec # NoRecord
    BY <1>0, <1>1, <2>1, <2>3, GoesRow DEF WorkerGets, Row1, Told
  <2> QED
    BY <2>2, <2>3
<1>2. CASE WorkerStores(r) \/ WorkerPrints(r)
  BY <1>2 DEF WorkerStores, WorkerPrints, WorkerAt, Live
<1>3. CASE WorkerEnds(r)
  <2>1. PICK place \in {"open", "dead"} : WorkerGoes(r, place)
    BY <1>3 DEF WorkerEnds, Leaves
  <2> QED
    BY <1>3, <2>1, GoesThere DEF WorkerEnds, WorkerAt, Row1, Live, Told
<1>4. CASE WorkerFails(r) \/ WorkerOpensSidecar(r)
  <2>1. PICK place \in {"open", "write"} :
          /\ worker' = [worker EXCEPT ![r].pc = place]
          /\ place = "write" => WorkerOpensSidecar(r)
    BY <1>4 DEF WorkerFails, WorkerOpensSidecar
  <2>2. r \in Live
    BY <1>4 DEF WorkerFails, WorkerOpensSidecar, WorkerAt, Live
  <2> QED
    BY <2>1, <2>2, MovesRow DEF Row1, Told
<1>5. CASE WorkerWritesSidecar(r)
  <2>1. PICK place \in Told : worker' = [worker EXCEPT ![r].pc = place]
    BY <1>5 DEF WorkerWritesSidecar, Told
  <2>2. worker' = [worker EXCEPT ![r] = Row(r, place, worker[r].rec)] /\ r \in Live
    BY <1>5, <2>1, MovesRow DEF WorkerWritesSidecar, WorkerAt, Live
  <2> QED
    BY <1>5, <2>1, <2>2 DEF Row1, Told
<1>7. CASE WorkerStoresLast(r)
  <2>1. WorkerGoes(r, "done") /\ worker[r].pc = "last"
    BY <1>7 DEF WorkerStoresLast, WorkerAt
  <2> QED
    BY <2>1, GoesThere DEF Row1, Live, Told
<1>6. CASE WorkerDies(r)
  <2>1. WorkerGoes(r, "dead") /\ r \in Live
    BY <1>6 DEF WorkerDies
  <2> QED
    BY <2>1, GoesThere DEF Row1, Told
<1> QED
  BY <1>1, <1>2, <1>3, <1>4, <1>5, <1>6, <1>7 DEF Worker

\* What a step of a reader or of the daemon leaves alone.
LEMMA ReaderSteps ==
  ASSUME Reader
  PROVE  UNCHANGED <<rec, untracked, log, side, worker, cmd, keeper, starts>>
BY DEF Reader, PollReads, PollsContent, PollsSidecar, PollsPid, FollowReads, FollowWaits,
   FollowReadsOn, FollowChecks, FollowReadsLast, ReaderOnly, Keeps

LEMMA KeeperSteps ==
  ASSUME KeeperGets \/ KeeperAdds
  PROVE  UNCHANGED <<log, side, worker, cmd, reader, starts>>
BY DEF KeeperGets, KeeperAdds

LEMMA WorkerKeeps ==
  ASSUME NEW r \in Runs, Worker(r)
  PROVE  UNCHANGED <<cmd, keeper, reader, starts>>
BY DEF Worker, WorkerGets, WorkerStores, WorkerPrints, WorkerEnds, WorkerFails,
   WorkerOpensSidecar, WorkerWritesSidecar, WorkerStoresLast, WorkerDies

\* What a step of a command does to the workers.
LEMMA CommandSteps ==
  ASSUME TypeOK, NEW c \in Cmds, Command(c)
  PROVE  /\ UNCHANGED reader
         /\ ~StopKills(c) /\ ~StartSpawns(c) => UNCHANGED worker
         /\ StopKills(c) => UNCHANGED worker \/ (\E r \in Live : Row1(r))
         /\ ~(\E p \in Paths : StartChecks(c, p)) => UNCHANGED starts
<1>0. NoRecord \in Copied
  BY NoneTypes
<1>1. ASSUME NEW p \in Paths, StartChecks(c, p) PROVE UNCHANGED <<worker, reader>>
  BY <1>1 DEF StartChecks
<1>2. CASE StopKills(c)
  <2>1. CASE PidAlive(cmd[c].rec.pid)
    <3>1. cmd[c].rec.pid \in Live /\ cmd[c].rec.pid \in Runs
      BY <2>1 DEF PidAlive, Live
    <3>2. worker' = [worker EXCEPT ![cmd[c].rec.pid] = Row(cmd[c].rec.pid, "dead", NoRecord)]
      <4> DEFINE q == cmd[c].rec.pid
      <4>1. q \in Runs
        BY <3>1
      <4>2. worker' = [worker EXCEPT ![q].pc = "dead", ![q].rec = NoRecord]
        BY <1>2, <2>1 DEF StopKills
      <4> HIDE DEF q
      <4>3. worker' = [worker EXCEPT ![q] = Row(q, "dead", NoRecord)]
        <5>1. worker \in [Runs -> WorkerTypes] /\ worker[q] \in WorkerTypes
          BY <4>1, TypeParts
        <5> QED
          BY <4>1, <4>2, <5>1 DEF Row, WorkerTypes
      <4> QED
        BY <4>3 DEF q
    <3> QED
      BY <1>2, <3>1, <3>2, Zenon DEF Row1, StopKills, Told
  <2>2. CASE ~PidAlive(cmd[c].rec.pid)
    BY <1>2, <2>2 DEF StopKills
  <2> QED
    BY <1>2, <2>1, <2>2 DEF StopKills
<1>3. CASE StartSpawns(c)
  BY <1>3 DEF StartSpawns, StopKills, At
<1>4. CASE ~StopKills(c) /\ ~StartSpawns(c)
  BY <1>1, <1>4 DEF Command, StartRecords, StartCleans, StartStoresPid, StartDies, StopReads,
     StopRemoves, NewRecords
<1>5. ~(\E p \in Paths : StartChecks(c, p)) => UNCHANGED starts
  BY DEF Command, StartRecords, StartCleans, StartSpawns, StartStoresPid, StartDies, StopReads,
     StopKills, StopRemoves, NewRecords
<1> QED
  BY <1>2, <1>3, <1>4, <1>5 DEF StartSpawns, StopKills, At

-------------------------------------------------------------------------------
(* How the workers go on.                                                  *)

LEMMA WorkerCases ==
  ASSUME TypeOK, [Next]_vars
  PROVE  UNCHANGED worker \/ (\E r \in Live : Row1(r)) \/ (\E c \in Cmds : StartSpawns(c))
BY WorkerSteps, CommandSteps, ReaderSteps, KeeperSteps DEF Next, vars

LEMMA RowEvolves ==
  ASSUME TypeOK, NEW r \in Live, Row1(r)
  PROVE  /\ worker' \in [Runs -> WorkerTypes]
         /\ \A q \in Runs : q # r => worker'[q] = worker[q]
         /\ worker'[r].pc \notin {"none", "boot"} /\ worker'[r].path = worker[r].path
         /\ worker'[r].rec \in {rec, worker[r].rec, NoRecord}
         /\ worker'[r].pc \in Told => worker[r].pc \in Told \/ WorkerWritesSidecar(r)
         /\ worker'[r].pc = "write" => WorkerOpensSidecar(r)
<1>1. PICK place \in {"work", "open", "write", "last", "done", "dead"},
          copy \in {rec, worker[r].rec, NoRecord} :
        /\ worker' = [worker EXCEPT ![r] = Row(r, place, copy)]
        /\ place \in Told => worker[r].pc \in Told \/ WorkerWritesSidecar(r)
        /\ place = "write" => WorkerOpensSidecar(r)
  BY DEF Row1
<1>2. r \in Runs /\ copy \in Copied /\ worker \in [Runs -> WorkerTypes]
  BY TypeParts, NoneTypes DEF Live, WorkerTypes
<1>3. /\ Row(r, place, copy) \in WorkerTypes
      /\ Row(r, place, copy).pc = place /\ Row(r, place, copy).rec = copy
      /\ Row(r, place, copy).path = worker[r].path
  BY <1>2, RowFields
<1>4. worker'[r] = Row(r, place, copy) /\ \A q \in Runs : q # r => worker'[q] = worker[q]
  BY <1>1, <1>2
<1> QED
  BY <1>1, <1>2, <1>3, <1>4

LEMMA SpawnEvolves ==
  ASSUME TypeOK, StartsAreNumbered, NEW c \in Cmds, StartSpawns(c)
  PROVE  /\ cmd[c].run \in Runs /\ ~Spawned(cmd[c].run)
         /\ worker' \in [Runs -> WorkerTypes]
         /\ \A q \in Runs : q # cmd[c].run => worker'[q] = worker[q]
         /\ worker'[cmd[c].run].pc = "boot" /\ worker'[cmd[c].run].path = cmd[c].path
         /\ worker'[cmd[c].run].rec = NoRecord
<1> DEFINE x == [NoWorker EXCEPT !.pc = "boot", !.path = cmd[c].path]
<1>1. At(c, "spawn") /\ worker' = [worker EXCEPT ![cmd[c].run] = x]
  BY DEF StartSpawns
<1>2. Starting(c) /\ ~At(c, "pid")
  BY <1>1 DEF At, Starting
<1>3. cmd[c].run \in Runs /\ ~Spawned(cmd[c].run) /\ cmd[c].path \in Paths
  BY <1>2 DEF StartsAreNumbered, Starting, At, Spawned
<1>5. x \in WorkerTypes
  BY <1>3, NoneTypes DEF WorkerTypes
<1>8. x.pc = "boot" /\ x.path = cmd[c].path /\ x.rec = NoRecord
  BY NoneTypes DEF NoWorker
<1> HIDE DEF x
<1>6. worker \in [Runs -> WorkerTypes]
  BY TypeParts
<1>7. worker'[cmd[c].run] = x /\ \A q \in Runs : q # cmd[c].run => worker'[q] = worker[q]
  BY <1>1, <1>3, <1>6
<1>9. worker' \in [Runs -> WorkerTypes]
  BY <1>1, <1>3, <1>5, <1>6
<1> QED
  BY <1>3, <1>7, <1>8, <1>9

LEMMA Evolves ==
  ASSUME TypeOK, StartsAreNumbered, [Next]_vars
  PROVE  /\ worker' \in [Runs -> WorkerTypes]
         /\ \A r \in Runs : Spawned(r) =>
              /\ worker'[r].pc # "none" /\ worker'[r].path = worker[r].path
              /\ r \in Live' => r \in Live
              /\ worker'[r].pc \in Told => worker[r].pc \in Told \/ WorkerWritesSidecar(r)
              /\ worker'[r].pc = "write" => worker[r].pc = "write" \/ WorkerOpensSidecar(r)
         /\ \A r \in Runs : ~Spawned(r) /\ worker'[r].pc # "none" =>
              /\ worker'[r].pc = "boot"
              /\ \E c \in Cmds : /\ StartSpawns(c) /\ cmd[c].run = r
                                 /\ worker'[r].path = cmd[c].path
         /\ \A r \in Runs : worker'[r].rec \in {worker[r].rec, rec, NoRecord}
<1>0. worker \in [Runs -> WorkerTypes]
  BY TypeParts
<1>1. CASE UNCHANGED worker
  BY <1>0, <1>1 DEF Spawned, Live
<1>2. CASE \E r \in Live : Row1(r)
  <2>1. PICK r \in Live : Row1(r)
    BY <1>2
  <2>2. Spawned(r) /\ r \in Runs
    BY <2>1 DEF Live, Spawned
  <2> QED
    BY <1>0, <2>1, <2>2, RowEvolves DEF Spawned, Live
<1>3. CASE \E c \in Cmds : StartSpawns(c)
  <2>1. PICK c \in Cmds : StartSpawns(c)
    BY <1>3
  <2> QED
    BY <1>0, <2>1, SpawnEvolves DEF Spawned, Live
<1> QED
  BY <1>1, <1>2, <1>3, WorkerCases

LEMMA StartsGrow ==
  ASSUME TypeOK, [Next]_vars
  PROVE  /\ starts' \in 0..MaxStarts /\ starts <= starts'
         /\ UNCHANGED starts \/ (\E c \in Cmds, p \in Paths : StartChecks(c, p))
<1>0. starts \in 0..MaxStarts
  BY TypeParts
<1>1. ASSUME NEW c \in Cmds, NEW p \in Paths, StartChecks(c, p)
      PROVE  starts' \in 0..MaxStarts /\ starts <= starts'
  BY <1>0, <1>1, Constants DEF StartChecks
<1>2. UNCHANGED starts \/ (\E c \in Cmds, p \in Paths : StartChecks(c, p))
  BY CommandSteps, WorkerKeeps, ReaderSteps, KeeperSteps DEF Next, vars
<1> QED
  BY <1>0, <1>1, <1>2, Constants

-------------------------------------------------------------------------------
(* How the commands go on.                                                 *)

\* A start gets to its next place, with what it had.
GoesOn(c, place) ==
  /\ Starting(c)
  /\ cmd'[c].pc = place /\ cmd'[c].run = cmd[c].run
  /\ cmd'[c].path = cmd[c].path /\ cmd'[c].rec = cmd[c].rec

\* A start begins, with a copy of the record and the next number.
BeginsStart(c, p) ==
  /\ StartChecks(c, p)
  /\ starts' \in Runs /\ starts' = starts + 1
  /\ cmd'[c].pc = "record" /\ cmd'[c].run = starts' /\ cmd'[c].path = p
  /\ cmd'[c].rec = [rec EXCEPT !.path = p]

LEMMA GoesFields ==
  ASSUME TypeOK, NEW c \in Cmds,
         NEW place \in {"clean", "spawn", "pid"}, Goes(c, place), Starting(c)
  PROVE  /\ cmd' \in [Cmds -> CmdTypes]
         /\ \A d \in Cmds : d # c => cmd'[d] = cmd[d]
         /\ GoesOn(c, place)
<1>1. cmd \in [Cmds -> CmdTypes] /\ cmd[c] \in CmdTypes
  BY TypeParts
<1> DEFINE x == [cmd[c] EXCEPT !.pc = place]
<1>2. /\ x \in CmdTypes /\ x.pc = place /\ x.run = cmd[c].run
      /\ x.path = cmd[c].path /\ x.rec = cmd[c].rec
  BY <1>1 DEF CmdTypes
<1>3. cmd' = [cmd EXCEPT ![c] = x]
  BY <1>1 DEF Goes
<1> HIDE DEF x
<1>4. cmd'[c] = x /\ \A d \in Cmds : d # c => cmd'[d] = cmd[d]
  BY <1>1, <1>3
<1>5. cmd' \in [Cmds -> CmdTypes]
  BY <1>1, <1>2, <1>3
<1> QED
  BY <1>2, <1>4, <1>5 DEF GoesOn

LEMMA SetFields ==
  ASSUME TypeOK, NEW c \in Cmds, NEW x \in CmdTypes, cmd' = [cmd EXCEPT ![c] = x]
  PROVE  /\ cmd' \in [Cmds -> CmdTypes] /\ cmd'[c] = x
         /\ \A d \in Cmds : d # c => cmd'[d] = cmd[d]
BY TypeParts

LEMMA CmdEvolves ==
  ASSUME TypeOK, NEW c \in Cmds, Command(c)
  PROVE  /\ cmd' \in [Cmds -> CmdTypes]
         /\ \A d \in Cmds : d # c => cmd'[d] = cmd[d]
         /\ \/ \E p \in Paths : BeginsStart(c, p)
            \/ StartRecords(c) /\ GoesOn(c, "clean")
            \/ StartCleans(c) /\ GoesOn(c, "spawn")
            \/ StartSpawns(c) /\ GoesOn(c, "pid")
            \/ /\ StartStoresPid(c) \/ StartDies(c) \/ StopReads(c) \/ StopKills(c)
                  \/ StopRemoves(c) \/ NewRecords(c)
               /\ cmd'[c].pc \in {"idle", "kill", "remove"} 
               /\ cmd'[c].rec \in {cmd[c].rec, rec, NoRecord}
<1>0. cmd \in [Cmds -> CmdTypes] /\ rec \in Copied /\ starts \in 0..MaxStarts
  BY TypeParts
<1>1. ASSUME NEW p \in Paths, StartChecks(c, p)
      PROVE  /\ cmd' \in [Cmds -> CmdTypes]
             /\ \A d \in Cmds : d # c => cmd'[d] = cmd[d]
             /\ BeginsStart(c, p)
  <2> DEFINE x == [pc |-> "record", run |-> starts', path |-> p, rec |-> [rec EXCEPT !.path = p]]
  <2>1. starts' \in Runs /\ starts' = starts + 1
    BY <1>0, <1>1, Constants DEF StartChecks, Runs
  <2>2. [rec EXCEPT !.path = p] \in Copied
    BY <1>0, CopiedFields DEF Copied
  <2>3. x \in CmdTypes
    BY <2>1, <2>2, Constants DEF CmdTypes
  <2>4. cmd' = [cmd EXCEPT ![c] = x]
    BY <1>1 DEF StartChecks
  <2>5. /\ x.pc = "record" /\ x.run = starts' /\ x.path = p
        /\ x.rec = [rec EXCEPT !.path = p]
    OBVIOUS
  <2> HIDE DEF x
  <2>6. /\ cmd' \in [Cmds -> CmdTypes] /\ cmd'[c] = x
        /\ \A d \in Cmds : d # c => cmd'[d] = cmd[d]
    BY <1>0, <2>3, <2>4
  <2> QED
    BY <1>1, <2>1, <2>5, <2>6 DEF BeginsStart
<1>2. CASE StartRecords(c)
  <2>1. Goes(c, "clean") /\ Starting(c)
    BY <1>2 DEF StartRecords, At, Starting
  <2> QED
    BY <1>2, <2>1, GoesFields
<1>3. CASE StartCleans(c)
  <2>1. Goes(c, "spawn") /\ Starting(c)
    BY <1>3 DEF StartCleans, At, Starting
  <2> QED
    BY <1>3, <2>1, GoesFields
<1>4. CASE StartSpawns(c)
  <2>1. Goes(c, "pid") /\ Starting(c)
    BY <1>4 DEF StartSpawns, At, Starting
  <2> QED
    BY <1>4, <2>1, GoesFields
<1>5. CASE StartStoresPid(c) \/ StartDies(c) \/ StopRemoves(c)
  <2>1. cmd' = [cmd EXCEPT ![c] = Idle] /\ Idle \in CmdTypes /\ Idle.pc = "idle" /\ Idle.rec = NoRecord
    BY <1>5, NoneTypes DEF StartStoresPid, StartDies, StopRemoves, Idle
  <2>2. cmd' \in [Cmds -> CmdTypes] /\ cmd'[c] = Idle /\ \A d \in Cmds : d # c => cmd'[d] = cmd[d]
    BY <1>0, <2>1
  <2> QED
    BY <1>5, <2>1, <2>2
<1>6. CASE StopReads(c)
  <2> DEFINE x == [Idle EXCEPT !.pc = "kill", !.rec = rec]
  <2>1. x \in CmdTypes /\ x.pc = "kill" /\ x.rec = rec
    BY <1>0, NoneTypes DEF CmdTypes, Idle
  <2>2. cmd' = [cmd EXCEPT ![c] = x]
    BY <1>6 DEF StopReads
  <2> HIDE DEF x
  <2>3. cmd' \in [Cmds -> CmdTypes] /\ cmd'[c] = x /\ \A d \in Cmds : d # c => cmd'[d] = cmd[d]
    BY <1>0, <2>1, <2>2
  <2> QED
    BY <1>6, <2>1, <2>3
<1>7. CASE StopKills(c)
  <2> DEFINE x == [Idle EXCEPT !.pc = "remove"]
  <2>1. x \in CmdTypes /\ x.pc = "remove" /\ x.rec = NoRecord
    BY <1>0, NoneTypes DEF CmdTypes, Idle
  <2>2. cmd' = [cmd EXCEPT ![c] = x]
    BY <1>7 DEF StopKills
  <2> HIDE DEF x
  <2>3. cmd' \in [Cmds -> CmdTypes] /\ cmd'[c] = x /\ \A d \in Cmds : d # c => cmd'[d] = cmd[d]
    BY <1>0, <2>1, <2>2
  <2> QED
    BY <1>7, <2>1, <2>3
<1>8. CASE NewRecords(c)
  BY <1>0, <1>8 DEF NewRecords, At
<1> QED
  BY <1>1, <1>2, <1>3, <1>4, <1>5, <1>6, <1>7, <1>8 DEF Command

\* What a start is when a step has been made.
LEMMA StartView ==
  ASSUME TypeOK, [Next]_vars, NEW c \in Cmds, Starting(c)'
  PROVE  \/ \E p \in Paths : BeginsStart(c, p)
         \/ /\ Starting(c) /\ cmd'[c].run = cmd[c].run
            /\ cmd'[c].path = cmd[c].path /\ cmd'[c].rec = cmd[c].rec
            /\ \/ cmd'[c].pc = cmd[c].pc
               \/ StartRecords(c) /\ cmd'[c].pc = "clean"
               \/ StartCleans(c) /\ cmd'[c].pc = "spawn"
               \/ StartSpawns(c) /\ cmd'[c].pc = "pid"
<1>1. CASE cmd'[c] = cmd[c]
  BY <1>1 DEF Starting
<1>2. CASE cmd'[c] # cmd[c]
  <2>1. PICK d \in Cmds : Command(d)
    BY <1>2, WorkerKeeps, ReaderSteps, KeeperSteps DEF Next, vars
  <2>2. d = c
    BY <1>2, <2>1, CmdEvolves
  <2> QED
    BY <2>1, <2>2, CmdEvolves DEF GoesOn, Starting
<1> QED
  BY <1>1, <1>2

LEMMA SpawnIsOne ==
  ASSUME TypeOK, StartsAreNumbered, NEW c \in Cmds, StartSpawns(c)
  PROVE  /\ Starting(c) /\ At(c, "spawn") /\ cmd'[c].pc = "pid"
         /\ cmd[c].run \in Runs /\ cmd[c].run <= starts /\ cmd[c].path \in Paths
         /\ \A d \in Cmds : Starting(d) /\ cmd[d].run = cmd[c].run => d = c
<1>1. At(c, "spawn") /\ Goes(c, "pid") /\ Starting(c)
  BY DEF StartSpawns, At, Starting
<1>2. cmd'[c].pc = "pid"
  BY <1>1, GoesFields DEF GoesOn
<1> QED
  BY <1>1, <1>2 DEF StartsAreNumbered

LEMMA NumberedStep ==
  ASSUME TypeOK, StartsAreNumbered, [Next]_vars
  PROVE  StartsAreNumbered'
<1>0. starts \in Nat /\ starts' \in Nat /\ starts <= starts'
  BY StartsGrow, TypeParts, Constants
<1>1. ASSUME NEW r \in Runs, worker'[r].pc # "none"
      PROVE  r <= starts' /\ worker'[r].path \in Paths
  <2>0. r \in Nat
    BY Constants DEF Runs
  <2>1. CASE Spawned(r)
    <3>1. r <= starts /\ worker[r].path \in Paths
      BY <2>1 DEF StartsAreNumbered
    <3>2. worker'[r].path = worker[r].path
      BY <2>1, Evolves
    <3> QED
      BY <1>0, <2>0, <3>1, <3>2
  <2>2. CASE ~Spawned(r)
    <3>1. PICK c \in Cmds : StartSpawns(c) /\ cmd[c].run = r /\ worker'[r].path = cmd[c].path
      BY <1>1, <2>2, Evolves
    <3>2. r <= starts /\ cmd[c].path \in Paths
      BY <3>1, SpawnIsOne
    <3> QED
      BY <1>0, <2>0, <3>1, <3>2
  <2> QED
    BY <2>1, <2>2
<1>2. ASSUME NEW c \in Cmds, Starting(c), cmd'[c].pc # "pid", cmd'[c].run = cmd[c].run,
             ~At(c, "pid")
      PROVE  worker'[cmd[c].run].pc = "none"
  <2>1. cmd[c].run \in Runs /\ ~Spawned(cmd[c].run)
    BY <1>2 DEF StartsAreNumbered
  <2>2. SUFFICES ASSUME worker'[cmd[c].run].pc # "none" PROVE FALSE
    OBVIOUS
  <2>3. PICK d \in Cmds : StartSpawns(d) /\ cmd[d].run = cmd[c].run
    BY <2>1, <2>2, Evolves
  <2>4. d = c
    BY <1>2, <2>3, SpawnIsOne
  <2> QED
    BY <1>2, <2>3, <2>4, SpawnIsOne
<1>3. ASSUME NEW c \in Cmds, Starting(c)'
      PROVE  /\ cmd'[c].run \in Runs /\ cmd'[c].run <= starts' /\ cmd'[c].path \in Paths
             /\ cmd'[c].rec.path = cmd'[c].path
             /\ cmd'[c].pc = "pid" => /\ worker'[cmd'[c].run].pc # "none"
                                      /\ worker'[cmd'[c].run].path = cmd'[c].path
             /\ cmd'[c].pc # "pid" => worker'[cmd'[c].run].pc = "none"
  <2>1. CASE \E p \in Paths : BeginsStart(c, p)
    <3>1. PICK p \in Paths : BeginsStart(c, p)
      BY <2>1
    <3>2. cmd'[c].rec.path = p
      BY <3>1, TypeParts, CopiedFields DEF BeginsStart
    <3>3. worker'[starts'].pc = "none"
      <4>1. starts' \in Runs /\ starts' = starts + 1
        BY <3>1 DEF BeginsStart
      <4>2. ~Spawned(starts')
        BY <1>0, <4>1 DEF StartsAreNumbered
      <4>3. \A d \in Cmds : StartSpawns(d) => cmd[d].run # starts'
        BY <1>0, <4>1, SpawnIsOne DEF Runs
      <4> QED
        BY <4>1, <4>2, <4>3, Evolves
    <3> QED
      BY <1>0, <3>1, <3>2, <3>3 DEF BeginsStart
  <2>2. CASE ~\E p \in Paths : BeginsStart(c, p)
    <3>1. /\ Starting(c) /\ cmd'[c].run = cmd[c].run
          /\ cmd'[c].path = cmd[c].path /\ cmd'[c].rec = cmd[c].rec
          /\ \/ cmd'[c].pc = cmd[c].pc
             \/ StartRecords(c) /\ cmd'[c].pc = "clean"
             \/ StartCleans(c) /\ cmd'[c].pc = "spawn"
             \/ StartSpawns(c) /\ cmd'[c].pc = "pid"
      BY <1>3, <2>2, StartView
    <3>2. /\ cmd[c].run \in Runs /\ cmd[c].run <= starts /\ cmd[c].path \in Paths
          /\ cmd[c].rec.path = cmd[c].path
          /\ At(c, "pid") => /\ Spawned(cmd[c].run)
                             /\ worker[cmd[c].run].path = cmd[c].path
      BY <3>1 DEF StartsAreNumbered
    <3>3. cmd[c].run <= starts'
      BY <1>0, <3>2 DEF Runs
    <3>4. CASE cmd'[c].pc = "pid"
      <4>1. CASE At(c, "pid")
        BY <3>1, <3>2, <3>3, <3>4, <4>1, Evolves
      <4>2. CASE ~At(c, "pid")
        <5>1. StartSpawns(c)
          BY <3>1, <3>4, <4>2 DEF At
        <5> QED
          BY <3>1, <3>2, <3>3, <3>4, <5>1, SpawnEvolves
      <4> QED
        BY <4>1, <4>2
    <3>5. CASE cmd'[c].pc # "pid"
      <4>1. ~At(c, "pid")
        BY <3>1, <3>5 DEF At, StartRecords, StartCleans, StartSpawns
      <4> QED
        BY <1>2, <3>1, <3>2, <3>3, <3>5, <4>1
    <3> QED
      BY <3>4, <3>5
  <2> QED
    BY <2>1, <2>2
<1>4. ASSUME NEW c \in Cmds, NEW d \in Cmds, Starting(c)', Starting(d)', cmd'[d].run = cmd'[c].run
      PROVE  d = c
  <2>1. ASSUME NEW e \in Cmds, Starting(e)'
        PROVE  \/ (\E p \in Paths : StartChecks(e, p)) /\ cmd'[e].run = starts + 1
               \/ Starting(e) /\ cmd'[e].run = cmd[e].run /\ cmd[e].run \in Runs /\ cmd[e].run <= starts
    BY <2>1, StartView DEF BeginsStart, StartsAreNumbered
  <2>2. ASSUME NEW e \in Cmds, \E p \in Paths : StartChecks(e, p)
        PROVE  \A f \in Cmds : f # e => cmd'[f] = cmd[f]
    BY <2>2, CmdEvolves DEF Command
  <2>3. ASSUME NEW e \in Cmds, NEW f \in Cmds, f # e,
               \E p \in Paths : StartChecks(e, p), \E p \in Paths : StartChecks(f, p)
        PROVE  FALSE
    <3>1. cmd'[f] = cmd[f]
      BY <2>2, <2>3
    <3>2. cmd'[f].pc = "record" /\ cmd[f].pc = "idle"
      BY <2>3, TypeParts DEF StartChecks, At
    <3> QED
      BY <3>1, <3>2
  <2> QED
    BY <1>0, <1>4, <2>1, <2>3 DEF StartsAreNumbered, Runs
<1> QED
  BY <1>1, <1>3, <1>4 DEF StartsAreNumbered, Spawned, At

-------------------------------------------------------------------------------
(* The copies of the record, and the types.                                *)

\* What the record becomes.
LEMMA RecCases ==
  ASSUME [Next]_vars
  PROVE  \/ rec' \in {rec, NoRecord, NewRecord, keeper}
         \/ \E c \in Cmds : StartRecords(c) /\ rec' = cmd[c].rec
         \/ \E r \in Runs : rec' = worker[r].rec
         \/ \E c \in Cmds : StartStoresPid(c) /\ rec' = [cmd[c].rec EXCEPT !.pid = cmd[c].run]
<1>1. ASSUME NEW c \in Cmds, Command(c)
      PROVE  \/ rec' \in {rec, NoRecord, NewRecord}
             \/ StartRecords(c) /\ rec' = cmd[c].rec
             \/ StartStoresPid(c) /\ rec' = [cmd[c].rec EXCEPT !.pid = cmd[c].run]
  BY <1>1 DEF Command, StartChecks, StartRecords, StartCleans, StartSpawns, StartStoresPid,
     StartDies, StopReads, StopKills, StopRemoves, NewRecords, Keeps, Stores
<1>2. ASSUME NEW r \in Runs, Worker(r)
      PROVE  rec' \in {rec, NoRecord, worker[r].rec}
  BY <1>2 DEF Worker, WorkerGets, WorkerStores, WorkerPrints, WorkerEnds, WorkerFails,
     WorkerOpensSidecar, WorkerWritesSidecar, WorkerStoresLast, WorkerDies, Keeps, Stores
<1>3. CASE KeeperGets \/ KeeperAdds
  BY <1>3 DEF KeeperGets, KeeperAdds, Keeps, Stores
<1> QED
  BY <1>1, <1>2, <1>3, ReaderSteps DEF Next, vars

LEMMA KeeperCases ==
  ASSUME [Next]_vars
  PROVE  keeper' \in {keeper, rec, NoRecord}
<1>1. ASSUME NEW c \in Cmds, Command(c)
      PROVE  keeper' \in {keeper, NoRecord}
  BY <1>1 DEF Command, StartChecks, StartRecords, StartCleans, StartSpawns, StartStoresPid,
     StartDies, StopReads, StopKills, StopRemoves, NewRecords
<1>2. CASE KeeperGets \/ KeeperAdds
  BY <1>2 DEF KeeperGets, KeeperAdds
<1> QED
  BY <1>1, <1>2, WorkerKeeps, ReaderSteps DEF Next, vars

\* A reader keeps its copy, drops it, or takes another.
Takes(place) ==
  /\ reader'.pc = place /\ reader'.pid = rec.pid /\ reader'.path = rec.path
  /\ reader'.path \in Paths /\ reader'.off = 0 /\ reader'.verdict = NoRun
  /\ reader'.ended = ~PidAlive(rec.pid)
Drops ==
  /\ reader'.pc \in {"idle", "content"} /\ reader'.pid = NoRun
  /\ reader'.off = 0 /\ reader'.verdict = NoRun
  /\ reader'.pc = "content" => reader'.path = Default
Holds ==
  /\ reader'.pid = reader.pid /\ reader'.path = reader.path /\ reader'.ended = reader.ended

LEMMA BeginsFields ==
  ASSUME TypeOK, NEW place \in {"content", "wait"}, NEW path \in Paths, NEW pid \in 0..MaxStarts,
         Begins(place, path, pid)
  PROVE  /\ reader' \in ReaderTypes
         /\ reader'.pc = place /\ reader'.pid = pid /\ reader'.path = path
         /\ reader'.off = 0 /\ reader'.verdict = NoRun /\ reader'.ended = ~PidAlive(pid)
<1> DEFINE alive == pid \in Live
<1>1. alive \in BOOLEAN
  OBVIOUS
<1>2. reader' = [NoReader EXCEPT !.pc = place, !.path = path, !.pid = pid, !.ended = ~alive]
  BY DEF Begins, PidAlive
<1> HIDE DEF alive
<1>3. /\ reader' \in ReaderTypes
      /\ reader'.pc = place /\ reader'.pid = pid /\ reader'.path = path
      /\ reader'.off = 0 /\ reader'.verdict = NoRun /\ reader'.ended = ~alive
  <2> DEFINE ended == ~alive
  <2>1. reader' = [NoReader EXCEPT !.pc = place, !.path = path, !.pid = pid, !.ended = ended]
    BY <1>2
  <2>2. ended \in BOOLEAN
    BY <1>1
  <2> HIDE DEF ended
  <2>3. NoReader \in ReaderTypes /\ NoReader.off = 0 /\ NoReader.verdict = NoRun
    BY NoneTypes DEF NoReader
  <2>4. /\ reader'.pc = place /\ reader'.pid = pid /\ reader'.path = path
        /\ reader'.off = 0 /\ reader'.verdict = NoRun /\ reader'.ended = ended
    BY <2>1, <2>3 DEF ReaderTypes
  <2>5. reader' \in ReaderTypes
    BY <2>1, <2>2, <2>3 DEF ReaderTypes
  <2> QED
    BY <2>4, <2>5 DEF ended
<1> QED
  BY <1>3 DEF alive, PidAlive

LEMMA AnswersFields ==
  ASSUME TypeOK, NEW what \in Resting \cup {"content", "sidecar", "pid", "wait", "read", "check", "last"},
         Answers(what)
  PROVE  /\ reader' \in ReaderTypes /\ Holds
         /\ reader'.pc = what /\ reader'.off = reader.off /\ reader'.verdict = reader.verdict
<1>1. reader \in ReaderTypes
  BY TypeParts
<1> QED
  BY <1>1 DEF Answers, Holds, ReaderTypes

LEMMA DropsFields ==
  ASSUME reader' = NoReader
  PROVE  reader' \in ReaderTypes /\ Drops
BY NoneTypes DEF Drops, NoReader

LEMMA ReaderCases ==
  ASSUME TypeOK, ReaderHasLog, Reader
  PROVE  /\ reader' \in ReaderTypes
         /\ \/ Takes("content") \/ Takes("wait") \/ Drops
            \/ Holds /\ ReaderAt("content") /\ reader'.pc = "sidecar"
            \/ /\ Holds /\ ReaderAt("sidecar") /\ side[reader.path].whole
               /\ reader'.pc = "finished" /\ reader'.verdict = side[reader.path].run
            \/ /\ Holds /\ ReaderAt("sidecar") /\ ~side[reader.path].whole
               /\ reader'.pc = "pid"
            \/ Holds /\ ReaderAt("pid") /\ reader'.pc = "terminated"
            \/ /\ Holds /\ ReaderAt("wait") /\ reader'.pc = "read"
               /\ log[reader.path].run # NoRun /\ reader'.off = reader.off
            \/ /\ Holds /\ ReaderAt("read") /\ reader'.pc \in {"read", "check"}
               /\ reader'.off = ReadsOn
            \/ /\ Holds /\ ReaderAt("check") /\ reader'.off = reader.off
               /\ \/ reader'.pc = "read" 
                  \/ reader'.pc = "last" /\ ~PidAlive(reader.pid)
            \/ /\ Holds /\ ReaderAt("last") /\ reader'.pc = "followed" /\ reader'.off = ReadsOn
<1>0. /\ reader \in ReaderTypes /\ rec \in Copied /\ rec.pid \in 0..MaxStarts
      /\ log \in [Paths -> [run : 0..MaxStarts, len : 0..MaxChunks]]
      /\ side \in [Paths -> [run : 0..MaxStarts, whole : BOOLEAN]]
  BY TypeParts, CopiedFields
<1>1. CASE PollReads
  <2>1. CASE Begins("content", Default, NoRun)
    <3>1. NoRun \in 0..MaxStarts /\ Default \in Paths
      BY Constants
    <3> QED
      BY <2>1, <3>1, BeginsFields DEF Drops
  <2>2. CASE rec.path \in Paths /\ Begins("content", rec.path, rec.pid)
    BY <1>0, <2>2, BeginsFields DEF Takes
  <2> QED
    BY <1>1, <2>1, <2>2 DEF PollReads
<1>2. CASE FollowReads
  <2>1. rec.path \in Paths /\ Begins("wait", rec.path, rec.pid)
    BY <1>2 DEF FollowReads
  <2> QED
    BY <1>0, <2>1, BeginsFields DEF Takes
<1>3. CASE PollsContent
  <2>1. CASE reader' = NoReader
    BY <2>1, DropsFields
  <2>2. CASE Answers("sidecar")
    BY <1>3, <2>2, AnswersFields DEF PollsContent
  <2> QED
    BY <1>3, <2>1, <2>2 DEF PollsContent
<1>4. CASE PollsSidecar
  <2>1. ReaderAt("sidecar") /\ reader.path \in Paths
    BY <1>4 DEF PollsSidecar, ReaderAt, ReaderHasLog
  <2>2. CASE side[reader.path].whole
    <3>1. reader' = [reader EXCEPT !.pc = "finished", !.verdict = side[reader.path].run]
      BY <1>4, <2>2 DEF PollsSidecar
    <3>2. side[reader.path].run \in 0..MaxStarts
      BY <1>0, <2>1
    <3>3. reader' \in ReaderTypes /\ Holds /\ reader'.pc = "finished"
          /\ reader'.verdict = side[reader.path].run
      BY <1>0, <3>1, <3>2 DEF Holds, ReaderTypes, Resting
    <3> QED
      BY <2>1, <2>2, <3>3
  <2>3. CASE ~side[reader.path].whole
    <3>1. Answers("pid")
      BY <1>4, <2>3 DEF PollsSidecar
    <3> QED
      BY <2>1, <2>3, <3>1, AnswersFields
  <2> QED
    BY <2>2, <2>3
<1>5. CASE PollsPid
  <2>1. CASE reader' = NoReader
    BY <2>1, DropsFields
  <2>2. CASE Answers("terminated")
    BY <1>5, <2>2, AnswersFields DEF PollsPid, Resting
  <2> QED
    BY <1>5, <2>1, <2>2 DEF PollsPid
<1>6. CASE FollowWaits
  <2>1. CASE reader' = NoReader
    BY <2>1, DropsFields
  <2>2. CASE log[reader.path].run # NoRun /\ Answers("read")
    BY <1>6, <2>2, AnswersFields DEF FollowWaits
  <2> QED
    BY <1>6, <2>1, <2>2 DEF FollowWaits
<1>7. CASE FollowReadsOn \/ FollowReadsLast
  <2>1. reader.path \in Paths
    BY <1>7 DEF FollowReadsOn, FollowReadsLast, ReaderAt, ReaderHasLog, Following
  <2>2. ReadsOn \in 0..MaxChunks
    BY <1>0, <2>1 DEF ReadsOn, ReaderTypes
  <2>3. CASE FollowReadsOn
    <3>1. reader' = [reader EXCEPT !.off = ReadsOn, !.pc = IF ReadsOn > reader.off THEN "read" ELSE "check"]
      BY <2>3 DEF FollowReadsOn
    <3> QED
      BY <1>0, <2>2, <2>3, <3>1 DEF Holds, ReaderTypes, FollowReadsOn
  <2>4. CASE FollowReadsLast
    <3>1. reader' = [reader EXCEPT !.off = ReadsOn, !.pc = "followed"]
      BY <2>4 DEF FollowReadsLast
    <3> QED
      BY <1>0, <2>2, <2>4, <3>1 DEF Holds, ReaderTypes, FollowReadsLast, Resting
  <2> QED
    BY <1>7, <2>3, <2>4
<1>8. CASE FollowChecks
  <2>1. CASE PidAlive(reader.pid) /\ Answers("read")
    BY <1>8, <2>1, AnswersFields DEF FollowChecks
  <2>2. CASE ~PidAlive(reader.pid) /\ Answers("last")
    BY <1>8, <2>2, AnswersFields DEF FollowChecks
  <2> QED
    BY <1>8, <2>1, <2>2 DEF FollowChecks
<1> QED
  BY <1>1, <1>2, <1>3, <1>4, <1>5, <1>6, <1>7, <1>8 DEF Reader

\* A step that is not a reader's leaves it alone, and a reader's all else.
LEMMA ReaderOrOther ==
  ASSUME TypeOK, [Next]_vars
  PROVE  UNCHANGED reader \/ Reader
BY CommandSteps, WorkerKeeps, KeeperSteps DEF Next, vars

\* What a copy that is there after a step names.
NextCopy(x) ==
  x.pid \in Runs =>
    /\ worker'[x.pid].pc # "none"
    /\ x.pid = starts' => x.path = worker'[x.pid].path

LEMMA CopyKept ==
  ASSUME Base, [Next]_vars
  PROVE  /\ \A x : Copy(x) => NextCopy(x)
         /\ NextCopy(NoRecord) /\ NextCopy(NewRecord)
<1>0. starts \in Nat /\ starts' \in Nat /\ starts <= starts' /\ \A r \in Runs : r \in Nat
  BY StartsGrow, TypeParts, Constants DEF Base, Runs
<1>1. ASSUME NEW x, Copy(x), x.pid \in Runs
      PROVE  worker'[x.pid].pc # "none" /\ (x.pid = starts' => x.path = worker'[x.pid].path)
  <2>1. Spawned(x.pid) /\ (x.pid = starts => x.path = worker[x.pid].path)
    BY <1>1 DEF Copy
  <2>2. x.pid <= starts
    BY <1>1, <2>1 DEF Base, StartsAreNumbered
  <2>3. worker'[x.pid].pc # "none" /\ worker'[x.pid].path = worker[x.pid].path
    BY <1>1, <2>1, Evolves DEF Base
  <2> QED
    BY <1>0, <1>1, <2>1, <2>2, <2>3
<1>2. NoRecord.pid \notin Runs /\ NewRecord.pid \notin Runs
  BY Constants DEF NoRecord, NewRecord
<1> QED
  BY <1>1, <1>2 DEF NextCopy

LEMMA CopiesStep ==
  ASSUME Base, [Next]_vars
  PROVE  CopiesNameSpawned' /\ rec' \in Copied /\ keeper' \in Copied
<1>0. /\ Copy(rec) /\ Copy(keeper) /\ Copy(reader)
      /\ \A c \in Cmds : Copy(cmd[c].rec)
      /\ \A r \in Runs : Copy(worker[r].rec)
  BY DEF Base, CopiesNameSpawned
<1>1. /\ \A x : Copy(x) => NextCopy(x)
      /\ NextCopy(NoRecord) /\ NextCopy(NewRecord)
  BY CopyKept
<1>2. /\ rec \in Copied /\ keeper \in Copied /\ \A c \in Cmds : cmd[c].rec \in Copied
      /\ \A r \in Runs : worker[r].rec \in Copied
  BY TypeParts DEF Base, CmdTypes, WorkerTypes
<1>3. NextCopy(rec') /\ rec' \in Copied
  <2>1. CASE \E c \in Cmds : StartStoresPid(c) /\ rec' = [cmd[c].rec EXCEPT !.pid = cmd[c].run]
    <3>1. PICK c \in Cmds : StartStoresPid(c) /\ rec' = [cmd[c].rec EXCEPT !.pid = cmd[c].run]
      BY <2>1
    <3>2. At(c, "pid") /\ Starting(c)
      BY <3>1 DEF StartStoresPid, At, Starting
    <3>3. /\ cmd[c].run \in Runs /\ Spawned(cmd[c].run) /\ cmd[c].path \in Paths
          /\ cmd[c].rec.path = cmd[c].path /\ worker[cmd[c].run].path = cmd[c].path
      BY <3>2 DEF Base, StartsAreNumbered
    <3>4. rec' \in Records /\ rec'.pid = cmd[c].run /\ rec'.path = cmd[c].path
      BY <1>2, <3>1, <3>3, CopiedFields
    <3>5. /\ worker'[cmd[c].run].pc # "none"
          /\ worker'[cmd[c].run].path = worker[cmd[c].run].path
      BY <3>3, Evolves DEF Base
    <3> QED
      BY <3>3, <3>4, <3>5 DEF NextCopy, Copied
  <2>2. CASE rec' \in {rec, NoRecord, NewRecord, keeper} \/ (\E c \in Cmds : rec' = cmd[c].rec)
               \/ (\E r \in Runs : rec' = worker[r].rec)
    BY <1>0, <1>1, <1>2, <2>2, NoneTypes
  <2> QED
    BY <2>1, <2>2, RecCases
<1>4. NextCopy(keeper') /\ keeper' \in Copied
  BY <1>0, <1>1, <1>2, KeeperCases, NoneTypes
<1>5. ASSUME NEW c \in Cmds PROVE NextCopy(cmd'[c].rec)
  <2>1. CASE \E p \in Paths : BeginsStart(c, p)
    <3>1. PICK p \in Paths : BeginsStart(c, p)
      BY <2>1
    <3>2. cmd'[c].rec.pid = rec.pid /\ starts' = starts + 1
      BY <1>2, <3>1, CopiedFields DEF BeginsStart
    <3>3. rec.pid \in Runs => Spawned(rec.pid) /\ rec.pid <= starts
      BY <1>0 DEF Copy, Base, StartsAreNumbered
    <3>4. rec.pid \in Runs => rec.pid # starts'
      BY <3>2, <3>3, TypeParts, Constants DEF Base, Runs
    <3> QED
      BY <1>0, <1>1, <3>2, <3>4 DEF NextCopy
  <2>2. CASE ~\E p \in Paths : BeginsStart(c, p)
    <3>1. cmd'[c].rec \in {cmd[c].rec, rec, NoRecord}
      <4>1. CASE cmd'[c] = cmd[c]
        BY <4>1
      <4>2. CASE cmd'[c] # cmd[c]
        <5>1. PICK d \in Cmds : Command(d)
          BY <4>2, WorkerKeeps, ReaderSteps, KeeperSteps DEF Next, vars
        <5>2. d = c
          BY <4>2, <5>1, CmdEvolves DEF Base
        <5> QED
          BY <2>2, <5>1, <5>2, CmdEvolves DEF Base, GoesOn
      <4> QED
        BY <4>1, <4>2
    <3> QED
      BY <1>0, <1>1, <3>1
  <2> QED
    BY <2>1, <2>2
<1>6. ASSUME NEW r \in Runs PROVE NextCopy(worker'[r].rec)
  BY <1>0, <1>1, Evolves DEF Base
<1>7. NextCopy(reader')
  <2>1. CASE UNCHANGED reader
    BY <1>0, <1>1, <2>1
  <2>2. CASE Takes("content") \/ Takes("wait")
    BY <1>0, <1>1, <2>2 DEF Takes, NextCopy
  <2>3. CASE Drops
    BY <2>3, Constants DEF Drops, NextCopy
  <2>4. CASE Holds
    BY <1>0, <1>1, <2>4 DEF Holds, NextCopy
  <2> QED
    BY <2>1, <2>2, <2>3, <2>4, ReaderOrOther, ReaderCases DEF Base
<1> QED
  BY <1>3, <1>4, <1>5, <1>6, <1>7 DEF CopiesNameSpawned, Copy, NextCopy, Spawned

LEMMA LogCases ==
  ASSUME [Next]_vars
  PROVE  UNCHANGED log \/ (\E c \in Cmds : StartSpawns(c)) \/ (\E r \in Runs : WorkerPrints(r))
<1>1. ASSUME NEW c \in Cmds, Command(c) PROVE UNCHANGED log \/ StartSpawns(c)
  BY <1>1 DEF Command, StartChecks, StartRecords, StartCleans, StartStoresPid,
     StartDies, StopReads, StopKills, StopRemoves, NewRecords
<1>2. ASSUME NEW r \in Runs, Worker(r) PROVE UNCHANGED log \/ WorkerPrints(r)
  BY <1>2 DEF Worker, WorkerGets, WorkerStores, WorkerEnds, WorkerFails,
     WorkerOpensSidecar, WorkerWritesSidecar, WorkerStoresLast, WorkerDies
<1> QED
  BY <1>1, <1>2, ReaderSteps, KeeperSteps DEF Next, vars

LEMMA SideCases ==
  ASSUME [Next]_vars
  PROVE  \/ UNCHANGED side \/ (\E c \in Cmds : StartCleans(c))
         \/ (\E r \in Runs : WorkerOpensSidecar(r) \/ WorkerWritesSidecar(r))
<1>1. ASSUME NEW c \in Cmds, Command(c) PROVE UNCHANGED side \/ StartCleans(c)
  BY <1>1 DEF Command, StartChecks, StartRecords, StartSpawns, StartStoresPid,
     StartDies, StopReads, StopKills, StopRemoves, NewRecords
<1>2. ASSUME NEW r \in Runs, Worker(r)
      PROVE  UNCHANGED side \/ WorkerOpensSidecar(r) \/ WorkerWritesSidecar(r)
  BY <1>2 DEF Worker, WorkerGets, WorkerStores, WorkerPrints, WorkerEnds, WorkerFails,
     WorkerStoresLast, WorkerDies
<1> QED
  BY <1>1, <1>2, ReaderSteps, KeeperSteps DEF Next, vars

\* Once a pid is lost, it stays lost.
LEMMA LostStays ==
  ASSUME untracked \in BOOLEAN, [Next]_vars
  PROVE  untracked' \in BOOLEAN /\ (untracked => untracked')
<1>1. ASSUME NEW r, Stores(r) PROVE untracked' \in BOOLEAN /\ (untracked => untracked')
  BY <1>1, Zenon DEF Stores
<1>2. Keeps => untracked' = untracked
  BY DEF Keeps
<1>3. ASSUME NEW c \in Cmds, Command(c) PROVE untracked' \in BOOLEAN /\ (untracked => untracked')
  <2>1. ASSUME NEW p \in Paths, StartChecks(c, p) PROVE untracked' \in BOOLEAN /\ (untracked => untracked')
    BY <2>1, Zenon DEF StartChecks
  <2>2. CASE StartRecords(c) \/ StartCleans(c) \/ StartSpawns(c) \/ StartStoresPid(c)
    BY <1>1, <1>2, <2>2 DEF StartRecords, StartCleans, StartSpawns, StartStoresPid
  <2>3. CASE StartDies(c)
    BY <2>3, Zenon DEF StartDies
  <2>4. CASE StopReads(c) \/ StopKills(c) \/ StopRemoves(c) \/ NewRecords(c)
    BY <1>1, <1>2, <2>4 DEF StopReads, StopKills, StopRemoves, NewRecords
  <2> QED
    BY <1>3, <2>1, <2>2, <2>3, <2>4 DEF Command
<1>4. ASSUME NEW r \in Runs, Worker(r) PROVE untracked' \in BOOLEAN /\ (untracked => untracked')
  BY <1>1, <1>2, <1>4 DEF Worker, WorkerGets, WorkerStores, WorkerPrints, WorkerEnds, WorkerFails,
     WorkerOpensSidecar, WorkerWritesSidecar, WorkerStoresLast, WorkerDies
<1>5. CASE KeeperGets \/ KeeperAdds
  BY <1>1, <1>2, <1>5 DEF KeeperGets, KeeperAdds
<1>6. untracked' = untracked => untracked' \in BOOLEAN /\ (untracked => untracked')
  OBVIOUS
<1> QED
  BY <1>3, <1>4, <1>5, <1>6, ReaderSteps DEF Next, vars

LEMMA LogStep ==
  ASSUME Base, [Next]_vars
  PROVE  LogsAreOwned' /\ log' \in [Paths -> [run : 0..MaxStarts, len : 0..MaxChunks]]
<1>0. log \in [Paths -> [run : 0..MaxStarts, len : 0..MaxChunks]]
  BY TypeParts DEF Base
<1>1. \A r \in Runs : Spawned(r) => worker'[r].pc # "none"
  BY Evolves DEF Base
<1>2. \A p \in Paths : log[p].run \in Runs => Spawned(log[p].run)
  BY DEF Base, LogsAreOwned
<1>3. CASE UNCHANGED log
  BY <1>0, <1>1, <1>2, <1>3 DEF LogsAreOwned, Spawned
<1>4. CASE \E c \in Cmds : StartSpawns(c)
  <2>1. PICK c \in Cmds : StartSpawns(c)
    BY <1>4
  <2>2. log' = [log EXCEPT ![cmd[c].path] = [run |-> cmd[c].run, len |-> 0]]
    BY <2>1 DEF StartSpawns
  <2>3. cmd[c].run \in Runs /\ cmd[c].path \in Paths /\ worker'[cmd[c].run].pc # "none"
    BY <2>1, SpawnIsOne, SpawnEvolves DEF Base
  <2>4. [run |-> cmd[c].run, len |-> 0] \in [run : 0..MaxStarts, len : 0..MaxChunks]
    BY <2>3, Constants
  <2>5. log' \in [Paths -> [run : 0..MaxStarts, len : 0..MaxChunks]]
    BY <1>0, <2>2, <2>4
  <2>6. \A p \in Paths : log'[p].run = log[p].run \/ log'[p].run = cmd[c].run
    BY <1>0, <2>2
  <2> QED
    BY <1>1, <1>2, <2>3, <2>5, <2>6 DEF LogsAreOwned, Spawned
<1>5. CASE \E r \in Runs : WorkerPrints(r)
  <2>1. PICK r \in Runs : WorkerPrints(r)
    BY <1>5
  <2>2. r \in Live
    BY <2>1 DEF WorkerPrints, WorkerAt, Live
  <2>3. worker[r].path \in Paths
    BY <2>1, <2>2 DEF Base, StartsAreNumbered, Spawned, Live
  <2> DEFINE p == worker[r].path
  <2>4. log' = [log EXCEPT ![p].len = @ + 1] /\ log[p].len < MaxChunks
    BY <2>1 DEF WorkerPrints
  <2> HIDE DEF p
  <2>5. p \in Paths /\ log[p].len + 1 \in 0..MaxChunks
    BY <1>0, <2>3, <2>4, Constants DEF p
  <2>6. log' \in [Paths -> [run : 0..MaxStarts, len : 0..MaxChunks]]
        /\ \A q \in Paths : log'[q].run = log[q].run
    BY <1>0, <2>4, <2>5
  <2> QED
    BY <1>1, <1>2, <2>6 DEF LogsAreOwned, Spawned
<1> QED
  BY <1>3, <1>4, <1>5, LogCases

LEMMA SideTypes ==
  ASSUME Base, [Next]_vars
  PROVE  side' \in [Paths -> [run : 0..MaxStarts, whole : BOOLEAN]]
<1>0. side \in [Paths -> [run : 0..MaxStarts, whole : BOOLEAN]]
  BY TypeParts DEF Base
<1>1. ASSUME NEW p \in Paths, NEW r \in 0..MaxStarts, NEW w \in BOOLEAN,
             side' = [side EXCEPT ![p] = [run |-> r, whole |-> w]]
      PROVE  side' \in [Paths -> [run : 0..MaxStarts, whole : BOOLEAN]]
  BY <1>0, <1>1
<1>2. ASSUME NEW c \in Cmds, StartCleans(c)
      PROVE  side' \in [Paths -> [run : 0..MaxStarts, whole : BOOLEAN]]
  <2>1. Starting(c)
    BY <1>2 DEF StartCleans, At, Starting
  <2>2. cmd[c].path \in Paths
    BY <2>1 DEF Base, StartsAreNumbered
  <2> QED
    BY <1>1, <1>2, <2>2, Constants DEF StartCleans
<1>3. ASSUME NEW r \in Runs, WorkerOpensSidecar(r) \/ WorkerWritesSidecar(r)
      PROVE  side' \in [Paths -> [run : 0..MaxStarts, whole : BOOLEAN]]
  <2>1. Spawned(r)
    BY <1>3 DEF WorkerOpensSidecar, WorkerWritesSidecar, WorkerAt, Spawned
  <2>2. worker[r].path \in Paths /\ r \in 0..MaxStarts
    BY <2>1, Constants DEF Base, StartsAreNumbered
  <2>3. \/ UNCHANGED side 
        \/ \E w \in BOOLEAN : side' = [side EXCEPT ![worker[r].path] = [run |-> r, whole |-> w]]
    BY <1>3 DEF WorkerOpensSidecar, WorkerWritesSidecar
  <2> QED
    BY <1>0, <1>1, <2>2, <2>3
<1> QED
  BY <1>0, <1>2, <1>3, SideCases

LEMMA BaseStep ==
  ASSUME Base, [Next]_vars
  PROVE  Base'
<1>1. StartsAreNumbered'
  BY NumberedStep DEF Base
<1>2. CopiesNameSpawned' /\ rec' \in Copied /\ keeper' \in Copied
  BY CopiesStep
<1>3. LogsAreOwned' /\ log' \in [Paths -> [run : 0..MaxStarts, len : 0..MaxChunks]]
  BY LogStep
<1>4. reader' \in ReaderTypes /\ ReaderHasLog'
  <2>1. CASE UNCHANGED reader
    BY <2>1, TypeParts DEF Base, ReaderHasLog
  <2>2. CASE Reader
    <3>1. reader' \in ReaderTypes
      BY <2>2, ReaderCases DEF Base
    <3>2. ReaderHasLog'
      BY <2>2, ReaderCases, Constants
         DEF Base, ReaderHasLog, Takes, Drops, Holds, ReaderAt, Following
    <3> QED
      BY <3>1, <3>2
  <2> QED
    BY <2>1, <2>2, ReaderOrOther DEF Base
<1>5. cmd' \in [Cmds -> CmdTypes]
  <2>1. UNCHANGED cmd => cmd' \in [Cmds -> CmdTypes]
    BY TypeParts DEF Base
  <2> QED
    BY <2>1, CmdEvolves, WorkerKeeps, ReaderSteps, KeeperSteps DEF Next, vars, Base
<1>6. worker' \in [Runs -> WorkerTypes]
  BY Evolves DEF Base
<1>7. starts' \in 0..MaxStarts
  BY StartsGrow DEF Base
<1>8. untracked' \in BOOLEAN
  BY TypeParts, LostStays DEF Base
<1>9. TypeOK'
  BY <1>2, <1>3, <1>4, <1>5, <1>6, <1>7, <1>8, SideTypes
     DEF TypeOK, Copied, WorkerTypes, CmdTypes, ReaderTypes
<1> QED
  BY <1>1, <1>2, <1>3, <1>4, <1>9 DEF Base

LEMMA BaseInit == Init => Base
<1> SUFFICES ASSUME Init PROVE Base
  OBVIOUS
<1> USE DEF Init
<1>0. /\ \A r \in Runs : worker[r] = NoWorker
      /\ \A c \in Cmds : cmd[c] = Idle
      /\ NoWorker.pc = "none" /\ NoWorker.rec.pid = NoRun
      /\ Idle.pc = "idle" /\ Idle.rec.pid = NoRun
  BY DEF NoWorker, Idle, NoRecord
<1>1. TypeOK
  <2>1. /\ rec \in Copied /\ keeper \in Copied /\ reader \in ReaderTypes
        /\ worker \in [Runs -> WorkerTypes] /\ cmd \in [Cmds -> CmdTypes]
    BY NoneTypes
  <2>2. /\ log \in [Paths -> [run : 0..MaxStarts, len : 0..MaxChunks]]
        /\ side \in [Paths -> [run : 0..MaxStarts, whole : BOOLEAN]]
    BY Constants
  <2>3. starts \in 0..MaxStarts /\ untracked \in BOOLEAN
    BY Constants, Zenon
  <2> QED
    BY <2>1, <2>2, <2>3, TypeParts
<1>2. StartsAreNumbered
  BY <1>0 DEF StartsAreNumbered, Spawned, Starting
<1>3. CopiesNameSpawned
  BY <1>0, Constants DEF CopiesNameSpawned, Copy, NewRecord, NoRecord, NoReader
<1>4. LogsAreOwned
  BY Constants DEF LogsAreOwned
<1>5. ReaderHasLog
  BY DEF ReaderHasLog, NoReader, Following
<1> QED
  BY <1>1, <1>2, <1>3, <1>4, <1>5 DEF Base

THEOREM BaseInvariance == Spec => []Base
<1>1. Base /\ [Next]_vars => Base'
  BY BaseStep
<1> QED
  BY <1>1, BaseInit, PTL DEF Spec

-------------------------------------------------------------------------------
(* While no pid is lost.                                                   *)

LEMMA StoresTracked ==
  ASSUME NEW x, Stores(x), ~untracked'
  PROVE  rec' = x /\ Live \subseteq {x.pid}
BY DEF Stores

\* A copy that is stored names the worker that is alive.
LEMMA RecTracked ==
  ASSUME [Next]_vars, ~untracked'
  PROVE  rec' = rec \/ Live \subseteq {rec'.pid}
<1>0. \A x : Stores(x) => rec' = x /\ Live \subseteq {x.pid}
  BY StoresTracked
<1>1. ASSUME NEW c \in Cmds, Command(c), ~UNCHANGED rec
      PROVE  \E x : Stores(x)
  <2>1. CASE StartRecords(c) \/ StartStoresPid(c)
    BY <2>1 DEF StartRecords, StartStoresPid
  <2>2. CASE StopRemoves(c) \/ NewRecords(c)
    BY <1>1, <2>2 DEF StopRemoves, NewRecords, Keeps
  <2>3. CASE ~(StartRecords(c) \/ StartStoresPid(c) \/ StopRemoves(c) \/ NewRecords(c))
    BY <1>1, <2>3 DEF Command, StartChecks, StartCleans, StartSpawns, StartDies, StopReads,
       StopKills, Keeps
  <2> QED
    BY <2>1, <2>2, <2>3
<1>2. ASSUME NEW r \in Runs, Worker(r), ~UNCHANGED rec
      PROVE  \E x : Stores(x)
  <2>1. CASE WorkerStores(r)
    BY <2>1 DEF WorkerStores
  <2>2. CASE WorkerEnds(r) \/ WorkerStoresLast(r)
    BY <1>2, <2>2 DEF WorkerEnds, WorkerStoresLast, Keeps
  <2>3. CASE ~WorkerStores(r) /\ ~WorkerEnds(r) /\ ~WorkerStoresLast(r)
    BY <1>2, <2>3 DEF Worker, WorkerGets, WorkerPrints, WorkerFails, WorkerOpensSidecar,
       WorkerWritesSidecar, WorkerDies, Keeps
  <2> QED
    BY <2>1, <2>2, <2>3
<1>3. CASE KeeperAdds
  BY <1>0, <1>3 DEF KeeperAdds
<1>4. CASE KeeperGets
  BY <1>4 DEF KeeperGets, Keeps
<1> QED
  BY <1>0, <1>1, <1>2, <1>3, <1>4, ReaderSteps DEF Next, vars

\* The last place of a start.
LEMMA PidNext ==
  ASSUME TypeOK, [Next]_vars, NEW c \in Cmds, At(c, "pid")
  PROVE  cmd'[c] = cmd[c] \/ StartStoresPid(c) \/ StartDies(c)
<1>1. ASSUME NEW d \in Cmds, Command(d), d # c PROVE cmd'[c] = cmd[c]
  BY <1>1, CmdEvolves
<1>2. ASSUME Command(c) PROVE StartStoresPid(c) \/ StartDies(c)
  BY <1>2 DEF Command, At, StartChecks, StartRecords, StartCleans, StartSpawns, StopReads,
     StopKills, StopRemoves, NewRecords
<1> QED
  BY <1>1, <1>2, WorkerKeeps, ReaderSteps, KeeperSteps DEF Next, vars

\* A start begins alone, and with no worker alive.
LEMMA ChecksAlone ==
  ASSUME Base, Tracking, NEW c \in Cmds, NEW p \in Paths, StartChecks(c, p), ~untracked'
  PROVE  /\ Calm /\ Live = {} /\ starts' = starts + 1
         /\ \A d \in Cmds : Starting(d)' => d = c
<1>1. Calm
  BY DEF StartChecks
<1>2. Live = {}
  BY <1>1 DEF StartChecks, Tracking, LiveIsNamed, PidAlive
<1>3. \A d \in Cmds : d # c => cmd'[d] = cmd[d]
  BY CmdEvolves DEF Base, Command
<1>4. \A d \in Cmds : Starting(d)' => d = c
  BY <1>1, <1>3 DEF Calm, Starting
<1> QED
  BY <1>1, <1>2, <1>4 DEF StartChecks

LEMMA SpawnsAlone ==
  ASSUME Base, Tracking, NEW c \in Cmds, Starting(c), ~At(c, "pid")
  PROVE  Live = {}
<1>1. ~Calm
  BY DEF Calm
<1>2. \A d \in Cmds : ~At(d, "pid")
  BY DEF Tracking, OneStart, Starting, At
<1> QED
  BY <1>1, <1>2 DEF Tracking, LiveIsNamed

LEMMA OneStartStep ==
  ASSUME Base, Tracking, [Next]_vars, ~untracked'
  PROVE  OneStart'
<1>1. CASE \E c \in Cmds, p \in Paths : StartChecks(c, p)
  BY <1>1, ChecksAlone DEF OneStart
<1>2. CASE ~\E c \in Cmds, p \in Paths : StartChecks(c, p)
  <2>1. \A c \in Cmds : Starting(c)' => Starting(c)
    BY <1>2, StartView DEF Base, BeginsStart
  <2> QED
    BY <2>1 DEF Tracking, OneStart
<1> QED
  BY <1>1, <1>2

LEMMA LiveStep ==
  ASSUME Base, Tracking, [Next]_vars, ~untracked'
  PROVE  LiveIsNamed'
<1> SUFFICES ASSUME NEW r \in Live'
             PROVE  /\ Calm' => rec'.pid = r
                    /\ ~Calm' => \E c \in Cmds : cmd'[c].pc = "pid" /\ cmd'[c].run = r
  BY DEF LiveIsNamed, At
<1>0. r \in Runs /\ worker'[r].pc # "none"
  BY DEF Live
<1>1. CASE r \notin Live
  <2>1. ~Spawned(r)
    BY <1>0, <1>1, Evolves DEF Base
  <2>2. PICK c \in Cmds : StartSpawns(c) /\ cmd[c].run = r
    BY <1>0, <2>1, Evolves DEF Base
  <2>3. cmd'[c].pc = "pid" /\ cmd'[c].run = r
    BY <2>2, SpawnIsOne, CmdEvolves, GoesFields DEF StartSpawns, Base, GoesOn
  <2> QED
    BY <2>3 DEF Calm, Starting
<1>2. CASE r \in Live /\ Calm
  <2>1. rec.pid = r
    BY <1>2 DEF Tracking, LiveIsNamed
  <2>2. rec'.pid = r
    BY <1>2, <2>1, RecTracked
  <2>3. ~\E c \in Cmds, p \in Paths : StartChecks(c, p)
    BY <1>2, ChecksAlone
  <2>4. Calm'
    BY <1>2, <2>3, StartView DEF Base, BeginsStart, Calm
  <2> QED
    BY <2>2, <2>4
<1>3. CASE r \in Live /\ ~Calm
  <2>1. PICK c \in Cmds : At(c, "pid") /\ cmd[c].run = r
    BY <1>3 DEF Tracking, LiveIsNamed
  <2>2. Starting(c)
    BY <2>1 DEF At, Starting
  <2>3. CASE cmd'[c] = cmd[c]
    BY <2>1, <2>3 DEF At, Calm, Starting
  <2>4. CASE StartStoresPid(c)
    <3>1. rec' = [cmd[c].rec EXCEPT !.pid = r]
      BY <2>1, <2>4 DEF StartStoresPid, Stores
    <3>2. rec'.pid = r
      BY <1>0, <2>1, <2>2, <3>1, CopiedFields, TypeParts
         DEF Base, StartsAreNumbered, CmdTypes
    <3>3. \A d \in Cmds : ~Starting(d)'
      <4>1. cmd'[c].pc \notin {"record", "clean", "spawn", "pid"} /\ \A d \in Cmds : d # c => cmd'[d] = cmd[d]
        BY <2>1, <2>4, TypeParts DEF StartStoresPid, Base, Idle
      <4> QED
        BY <2>2, <4>1 DEF Tracking, OneStart, Starting
    <3> QED
      BY <3>2, <3>3 DEF Calm
  <2>5. CASE StartDies(c)
    BY <1>3, <2>1, <2>5 DEF StartDies
  <2> QED
    BY <2>1, <2>3, <2>4, <2>5, PidNext DEF Base
<1> QED
  BY <1>1, <1>2, <1>3

LEMMA LastStep ==
  ASSUME Base, Tracking, [Next]_vars, ~untracked'
  PROVE  LastStarted'
<1>0. starts \in Nat /\ starts' \in Nat /\ starts <= starts' /\ \A r \in Runs : r \in Nat
  BY StartsGrow, TypeParts, Constants DEF Base, Runs
<1>1. ASSUME NEW c \in Cmds, Starting(c)' PROVE cmd'[c].run = starts'
  <2>1. CASE \E p \in Paths : BeginsStart(c, p)
    BY <2>1 DEF BeginsStart
  <2>2. CASE ~\E p \in Paths : BeginsStart(c, p)
    <3>1. Starting(c) /\ cmd'[c].run = cmd[c].run
      BY <1>1, <2>2, StartView DEF Base
    <3>2. ~\E d \in Cmds, p \in Paths : StartChecks(d, p)
      BY <3>1, ChecksAlone DEF Calm
    <3>3. starts' = starts
      BY <3>2, StartsGrow DEF Base
    <3> QED
      BY <3>1, <3>3 DEF Tracking, LastStarted
  <2> QED
    BY <2>1, <2>2
<1>2. ASSUME NEW r \in Live', NEW p \in Runs, worker'[p].pc # "none" PROVE p <= r
  <2>0. r \in Runs /\ worker'[r].pc # "none"
    BY DEF Live
  <2>1. CASE \E c \in Cmds : StartSpawns(c)
    <3>1. PICK c \in Cmds : StartSpawns(c)
      BY <2>1
    <3>2. Starting(c) /\ ~At(c, "pid") /\ cmd[c].run = starts
      BY <3>1, SpawnIsOne DEF Base, At, Tracking, LastStarted
    <3>3. Live = {}
      BY <3>2, SpawnsAlone
    <3>4. ~Spawned(r)
      BY <2>0, <3>3, Evolves DEF Base
    <3>5. PICK d \in Cmds : StartSpawns(d) /\ cmd[d].run = r
      BY <2>0, <3>4, Evolves DEF Base
    <3>6. r = starts
      BY <3>5, SpawnIsOne DEF Base, Tracking, LastStarted
    <3>7. starts' = starts
      BY <3>1 DEF StartSpawns
    <3>8. p <= starts'
      BY <1>2, NumberedStep DEF Base, StartsAreNumbered, Spawned
    <3> QED
      BY <3>6, <3>7, <3>8
  <2>2. CASE ~\E c \in Cmds : StartSpawns(c)
    <3>1. Spawned(p) /\ Spawned(r)
      BY <1>2, <2>0, <2>2, Evolves DEF Base
    <3>2. r \in Live
      BY <2>0, <3>1, Evolves DEF Base
    <3> QED
      BY <3>1, <3>2 DEF Tracking, LastStarted
  <2> QED
    BY <2>1, <2>2
<1> QED
  BY <1>1, <1>2 DEF LastStarted, Spawned

\* What a step does to the sidecars while no pid is lost.
LEMMA SideChange ==
  ASSUME Base, [Next]_vars
  PROVE  \/ side' = side
         \/ \E c \in Cmds : /\ Starting(c) /\ At(c, "clean") /\ cmd[c].path \in Paths
                            /\ cmd'[c].pc = "spawn" /\ cmd'[c].path = cmd[c].path
                            /\ side' = [side EXCEPT ![cmd[c].path] = [run |-> NoRun, whole |-> FALSE]]
         \/ \E q \in Live :
              /\ worker[q].path \in Paths
              /\ \/ WorkerOpensSidecar(q) /\ side' = [side EXCEPT ![worker[q].path] = [run |-> q, whole |-> FALSE]]
                 \/ /\ WorkerWritesSidecar(q) /\ side[worker[q].path].run # NoRun
                    /\ side' = [side EXCEPT ![worker[q].path] = [run |-> q, whole |-> TRUE]]
<1>1. ASSUME NEW c \in Cmds, StartCleans(c)
      PROVE  /\ Starting(c) /\ At(c, "clean") /\ cmd[c].path \in Paths
             /\ cmd'[c].pc = "spawn" /\ cmd'[c].path = cmd[c].path
             /\ side' = [side EXCEPT ![cmd[c].path] = [run |-> NoRun, whole |-> FALSE]]
  <2>1. Starting(c) /\ At(c, "clean") /\ Goes(c, "spawn")
    BY <1>1 DEF StartCleans, At, Starting
  <2>2. GoesOn(c, "spawn")
    BY <2>1, GoesFields DEF Base
  <2> QED
    BY <1>1, <2>1, <2>2 DEF Base, StartsAreNumbered, GoesOn, StartCleans
<1>2. ASSUME NEW q \in Runs, WorkerOpensSidecar(q) \/ WorkerWritesSidecar(q)
      PROVE  q \in Live /\ worker[q].path \in Paths
  <2>1. q \in Live /\ Spawned(q)
    BY <1>2 DEF WorkerOpensSidecar, WorkerWritesSidecar, WorkerAt, Live, Spawned
  <2> QED
    BY <2>1 DEF Base, StartsAreNumbered
<1>3. ASSUME NEW q \in Runs, WorkerOpensSidecar(q)
      PROVE  side' = [side EXCEPT ![worker[q].path] = [run |-> q, whole |-> FALSE]]
  BY <1>3 DEF WorkerOpensSidecar
<1>4. ASSUME NEW q \in Runs, WorkerWritesSidecar(q)
      PROVE  \/ side' = side
             \/ /\ side[worker[q].path].run # NoRun
                /\ side' = [side EXCEPT ![worker[q].path] = [run |-> q, whole |-> TRUE]]
  BY <1>4 DEF WorkerWritesSidecar
<1> QED
  BY <1>1, <1>2, <1>3, <1>4, SideCases

LEMMA SideAt ==
  ASSUME Base, [Next]_vars, NEW p \in Paths
  PROVE  \/ side'[p] = side[p]
         \/ side'[p].run = NoRun /\ ~side'[p].whole
         \/ \E q \in Live : side'[p].run = q
<1>0. side \in [Paths -> [run : 0..MaxStarts, whole : BOOLEAN]]
  BY TypeParts DEF Base
<1>1. ASSUME NEW o \in Paths, NEW x, side' = [side EXCEPT ![o] = x]
      PROVE  side'[p] = side[p] \/ side'[p] = x
  BY <1>0, <1>1
<1>2. \A q, w : [run |-> q, whole |-> w].run = q /\ [run |-> q, whole |-> FALSE].whole = FALSE
  OBVIOUS
<1>3. CASE side' = side
  BY <1>3
<1>4. ASSUME NEW c \in Cmds, cmd[c].path \in Paths,
             side' = [side EXCEPT ![cmd[c].path] = [run |-> NoRun, whole |-> FALSE]]
      PROVE  side'[p] = side[p] \/ (side'[p].run = NoRun /\ ~side'[p].whole)
  BY <1>1, <1>2, <1>4
<1>5. ASSUME NEW q \in Live, worker[q].path \in Paths, NEW w \in BOOLEAN,
             side' = [side EXCEPT ![worker[q].path] = [run |-> q, whole |-> w]]
      PROVE  side'[p] = side[p] \/ side'[p].run = q
  BY <1>1, <1>2, <1>5
<1> QED
  BY <1>3, <1>4, <1>5, SideChange

LEMMA SideStep ==
  ASSUME Base, Tracking, [Next]_vars, ~untracked'
  PROVE  SideIsOwned'
<1>0. /\ side \in [Paths -> [run : 0..MaxStarts, whole : BOOLEAN]]
      /\ \A r \in Runs : r \in Nat /\ r # NoRun /\ r >= r
  BY TypeParts, Constants DEF Base, Runs
<1>1. /\ \A p \in Paths : side[p].whole => side[p].run \in Runs
      /\ \A c \in Cmds : At(c, "spawn") => side[cmd[c].path].run = NoRun
      /\ \A r \in Runs : Spawned(r) =>
           side[worker[r].path].run = NoRun \/ side[worker[r].path].run >= r
      /\ Spawned(starts) /\ WorkerAt(starts, "write") => side[worker[starts].path].run = starts
      /\ Spawned(starts) /\ worker[starts].pc \in Told => side[worker[starts].path].whole
  BY DEF Tracking, SideIsOwned
<1>2. \A q \in Live, r \in Runs : Spawned(r) => r <= q
  BY DEF Tracking, LastStarted
<1>3. \A r \in Runs : Spawned(r) => /\ worker[r].path \in Paths /\ r <= starts
                                    /\ worker'[r].path = worker[r].path
  BY Evolves DEF Base, StartsAreNumbered
<1>4. \A p \in Paths : side'[p].whole => side'[p].run \in Runs
  <2>1. ASSUME NEW q \in Live PROVE q \in Runs
    BY DEF Live
  <2> QED
    BY <1>1, <2>1, SideAt
<1>5. ASSUME NEW c \in Cmds, cmd'[c].pc = "spawn" PROVE side'[cmd'[c].path].run = NoRun
  <2>1. \/ Starting(c) /\ At(c, "spawn") /\ cmd'[c].path = cmd[c].path
        \/ StartCleans(c) /\ Starting(c) /\ cmd'[c].path = cmd[c].path
    BY <1>5, StartView DEF Base, Starting, BeginsStart, At
  <2>2. cmd[c].path \in Paths
    BY <2>1 DEF Base, StartsAreNumbered
  <2>3. CASE StartCleans(c)
    BY <1>0, <2>1, <2>2, <2>3 DEF StartCleans
  <2>4. CASE Starting(c) /\ At(c, "spawn")
    <3>1. Live = {}
      BY <2>4, SpawnsAlone DEF At
    <3>2. \A d \in Cmds : ~(Starting(d) /\ At(d, "clean"))
      BY <2>4 DEF Tracking, OneStart, At
    <3>3. side' = side
      BY <3>1, <3>2, SideChange
    <3> QED
      BY <1>1, <2>1, <2>4, <3>3 DEF StartCleans, At
  <2> QED
    BY <2>1, <2>3, <2>4
<1>6. ASSUME NEW r \in Runs, worker'[r].pc # "none"
      PROVE  side'[worker'[r].path].run = NoRun \/ side'[worker'[r].path].run >= r
  <2>1. CASE Spawned(r)
    <3> DEFINE p == worker[r].path
    <3>1. p \in Paths /\ worker'[r].path = p /\ (side[p].run = NoRun \/ side[p].run >= r)
      BY <1>1, <1>3, <2>1
    <3> HIDE DEF p
    <3>2. ASSUME NEW q \in Live PROVE q \in Nat /\ q >= r
      BY <1>0, <1>2, <2>1 DEF Live
    <3>3. \/ side'[p].run = side[p].run \/ side'[p].run = NoRun
          \/ \E q \in Live : side'[p].run = q
      BY <3>1, SideAt
    <3> QED
      BY <3>1, <3>2, <3>3
  <2>2. CASE ~Spawned(r)
    <3>1. PICK c \in Cmds : StartSpawns(c) /\ worker'[r].path = cmd[c].path
      BY <1>6, <2>2, Evolves DEF Base
    <3>2. At(c, "spawn") /\ side' = side
      BY <3>1 DEF StartSpawns
    <3> QED
      BY <1>1, <3>1, <3>2
  <2> QED
    BY <2>1, <2>2
<1>7. ASSUME starts' \in Runs, worker'[starts'].pc \in {"write", "last", "done"}
      PROVE  /\ worker'[starts'].pc = "write" => side'[worker'[starts'].path].run = starts'
             /\ worker'[starts'].pc \in Told => side'[worker'[starts'].path].whole
  <2>1. Spawned(starts')
    BY <1>7, Evolves DEF Base
  <2>2. starts' = starts
    <3>1. \A c \in Cmds, p \in Paths : StartChecks(c, p) => starts' = starts + 1
      BY DEF StartChecks
    <3>2. starts \in Nat /\ starts' <= starts
      BY <1>3, <1>7, <2>1, TypeParts, Constants DEF Base
    <3> QED
      BY <3>1, <3>2, StartsGrow DEF Base
  <2> DEFINE r == starts  p == worker[starts].path
  <2>3. r \in Runs /\ Spawned(r) /\ p \in Paths /\ worker'[r].path = p
    BY <1>3, <1>7, <2>1, <2>2
  <2>4. \A c \in Cmds : ~(Starting(c) /\ At(c, "clean"))
    BY <2>3 DEF Tracking, LastStarted, Base, StartsAreNumbered, At
  <2>5. \A q \in Live : q = r
    <3>1. ASSUME NEW q \in Live PROVE q = r
      <4>1. q \in Runs /\ Spawned(q)
        BY DEF Live, Spawned
      <4>2. q <= r /\ r <= q
        BY <1>2, <1>3, <2>3, <4>1
      <4> QED
        BY <1>0, <2>3, <4>1, <4>2
    <3> QED
      BY <3>1
  <2>6. \/ side' = side
        \/ WorkerOpensSidecar(r) /\ side' = [side EXCEPT ![p] = [run |-> r, whole |-> FALSE]]
        \/ /\ WorkerWritesSidecar(r) /\ side[p].run # NoRun
           /\ side' = [side EXCEPT ![p] = [run |-> r, whole |-> TRUE]]
    BY <2>4, <2>5, SideChange
  <2>7. /\ worker'[r].pc \in Told => worker[r].pc \in Told \/ WorkerWritesSidecar(r)
        /\ worker'[r].pc = "write" => worker[r].pc = "write" \/ WorkerOpensSidecar(r)
    BY <2>3, Evolves DEF Base
  <2>8. /\ WorkerOpensSidecar(r) => worker'[r].pc = "write" /\ worker[r].pc = "open"
                                    /\ side'[p].run = r
        /\ WorkerWritesSidecar(r) => worker'[r].pc \in Told /\ worker[r].pc = "write"
    <3>1. worker \in [Runs -> WorkerTypes]
      BY TypeParts DEF Base
    <3>2. CASE WorkerOpensSidecar(r)
      <4>1. /\ worker' = [worker EXCEPT ![r] = Row(r, "write", worker[r].rec)]
            /\ worker[r].rec \in Copied
        BY <2>3, <3>2, MovesRow DEF WorkerOpensSidecar, Base
      <4>2. Row(r, "write", worker[r].rec).pc = "write"
        BY <2>3, <4>1, RowFields DEF Base
      <4>3. side'[p].run = r /\ worker[r].pc = "open"
        BY <1>0, <2>3, <3>2 DEF WorkerOpensSidecar, WorkerAt
      <4> HIDE DEF r
      <4> QED
        BY <2>3, <3>1, <4>1, <4>2, <4>3 DEF WorkerWritesSidecar, WorkerAt
    <3>3. CASE WorkerWritesSidecar(r)
      <4>0. PICK place \in Told : worker' = [worker EXCEPT ![r].pc = place]
        BY <3>3 DEF WorkerWritesSidecar, Told
      <4>1. /\ worker' = [worker EXCEPT ![r] = Row(r, place, worker[r].rec)]
            /\ worker[r].rec \in Copied
        BY <2>3, <4>0, MovesRow DEF Base
      <4>2. Row(r, place, worker[r].rec).pc = place
        BY <2>3, <4>1, RowFields DEF Base, Told
      <4>3. worker[r].pc = "write"
        BY <3>3 DEF WorkerWritesSidecar, WorkerAt
      <4> HIDE DEF r
      <4> QED
        BY <2>3, <3>1, <4>1, <4>2, <4>3 DEF WorkerOpensSidecar, WorkerAt, Told
    <3> QED
      BY <3>2, <3>3
  <2>9. /\ worker[r].pc = "write" => side[p].run = r
        /\ worker[r].pc \in Told => side[p].whole
    BY <1>1, <2>3 DEF WorkerAt
  <2>10. r # NoRun
    BY <1>0, <2>3
  <2>11. worker'[r].pc \in Told /\ WorkerWritesSidecar(r) => side'[p].whole
    <3>1. SUFFICES ASSUME WorkerWritesSidecar(r) PROVE side'[p].whole
      OBVIOUS
    <3>2. side' = [side EXCEPT ![p] = [run |-> r, whole |-> TRUE]]
      BY <2>8, <2>9, <2>10, <3>1 DEF WorkerWritesSidecar
    <3> QED
      BY <1>0, <2>3, <3>2
  <2> HIDE DEF r, p
  <2>12. worker'[r].pc = "write" => side'[p].run = r
    BY <1>0, <2>3, <2>6, <2>7, <2>8, <2>9 DEF Told
  <2>13. worker'[r].pc \in Told => side'[p].whole
    BY <1>0, <2>3, <2>6, <2>7, <2>8, <2>9, <2>11 DEF Told
  <2> QED
    BY <2>2, <2>3, <2>12, <2>13 DEF r
<1> QED
  BY <1>4, <1>5, <1>6, <1>7 DEF SideIsOwned, Spawned, At, WorkerAt, Told

LEMMA TrackInit == Init => TrackInv
<1> SUFFICES ASSUME Init PROVE Tracking
  BY DEF TrackInv
<1> USE DEF Init
<1>1. /\ \A r \in Runs : worker[r].pc = "none"
      /\ \A c \in Cmds : cmd[c].pc = "idle"
  BY DEF NoWorker, Idle
<1>2. OneStart /\ LiveIsNamed /\ LastStarted
  BY <1>1 DEF OneStart, LiveIsNamed, LastStarted, Starting, Live, Spawned
<1>3. SideIsOwned
  BY <1>1 DEF SideIsOwned, Spawned, At
<1> QED
  BY <1>2, <1>3 DEF Tracking

LEMMA TrackStep ==
  ASSUME Base, TrackInv, [Next]_vars
  PROVE  TrackInv'
<1>1. SUFFICES ASSUME ~untracked' PROVE Tracking'
  BY DEF TrackInv
<1>2. Tracking
  BY <1>1, LostStays, TypeParts DEF TrackInv, Base
<1> QED
  BY <1>1, <1>2, OneStartStep, LiveStep, LastStep, SideStep DEF Tracking

THEOREM TrackInvariance == Spec => []TrackInv
<1>1. Base /\ TrackInv /\ [Next]_vars => TrackInv'
  BY TrackStep
<1> QED
  BY <1>1, TrackInit, BaseInvariance, PTL DEF Spec

\* Two workers of a session are alive only when somebody has stored a stale
\* copy of the record, or a starter was cut off (execution.py:681-695).
THEOREM OneWorker == Spec => []SecondNeedsLostPid
<1>1. Base /\ TrackInv => SecondNeedsLostPid
  <2> SUFFICES ASSUME Base, Tracking, NEW r \in Live, NEW s \in Live PROVE r = s
    BY DEF TrackInv, SecondNeedsLostPid
  <2>1. r \in Runs /\ s \in Runs /\ Spawned(r) /\ Spawned(s)
    BY DEF Live, Spawned
  <2>2. r <= s /\ s <= r
    BY <2>1 DEF Tracking, LastStarted
  <2> QED
    BY <2>1, <2>2, Constants DEF Runs
<1> QED
  BY <1>1, BaseInvariance, TrackInvariance, PTL

-------------------------------------------------------------------------------
(* What a poll finds.                                                      *)

\* The worker that a reader has read of, after a step that is not the reader's.
LEMMA ReadersWorker ==
  ASSUME Base, [Next]_vars
  PROVE  /\ reader.pid \notin Live => reader.pid \notin Live'
         /\ reader.pid \in Runs =>
              /\ Spawned(reader.pid) /\ worker'[reader.pid].path = worker[reader.pid].path
              /\ reader.pid <= starts
              /\ reader.pid \notin Live /\ worker'[reader.pid].pc = "done" =>
                   worker[reader.pid].pc = "done"
<1>1. CASE reader.pid \notin Runs
  BY <1>1 DEF Live
<1>2. CASE reader.pid \in Runs
  <2>1. Spawned(reader.pid)
    BY <1>2 DEF Base, CopiesNameSpawned, Copy
  <2>2. WorkerWritesSidecar(reader.pid) => reader.pid \in Live
    BY <1>2 DEF WorkerWritesSidecar, WorkerAt, Live
  <2> QED
    BY <1>2, <2>1, <2>2, Evolves DEF Base, StartsAreNumbered, Told, Live
<1> QED
  BY <1>1, <1>2

LEMMA PollInit == Init => PollInv
<1> SUFFICES ASSUME Init PROVE PollInv
  OBVIOUS
<1>1. reader.pid = NoRun /\ ~reader.ended
  BY DEF Init, NoReader
<1> QED
  BY <1>1, Constants DEF PollInv

LEMMA PollOther ==
  ASSUME Base, PollInv, [Next]_vars, UNCHANGED reader
  PROVE  PollInv'
<1>1. reader.ended => reader.pid \notin Live /\ reader.pid \notin Live'
  BY ReadersWorker DEF PollInv
<1>2. ASSUME ~untracked', reader.pid \in Runs
      PROVE  /\ ReaderAt("finished") /\ worker'[reader.pid].path = reader.path =>
                  reader.verdict >= reader.pid
             /\ reader.pc \in {"pid", "terminated"} /\ reader.ended /\ reader.pid = starts' =>
                  worker'[reader.pid].pc # "done"
  <2>1. ~untracked
    BY <1>2, LostStays, TypeParts DEF Base
  <2>2. reader.pid = starts' => reader.pid = starts
    <3>1. starts \in Nat /\ starts' \in Nat /\ starts <= starts' /\ reader.pid \in Nat
      BY <1>2, StartsGrow, TypeParts, Constants DEF Base, Runs
    <3> QED
      BY <1>2, <3>1, ReadersWorker
  <2> QED
    BY <1>1, <1>2, <2>1, <2>2, ReadersWorker DEF PollInv
<1> QED
  BY <1>1, <1>2 DEF PollInv, ReaderAt

LEMMA PollReader ==
  ASSUME Base, TrackInv, PollInv, Reader
  PROVE  PollInv'
<1>0. /\ UNCHANGED <<rec, untracked, log, side, worker, cmd, keeper, starts>> /\ Live' = Live
      /\ rec \in Copied /\ reader \in ReaderTypes /\ NoRun \notin Live
  BY ReaderSteps, TypeParts, Constants DEF Base, Live
<1>1. CASE \E place \in {"content", "wait"} : Takes(place)
  <2>1. reader'.pc \in {"content", "wait"} /\ (reader'.ended => reader'.pid \notin Live)
    BY <1>1, Zenon DEF Takes, PidAlive
  <2> QED
    BY <1>0, <2>1 DEF PollInv, ReaderAt
<1>2. CASE Drops
  BY <1>0, <1>2, Constants DEF Drops, PollInv
<1>3. CASE Holds /\ reader'.pc \notin {"finished", "pid", "terminated"}
  BY <1>0, <1>3 DEF Holds, PollInv, ReaderAt
<1>4. CASE /\ Holds /\ ReaderAt("sidecar") /\ side[reader.path].whole
           /\ reader'.pc = "finished" /\ reader'.verdict = side[reader.path].run
  <2>1. ASSUME ~untracked, reader.pid \in Runs, worker[reader.pid].path = reader.path
        PROVE  side[reader.path].run >= reader.pid
    <3>1. SideIsOwned
      BY <2>1 DEF TrackInv, Tracking
    <3>2. Spawned(reader.pid) /\ reader.path \in Paths
      BY <1>4, <2>1 DEF Base, CopiesNameSpawned, Copy, ReaderHasLog, ReaderAt
    <3>3. side[reader.path].run # NoRun
      BY <1>4, <3>1, <3>2, Constants DEF SideIsOwned
    <3> QED
      BY <2>1, <3>1, <3>2, <3>3 DEF SideIsOwned
  <2> QED
    BY <1>0, <1>4, <2>1 DEF Holds, PollInv, ReaderAt
<1>5. CASE Holds /\ ReaderAt("sidecar") /\ ~side[reader.path].whole /\ reader'.pc = "pid"
  <2>1. ASSUME ~untracked, reader.pid \in Runs, reader.pid = starts
        PROVE  worker[reader.pid].pc # "done"
    <3>1. SideIsOwned
      BY <2>1 DEF TrackInv, Tracking
    <3>2. Spawned(starts) /\ reader.path = worker[starts].path
      BY <2>1 DEF Base, CopiesNameSpawned, Copy
    <3> QED
      BY <1>5, <2>1, <3>1, <3>2 DEF SideIsOwned, Told
  <2> QED
    BY <1>0, <1>5, <2>1 DEF Holds, PollInv, ReaderAt
<1>6. CASE Holds /\ ReaderAt("pid") /\ reader'.pc = "terminated"
  BY <1>0, <1>6 DEF Holds, PollInv, ReaderAt
<1> QED
  BY <1>1, <1>2, <1>3, <1>4, <1>5, <1>6, ReaderCases DEF Base

\* What log --json says of a worker is its own, unless a pid was lost before: a
\* finished verdict is not an earlier run's, and a worker that wrote its verdict
\* is not reported as terminated (execution.py:759-777, utility.py:163-197).
THEOREM PollTellsTheTruth == Spec => []PollIsTrue
<1>1. Base /\ TrackInv /\ PollInv /\ [Next]_vars => PollInv'
  BY PollOther, PollReader, ReaderOrOther DEF Base
<1>2. PollInv => PollIsTrue
  BY DEF PollInv, PollIsTrue, ReaderAt
<1> QED
  BY <1>1, <1>2, PollInit, BaseInvariance, TrackInvariance, PTL DEF Spec

-------------------------------------------------------------------------------
(* What log -f has read.                                                   *)

LEMMA FollowInit == Init => FollowInv
BY DEF Init, NoReader, FollowInv, Following, ReaderAt

\* What a step does to a log: another run may take it, or its own run, which is
\* alive, adds to it.
LEMMA LogAt ==
  ASSUME Base, [Next]_vars, NEW p \in Paths
  PROVE  \/ log'[p] = log[p]
         \/ \E c \in Cmds : /\ StartSpawns(c) /\ log'[p].run = cmd[c].run
                            /\ cmd[c].run \in Runs /\ ~Spawned(cmd[c].run)
         \/ log[p].run \in Live /\ log'[p].run = log[p].run /\ log[p].len <= log'[p].len
<1>0. log \in [Paths -> [run : 0..MaxStarts, len : 0..MaxChunks]]
  BY TypeParts DEF Base
<1>1. CASE UNCHANGED log
  BY <1>1
<1>2. CASE \E c \in Cmds : StartSpawns(c)
  <2>1. PICK c \in Cmds : StartSpawns(c)
    BY <1>2
  <2>2. log' = [log EXCEPT ![cmd[c].path] = [run |-> cmd[c].run, len |-> 0]]
    BY <2>1 DEF StartSpawns
  <2>3. cmd[c].run \in Runs /\ ~Spawned(cmd[c].run)
    BY <2>1, SpawnEvolves DEF Base
  <2>4. log'[p] = log[p] \/ log'[p].run = cmd[c].run
    BY <1>0, <2>2
  <2> QED
    BY <2>1, <2>3, <2>4
<1>3. CASE \E r \in Runs : WorkerPrints(r)
  <2>1. PICK r \in Runs : WorkerPrints(r)
    BY <1>3
  <2> DEFINE o == worker[r].path
  <2>2. /\ r \in Live /\ log[o].run = r
        /\ log' = [log EXCEPT ![o].len = @ + 1]
    BY <2>1 DEF WorkerPrints, WorkerAt, Live
  <2> HIDE DEF o
  <2>3. log'[p] = log[p] \/ (p = o /\ log'[p].run = log[p].run /\ log'[p].len = log[p].len + 1)
    BY <1>0, <2>2
  <2>4. log[p].len \in Nat
    BY <1>0, Constants
  <2> QED
    BY <2>2, <2>3, <2>4
<1> QED
  BY <1>1, <1>2, <1>3, LogCases

LEMMA FollowOther ==
  ASSUME Base, FollowInv, [Next]_vars, UNCHANGED reader
  PROVE  FollowInv'
<1>1. SUFFICES ASSUME reader.pc \in Following
      PROVE  /\ log'[reader.path].run # NoRun
             /\ log'[reader.path].run = reader.pid =>
                  /\ reader.off <= log'[reader.path].len
                  /\ reader.pc \in {"last", "followed"} => reader.pid \notin Live'
                  /\ reader.pc = "followed" => reader.off = log'[reader.path].len
  BY DEF FollowInv, ReaderAt
<1> DEFINE p == reader.path
<1>2. p \in Paths
  BY <1>1 DEF Base, ReaderHasLog
<1>3. /\ log[p].run # NoRun
      /\ log[p].run = reader.pid =>
           /\ reader.off <= log[p].len
           /\ reader.pc \in {"last", "followed"} => reader.pid \notin Live
           /\ reader.pc = "followed" => reader.off = log[p].len
  BY <1>1 DEF FollowInv, ReaderAt
<1>4. reader.off \in Nat /\ log[p].len \in Nat /\ log'[p].len \in Nat
  <2>1. log' \in [Paths -> [run : 0..MaxStarts, len : 0..MaxChunks]]
    BY LogStep
  <2> QED
    BY <1>2, <2>1, TypeParts, Constants DEF Base, ReaderTypes
<1> HIDE DEF p
<1>5. CASE log'[p] = log[p]
  BY <1>3, <1>5, ReadersWorker DEF p
<1>6. CASE \E c \in Cmds : StartSpawns(c) /\ log'[p].run = cmd[c].run
                           /\ cmd[c].run \in Runs /\ ~Spawned(cmd[c].run)
  <2>1. log'[p].run \in Runs /\ ~Spawned(log'[p].run)
    BY <1>6
  <2> QED
    BY <2>1, ReadersWorker, Constants DEF p
<1>7. CASE log[p].run \in Live /\ log'[p].run = log[p].run /\ log[p].len <= log'[p].len
  BY <1>3, <1>4, <1>7, ReadersWorker DEF p
<1> QED
  BY <1>2, <1>5, <1>6, <1>7, LogAt DEF p

LEMMA FollowReader ==
  ASSUME Base, FollowInv, Reader
  PROVE  FollowInv'
<1>0. /\ UNCHANGED <<rec, untracked, log, side, worker, cmd, keeper, starts>> /\ Live' = Live
      /\ log \in [Paths -> [run : 0..MaxStarts, len : 0..MaxChunks]] /\ reader \in ReaderTypes
  BY ReaderSteps, TypeParts DEF Base, Live
<1>1. CASE reader'.pc \notin Following /\ (reader'.pc = "wait" => reader'.off = 0)
  BY <1>0, <1>1 DEF FollowInv, Following, ReaderAt
<1>2. CASE /\ Holds /\ ReaderAt("wait") /\ reader'.pc = "read"
           /\ log[reader.path].run # NoRun /\ reader'.off = reader.off
  <2>1. reader.path \in Paths /\ reader.off = 0
    BY <1>2 DEF Base, ReaderHasLog, ReaderAt, FollowInv
  <2>2. 0 <= log[reader.path].len
    BY <1>0, <2>1, Constants
  <2> QED
    BY <1>0, <1>2, <2>1, <2>2 DEF Holds, FollowInv, ReaderAt
<1>3. ASSUME ReaderAt("read") \/ ReaderAt("check") \/ ReaderAt("last")
      PROVE  /\ log[reader.path].run # NoRun
             /\ log[reader.path].run = reader.pid =>
                  /\ reader.off <= log[reader.path].len
                  /\ ReadsOn = log[reader.path].len
                  /\ ReaderAt("last") => reader.pid \notin Live
  <2>1. reader.pc \in Following /\ reader.path \in Paths
    BY <1>3 DEF ReaderAt, Following, Base, ReaderHasLog
  <2>2. reader.off \in Nat /\ log[reader.path].len \in Nat
    BY <1>0, <2>1, Constants DEF ReaderTypes
  <2> QED
    BY <2>1, <2>2 DEF FollowInv, ReadsOn, ReaderAt
<1>4. CASE Holds /\ ReaderAt("read") /\ reader'.pc \in {"read", "check"} /\ reader'.off = ReadsOn
  <2>1. reader.path \in Paths
    BY <1>4 DEF ReaderAt, Following, Base, ReaderHasLog
  <2>2. log[reader.path].len \in Nat
    BY <1>0, <2>1, Constants
  <2> QED
    BY <1>0, <1>3, <1>4, <2>2 DEF Holds, FollowInv, ReaderAt
<1>5. CASE /\ Holds /\ ReaderAt("check") /\ reader'.off = reader.off
           /\ \/ reader'.pc = "read"
              \/ reader'.pc = "last" /\ ~PidAlive(reader.pid)
  BY <1>0, <1>3, <1>5 DEF Holds, FollowInv, ReaderAt, PidAlive
<1>6. CASE Holds /\ ReaderAt("last") /\ reader'.pc = "followed" /\ reader'.off = ReadsOn
  <2>1. reader.path \in Paths
    BY <1>6 DEF ReaderAt, Following, Base, ReaderHasLog
  <2>2. log[reader.path].len \in Nat
    BY <1>0, <2>1, Constants
  <2> QED
    BY <1>0, <1>3, <1>6, <2>2 DEF Holds, FollowInv, ReaderAt
<1>7. ASSUME NEW place \in {"content", "wait"}, Takes(place)
      PROVE  reader'.pc \notin Following /\ (reader'.pc = "wait" => reader'.off = 0)
  BY <1>7 DEF Takes, Following
<1>8. Drops => reader'.pc \notin Following /\ reader'.pc # "wait"
  BY DEF Drops, Following
<1>9. reader'.pc \in {"sidecar", "finished", "pid", "terminated"} =>
        reader'.pc \notin Following /\ reader'.pc # "wait"
  BY DEF Following
<1> QED
  BY <1>1, <1>2, <1>4, <1>5, <1>6, <1>7, <1>8, <1>9, ReaderCases DEF Base

\* log -f ends with everything its worker wrote, unless another run has
\* truncated the log (utility.py:70-84).
THEOREM FollowReadsAll == Spec => []FollowIsComplete
<1>1. Base /\ FollowInv /\ [Next]_vars => FollowInv'
  BY FollowOther, FollowReader, ReaderOrOther DEF Base
<1>2. FollowInv => FollowIsComplete
  BY DEF FollowInv, FollowIsComplete, Following, ReaderAt
<1> QED
  BY <1>1, <1>2, FollowInit, BaseInvariance, PTL DEF Spec

\* Every variable keeps its type, whoever is killed and whatever is stored late.
THEOREM TypeCorrect == Spec => []TypeOK
<1>1. Base => TypeOK
  BY DEF Base
<1> QED
  BY <1>1, BaseInvariance, PTL
=============================================================================
