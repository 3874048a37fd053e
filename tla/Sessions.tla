------------------------------ MODULE Sessions ------------------------------
(***************************************************************************)
(* Named sessions: the store sessions.json (state.py), the commands that   *)
(* assign, record, use, prune and stop a VM (commands/session.py,          *)
(* adopt.py, run.py, execution.py, common.py), and the detached keep-alive *)
(* daemon that new, run and adopt spawn.                                   *)
(*                                                                         *)
(* Every store operation is one action: it holds the store's lock.  A      *)
(* command or daemon that reads a record and stores it again does so in    *)
(* two, and others run in between.  A write truncates the file first, and  *)
(* a store that does not parse reads as empty.                             *)
(***************************************************************************)
EXTENDS Naturals

CONSTANTS Cmds,       \* the command line's processes, each running commands in turn
          Daemons,    \* the keep-alive daemons that can be spawned
          Names,      \* session names
          Endpoints,  \* the VMs the backend can assign
          None        \* no record, no process, no endpoint

\* What matters of a SessionState: its VM, and the pid of its daemon.
Records == [ep : Endpoints, pid : Daemons \cup {None}]

ASSUME NoneAssumption == None \notin Daemons \cup Names \cup Endpoints \cup Records

EmptyStore == [n \in Names |-> None]
Fresh(e) == [ep |-> e, pid |-> None]

\* A command: where it is, whether it is a run or an adopt, the name it works on, the record it
\* holds, the record prune_session read, and what sync_sessions has to prune.
Idle == [pc |-> "idle", op |-> "none", name |-> None, rec |-> None, seen |-> None, todo |-> {}]
NoDaemon == [pc |-> "free", ep |-> None, name |-> None, rec |-> None, bad |-> 0]

VARIABLES
  store,   \* sessions.json: the record of each name
  vm,      \* the backend: "free", "up" or "gone"
  cmd,
  daemon,  \* its place, endpoint and name, the record it read, its 4xx in a row
  astray,  \* VMs of an assign that failed, of the unassign after a scope error, of a
           \* preflight that broke, or of a command that died before it recorded them
  lost     \* VMs that are up and lost their record

vars == <<store, vm, cmd, daemon, astray, lost>>

Init ==
  /\ store = EmptyStore
  /\ vm = [e \in Endpoints |-> "free"]
  /\ cmd = [c \in Cmds |-> Idle]
  /\ daemon = [d \in Daemons |-> NoDaemon]
  /\ astray = {} /\ lost = {}

At(c, place) == cmd[c].pc = place
Goes(c, place) == cmd' = [cmd EXCEPT ![c].pc = place]
Begins(c, what, n, r, place) ==
  cmd' = [cmd EXCEPT ![c] = [Idle EXCEPT !.pc = place, !.op = what, !.name = n, !.rec = r]]
Ends(c) == cmd' = [cmd EXCEPT ![c] = Idle]

Add(n, r) == store' = [store EXCEPT ![n] = r]
Remove(n) == store' = [store EXCEPT ![n] = None]
AddsOwn(c) == Add(cmd[c].name, cmd[c].rec)

\* Endpoints are all alike: the backend takes the first free one.
NextVm == CHOOSE e \in Endpoints : vm[e] = "free"
Stored(n, e) == store[n] # None /\ store[n].ep = e
Up(e) == vm[e] = "up"
GivesUp(e) == vm' = [vm EXCEPT ![e] = "gone"] /\ astray' = astray \ {e}
DaemonEnds(d) == daemon' = [daemon EXCEPT ![d] = [NoDaemon EXCEPT !.pc = "dead"]]
Alive(d) == daemon[d].pc \in {"get", "ping", "add"}

\* SIGTERM ends a daemon wherever it is; in the middle of its own write it
\* leaves a truncated store.
Kill(p) ==
  IF p = None \/ (p # None /\ ~Alive(p))
  THEN UNCHANGED <<store, daemon>>
  ELSE /\ DaemonEnds(p)
       /\ \/ UNCHANGED store
          \/ daemon[p].pc = "add" /\ store' = EmptyStore

PidOf(r) == IF r = None THEN None ELSE r.pid

----------------------------------------------------------------------------
(* new, and the first half of run *)

\* With a keep-alive, without one, or with the reply lost.
Granted(c, n, e, what) ==
  /\ At(c, "idle") /\ e \in Endpoints /\ vm[e] = "free"
  /\ vm' = [vm EXCEPT ![e] = "up"]
  /\ \/ Begins(c, what, n, Fresh(e), "preflight") /\ UNCHANGED astray
     \/ Begins(c, what, n, Fresh(e), "addlast") /\ UNCHANGED astray
     \/ astray' = astray \cup {e} /\ UNCHANGED cmd
  /\ UNCHANGED <<store, daemon>>

NewAssigns(c, n, e) == Granted(c, n, e, "none")
RunAssigns(c, n, e) == Granted(c, n, e, "run")

\* Any answer but a scope error goes on, and so does a read timeout.
PreflightPasses(c) ==
  /\ At(c, "preflight") /\ Goes(c, "add")
  /\ UNCHANGED <<store, vm, daemon, astray>>

\* A scope error: the VM is given back, whatever comes of it.
ScopeMissing(c) ==
  /\ At(c, "preflight") /\ Ends(c)
  /\ \/ GivesUp(cmd[c].rec.ep)
     \/ astray' = astray \cup {cmd[c].rec.ep} /\ UNCHANGED vm
  /\ UNCHANGED <<store, daemon>>

NewPreflightFails(c) == cmd[c].op = "none" /\ ScopeMissing(c)
RunPreflightFails(c) == cmd[c].op = "run" /\ ScopeMissing(c)

\* Without a connection, or when the connect times out, there is no answer, and
\* nothing catches that: the VM stays, in no record.
PreflightBreaks(c) ==
  /\ At(c, "preflight") /\ cmd[c].op # "adopt" /\ Ends(c)
  /\ astray' = astray \cup {cmd[c].rec.ep}
  /\ UNCHANGED <<store, vm, daemon>>

\* adopt does not own the VM.
AdoptPreflightFails(c) ==
  /\ At(c, "preflight") /\ cmd[c].op = "adopt" /\ Ends(c)
  /\ UNCHANGED <<store, vm, daemon, astray>>

\* Only the store after the spawn.
AddsLater(c) ==
  /\ At(c, "add") /\ Goes(c, "spawn")
  /\ UNCHANGED <<store, vm, daemon, astray>>

\* Recorded before the daemon starts, so that the daemon finds the record.
Adds(c) ==
  /\ At(c, "add") /\ AddsOwn(c) /\ Goes(c, "spawn")
  /\ UNCHANGED <<vm, daemon, astray>>

Spawns(c, d) ==
  /\ At(c, "spawn") /\ daemon[d].pc = "free"
  /\ cmd' = [cmd EXCEPT ![c] = [@ EXCEPT !.pc = "addlast", !.rec.pid = d]]
  /\ daemon' = [daemon EXCEPT ![d] = [@ EXCEPT !.pc = "get", !.ep = cmd[c].rec.ep, !.name = cmd[c].name]]
  /\ UNCHANGED <<store, vm, astray>>

\* Without a daemon nothing is recorded.
AddsPidOnly(c) ==
  /\ At(c, "addlast")
  /\ IF cmd[c].rec.pid # None THEN AddsOwn(c) ELSE UNCHANGED store
  /\ IF cmd[c].op = "run" THEN Goes(c, "use") ELSE Ends(c)
  /\ UNCHANGED <<vm, daemon, astray>>

AddsLast(c) ==
  /\ At(c, "addlast") /\ AddsOwn(c)
  /\ IF cmd[c].op = "run" THEN Goes(c, "use") ELSE Ends(c)
  /\ UNCHANGED <<vm, daemon, astray>>

----------------------------------------------------------------------------
(* adopt: one endpoint, under one name *)

\* Nothing to do when another name has the endpoint; refused when the name has
\* another endpoint.
AdoptReads(c, n, e) ==
  /\ At(c, "idle") /\ (Up(e) \/ Stored(n, e))
  /\ \/ Stored(n, e) /\ Begins(c, "adopt", n, store[n], "adoptask")
     \/ /\ store[n] = None /\ \A m \in Names : ~Stored(m, e)
        /\ Begins(c, "adopt", n, Fresh(e), "adoptask")
  /\ UNCHANGED <<store, vm, daemon, astray>>

\* A recorded pid, alive or not, is kept: no second daemon.
AdoptAsks(c) ==
  /\ At(c, "adoptask")
  /\ LET r == cmd[c].rec
     IN \/ Up(r.ep) /\ r.pid = None /\ Goes(c, "preflight")
        \/ Up(r.ep) /\ Goes(c, "addlast")
        \/ Ends(c)                              \* gone, or the listing fails
  /\ UNCHANGED <<store, vm, daemon, astray>>

----------------------------------------------------------------------------
(* exec, repl, console, restart-kernel, a job's transport, and run's script: *)
(* a record read once and stored again at every event                       *)

UseReads(c, n) ==
  /\ At(c, "idle") /\ store[n] # None
  /\ Begins(c, "none", n, store[n], "use")
  /\ UNCHANGED <<store, vm, daemon, astray>>

UseStores(c) ==
  /\ At(c, "use") /\ AddsOwn(c)
  /\ UNCHANGED <<vm, cmd, daemon, astray>>

\* The last store clears `running`; only what never set it leaves it out.
UseEnds(c) ==
  /\ At(c, "use") /\ cmd[c].op # "run" /\ Ends(c)
  /\ AddsOwn(c) \/ UNCHANGED store
  /\ UNCHANGED <<vm, daemon, astray>>

\* The script is over: its VM goes, or --keep leaves it.
RunEnds(c) ==
  /\ At(c, "use") /\ cmd[c].op = "run" /\ AddsOwn(c)
  /\ Goes(c, "kill") \/ Ends(c)
  /\ UNCHANGED <<vm, daemon, astray>>

\* A 404 or a 401: prune_session, unconfirmed.
UseIsRefused(c) ==
  /\ At(c, "use")
  /\ LET s == store[cmd[c].name]
     IN cmd' = [cmd EXCEPT ![c].seen = s, ![c].pc = IF s = None THEN "drop" ELSE "ask"]
  /\ UNCHANGED <<store, vm, daemon, astray>>

\* run goes on to its teardown, unless it was told to --keep the VM.
AfterPrune(c) == Ends(c) \/ (cmd[c].op = "run" /\ Goes(c, "kill"))

\* The listing fails, or has the endpoint (and its new token is stored), or
\* confirms that the VM is gone.
PruneAsks(c) ==
  /\ At(c, "ask")
  /\ LET s == cmd[c].seen
     IN \/ Goes(c, "reread") /\ UNCHANGED <<store, daemon>>
        \/ Up(s.ep) /\ Add(cmd[c].name, s) /\ Goes(c, "reread") /\ UNCHANGED daemon
        \/ ~Up(s.ep) /\ Kill(s.pid) /\ Goes(c, "drop")
  /\ UNCHANGED <<vm, astray>>

Drops(c) ==
  /\ At(c, "drop") /\ Remove(cmd[c].name) /\ AfterPrune(c)
  /\ UNCHANGED <<vm, daemon, astray>>

\* Not pruned: `running` is cleared in what the store has by now.  exec does
\* not do this, it exits.
Rereads(c) ==
  /\ At(c, "reread")
  /\ LET s == store[cmd[c].name]
     IN \/ s # None /\ cmd' = [cmd EXCEPT ![c].rec = s, ![c].pc = "clear"]
        \/ s = None /\ AfterPrune(c)
        \/ cmd[c].op # "run" /\ Ends(c)
  /\ UNCHANGED <<store, vm, daemon, astray>>

Clears(c) ==
  /\ At(c, "clear") /\ AddsOwn(c) /\ AfterPrune(c)
  /\ UNCHANGED <<vm, daemon, astray>>

----------------------------------------------------------------------------
(* sessions and status: sync_sessions *)

\* The local store first, then the backend: a session recorded in between is
\* in neither.
SyncLists(c) ==
  /\ At(c, "idle") /\ store # EmptyStore
  /\ cmd' = [cmd EXCEPT ![c] = [Idle EXCEPT
        !.pc = "list",
        !.todo = {[name |-> n, ep |-> store[n].ep] : n \in {m \in Names : store[m] # None}}]]
  /\ UNCHANGED <<store, vm, daemon, astray>>

SyncAsks(c) ==
  /\ At(c, "list")
  /\ LET stale == {t \in cmd[c].todo : ~Up(t.ep)}
     IN \/ Ends(c)                              \* the listing fails, or all is well
        \/ /\ stale # {}
           /\ cmd' = [cmd EXCEPT ![c].todo = stale, ![c].pc = "prune"]
  /\ UNCHANGED <<store, vm, daemon, astray>>

\* prune_session, confirmed: by name, whatever the name has by now.
SyncPrunes(c, t) ==
  /\ At(c, "prune") /\ t \in cmd[c].todo
  /\ cmd' = [cmd EXCEPT ![c] = [@ EXCEPT !.name = t.name, !.rec = Fresh(t.ep),
                                         !.todo = cmd[c].todo \ {t}, !.pc = "syncdrop"]]
  /\ Kill(PidOf(store[t.name]))
  /\ UNCHANGED <<vm, astray>>

SyncDrops(c) ==
  /\ At(c, "syncdrop") /\ Remove(cmd[c].name)
  /\ IF cmd[c].todo = {} THEN Ends(c) ELSE Goes(c, "prune")
  /\ UNCHANGED <<vm, daemon, astray>>

----------------------------------------------------------------------------
(* stop, and run's teardown *)

StopReads(c, n) ==
  /\ At(c, "idle") /\ store[n] # None
  /\ Begins(c, "none", n, store[n], "kill")
  /\ UNCHANGED <<store, vm, daemon, astray>>

StopKills(c) ==
  /\ At(c, "kill") /\ Kill(cmd[c].rec.pid) /\ Goes(c, "unassign")
  /\ UNCHANGED <<vm, astray>>

StopUnassigns(c) ==
  /\ At(c, "unassign") /\ GivesUp(cmd[c].rec.ep) /\ Goes(c, "remove")
  /\ UNCHANGED <<store, daemon>>

\* The record goes whatever unassign said.
StopForgets(c) ==
  /\ At(c, "unassign") /\ Goes(c, "remove")
  /\ GivesUp(cmd[c].rec.ep) \/ UNCHANGED <<vm, astray>>
  /\ UNCHANGED <<store, daemon>>

\* It fails, with or without effect, and the record is kept.
StopFails(c) ==
  /\ At(c, "unassign") /\ Ends(c)
  /\ GivesUp(cmd[c].rec.ep) \/ UNCHANGED <<vm, astray>>
  /\ UNCHANGED <<store, daemon>>

StopRemoves(c) ==
  /\ At(c, "remove") /\ Remove(cmd[c].name) /\ Ends(c)
  /\ UNCHANGED <<vm, daemon, astray>>

\* What stop does, and run with its own copy of the record when it ends.
TearsDown(c) == StopKills(c) \/ StopUnassigns(c) \/ StopFails(c) \/ StopRemoves(c)

----------------------------------------------------------------------------
(* The keep-alive daemon *)

DaemonAt(d, place) == daemon[d].pc = place

DaemonGets(d) ==
  /\ DaemonAt(d, "get")
  /\ IF Stored(daemon[d].name, daemon[d].ep)
     THEN daemon' = [daemon EXCEPT ![d].pc = "ping", ![d].rec = store[daemon[d].name]]
     ELSE DaemonEnds(d)         \* session_not_found, endpoint_mismatch
  /\ UNCHANGED <<store, vm, cmd, astray>>

\* A read timeout counts as success: the front end has noted the activity.
PingAnswered(d) ==
  /\ DaemonAt(d, "ping") /\ Up(daemon[d].ep)
  /\ daemon' = [daemon EXCEPT ![d].bad = 0, ![d].pc = "add"]
  /\ UNCHANGED <<store, vm, cmd, astray>>

\* 404 for a VM that is gone; 401, 403, 429 for any.
PingRejected(d) ==
  /\ DaemonAt(d, "ping")
  /\ daemon' = [daemon EXCEPT ![d].bad = @ + 1, ![d].pc = "add"]
  /\ UNCHANGED <<store, vm, cmd, astray>>

\* Any other error neither counts nor resets the count.
PingFails(d) ==
  /\ DaemonAt(d, "ping")
  /\ daemon' = [daemon EXCEPT ![d].pc = "add"]
  /\ UNCHANGED <<store, vm, cmd, astray>>

\* The record goes back as it was read, whatever the ping said.
DaemonAdds(d) ==
  /\ DaemonAt(d, "add") /\ Add(daemon[d].name, daemon[d].rec)
  /\ IF daemon[d].bad = 2
     THEN DaemonEnds(d)           \* consecutive_4xx_errors
     ELSE daemon' = [daemon EXCEPT ![d].pc = "get", ![d].rec = None]
  /\ UNCHANGED <<vm, cmd, astray>>

\* After 24 hours.
DaemonExpires(d) ==
  /\ DaemonAt(d, "get") /\ DaemonEnds(d)
  /\ UNCHANGED <<store, vm, cmd, astray>>

----------------------------------------------------------------------------
(* The environment *)

\* The backend reclaims a VM, idle or not.
Reclaims(e) ==
  /\ Up(e) /\ GivesUp(e)
  /\ UNCHANGED <<store, cmd, daemon>>

\* The VM that dies with the command that assigned it and did not record it.
Unrecorded(c) ==
  IF cmd[c].pc \in {"preflight", "add", "addlast"} /\ cmd[c].op # "adopt"
  THEN {cmd[c].rec.ep} \ {e \in Endpoints : \E n \in Names : Stored(n, e)} ELSE {}

\* Killed, or interrupted where nothing catches it; its process runs no other
\* command.
Dies(c) ==
  /\ cmd[c].pc \notin {"idle", "dead"}
  /\ cmd' = [cmd EXCEPT ![c] = [Idle EXCEPT !.pc = "dead"]]
  /\ astray' = astray \cup Unrecorded(c)
  /\ UNCHANGED <<vm, daemon>>

DiesBetween(c) == Dies(c) /\ UNCHANGED store

\* Between the truncation and the end of its write.
CutOff(c) ==
  /\ cmd[c].pc \in {"add", "addlast", "use", "drop", "clear", "syncdrop", "remove"}
  /\ Dies(c) /\ store' = EmptyStore

Command(c) ==
  \/ \E n \in Names, e \in Endpoints : AdoptReads(c, n, e)
  \/ /\ \E e \in Endpoints : vm[e] = "free"
     /\ \E n \in Names : NewAssigns(c, n, NextVm) \/ RunAssigns(c, n, NextVm)
  \/ \E n \in Names : UseReads(c, n) \/ StopReads(c, n)
  \/ \E d \in Daemons : Spawns(c, d)
  \/ PreflightPasses(c) \/ PreflightBreaks(c) \/ NewPreflightFails(c) \/ RunPreflightFails(c)
  \/ Adds(c) \/ AddsLast(c)
  \/ AdoptAsks(c) \/ AdoptPreflightFails(c)
  \/ UseStores(c) \/ UseEnds(c) \/ RunEnds(c) \/ UseIsRefused(c)
  \/ PruneAsks(c) \/ Drops(c) \/ Rereads(c) \/ Clears(c)
  \/ SyncLists(c) \/ SyncAsks(c) \/ SyncDrops(c)
  \/ \E t \in cmd[c].todo : SyncPrunes(c, t)
  \/ TearsDown(c)
  \/ DiesBetween(c) \/ CutOff(c)

Daemon(d) == DaemonGets(d) \/ PingAnswered(d) \/ PingRejected(d) \/ PingFails(d)
             \/ DaemonAdds(d) \/ DaemonExpires(d)

Step ==
  \/ \E c \in Cmds : Command(c)
  \/ \E d \in Daemons : Daemon(d)
  \/ \E e \in Endpoints : Reclaims(e)

\* The VMs whose record a step took away.
Taken == {e \in Endpoints : vm'[e] = "up" /\ \E n \in Names :
             Stored(n, e) /\ (store'[n] = None \/ store'[n].ep # e)}
Tracked == lost' = {e \in lost \cup Taken : vm'[e] = "up"}

Next == Step /\ Tracked
Spec == Init /\ [][Next]_vars

----------------------------------------------------------------------------
Maybe(S) == S \cup {None}
Places == {"idle", "dead", "preflight", "add", "spawn", "addlast", "adoptask", "use", "ask", "drop",
           "reread", "clear", "list", "prune", "syncdrop", "kill", "unassign", "remove"}

CmdStates == [pc : Places, op : {"none", "run", "adopt"}, name : Maybe(Names),
              rec : Maybe(Records), seen : Maybe(Records),
              todo : SUBSET [name : Names, ep : Endpoints]]
DaemonStates == [pc : {"free", "get", "ping", "add", "dead"}, ep : Maybe(Endpoints),
                 name : Maybe(Names), rec : Maybe(Records), bad : 0..2]

TypeOK ==
  /\ store \in [Names -> Maybe(Records)]
  /\ vm \in [Endpoints -> {"free", "up", "gone"}]
  /\ cmd \in [Cmds -> CmdStates]
  /\ daemon \in [Daemons -> DaemonStates]
  /\ astray \subseteq Endpoints /\ lost \subseteq Endpoints

\* A command under way, or a daemon about to write, has another endpoint under
\* this name than the store.
Disputed(n) ==
  \/ \E c \in Cmds : cmd[c].name = n /\ ~Stored(n, cmd[c].rec.ep)
  \/ \E d \in Daemons : DaemonAt(d, "add") /\ daemon[d].name = n /\ ~Stored(n, daemon[d].ep)

\* A write is cut off: of a command that dies, or of a daemon that is killed.
Torn ==
  \/ \E c \in Cmds : ~At(c, "dead") /\ cmd'[c].pc = "dead"
  \/ \E d \in Daemons : DaemonAt(d, "add") /\ daemon'[d].pc = "dead" /\ store' = EmptyStore

\* The record of a VM that is up goes only when somebody is at work with
\* another VM under the same name, or when a write was cut off: no stop, no
\* pruning and no stale write of a daemon loses it otherwise
\* (session.py:741-768, common.py:258-320, session.py:859-877).
LosesWithReason ==
  \A n \in Names, e \in Endpoints \ lost :
    Stored(n, e) /\ ~Stored(n, e)' /\ Up(e)' => Disputed(n) \/ Torn
RecordOutlivesVm == [][LosesWithReason]_vars

\* A VM that is up is in the store, or a command is about to put it there, or
\* its record was lost as above, or its command died with it, failed in the
\* assign itself or in giving it back, or got no connection for its preflight
\* (session.py:399-402 says "never leak a billable assignment", and catches
\* only an answer): no other path of new, run, adopt, stop, prune or the daemon
\* forgets one (session.py:295-450, run.py:370-513).
NoVmForgotten ==
  \A e \in Endpoints : Up(e) =>
    \/ \E n \in Names : Stored(n, e)
    \/ \E c \in Cmds : /\ cmd[c].pc \in {"preflight", "add", "addlast"}
                       /\ cmd[c].op # "adopt" /\ cmd[c].rec.ep = e
    \/ e \in astray \cup lost

\* A daemon that looks for its record finds it under its name, with its VM, as
\* long as the VM is up and nobody took the record away: when it stops with
\* session_not_found or endpoint_mismatch, the VM is gone or had lost its record
\* before, and no daemon stops because it came before its record
\* (session.py:438-450, 859-867).
DaemonFindsRecord ==
  \A d \in Daemons :
    DaemonAt(d, "get") /\ Up(daemon[d].ep) =>
      Stored(daemon[d].name, daemon[d].ep) \/ daemon[d].ep \in lost
=============================================================================
