----------------------------- MODULE McpServer -----------------------------
(***************************************************************************)
(* mcp_server.py: the server over stdio that lets a client watch jobs.     *)
(*                                                                         *)
(* The server is one asyncio loop.  A subscription to job://<id> is a task *)
(* that polls the job's envelope; one more task polls the list of jobs.    *)
(* Requests are handled concurrently, a tool call stops the whole loop     *)
(* while it runs, and other processes change the records at any time.  A   *)
(* step is what runs between two awaits.                                   *)
(*                                                                         *)
(* The client follows docs/job/mcp.md: it lists the jobs, subscribes, and  *)
(* reads a job when its subscription is confirmed and at each notification.*)
(***************************************************************************)
EXTENDS Naturals, FiniteSets, Sequences

CONSTANTS
  Jobs,         \* job IDs
  Tasks,        \* asyncio tasks, reused once they have ended
  None,
  MaxRequests,  \* bound: subscribe, unsubscribe and tool requests
  MaxApplies    \* bound: how often a job is applied

ASSUME NoneAssumption == None \notin Tasks
ASSUME BoundAssumption == MaxRequests \in Nat /\ MaxApplies \in Nat

VARIABLES
  phase,       \* the record of each job, in the job store
  applies,     \* how often it was applied, the last included
  inbox,       \* requests the server has not begun
  waiting,     \* handlers that await the end of a task
  task,        \* the watch tasks
  table,       \* _tasks: the task of each subscribed URI
  busy,        \* a tool call is running
  lister,      \* where the job-list watch is
  known,       \* _known
  server,      \* "serving", "closing" or "down"
  connected,   \* the client is there
  sent,        \* requests sent
  last,        \* the client's last request on each job, and its fate
  view,        \* what the client knows of each job's last run
  unwatched,   \* history: jobs applied again when no watch was there to see it
  told,        \* resources/updated received for each job
  listed,      \* the last resources/list: whether there was one, its jobs
  hint,        \* list_changed came after it
  overlapped   \* the client sent a request before the reply to the one before

storeVars  == <<phase, applies>>
serverVars == <<inbox, waiting, task, table, busy, server>>
listVars   == <<lister, known>>
picture    == <<view, unwatched>>
clientVars == <<connected, sent, last, picture, told, listed, hint, overlapped>>
mcpVars == <<storeVars, serverVars, listVars, clientVars>>
-----------------------------------------------------------------------------
Phases == {"absent", "planned", "pending", "running", "done", "pruned"}
Present == {j \in Jobs : phase[j] \notin {"absent", "pruned"}}

HasEnvelope(j) == phase[j] \in {"pending", "running", "done"}

Ended == [job |-> None, pc |-> "ended", notified |-> FALSE, cancelled |-> FALSE]
Alive == {t \in Tasks : task[t].pc # "ended"}

\* A slot for the next task: nobody holds, or waits for, the old one.
Free ==
  {t \in Tasks \ Alive : (\A j \in Jobs : table[j] # t) /\ (\A w \in waiting : w.task # t)}

\* A request on the job has no reply yet.
Open(j) ==
  \/ \E i \in DOMAIN inbox : inbox[i].job = j
  \/ \E w \in waiting : w.job = j

McpInit ==
  /\ phase \in [Jobs -> {"absent", "pending"}] /\ applies = [j \in Jobs |-> 1]
  /\ inbox = <<>> /\ waiting = {} /\ busy = FALSE
  /\ task = [t \in Tasks |-> Ended] /\ table = [j \in Jobs |-> None]
  /\ lister = "off" /\ known = {}
  /\ server = "serving" /\ connected = TRUE /\ sent = 0
  /\ last = [j \in Jobs |-> "none"] /\ view = [j \in Jobs |-> "unknown"]
  /\ unwatched = {}
  /\ told = [j \in Jobs |-> 0] /\ listed = [asked |-> FALSE, jobs |-> {}] /\ hint = FALSE
  /\ overlapped = [j \in Jobs |-> FALSE]

-----------------------------------------------------------------------------
(***************************************************************************)
(* Other processes: job plan, job apply and its supervisor, jobs prune.    *)
(***************************************************************************)

Advances(j, from, to) ==
  /\ phase[j] \in from
  /\ phase' = [phase EXCEPT ![j] = to]
  /\ UNCHANGED <<applies, serverVars, listVars, clientVars>>

\* A task that will look at the record again.
Watched(j) ==
  \E t \in Alive : task[t].job = j /\ ~task[t].cancelled /\ task[t].pc # "senddone"

\* A job that got no VM has no endpoint: it may be applied again, from the
\* first phase on, when it is done or its apply has died before.
Reapplies(j) ==
  /\ phase[j] \in {"running", "done"} /\ applies[j] < MaxApplies
  /\ phase' = [phase EXCEPT ![j] = "pending"]
  /\ applies' = [applies EXCEPT ![j] = @ + 1]
  /\ view' = [view EXCEPT ![j] = IF @ = "done" THEN "open" ELSE @]
  /\ unwatched' = IF Watched(j) THEN unwatched ELSE unwatched \cup {j}
  /\ UNCHANGED <<serverVars, listVars>>
  /\ UNCHANGED <<connected, sent, last, told, listed, hint, overlapped>>

\* "running": the workload has left pending, by a launch or a failure before it.
StoreChanges(j) ==
  \/ Advances(j, {"absent"}, "planned")
  \/ Advances(j, {"planned"}, "pending")
  \/ Advances(j, {"pending"}, "running")
  \/ Advances(j, {"pending", "running"}, "done")
  \/ Advances(j, {"planned", "done"}, "pruned")
  \/ Reapplies(j)

-----------------------------------------------------------------------------
(***************************************************************************)
(* JobResourceSubscriptions.                                               *)
(***************************************************************************)

\* The loop runs: no tool call holds it.
Loop == ~busy /\ server = "serving"

\* Whether the transition out of pending is past already.
Left(j) == phase[j] = "running"

\* The new task starts at the next turn of the loop.
Creates(j, notified) ==
  \E t \in Free :
    /\ t = CHOOSE u \in Free : TRUE
    /\ task' = [task EXCEPT ![t] =
         [job |-> j, pc |-> "new", notified |-> notified, cancelled |-> FALSE]]
    /\ table' = [table EXCEPT ![j] = t]

\* pop, cancel, await.
Cancels(j) ==
  /\ task' = [task EXCEPT ![table[j]].cancelled = TRUE]
  /\ table' = [table EXCEPT ![j] = None]

Awaits(j, op, notified) ==
  waiting' = waiting \cup {[job |-> j, op |-> op, task |-> table[j], notified |-> notified]}

\* The client learns that its subscription was made, and reads the job.
Confirms(j) ==
  /\ view' = [view EXCEPT ![j] = "unknown"]
  /\ unwatched' = unwatched \ {j}

\* The job is done: no task, and no notification ever.
SubscribeDone(j) ==
  /\ phase[j] = "done"
  /\ Confirms(j)
  /\ UNCHANGED <<waiting, task, table, last>>

\* The envelope cannot be read: the request fails.
SubscribeFails(j) ==
  /\ HasEnvelope(j)
  /\ last' = [last EXCEPT ![j] = "refused"]
  /\ UNCHANGED <<waiting, task, table, picture>>

\* The envelope is read before the old task is awaited.
SubscribeWatches(j) ==
  /\ phase[j] # "done" /\ table[j] = None
  /\ Creates(j, Left(j))
  /\ Confirms(j)
  /\ UNCHANGED <<waiting, last>>

SubscribesAtOnce(j) ==
  \E t \in Free :
    /\ phase[j] # "done" /\ table[j] # None
    /\ t = CHOOSE u \in Free : TRUE
    /\ task' = [task EXCEPT ![table[j]].cancelled = TRUE,
         ![t] = [job |-> j, pc |-> "new", notified |-> Left(j), cancelled |-> FALSE]]
    /\ table' = [table EXCEPT ![j] = t]
    /\ Confirms(j)
    /\ UNCHANGED <<waiting, last>>

SubscribeRestarts(j) ==
  /\ phase[j] # "done" /\ table[j] # None
  /\ Cancels(j)
  /\ Awaits(j, "subscribe", Left(j))
  /\ UNCHANGED <<picture, last>>

Subscribe(j) ==
  \/ SubscribeDone(j) \/ SubscribeFails(j)
  \/ SubscribeWatches(j) \/ SubscribeRestarts(j)

Unsubscribe(j) ==
  \/ /\ table[j] = None
     /\ UNCHANGED <<waiting, task, table, picture, last>>
  \/ /\ table[j] # None
     /\ Cancels(j)
     /\ Awaits(j, "unsubscribe", FALSE)
     /\ UNCHANGED <<picture, last>>

\* Handlers begin in the order of their requests.
Serves ==
  /\ Loop /\ inbox # <<>>
  /\ inbox' = Tail(inbox)
  /\ IF Head(inbox).op = "subscribe"
     THEN Subscribe(Head(inbox).job) ELSE Unsubscribe(Head(inbox).job)
  /\ UNCHANGED <<busy, server, storeVars, listVars>>
  /\ UNCHANGED <<connected, sent, told, listed, hint, overlapped>>

\* The awaited task has ended: the handler goes on, and replies.
Resumes(w) ==
  /\ Loop /\ w \in waiting /\ task[w.task].pc = "ended"
  /\ waiting' = waiting \ {w}
  /\ IF w.op = "subscribe"
     THEN Creates(w.job, w.notified) /\ Confirms(w.job)
     ELSE UNCHANGED <<task, table, picture>>
  /\ UNCHANGED <<inbox, busy, server, storeVars, listVars>>
  /\ UNCHANGED <<connected, sent, last, told, listed, hint, overlapped>>

-----------------------------------------------------------------------------
(***************************************************************************)
(* _watch, one turn at a time.                                             *)
(***************************************************************************)

Turns(t) == ~busy /\ server # "down" /\ t \in Alive /\ ~task[t].cancelled
Goes(t, pc) == task' = [task EXCEPT ![t].pc = pc]

WatchRest ==
  /\ UNCHANGED <<inbox, waiting, busy, server, storeVars, listVars>>
  /\ UNCHANGED <<connected, sent, last, listed, hint, overlapped>>

\* The finally clause drops whatever task is registered for the URI.
Ends(t) ==
  /\ task' = [task EXCEPT ![t] = Ended]
  /\ table' = [table EXCEPT ![task[t].job] = None]

\* No notification for what is there at the first look.
WatchLooksForChange(t) ==
  /\ Turns(t) /\ task[t].pc \in {"new", "sleep"}
  /\ LET j == task[t].job IN
     IF phase[j] = "done" /\ task[t].pc = "new" THEN Ends(t)
     ELSE /\ Goes(t, IF phase[j] = "done" THEN "senddone" ELSE
                     IF phase[j] = "running" /\ ~task[t].notified THEN "sendleft" ELSE "sleep")
          /\ UNCHANGED table
  /\ UNCHANGED <<picture, told>>
  /\ WatchRest

\* After a sleep, or at its start, the task reads the envelope.
WatchLooks(t) ==
  /\ Turns(t) /\ task[t].pc \in {"new", "sleep"}
  /\ LET j == task[t].job IN
     \/ /\ phase[j] = "done"
        /\ Goes(t, "senddone")
     \/ /\ phase[j] = "running"
        /\ Goes(t, IF task[t].notified THEN "sleep" ELSE "sendleft")
     \/ /\ phase[j] \notin {"running", "done"}
        /\ Goes(t, "sleep")
  /\ UNCHANGED <<table, picture, told>>
  /\ WatchRest

\* A bad read is tried again at the next turn; after the first turn that is
\* the same as no turn.
WatchFails(t) ==
  /\ Turns(t) /\ task[t].pc = "new" /\ HasEnvelope(task[t].job)
  /\ Goes(t, "sleep")
  /\ UNCHANGED <<table, picture, told>>
  /\ WatchRest

Tells(j) ==
  /\ told' = [told EXCEPT ![j] = @ + 1]
  /\ view' = [view EXCEPT ![j] = "unknown"]
  /\ UNCHANGED unwatched

WatchTellsDone(t) ==
  /\ Turns(t) /\ task[t].pc = "senddone" /\ connected
  /\ Tells(task[t].job)
  /\ Ends(t)
  /\ WatchRest

WatchTellsLeft(t) ==
  /\ Turns(t) /\ task[t].pc = "sendleft" /\ connected
  /\ Tells(task[t].job)
  /\ task' = [task EXCEPT ![t].pc = "sleep", ![t].notified = TRUE]
  /\ UNCHANGED table
  /\ WatchRest

\* The client is gone.
WatchCannotTell(t) ==
  /\ Turns(t) /\ task[t].pc \in {"senddone", "sendleft"} /\ ~connected
  /\ Ends(t)
  /\ UNCHANGED <<picture, told>>
  /\ WatchRest

\* CancelledError is raised where the task waits: before its first turn
\* nothing of it runs; in the middle of a send the message may be out.
WatchCancelled(t) ==
  /\ ~busy /\ server # "down" /\ t \in Alive /\ task[t].cancelled
  /\ IF task[t].pc = "new"
     THEN Goes(t, "ended") /\ UNCHANGED table
     ELSE Ends(t)
  /\ \/ UNCHANGED <<picture, told>>
     \/ task[t].pc \in {"senddone", "sendleft"} /\ connected /\ Tells(task[t].job)
  /\ WatchRest

-----------------------------------------------------------------------------
(***************************************************************************)
(* resources/list, JobListWatcher, resources/read, tools/call.             *)
(***************************************************************************)

\* The first list, or the first after the watch has ended, starts it.
StartsLister ==
  IF lister = "off" THEN lister' = "sleep" /\ known' = Present ELSE UNCHANGED listVars

ClientLists ==
  /\ Loop /\ connected
  /\ ~listed.asked \/ hint
  /\ StartsLister
  /\ listed' = [asked |-> TRUE, jobs |-> Present] /\ hint' = FALSE
  /\ UNCHANGED <<storeVars, serverVars, connected, sent, last, picture, told, overlapped>>

ListReadEndsWatch ==
  /\ ~busy /\ server # "down" /\ lister = "sleep"
  /\ Present # known
  /\ \/ known' = Present /\ lister' = "send"
     \/ known' = known /\ lister' = "off"
  /\ UNCHANGED <<storeVars, serverVars, clientVars>>

\* A list that cannot be read is read again at the next turn.
ListLooks ==
  /\ ~busy /\ server # "down" /\ lister = "sleep"
  /\ Present # known
  /\ known' = Present
  /\ lister' = "send"
  /\ UNCHANGED <<storeVars, serverVars, clientVars>>

ListTells ==
  /\ ~busy /\ server # "down" /\ lister = "send"
  /\ hint' = (hint \/ connected)
  /\ lister' = IF connected THEN "sleep" ELSE "off"
  /\ UNCHANGED <<known, storeVars, serverVars>>
  /\ UNCHANGED <<connected, sent, last, picture, told, listed, overlapped>>

\* The client reads a job it has subscribed to, or was told about.
ClientReads(j) ==
  /\ Loop /\ connected
  /\ last[j] = "subscribe" /\ ~Open(j) /\ view[j] = "unknown"
  /\ HasEnvelope(j)
  /\ view' = [view EXCEPT ![j] = IF phase[j] = "done" THEN "done" ELSE "open"]
  /\ UNCHANGED unwatched
  /\ UNCHANGED <<storeVars, serverVars, listVars>>
  /\ UNCHANGED <<connected, sent, last, told, listed, hint, overlapped>>

\* run_tool runs the command in the loop's thread.
ToolStarts ==
  /\ Loop /\ connected /\ sent < MaxRequests
  /\ busy' = TRUE
  /\ sent' = sent + 1
  /\ UNCHANGED <<inbox, waiting, task, table, server, storeVars, listVars>>
  /\ UNCHANGED <<connected, last, picture, told, listed, hint, overlapped>>

ToolEnds ==
  /\ busy
  /\ busy' = FALSE
  /\ UNCHANGED <<inbox, waiting, task, table, server, storeVars, listVars, clientVars>>

-----------------------------------------------------------------------------
(***************************************************************************)
(* The client, and the end of the server.                                  *)
(***************************************************************************)

ClientSends(op, j) ==
  /\ connected /\ sent < MaxRequests
  /\ inbox' = Append(inbox, [op |-> op, job |-> j])
  /\ sent' = sent + 1
  /\ last' = [last EXCEPT ![j] = op]
  /\ overlapped' = [overlapped EXCEPT ![j] = @ \/ Open(j)]
  /\ UNCHANGED <<waiting, task, table, busy, server, storeVars, listVars>>
  /\ UNCHANGED <<connected, picture, told, listed, hint>>

ClientLeaves ==
  /\ connected
  /\ connected' = FALSE
  /\ UNCHANGED <<serverVars, storeVars, listVars>>
  /\ UNCHANGED <<sent, last, picture, told, listed, hint, overlapped>>

\* server.run returns; its handlers are cancelled.
Closes ==
  /\ Loop /\ ~connected
  /\ server' = "closing"
  /\ inbox' = <<>> /\ waiting' = {}
  /\ UNCHANGED <<task, table, busy, storeVars, listVars, clientVars>>

\* unsubscribe_all, one URI after the other.
ClosesOne(j) ==
  /\ server = "closing" /\ table[j] # None
  /\ \A t \in Alive : ~task[t].cancelled
  /\ Cancels(j)
  /\ UNCHANGED <<inbox, waiting, busy, server, storeVars, listVars, clientVars>>

\* The job-list watch is stopped last; asyncio.run cancels what is left.
GoesDown ==
  /\ server = "closing"
  /\ \A j \in Jobs : table[j] = None
  /\ \A t \in Alive : ~task[t].cancelled
  /\ server' = "down" /\ lister' = "off"
  /\ UNCHANGED <<inbox, waiting, task, table, busy, known, storeVars, clientVars>>

-----------------------------------------------------------------------------
Watch(t) ==
  \/ WatchLooks(t) \/ WatchTellsDone(t) \/ WatchTellsLeft(t)
  \/ WatchCannotTell(t) \/ WatchCancelled(t)

Lister == ListLooks \/ ListTells

Client ==
  \/ \E op \in {"subscribe", "unsubscribe"}, j \in Jobs : ClientSends(op, j)
  \/ ClientLists \/ (\E j \in Jobs : ClientReads(j)) \/ ClientLeaves

McpNext ==
  \/ \E j \in Jobs : StoreChanges(j)
  \/ Serves \/ (\E w \in waiting : Resumes(w))
  \/ (\E t \in Tasks : Watch(t) \/ WatchFails(t)) \/ Lister
  \/ ToolStarts \/ ToolEnds \/ Client
  \/ Closes \/ (\E j \in Jobs : ClosesOne(j)) \/ GoesDown

McpSpec == McpInit /\ [][McpNext]_mcpVars

(***************************************************************************)
(* The loop runs whatever is ready, tool calls return, and the client      *)
(* reads again what it has been told of.  A read of the envelope fails     *)
(* finitely often.  The client need not list, subscribe or stay.           *)
(***************************************************************************)
McpFairSpec ==
  /\ McpSpec
  /\ WF_mcpVars(Serves) /\ WF_mcpVars(\E w \in waiting : Resumes(w))
  /\ \A t \in Tasks : WF_mcpVars(Watch(t))
  /\ WF_mcpVars(Lister) /\ WF_mcpVars(ToolEnds)
  /\ \A j \in Jobs : WF_mcpVars(ClientReads(j))
-----------------------------------------------------------------------------
(***************************************************************************)
(* Properties.                                                             *)
(***************************************************************************)

McpTypeOK ==
  /\ phase \in [Jobs -> Phases] /\ table \in [Jobs -> Tasks \cup {None}]
  /\ \A i \in DOMAIN inbox :
       inbox[i] \in [op : {"subscribe", "unsubscribe"}, job : Jobs]
  /\ waiting \subseteq [job : Jobs, op : {"subscribe", "unsubscribe"},
                        task : Tasks, notified : BOOLEAN]
  /\ \A t \in Tasks :
       task[t].pc \in {"new", "sleep", "senddone", "sendleft", "ended"}
  /\ lister \in {"off", "sleep", "send"} /\ known \subseteq Jobs
  /\ server \in {"serving", "closing", "down"}

\* mcp_server.py:740: a second subscription to a watched URI "restarts
\* cleanly rather than leaking a second task racing the first": a task that
\* nobody has cancelled is the one in _tasks, where unsubscribe and the end
\* of the server find it; and docs/job/mcp.md: resources/updated "fires at
\* most twice per job", through any number of subscriptions -- per apply of the
\* job, one that got no VM may be applied again.  A client that
\* does not wait for the reply to its request before the next one on the same
\* job is exempt: see the README.
OneWatch ==
  \A j \in Jobs : ~overlapped[j] =>
    /\ told[j] <= 2 * applies[j]
    /\ \A t \in Alive : task[t].job = j /\ ~task[t].cancelled => table[j] = t

\* The reason why a client need not poll: when it is subscribed, and the job
\* ends, the client comes to know it, by its own read or by a notification
\* that makes it read again, unless the record changes once more before.
\* Requests may overlap, reads may fail, tools may hold the loop.  Exempt is
\* the end of a job applied again when the watch had ended with the job, or a
\* done job had got none (mcp_server.py:738-740).
Subscribed(j) == connected /\ last[j] = "subscribe" /\ ~Open(j)
EndIsLearnt ==
  \A j \in Jobs :
    (Subscribed(j) /\ phase[j] = "done" /\ j \notin unwatched) ~>
      (view[j] = "done" \/ phase[j] # "done" \/ ~Subscribed(j))

\* docs/job/mcp.md: list_changed tells a client of a job created after its
\* list.  (A job pruned before the next look is not announced: see README.)
NewJobIsAnnounced ==
  \A j \in Jobs :
    (listed.asked /\ j \in Present \ listed.jobs) ~>
      (hint \/ j \notin Present \ listed.jobs \/ ~connected)
=============================================================================
