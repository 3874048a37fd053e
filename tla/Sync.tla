--------------------------------- MODULE Sync ---------------------------------
(***************************************************************************)
(* The sync command (commands/sync.py): a local tree goes to the VM as one *)
(* archive, and a script run by the session's kernel puts it in the place  *)
(* of a destination below /content.  Several syncs of one destination,     *)
(* from several processes, one after the other or at once.                 *)
(*                                                                         *)
(* Each sync has an archive and a staging directory of its own on the VM,  *)
(* named for its operation id.  A script is one request of a kernel, which *)
(* works its requests off in order; two syncs share a kernel if the second *)
(* finds the first one's kernel in the session's record.  Others store the *)
(* record too, as they once read it.                                       *)
(***************************************************************************)
EXTENDS Naturals, Sequences, FiniteSets

CONSTANTS
    Syncs,          \* invocations of the command, with a payload each
    Kernels,        \* kernels the server may start
    NoKernel,
    Faults,         \* which of "interrupt", "cleanup", "restart", "gone" and
                    \* "writeback" happen
    MaxReads        \* bound: how often somebody else reads the record, to store it

ASSUME SyncAssumption ==
    /\ NoKernel \notin Kernels
    /\ {"old", "none"} \cap Syncs = {}
    /\ Faults \subseteq {"interrupt", "cleanup", "restart", "gone", "writeback"}
    /\ MaxReads \in Nat

VARIABLES
    pc,         \* where the command is
    verdict,    \* what it told its caller: "ok" or "failed"
    prior,      \* syncs that had ended when this one began
    copy,       \* kernel id in the command's copy of the record
    kernel,     \* the kernel it is connected to, or will try first
    record,     \* kernel id in the session's record
    held,       \* kernel id in the copy that somebody else will store: at most one
    reads,      \* how often somebody read it for that
    started,    \* the kernels that were started
    gone,       \* those that the server has no more
    stray,      \* history: syncs whose kernel the record never got, or lost to an
                \* older copy
    queue,      \* requests of each kernel
    script,     \* where the script is, or how it ended
    archive,    \* the uploaded archive: "none", "part", "whole"
    stage,      \* the staging directory: "none", "part", "payload", "residue"
    dest,       \* whose payload is at the destination, or "old", or "none"
    installed,  \* syncs whose payload was there at some time
    outcome,    \* the script's: "open", "committed" or "failed"
    hit         \* the faults that hit each sync

client == <<pc, verdict, prior, copy, kernel>>
server == <<started, gone>>
session == <<record, held, reads, stray>>
files  == <<archive, stage, dest, installed>>
remote == <<queue, script, outcome>>
vars   == <<client, session, server, remote, files, hit>>

Init ==
    /\ pc = [s \in Syncs |-> "start"]
    /\ verdict = [s \in Syncs |-> "none"]
    /\ prior = [s \in Syncs |-> {}]
    /\ copy = [s \in Syncs |-> NoKernel]
    /\ kernel = [s \in Syncs |-> NoKernel]
    /\ record \in Kernels \cup {NoKernel}
    /\ started = {record} \ {NoKernel} /\ gone = {}
    /\ held = {} /\ reads = 0 /\ stray = {}
    /\ queue = [k \in Kernels |-> <<>>]
    /\ script = [s \in Syncs |-> "none"]
    /\ archive = [s \in Syncs |-> "none"]
    /\ stage = [s \in Syncs |-> "none"]
    /\ dest \in {"old", "none"}
    /\ installed = {}
    /\ outcome = [s \in Syncs |-> "open"]
    /\ hit = [s \in Syncs |-> {}]

-------------------------------------------------------------------------------
(* The command                                                             *)

Hits(s, fault)  == hit' = [hit EXCEPT ![s] = @ \cup {fault}]
Goes(s, where)  == pc' = [pc EXCEPT ![s] = where]

\* Whatever happens, the finally clause removes the archive before the
\* command ends.
Gives(s, what) ==
    /\ Goes(s, "rm")
    /\ verdict' = [verdict EXCEPT ![s] = what]

\* The command reads the session's record.
Begins(s) ==
    /\ pc[s] = "start"
    /\ Goes(s, "upload")
    /\ prior' = [prior EXCEPT ![s] = {r \in Syncs : pc[r] = "end"}]
    /\ copy' = [copy EXCEPT ![s] = record]
    /\ kernel' = [kernel EXCEPT ![s] = record]
    /\ UNCHANGED <<verdict, session, server, remote, files, hit>>

\* No payload: the tree changed under the snapshot, a link leaves it, git
\* fails.
RejectsPayload(s) ==
    /\ pc[s] = "upload"
    /\ Gives(s, "failed")
    /\ UNCHANGED <<prior, copy, kernel, session, server, remote, files, hit>>

\* The archive is sent in chunks.
Uploads(s) ==
    /\ pc[s] = "upload"
    /\ archive' = [archive EXCEPT ![s] = "whole"]
    /\ Goes(s, "connect")
    /\ UNCHANGED <<verdict, prior, copy, kernel, session, server, remote, stage, dest,
                   installed, hit>>

\* A request fails, or only its reply is lost.
UploadFails(s) ==
    /\ pc[s] = "upload"
    /\ \E left \in {"none", "part", "whole"} :
           archive' = [archive EXCEPT ![s] = left]
    /\ Gives(s, "failed")
    /\ UNCHANGED <<prior, copy, kernel, session, server, remote, stage, dest, installed,
                   hit>>

\* The kernel client asks for the kernel of the copy; without one, or when the
\* answer is 404, it starts another.
StartsKernel(s) ==
    /\ kernel[s] \in gone \cup {NoKernel}
    /\ \E k \in Kernels \ started :
         /\ kernel' = [kernel EXCEPT ![s] = k]
         /\ started' = started \cup {k}
    /\ UNCHANGED gone

KeepsKernel(s) == kernel[s] \notin gone \cup {NoKernel} /\ UNCHANGED <<kernel, server>>

\* Mutant: a kernel that is started is never recorded.
ConnectsUnrecorded(s) ==
    /\ pc[s] = "connect"
    /\ StartsKernel(s) \/ KeepsKernel(s)
    /\ Goes(s, "send")
    /\ UNCHANGED <<verdict, prior, copy, session, remote, files, hit>>

\* The runtime records the kernel it has started only if its copy had none; the
\* copy is stored once more for the id of the session, when it has none.
Connects(s) ==
    /\ pc[s] = "connect"
    /\ \/ /\ copy[s] = NoKernel /\ StartsKernel(s)
          /\ copy' = [copy EXCEPT ![s] = kernel'[s]] /\ record' = kernel'[s]
          /\ UNCHANGED stray
          /\ Goes(s, "store")
       \/ /\ copy[s] # NoKernel
          /\ \/ KeepsKernel(s) /\ UNCHANGED stray
             \/ StartsKernel(s) /\ stray' = stray \cup {s}
          /\ UNCHANGED <<copy, record>>
          /\ Goes(s, "store") \/ Goes(s, "send")
    /\ UNCHANGED <<verdict, prior, held, reads, remote, files, hit>>

RecordsSession(s) ==
    /\ pc[s] = "store"
    /\ record' = copy[s]
    /\ Goes(s, "send")
    /\ UNCHANGED <<verdict, prior, copy, kernel, held, reads, stray, server, remote, files, hit>>

Sends(s) ==
    /\ pc[s] = "send" /\ kernel[s] \notin gone
    /\ queue' = [queue EXCEPT ![kernel[s]] = Append(@, s)]
    /\ script' = [script EXCEPT ![s] = "queued"]
    /\ Goes(s, "await")
    /\ UNCHANGED <<verdict, prior, copy, kernel, session, server, outcome, files, hit>>

\* Mutant: any reply without an error counts as success.
TrustsReply(s) ==
    /\ pc[s] = "await" /\ script[s] \in {"ok", "raised", "aborted"}
    /\ Gives(s, IF script[s] = "raised" THEN "failed" ELSE "ok")
    /\ UNCHANGED <<prior, copy, kernel, session, server, remote, files, hit>>

\* The reply arrives: success takes the script's completion marker.
TakesReply(s) ==
    /\ pc[s] = "await" /\ script[s] \in {"ok", "raised", "aborted"}
    /\ Gives(s, IF script[s] = "ok" THEN "ok" ELSE "failed")
    /\ UNCHANGED <<prior, copy, kernel, session, server, remote, files, hit>>

\* No kernel, a lost connection, a timeout, or Ctrl-C: the command gives up
\* on a script that may still be run.
GivesUp(s) ==
    /\ pc[s] \in {"connect", "store", "send", "await"}
    /\ Gives(s, "failed")
    /\ UNCHANGED <<prior, copy, kernel, session, server, remote, files, hit>>

\* The removal of the archive is attempted once, whatever comes of it.
Removes(s) ==
    /\ pc[s] = "rm"
    /\ archive' = [archive EXCEPT ![s] = "none"]
    /\ Goes(s, "end")
    /\ UNCHANGED <<verdict, prior, copy, kernel, session, server, remote, stage, dest,
                   installed, hit>>

RemoveFails(s) ==
    /\ pc[s] = "rm" /\ "cleanup" \in Faults
    /\ Hits(s, "rm")
    /\ Goes(s, "end")
    /\ UNCHANGED <<verdict, prior, copy, kernel, session, server, remote, files>>

Command(s) ==
    \/ Begins(s) \/ RejectsPayload(s) \/ Uploads(s) \/ UploadFails(s)
    \/ Connects(s) \/ RecordsSession(s) \/ Sends(s) \/ TakesReply(s) \/ GivesUp(s)
    \/ Removes(s) \/ RemoveFails(s)

-------------------------------------------------------------------------------
(* The script on the VM.  Its body raises into one handler; the clean-up   *)
(* follows in any case, item by item.                                      *)

Runs(s)          == \E k \in Kernels : queue[k] # <<>> /\ Head(queue[k]) = s
Script(s, where) == script' = [script EXCEPT ![s] = where]
Body             == {"queued", "stage", "extract", "validate", "install",
                     "exchange", "rename"}

\* The destination's parents are opened, or created, one below the other.
OpensParents(s) ==
    /\ script[s] = "queued" /\ Runs(s)
    /\ Script(s, "stage")
    /\ UNCHANGED <<client, session, server, queue, outcome, files, hit>>

MakesStage(s) ==
    /\ script[s] = "stage"
    /\ stage' = [stage EXCEPT ![s] = "part"]
    /\ Script(s, "extract")
    /\ UNCHANGED <<client, session, server, queue, outcome, archive, dest, installed, hit>>

\* A whole archive can be extracted; anything else tarfile refuses.
Extracts(s) ==
    /\ script[s] = "extract" /\ archive[s] = "whole"
    /\ stage' = [stage EXCEPT ![s] = "payload"]
    /\ Script(s, "validate")
    /\ UNCHANGED <<client, session, server, queue, outcome, archive, dest, installed, hit>>

\* The payload's links stay inside it and the parent is still below /content.
Validates(s) ==
    /\ script[s] = "validate"
    /\ Script(s, "install")
    /\ UNCHANGED <<client, session, server, queue, outcome, files, hit>>

\* Whether something is at the destination decides how the payload gets there.
LooksAtDestination(s) ==
    /\ script[s] = "install"
    /\ Script(s, IF dest = "none" THEN "rename" ELSE "exchange")
    /\ UNCHANGED <<client, session, server, queue, outcome, files, hit>>

\* The payload is at the destination, and what it leaves in the staging
\* directory.
Commits(s, left) ==
    /\ dest' = s
    /\ installed' = installed \cup {s}
    /\ stage' = [stage EXCEPT ![s] = left]
    /\ outcome' = [outcome EXCEPT ![s] = "committed"]
    /\ Script(s, "rmStage")
    /\ UNCHANGED <<client, session, server, queue, archive, hit>>

\* Mutant: the destination is removed, and the payload moved there later.
ClearsDestination(s) ==
    /\ script[s] = "exchange"
    /\ dest' = "none"
    /\ Script(s, "rename")
    /\ UNCHANGED <<client, session, server, queue, outcome, archive, stage, installed, hit>>

\* renameat2 with RENAME_EXCHANGE.
Exchanges(s) == script[s] = "exchange" /\ Commits(s, "residue")

\* os.rename; if another sync was faster, only a file can take its place.
Renames(s) == script[s] = "rename" /\ Commits(s, "part")

\* A step of the body raises: a parent is a link, the archive is missing or
\* broken, the disk is full, there is no exchange, the name is taken.  Before
\* /content is open there is nothing to clean up from.
Raises(s) ==
    /\ script[s] \in Body
    /\ script[s] = "queued" => Runs(s)
    /\ outcome' = [outcome EXCEPT ![s] = "failed"]
    /\ \/ Script(s, "rmStage") /\ UNCHANGED hit
       \/ script[s] = "queued" /\ Script(s, "reply") /\ Hits(s, "root")
    /\ UNCHANGED <<client, session, server, queue, files>>

\* A KeyboardInterrupt, between the exchange and the line after it too.
InterruptsCommit(s) ==
    /\ "interrupt" \in Faults
    /\ script[s] \in {"exchange", "rename"}
    /\ dest' = s
    /\ installed' = installed \cup {s}
    /\ stage' = [stage EXCEPT ![s] = "residue"]
    /\ outcome' = [outcome EXCEPT ![s] = "failed"]
    /\ Script(s, "rmStage")
    /\ Hits(s, "interrupt")
    /\ UNCHANGED <<client, session, server, queue, archive>>

\* The clean-up: remove the staging directory, then the archive.
Cleans(s, from, to) ==
    /\ script[s] = from
    /\ \/ from = "rmStage" /\ stage' = [stage EXCEPT ![s] = "none"]
          /\ UNCHANGED archive
       \/ from = "rmArchive" /\ archive' = [archive EXCEPT ![s] = "none"]
          /\ UNCHANGED stage
    /\ Script(s, to)
    /\ UNCHANGED <<client, session, server, queue, outcome, dest, installed, hit>>

RemovesStage(s)   == Cleans(s, "rmStage", "rmArchive")
RemovesArchive(s) == Cleans(s, "rmArchive", "reply")

After(from) == IF from = "rmStage" THEN "rmArchive" ELSE "reply"

\* Mutant: an error ends the clean-up.
CleanupStops(s) ==
    /\ script[s] \in {"rmStage", "rmArchive"} /\ "cleanup" \in Faults
    /\ Hits(s, script[s])
    /\ Script(s, "reply")
    /\ UNCHANGED <<client, session, server, queue, outcome, files>>

\* An item cannot be removed: a warning once committed; the next item follows.
CleanupFails(s) ==
    /\ script[s] \in {"rmStage", "rmArchive"} /\ "cleanup" \in Faults
    /\ Hits(s, script[s])
    /\ Script(s, After(script[s]))
    /\ UNCHANGED <<client, session, server, queue, outcome, files>>

\* A KeyboardInterrupt is kept as the failure; the next item follows.
InterruptsCleanup(s) ==
    /\ script[s] \in {"rmStage", "rmArchive"} /\ "interrupt" \in Faults
    /\ hit' = [hit EXCEPT ![s] = @ \cup {script[s], "interrupt"}]
    /\ outcome' = [outcome EXCEPT ![s] = "failed"]
    /\ Script(s, After(script[s]))
    /\ UNCHANGED <<client, session, server, queue, files>>

-------------------------------------------------------------------------------
(* The kernels                                                             *)

\* The script is over; after an error the kernel may drop what is queued.
Replies(s) ==
    /\ script[s] = "reply"
    /\ \E k \in Kernels :
         /\ queue[k] # <<>> /\ Head(queue[k]) = s
         /\ \E aborts \in BOOLEAN :
              /\ aborts => outcome[s] = "failed"
              /\ queue' = [queue EXCEPT ![k] = IF aborts THEN <<>> ELSE Tail(@)]
              /\ script' = [r \in Syncs |->
                   IF r = s THEN IF outcome[s] = "committed" THEN "ok" ELSE "raised"
                   ELSE IF aborts /\ script[r] = "queued" /\ kernel[r] = k THEN "aborted"
                   ELSE script[r]]
    /\ UNCHANGED <<client, session, server, outcome, files, hit>>

\* No clean-up, no reply.
Stops(k) ==
    LET lost == {queue[k][i] : i \in 1..Len(queue[k])} IN
      /\ script' = [r \in Syncs |-> IF r \in lost THEN "killed" ELSE script[r]]
      /\ hit' = [r \in Syncs |-> IF r \in lost THEN hit[r] \cup {"restart"}
                                               ELSE hit[r]]
      /\ queue' = [queue EXCEPT ![k] = <<>>]

\* Another command restarts the kernel, or it dies and comes back.
Restarts(k) ==
    /\ "restart" \in Faults /\ queue[k] # <<>>
    /\ Stops(k)
    /\ UNCHANGED <<client, session, server, outcome, files>>

\* The server loses a kernel, and with it what it runs: the next to ask for it
\* gets a 404.
KernelGoes(k) ==
    /\ "gone" \in Faults /\ k \in started \ gone
    /\ gone' = gone \cup {k}
    /\ Stops(k)
    /\ UNCHANGED <<client, session, started, outcome, files>>

-------------------------------------------------------------------------------
(* Others on the session's record: the keep-alive daemon, or a command that *)
(* began before, stores it as it has read it.                              *)

OtherReads ==
    /\ "writeback" \in Faults /\ held = {}
    /\ reads < MaxReads /\ reads' = reads + 1
    /\ held' = {record}
    /\ UNCHANGED <<client, record, stray, server, remote, files, hit>>

\* Whose kernel the record had has it no more.
OtherStores ==
    /\ record' \in held
    /\ held' = {}
    /\ stray' = stray \cup {s \in Syncs : copy[s] = record /\ record # record'}
    /\ UNCHANGED <<client, reads, server, remote, files, hit>>

Others == OtherReads \/ OtherStores

OnVm(s) ==
    \/ OpensParents(s) \/ MakesStage(s) \/ Extracts(s) \/ Validates(s)
    \/ LooksAtDestination(s) \/ Exchanges(s) \/ Renames(s) \/ Raises(s)
    \/ InterruptsCommit(s)
    \/ RemovesStage(s) \/ RemovesArchive(s) \/ CleanupFails(s)
    \/ InterruptsCleanup(s) \/ Replies(s)

Next ==
    \/ \E s \in Syncs : Command(s) \/ OnVm(s)
    \/ \E k \in Kernels : Restarts(k) \/ KernelGoes(k)
    \/ Others

Spec == Init /\ [][Next]_vars

-------------------------------------------------------------------------------
(* Properties                                                              *)

TypeOK ==
    /\ pc \in [Syncs -> {"start", "upload", "connect", "store", "send", "await",
                      "rm", "end"}]
    /\ verdict \in [Syncs -> {"none", "ok", "failed"}]
    /\ prior \in [Syncs -> SUBSET Syncs]
    /\ copy \in [Syncs -> Kernels \cup {NoKernel}]
    /\ kernel \in [Syncs -> Kernels \cup {NoKernel}]
    /\ record \in Kernels \cup {NoKernel} /\ held \subseteq Kernels \cup {NoKernel}
    /\ reads \in 0..MaxReads
    /\ started \subseteq Kernels /\ gone \subseteq started /\ stray \subseteq Syncs
    /\ \A k \in Kernels : Len(queue[k]) <= Cardinality(Syncs)
    /\ script \in [Syncs -> Body \cup {"none", "rmStage", "rmArchive", "reply",
                                       "ok", "raised", "aborted", "killed"}]
    /\ outcome \in [Syncs -> {"open", "committed", "failed"}]
    /\ archive \in [Syncs -> {"none", "part", "whole"}]
    /\ stage \in [Syncs -> {"none", "part", "payload", "residue"}]
    /\ dest \in Syncs \cup {"old", "none"} /\ installed \subseteq Syncs
    /\ hit \in [Syncs -> SUBSET {"rm", "rmStage", "rmArchive", "root",
                                 "interrupt", "restart"}]

GoesWhole ==
    dest' # dest => \E s \in Syncs : dest' = s /\ stage[s] = "payload"

\* The destination goes from one whole tree to another in one step: never
\* absent, never part of a payload, whichever scripts run beside each other
\* and are killed.
DestinationIsWhole == [][GoesWhole]_vars

\* A sync that reports success has installed its payload, although the
\* kernel drops requests without an error; and a script that raises has left
\* the destination alone, unless an interrupt came in the middle of its
\* clean-up: an item that cannot be removed is no failure of the sync.
AnswerIsTrue ==
    \A s \in Syncs :
        /\ verdict[s] = "ok" => s \in installed
        /\ script[s] = "raised" /\ "interrupt" \notin hit[s] => s \notin installed

\* Of a sync that is over on both sides nothing stays behind on the VM, but
\* an item whose own removal failed, or that a script left which was killed or
\* could not open /content; the archive only if the command's own attempt
\* failed too.
NothingIsLeft ==
    \A s \in Syncs :
        (pc[s] = "end" /\ script[s] \in {"none", "ok", "raised", "aborted", "killed"}) =>
            /\ stage[s] # "none" => hit[s] \cap {"rmStage", "restart"} # {}
            /\ archive[s] # "none" =>
                 /\ "rm" \in hit[s]
                 /\ \/ hit[s] \cap {"rmArchive", "root", "restart"} # {}
                    \/ script[s] \in {"none", "aborted"}

\* A third sync ran beside r: in a session without a kernel each of the two
\* starts one, and the record keeps the last.
Overlapped(r, s) ==
    \E x \in Syncs \ {r, s} :
        /\ pc[x] # "start" /\ pc[r] # "start"
        /\ x \notin prior[r] /\ r \notin prior[x]

\* A rerun is safe: a sync that began after another had ended is not replaced
\* by that one's payload, although its script may still wait in the kernel.  That
\* rests on the record alone: it fails when the earlier had a kernel which the
\* record never got, because the one it asked for was gone (runtime.py:128-132),
\* or lost, because somebody stored an older copy of the record.
RerunWins ==
    [][\A s, r \in Syncs :
          (dest = s /\ dest' = r /\ r \in prior[s]) =>
              Overlapped(r, s) \/ r \in stray]_vars
=============================================================================
