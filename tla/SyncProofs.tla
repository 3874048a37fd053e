------------------------------ MODULE SyncProofs ------------------------------
(***************************************************************************)
(* Proofs about the sync command, for any number of syncs of a destination *)
(* and any number of kernels, whatever faults hit them.                    *)
(*                                                                         *)
(* Inv says what each script knows of its own payload; OrderInv, why a     *)
(* late script does not come after that of a rerun.                        *)
(***************************************************************************)
EXTENDS Sync, TLAPS

\* The variables that the invariant speaks of are functions of the syncs.
Shape ==
    /\ pc = [s \in Syncs |-> pc[s]]           /\ verdict = [s \in Syncs |-> verdict[s]]
    /\ script = [s \in Syncs |-> script[s]]   /\ archive = [s \in Syncs |-> archive[s]]
    /\ stage = [s \in Syncs |-> stage[s]]     /\ outcome = [s \in Syncs |-> outcome[s]]
    /\ hit = [s \in Syncs |-> hit[s]]

Early == {"start", "upload", "connect", "store", "send"}
Staged == {"extract", "validate", "install", "exchange", "rename", "rmStage"}
Over   == {"reply", "ok", "raised"}

\* There is no script before the command has sent it.
SentOnce(s) == pc[s] \in Early => script[s] = "none"

\* What is installed, by what the script has said and where it is.
InstalledIsKnown(s) ==
    /\ script[s] \in Body \cup {"none", "aborted"} => s \notin installed
    /\ outcome[s] = "committed" => s \in installed
    /\ s \in installed => outcome[s] = "committed" \/ "interrupt" \in hit[s]
    /\ script[s] = "ok" => s \in installed
    /\ script[s] = "raised" => outcome[s] # "committed"
    /\ verdict[s] = "ok" => s \in installed

\* Past the extraction the whole payload is in the staging directory.
PayloadIsStaged(s) ==
    script[s] \in {"validate", "install", "exchange", "rename"} => stage[s] = "payload"

\* What is still on the VM has somebody who will remove it, or failed to.
LeftIsKnown(s) ==
    /\ script[s] = "killed" => "restart" \in hit[s]
    /\ stage[s] # "none" => script[s] \in Staged \/ hit[s] \cap {"rmStage", "restart"} # {}
    /\ pc[s] = "end" /\ archive[s] # "none" => "rm" \in hit[s]
    /\ script[s] \in Over /\ archive[s] # "none" =>
         hit[s] \cap {"rmArchive", "root", "restart"} # {}

Each(s) == SentOnce(s) /\ InstalledIsKnown(s) /\ PayloadIsStaged(s) /\ LeftIsKnown(s)

\* Only what has been sent is queued.
QueueIsSent ==
    /\ queue \in [Kernels -> Seq(Syncs)]
    /\ \A k \in Kernels : \A i \in 1..Len(queue[k]) : pc[queue[k][i]] \notin Early

Local == Shape /\ \A s \in Syncs : Each(s)

Inv == Local /\ QueueIsSent

\* What a step leaves alone of a sync.
Untouched(r) ==
    /\ pc'[r] = pc[r]          /\ verdict'[r] = verdict[r]
    /\ script'[r] = script[r]  /\ archive'[r] = archive[r]
    /\ stage'[r] = stage[r]    /\ outcome'[r] = outcome[r]
    /\ hit'[r] = hit[r]        /\ (r \in installed' <=> r \in installed)

\* A step of one sync is judged by that sync alone.
LEMMA OneSync ==
    ASSUME Inv, NEW s \in Syncs, Shape', Each(s)', \A r \in Syncs \ {s} : Untouched(r)
    PROVE  Local'
BY DEF Untouched, Inv, Local, Each, SentOnce, InstalledIsKnown, PayloadIsStaged, LeftIsKnown

\* A step of a command keeps what is said of each sync.
LEMMA CommandKeeps ==
    ASSUME Inv, NEW s \in Syncs, Command(s)
    PROVE  Local'
<1>0. Shape /\ Each(s)
  BY DEF Inv, Local
<1>1. CASE Begins(s)
  <2> USE <1>1 DEF Begins
  <2>1. Shape' /\ \A r \in Syncs \ {s} : Untouched(r)
    BY DEF Inv, Local, Shape, Untouched, Hits, Goes, Gives, Script, client, files, remote
  <2>2. Each(s)'
    BY <1>0 DEF Shape, Each, SentOnce, InstalledIsKnown, PayloadIsStaged, LeftIsKnown,
       Early, Staged, Over, Body, Hits, Goes, Gives, Script, client, files, remote
  <2> QED
    BY <2>1, <2>2, OneSync
<1>2. CASE RejectsPayload(s)
  <2> USE <1>2 DEF RejectsPayload
  <2>1. Shape' /\ \A r \in Syncs \ {s} : Untouched(r)
    BY DEF Inv, Local, Shape, Untouched, Hits, Goes, Gives, Script, client, files, remote
  <2>2. Each(s)'
    BY <1>0 DEF Shape, Each, SentOnce, InstalledIsKnown, PayloadIsStaged, LeftIsKnown,
       Early, Staged, Over, Body, Hits, Goes, Gives, Script, client, files, remote
  <2> QED
    BY <2>1, <2>2, OneSync
<1>3. CASE Uploads(s)
  <2> USE <1>3 DEF Uploads
  <2>1. Shape' /\ \A r \in Syncs \ {s} : Untouched(r)
    BY DEF Inv, Local, Shape, Untouched, Hits, Goes, Gives, Script, client, files, remote
  <2>2. Each(s)'
    BY <1>0 DEF Shape, Each, SentOnce, InstalledIsKnown, PayloadIsStaged, LeftIsKnown,
       Early, Staged, Over, Body, Hits, Goes, Gives, Script, client, files, remote
  <2> QED
    BY <2>1, <2>2, OneSync
<1>4. CASE UploadFails(s)
  <2> USE <1>4 DEF UploadFails
  <2>1. Shape' /\ \A r \in Syncs \ {s} : Untouched(r)
    BY DEF Inv, Local, Shape, Untouched, Hits, Goes, Gives, Script, client, files, remote
  <2>2. Each(s)'
    BY <1>0 DEF Shape, Each, SentOnce, InstalledIsKnown, PayloadIsStaged, LeftIsKnown,
       Early, Staged, Over, Body, Hits, Goes, Gives, Script, client, files, remote
  <2> QED
    BY <2>1, <2>2, OneSync
<1>5. CASE Connects(s)
  <2> USE <1>5 DEF Connects, StartsKernel, KeepsKernel, server
  <2>1. Shape' /\ \A r \in Syncs \ {s} : Untouched(r)
    BY DEF Inv, Local, Shape, Untouched, Hits, Goes, Gives, Script, client, files, remote
  <2>2. Each(s)'
    BY <1>0 DEF Shape, Each, SentOnce, InstalledIsKnown, PayloadIsStaged, LeftIsKnown,
       Early, Staged, Over, Body, Hits, Goes, Gives, Script, client, files, remote
  <2> QED
    BY <2>1, <2>2, OneSync
<1>6. CASE RecordsSession(s)
  <2> USE <1>6 DEF RecordsSession
  <2>1. Shape' /\ \A r \in Syncs \ {s} : Untouched(r)
    BY DEF Inv, Local, Shape, Untouched, Hits, Goes, Gives, Script, client, files, remote
  <2>2. Each(s)'
    BY <1>0 DEF Shape, Each, SentOnce, InstalledIsKnown, PayloadIsStaged, LeftIsKnown,
       Early, Staged, Over, Body, Hits, Goes, Gives, Script, client, files, remote
  <2> QED
    BY <2>1, <2>2, OneSync
<1>7. CASE Sends(s)
  <2> USE <1>7 DEF Sends
  <2>1. Shape' /\ \A r \in Syncs \ {s} : Untouched(r)
    BY DEF Inv, Local, Shape, Untouched, Hits, Goes, Gives, Script, client, files, remote
  <2>2. Each(s)'
    BY <1>0 DEF Shape, Each, SentOnce, InstalledIsKnown, PayloadIsStaged, LeftIsKnown,
       Early, Staged, Over, Body, Hits, Goes, Gives, Script, client, files, remote
  <2> QED
    BY <2>1, <2>2, OneSync
<1>8. CASE TakesReply(s)
  <2> USE <1>8 DEF TakesReply
  <2>1. Shape' /\ \A r \in Syncs \ {s} : Untouched(r)
    BY DEF Inv, Local, Shape, Untouched, Hits, Goes, Gives, Script, client, files, remote
  <2>2. Each(s)'
    BY <1>0 DEF Shape, Each, SentOnce, InstalledIsKnown, PayloadIsStaged, LeftIsKnown,
       Early, Staged, Over, Body, Hits, Goes, Gives, Script, client, files, remote
  <2> QED
    BY <2>1, <2>2, OneSync
<1>9. CASE GivesUp(s)
  <2> USE <1>9 DEF GivesUp
  <2>1. Shape' /\ \A r \in Syncs \ {s} : Untouched(r)
    BY DEF Inv, Local, Shape, Untouched, Hits, Goes, Gives, Script, client, files, remote
  <2>2. Each(s)'
    BY <1>0 DEF Shape, Each, SentOnce, InstalledIsKnown, PayloadIsStaged, LeftIsKnown,
       Early, Staged, Over, Body, Hits, Goes, Gives, Script, client, files, remote
  <2> QED
    BY <2>1, <2>2, OneSync
<1>10. CASE Removes(s)
  <2> USE <1>10 DEF Removes
  <2>1. Shape' /\ \A r \in Syncs \ {s} : Untouched(r)
    BY DEF Inv, Local, Shape, Untouched, Hits, Goes, Gives, Script, client, files, remote
  <2>2. Each(s)'
    BY <1>0 DEF Shape, Each, SentOnce, InstalledIsKnown, PayloadIsStaged, LeftIsKnown,
       Early, Staged, Over, Body, Hits, Goes, Gives, Script, client, files, remote
  <2> QED
    BY <2>1, <2>2, OneSync
<1>11. CASE RemoveFails(s)
  <2> USE <1>11 DEF RemoveFails
  <2>1. Shape' /\ \A r \in Syncs \ {s} : Untouched(r)
    BY DEF Inv, Local, Shape, Untouched, Hits, Goes, Gives, Script, client, files, remote
  <2>2. Each(s)'
    BY <1>0 DEF Shape, Each, SentOnce, InstalledIsKnown, PayloadIsStaged, LeftIsKnown,
       Early, Staged, Over, Body, Hits, Goes, Gives, Script, client, files, remote
  <2> QED
    BY <2>1, <2>2, OneSync
<1> QED
  BY <1>1, <1>2, <1>3, <1>4, <1>5, <1>6, <1>7, <1>8, <1>9, <1>10, <1>11 DEF Command

\* So does a step of a script, the reply included.
LEMMA ScriptKeeps ==
    ASSUME Inv, NEW s \in Syncs, OnVm(s)
    PROVE  Local'
<1>0. Shape /\ Each(s)
  BY DEF Inv, Local
<1>1. CASE OpensParents(s)
  <2> USE <1>1 DEF OpensParents
  <2>1. Shape' /\ \A r \in Syncs \ {s} : Untouched(r)
    BY DEF Inv, Local, Shape, Untouched, Hits, Goes, Gives, Script, client, files, remote
  <2>2. Each(s)'
    BY <1>0 DEF Shape, Each, SentOnce, InstalledIsKnown, PayloadIsStaged, LeftIsKnown,
       Early, Staged, Over, Body, Hits, Goes, Gives, Script, client, files, remote
  <2> QED
    BY <2>1, <2>2, OneSync
<1>2. CASE MakesStage(s)
  <2> USE <1>2 DEF MakesStage
  <2>1. Shape' /\ \A r \in Syncs \ {s} : Untouched(r)
    BY DEF Inv, Local, Shape, Untouched, Hits, Goes, Gives, Script, client, files, remote
  <2>2. Each(s)'
    BY <1>0 DEF Shape, Each, SentOnce, InstalledIsKnown, PayloadIsStaged, LeftIsKnown,
       Early, Staged, Over, Body, Hits, Goes, Gives, Script, client, files, remote
  <2> QED
    BY <2>1, <2>2, OneSync
<1>3. CASE Extracts(s)
  <2> USE <1>3 DEF Extracts
  <2>1. Shape' /\ \A r \in Syncs \ {s} : Untouched(r)
    BY DEF Inv, Local, Shape, Untouched, Hits, Goes, Gives, Script, client, files, remote
  <2>2. Each(s)'
    BY <1>0 DEF Shape, Each, SentOnce, InstalledIsKnown, PayloadIsStaged, LeftIsKnown,
       Early, Staged, Over, Body, Hits, Goes, Gives, Script, client, files, remote
  <2> QED
    BY <2>1, <2>2, OneSync
<1>4. CASE Validates(s)
  <2> USE <1>4 DEF Validates
  <2>1. Shape' /\ \A r \in Syncs \ {s} : Untouched(r)
    BY DEF Inv, Local, Shape, Untouched, Hits, Goes, Gives, Script, client, files, remote
  <2>2. Each(s)'
    BY <1>0 DEF Shape, Each, SentOnce, InstalledIsKnown, PayloadIsStaged, LeftIsKnown,
       Early, Staged, Over, Body, Hits, Goes, Gives, Script, client, files, remote
  <2> QED
    BY <2>1, <2>2, OneSync
<1>5. CASE LooksAtDestination(s)
  <2> USE <1>5 DEF LooksAtDestination
  <2>1. Shape' /\ \A r \in Syncs \ {s} : Untouched(r)
    BY DEF Inv, Local, Shape, Untouched, Hits, Goes, Gives, Script, client, files, remote
  <2>2. Each(s)'
    BY <1>0 DEF Shape, Each, SentOnce, InstalledIsKnown, PayloadIsStaged, LeftIsKnown,
       Early, Staged, Over, Body, Hits, Goes, Gives, Script, client, files, remote
  <2> QED
    BY <2>1, <2>2, OneSync
<1>6. CASE Exchanges(s)
  <2> USE <1>6 DEF Exchanges, Commits
  <2>1. Shape' /\ \A r \in Syncs \ {s} : Untouched(r)
    BY DEF Inv, Local, Shape, Untouched, Hits, Goes, Gives, Script, client, files, remote
  <2>2. Each(s)'
    BY <1>0 DEF Shape, Each, SentOnce, InstalledIsKnown, PayloadIsStaged, LeftIsKnown,
       Early, Staged, Over, Body, Hits, Goes, Gives, Script, client, files, remote
  <2> QED
    BY <2>1, <2>2, OneSync
<1>7. CASE Renames(s)
  <2> USE <1>7 DEF Renames, Commits
  <2>1. Shape' /\ \A r \in Syncs \ {s} : Untouched(r)
    BY DEF Inv, Local, Shape, Untouched, Hits, Goes, Gives, Script, client, files, remote
  <2>2. Each(s)'
    BY <1>0 DEF Shape, Each, SentOnce, InstalledIsKnown, PayloadIsStaged, LeftIsKnown,
       Early, Staged, Over, Body, Hits, Goes, Gives, Script, client, files, remote
  <2> QED
    BY <2>1, <2>2, OneSync
<1>8. CASE Raises(s)
  <2> USE <1>8 DEF Raises
  <2>1. Shape' /\ \A r \in Syncs \ {s} : Untouched(r)
    BY DEF Inv, Local, Shape, Untouched, Hits, Goes, Gives, Script, client, files, remote
  <2>2. Each(s)'
    BY <1>0 DEF Shape, Each, SentOnce, InstalledIsKnown, PayloadIsStaged, LeftIsKnown,
       Early, Staged, Over, Body, Hits, Goes, Gives, Script, client, files, remote
  <2> QED
    BY <2>1, <2>2, OneSync
<1>9. CASE InterruptsCommit(s)
  <2> USE <1>9 DEF InterruptsCommit
  <2>1. Shape' /\ \A r \in Syncs \ {s} : Untouched(r)
    BY DEF Inv, Local, Shape, Untouched, Hits, Goes, Gives, Script, client, files, remote
  <2>2. Each(s)'
    BY <1>0 DEF Shape, Each, SentOnce, InstalledIsKnown, PayloadIsStaged, LeftIsKnown,
       Early, Staged, Over, Body, Hits, Goes, Gives, Script, client, files, remote
  <2> QED
    BY <2>1, <2>2, OneSync
<1>10. CASE RemovesStage(s)
  <2> USE <1>10 DEF RemovesStage, Cleans
  <2>1. Shape' /\ \A r \in Syncs \ {s} : Untouched(r)
    BY DEF Inv, Local, Shape, Untouched, Hits, Goes, Gives, Script, client, files, remote
  <2>2. Each(s)'
    BY <1>0 DEF Shape, Each, SentOnce, InstalledIsKnown, PayloadIsStaged, LeftIsKnown,
       Early, Staged, Over, Body, Hits, Goes, Gives, Script, client, files, remote
  <2> QED
    BY <2>1, <2>2, OneSync
<1>11. CASE RemovesArchive(s)
  <2> USE <1>11 DEF RemovesArchive, Cleans
  <2>1. Shape' /\ \A r \in Syncs \ {s} : Untouched(r)
    BY DEF Inv, Local, Shape, Untouched, Hits, Goes, Gives, Script, client, files, remote
  <2>2. Each(s)'
    BY <1>0 DEF Shape, Each, SentOnce, InstalledIsKnown, PayloadIsStaged, LeftIsKnown,
       Early, Staged, Over, Body, Hits, Goes, Gives, Script, client, files, remote
  <2> QED
    BY <2>1, <2>2, OneSync
<1>12. CASE CleanupFails(s)
  <2> USE <1>12 DEF CleanupFails, After
  <2>1. Shape' /\ \A r \in Syncs \ {s} : Untouched(r)
    BY DEF Inv, Local, Shape, Untouched, Hits, Goes, Gives, Script, client, files, remote
  <2>2. Each(s)'
    BY <1>0 DEF Shape, Each, SentOnce, InstalledIsKnown, PayloadIsStaged, LeftIsKnown,
       Early, Staged, Over, Body, Hits, Goes, Gives, Script, client, files, remote
  <2> QED
    BY <2>1, <2>2, OneSync
<1>13. CASE InterruptsCleanup(s)
  <2> USE <1>13 DEF InterruptsCleanup, After
  <2>1. Shape' /\ \A r \in Syncs \ {s} : Untouched(r)
    BY DEF Inv, Local, Shape, Untouched, Hits, Goes, Gives, Script, client, files, remote
  <2>2. Each(s)'
    BY <1>0 DEF Shape, Each, SentOnce, InstalledIsKnown, PayloadIsStaged, LeftIsKnown,
       Early, Staged, Over, Body, Hits, Goes, Gives, Script, client, files, remote
  <2> QED
    BY <2>1, <2>2, OneSync
<1>14. CASE Replies(s)
  BY <1>14 DEF Replies, Inv, Local, Shape, Each, SentOnce, InstalledIsKnown,
     PayloadIsStaged, LeftIsKnown, Early, Staged, Over, Body, client, files
<1> QED
  BY <1>1, <1>2, <1>3, <1>4, <1>5, <1>6, <1>7, <1>8, <1>9, <1>10, <1>11,
     <1>12, <1>13, <1>14 DEF OnVm

\* A kernel that stops kills what was queued, whatever it was at: it had been
\* sent.
LEMMA StopKeeps ==
    ASSUME Inv, NEW k \in Kernels, Restarts(k) \/ KernelGoes(k)
    PROVE  Local'
<1> DEFINE lost == {queue[k][i] : i \in 1..Len(queue[k])}
<1>1. \A r \in Syncs : r \in lost => pc[r] \notin Early
  BY DEF Inv, QueueIsSent
<1>2. /\ script' = [r \in Syncs |-> IF r \in lost THEN "killed" ELSE script[r]]
      /\ hit' = [r \in Syncs |-> IF r \in lost THEN hit[r] \cup {"restart"} ELSE hit[r]]
      /\ UNCHANGED <<pc, verdict, archive, stage, outcome, installed>>
  BY DEF Restarts, KernelGoes, Stops, client, files
<1> HIDE DEF lost
<1>3. Shape'
  BY <1>2 DEF Inv, Local, Shape
<1>4. ASSUME NEW r \in Syncs PROVE Each(r)'
  <2>1. Each(r)
    BY DEF Inv, Local
  <2>2. CASE r \in lost
    BY <1>1, <1>2, <2>1, <2>2 DEF Each, SentOnce, InstalledIsKnown, PayloadIsStaged,
       LeftIsKnown, Staged, Over, Body
  <2>3. CASE r \notin lost
    BY <1>2, <2>1, <2>3 DEF Each, SentOnce, InstalledIsKnown, PayloadIsStaged,
       LeftIsKnown
  <2> QED
    BY <2>2, <2>3
<1> QED
  BY <1>3, <1>4 DEF Local

LEMMA StutterKeeps ==
    ASSUME Inv, Others \/ UNCHANGED vars
    PROVE  Local'
BY DEF Others, OtherReads, OtherStores, vars, client, remote, files, Inv, Local, Shape, Each, SentOnce,
   InstalledIsKnown, PayloadIsStaged,
            LeftIsKnown, Early, Staged, Over, Body

\* A sent request stays sent, and nothing else gets into a queue.
LEMMA QueueKeeps ==
    ASSUME Inv, [Next]_vars
    PROVE  QueueIsSent'
<1> USE DEF Inv, QueueIsSent, Early
<1>1. \A s \in Syncs : pc[s] \notin Early => pc'[s] \notin Early
  <2>1. ASSUME NEW s \in Syncs, Command(s)
        PROVE  \A r \in Syncs : pc[r] \notin Early => pc'[r] \notin Early
    BY <2>1 DEF Local, Shape, Command, Goes, Gives, Begins, RejectsPayload, Uploads,
       UploadFails, Connects, RecordsSession, Sends, TakesReply, GivesUp, Removes,
       RemoveFails
  <2>2. ASSUME NEW s \in Syncs, OnVm(s) PROVE pc' = pc
    BY <2>2 DEF OnVm, OpensParents, MakesStage, Extracts, Validates,
       LooksAtDestination, Exchanges, Renames, Commits, Raises, InterruptsCommit,
       RemovesStage, RemovesArchive, Cleans, CleanupFails, InterruptsCleanup, Replies,
       client
  <2>3. ASSUME NEW k \in Kernels, Restarts(k) \/ KernelGoes(k) PROVE pc' = pc
    BY <2>3 DEF Restarts, KernelGoes, client
  <2>4. Others \/ UNCHANGED vars => pc' = pc
    BY DEF Others, OtherReads, OtherStores, vars, client
  <2> QED
    BY <2>1, <2>2, <2>3, <2>4 DEF Next
<1>2. ASSUME NEW s \in Syncs, Sends(s) PROVE QueueIsSent'
  <2>1. pc'[s] \notin Early
    BY <1>2 DEF Sends, Goes, Local, Shape
  <2>2. queue' = [queue EXCEPT ![kernel[s]] = Append(@, s)]
    BY <1>2 DEF Sends
  <2>3. queue' \in [Kernels -> Seq(Syncs)]
    <3>1. CASE kernel[s] \in Kernels
      <4>1. Append(queue[kernel[s]], s) \in Seq(Syncs)
        BY <3>1
      <4> QED
        BY <2>2, <4>1
    <3>2. CASE kernel[s] \notin Kernels
      <4>1. queue' = queue
        BY <2>2, <3>2
      <4> QED
        BY <4>1
    <3> QED
      BY <3>1, <3>2
  <2>4. ASSUME NEW k \in Kernels, NEW i \in 1..Len(queue'[k])
        PROVE  pc'[queue'[k][i]] \notin Early
    <3>1. CASE k = kernel[s]
      <4>1. queue'[k] = Append(queue[k], s) /\ Len(queue'[k]) = Len(queue[k]) + 1
        BY <2>2, <3>1
      <4>2. \/ i \in 1..Len(queue[k]) /\ queue'[k][i] = queue[k][i]
            \/ queue'[k][i] = s
        BY <2>4, <4>1
      <4>3. i \in 1..Len(queue[k]) => queue[k][i] \in Syncs
        OBVIOUS
      <4> QED
        BY <1>1, <2>1, <4>2, <4>3
    <3>2. CASE k # kernel[s]
      BY <1>1, <2>2, <2>4, <3>2
    <3> QED
      BY <3>1, <3>2
  <2> QED
    BY <2>3, <2>4
<1>3. ASSUME NEW s \in Syncs, Replies(s) PROVE QueueIsSent'
  <2>1. PICK k \in Kernels :
          /\ queue[k] # <<>>
          /\ \/ queue' = [queue EXCEPT ![k] = <<>>]
             \/ queue' = [queue EXCEPT ![k] = Tail(@)]
    BY <1>3 DEF Replies
  <2>2. pc' = pc
    BY <1>3 DEF Replies, client
  <2>3. queue[k] \in Seq(Syncs) /\ Tail(queue[k]) \in Seq(Syncs)
    BY <2>1
  <2>4. CASE queue' = [queue EXCEPT ![k] = <<>>]
    BY <2>2, <2>4
  <2>5. CASE queue' = [queue EXCEPT ![k] = Tail(@)]
    <3>1. \A i \in 1..Len(queue'[k]) :
            i + 1 \in 1..Len(queue[k]) /\ queue'[k][i] = queue[k][i + 1]
      BY <2>1, <2>3, <2>5
    <3>2. \A l \in Kernels \ {k} : queue'[l] = queue[l]
      BY <2>5
    <3> QED
      BY <2>2, <2>3, <2>5, <3>1, <3>2
  <2> QED
    BY <2>1, <2>4, <2>5
<1>4. ASSUME NEW k \in Kernels, Restarts(k) \/ KernelGoes(k) PROVE QueueIsSent'
  <2>1. queue' = [queue EXCEPT ![k] = <<>>]
    BY <1>4 DEF Restarts, KernelGoes, Stops
  <2>2. pc' = pc
    BY <1>4 DEF Restarts, KernelGoes, client
  <2> QED
    BY <2>1, <2>2
<1>5. ASSUME UNCHANGED queue PROVE QueueIsSent'
  BY <1>1, <1>5
<1>6. ASSUME NEW s \in Syncs, Command(s), ~Sends(s) PROVE UNCHANGED queue
  BY <1>6 DEF Command, Begins, RejectsPayload, Uploads, UploadFails, Connects,
     RecordsSession, TakesReply, GivesUp, Removes, RemoveFails, remote
<1>7. ASSUME NEW s \in Syncs, OnVm(s), ~Replies(s) PROVE UNCHANGED queue
  BY <1>7 DEF OnVm, OpensParents, MakesStage, Extracts, Validates,
     LooksAtDestination, Exchanges, Renames, Commits, Raises, InterruptsCommit,
     RemovesStage, RemovesArchive, Cleans, CleanupFails, InterruptsCleanup
<1>8. Others \/ UNCHANGED vars => UNCHANGED queue
  BY DEF Others, OtherReads, OtherStores, vars, remote
<1> QED
  BY <1>2, <1>3, <1>4, <1>5, <1>6, <1>7, <1>8 DEF Next

THEOREM Invariance == Spec => []Inv
<1>1. Init => Inv
  BY DEF Init, QueueIsSent, Inv, Local, Shape, Each, SentOnce, InstalledIsKnown,
     PayloadIsStaged,
            LeftIsKnown, Early, Staged, Over, Body
<1>2. Inv /\ [Next]_vars => Inv'
  BY CommandKeeps, ScriptKeeps, StopKeeps, StutterKeeps, QueueKeeps DEF Next, Inv
<1> QED
  BY <1>1, <1>2, PTL DEF Spec

\* Success is told of an installed payload alone, and a script that raises
\* has left the destination alone unless it was interrupted (sync.py).
THEOREM AnswersAreTrue == Spec => []AnswerIsTrue
<1>1. Inv => AnswerIsTrue
  BY DEF AnswerIsTrue, Inv, Local, Shape, Each, SentOnce, InstalledIsKnown,
     PayloadIsStaged,
            LeftIsKnown, Early, Staged, Over, Body
<1> QED
  BY <1>1, Invariance, PTL

\* What stays on the VM has a removal that failed to blame.
THEOREM LeftoversAreKnown == Spec => []NothingIsLeft
<1>1. Inv => NothingIsLeft
  BY DEF NothingIsLeft, Inv, Local, Shape, Each, SentOnce, InstalledIsKnown,
     PayloadIsStaged,
            LeftIsKnown, Early, Staged, Over, Body
<1> QED
  BY <1>1, Invariance, PTL

\* The destination goes from one whole tree to another in one step.
THEOREM DestinationStaysWhole == Spec => DestinationIsWhole
<1>1. Inv /\ [Next]_vars => [GoesWhole]_vars
  <2> SUFFICES ASSUME Inv, [Next]_vars PROVE GoesWhole
    OBVIOUS
  <2> USE DEF GoesWhole
  <2>1. ASSUME NEW s \in Syncs, Command(s) PROVE dest' = dest
    BY <2>1 DEF Command, Begins, RejectsPayload, Uploads, UploadFails, Connects,
       RecordsSession, Sends, TakesReply, GivesUp, Removes, RemoveFails, files
  <2>2. ASSUME NEW s \in Syncs, OnVm(s) PROVE GoesWhole
    <3>1. CASE Exchanges(s) \/ Renames(s) \/ InterruptsCommit(s)
      BY <3>1 DEF Exchanges, Renames, InterruptsCommit, Commits, Inv, Local, Each,
         PayloadIsStaged
    <3>2. CASE ~(Exchanges(s) \/ Renames(s) \/ InterruptsCommit(s))
      BY <2>2, <3>2 DEF OnVm, OpensParents, MakesStage, Extracts, Validates,
         LooksAtDestination, Raises, RemovesStage, RemovesArchive, Cleans, CleanupFails,
         InterruptsCleanup, Replies, files
    <3> QED
      BY <3>1, <3>2
  <2>3. ASSUME NEW k \in Kernels, Restarts(k) \/ KernelGoes(k) PROVE dest' = dest
    BY <2>3 DEF Restarts, KernelGoes, files
  <2>4. Others \/ UNCHANGED vars => dest' = dest
    BY DEF Others, OtherReads, OtherStores, vars, files
  <2> QED
    BY <2>1, <2>2, <2>3, <2>4 DEF Next
<1> QED
  BY <1>1, Invariance, PTL DEF Spec, DestinationIsWhole
-------------------------------------------------------------------------------
(* A rerun.  Of two syncs that do not overlap the later one finds the      *)
(* other's kernel in the record, unless that one's is not there, and a     *)
(* kernel works its requests off in order.                                 *)

Live == Body \cup {"rmStage", "rmArchive", "reply"}

\* Who had ended when a sync began has ended.
PriorEnded ==
    /\ prior \in [Syncs -> SUBSET Syncs]
    /\ \A s \in Syncs : \A r \in prior[s] : pc[r] = "end" /\ r # s
    /\ \A s \in Syncs : pc[s] = "start" => prior[s] = {}

\* A script is sent to a kernel.
HasKernel ==
    /\ copy \in [Syncs -> Kernels \cup {NoKernel}]
    /\ kernel \in [Syncs -> Kernels \cup {NoKernel}]
    /\ record \in Kernels \cup {NoKernel} /\ held \subseteq Kernels \cup {NoKernel}
    /\ \A s \in Syncs : pc[s] \in {"store", "send", "await"} => kernel[s] \in Kernels

\* No sync runs, or ran, beside r.
Apart(r) ==
    \A x \in Syncs \ {r} :
        pc[x] = "start" \/ pc[r] = "start" \/ x \in prior[r] \/ r \in prior[x]

\* A sync has another kernel than its copy of the record names only if that one
\* was gone.
KernelIsOwn ==
    \A s \in Syncs : kernel[s] = copy[s] \/ (s \in stray /\ copy[s] \in gone)

\* The kernel of a sync that had none beside it, and is not stray, is the
\* record's, and that of every later copy.
KernelIsKept ==
    \A r \in Syncs :
        (pc[r] # "start" /\ Apart(r) /\ r \notin stray /\ copy[r] # NoKernel) =>
            /\ record = copy[r]
            /\ \A x \in Syncs : r \in prior[x] => copy[x] = copy[r]

\* A request is in the queue of its sync's kernel, once, behind those of the
\* syncs before it; the first one alone is being run.
QueueInOrder ==
    \A k \in Kernels : \A i \in 1..Len(queue[k]) :
        /\ kernel[queue[k][i]] = k
        /\ script[queue[k][i]] \in Live
        /\ i > 1 => script[queue[k][i]] = "queued"
        /\ \A j \in 1..Len(queue[k]) :
              i < j => queue[k][i] # queue[k][j] /\ queue[k][j] \notin prior[queue[k][i]]

\* A kernel that is gone has nothing to do.
GoneIsIdle == \A k \in gone : k \in Kernels => queue[k] = <<>>

\* A script that is not over is in a queue.
LiveIsQueued ==
    \A r \in Syncs : script[r] \in Live =>
        \E k \in Kernels : \E i \in 1..Len(queue[k]) : queue[k][i] = r

\* The script of a rerun has not begun before the earlier one is over.
WaitsItsTurn ==
    \A s \in Syncs : \A r \in prior[s] :
        (Apart(r) /\ r \notin stray /\ script[r] \in Live) =>
            script[s] \in {"none", "queued"}

DestIsInstalled == dest \in installed \cup {"old", "none"}

ClientInv == PriorEnded /\ HasKernel /\ KernelIsOwn /\ KernelIsKept
OrderInv  == /\ ClientInv /\ GoneIsIdle /\ QueueInOrder /\ LiveIsQueued /\ WaitsItsTurn
             /\ DestIsInstalled

\* No step of a command.
Quiet ==
    \/ \E s \in Syncs : OnVm(s)
    \/ \E k \in Kernels : Restarts(k) \/ KernelGoes(k)
    \/ Others \/ UNCHANGED vars

\* A command has a step of its own on what the syncs know of each other.
LEMMA ClientStep ==
    ASSUME NEW s \in Syncs, Command(s), ~Begins(s), ~Connects(s), ~RecordsSession(s)
    PROVE  UNCHANGED <<prior, copy, kernel, record, held, stray, gone>>
BY DEF Command, RejectsPayload, Uploads, UploadFails, Sends, TakesReply, GivesUp,
   Removes, RemoveFails, session, server

\* Nobody begins but by Begins, and who has ended stays so.
LEMMA PcStep ==
    ASSUME Shape, NEW s \in Syncs, Command(s)
    PROVE  /\ \A r \in Syncs \ {s} : pc'[r] = pc[r]
           /\ pc'[s] # "start" /\ pc[s] # "end"
           /\ ~Begins(s) => pc[s] # "start"
           /\ pc'[s] = "store" => Connects(s)
           /\ pc'[s] = "send" => Connects(s) \/ RecordsSession(s)
           /\ pc'[s] = "await" => Sends(s)
<1> USE DEF Goes, Gives, Shape
<1>1. CASE Begins(s) \/ RejectsPayload(s) \/ Uploads(s) \/ UploadFails(s)
  BY <1>1 DEF Begins, RejectsPayload, Uploads, UploadFails
<1>2. CASE Connects(s) \/ RecordsSession(s) \/ Sends(s)
  BY <1>2 DEF Connects, RecordsSession, Sends
<1>3. CASE TakesReply(s) \/ GivesUp(s) \/ Removes(s) \/ RemoveFails(s)
  BY <1>3 DEF TakesReply, GivesUp, Removes, RemoveFails
<1> QED
  BY <1>1, <1>2, <1>3 DEF Command

LEMMA QuietKeeps ==
    ASSUME Quiet
    PROVE  /\ UNCHANGED <<pc, prior, copy, kernel>> /\ gone \subseteq gone'
           /\ UNCHANGED <<record, held, stray>> \/ Others
<1>1. ASSUME NEW s \in Syncs, OnVm(s)
      PROVE  UNCHANGED <<pc, prior, copy, kernel, gone, record, held, stray>>
  BY <1>1 DEF OnVm, OpensParents, MakesStage, Extracts, Validates,
     LooksAtDestination, Exchanges, Renames, Commits, Raises, InterruptsCommit,
     RemovesStage, RemovesArchive, Cleans, CleanupFails, InterruptsCleanup, Replies,
     client, session, server
<1>2. ASSUME NEW k \in Kernels, Restarts(k) \/ KernelGoes(k)
      PROVE  /\ UNCHANGED <<pc, prior, copy, kernel, record, held, stray>>
             /\ gone \subseteq gone'
  BY <1>2 DEF Restarts, KernelGoes, client, session, server
<1>3. CASE Others
  BY <1>3 DEF Others, OtherReads, OtherStores, client, server
<1>4. CASE UNCHANGED vars
  BY <1>4 DEF vars, client, session, server
<1> QED
  BY <1>1, <1>2, <1>3, <1>4 DEF Quiet

\* Who stores an old copy of the record leaves those astray whose kernel it had.
LEMMA OthersKeep ==
    ASSUME ClientInv, Others
    PROVE  /\ record' \in Kernels \cup {NoKernel} /\ held' \subseteq Kernels \cup {NoKernel}
           /\ stray \subseteq stray'
           /\ \A r \in Syncs \ stray' : copy[r] = record => record' = record
BY DEF Others, OtherReads, OtherStores, ClientInv, HasKernel

LEMMA StrayStays ==
    ASSUME [Next]_vars
    PROVE  stray \subseteq stray' /\ gone \subseteq gone'
<1>1. ASSUME NEW s \in Syncs, Command(s) PROVE stray \subseteq stray' /\ gone \subseteq gone'
  <2>1. CASE Begins(s)
    BY <2>1 DEF Begins, session, server
  <2>2. CASE Connects(s)
    BY <2>2 DEF Connects, StartsKernel, KeepsKernel, server
  <2>3. CASE RecordsSession(s)
    BY <2>3 DEF RecordsSession, server
  <2> QED
    BY <1>1, <2>1, <2>2, <2>3, ClientStep
<1>2. Others => stray \subseteq stray'
  BY DEF Others, OtherReads, OtherStores
<1>3. CASE Quiet
  BY <1>2, <1>3, QuietKeeps
<1> QED
  BY <1>1, <1>3 DEF Next, Quiet

LEMMA ClientKeeps ==
    ASSUME Inv, ClientInv, NEW s \in Syncs, Command(s)
    PROVE  ClientInv'
<1>0. Shape
  BY DEF Inv, Local
<1>1. /\ \A r \in Syncs \ {s} : pc'[r] = pc[r]
      /\ pc'[s] # "start" /\ pc[s] # "end"
      /\ ~Begins(s) => pc[s] # "start"
  BY <1>0, PcStep
<1>2. CASE Begins(s)
  <2>1. /\ pc[s] = "start" /\ pc'[s] = "upload" /\ prior[s] = {}
        /\ UNCHANGED <<record, held, stray, gone>>
        /\ prior' = [prior EXCEPT ![s] = {r \in Syncs : pc[r] = "end"}]
        /\ copy' = [copy EXCEPT ![s] = record] /\ kernel' = [kernel EXCEPT ![s] = record]
    BY <1>2, <1>0 DEF Begins, Goes, Shape, ClientInv, PriorEnded, session, server
  <2>2. PriorEnded'
    BY <1>1, <2>1 DEF ClientInv, PriorEnded
  <2>3. HasKernel' /\ KernelIsOwn'
    BY <1>1, <2>1 DEF ClientInv, HasKernel, KernelIsOwn
  <2>4. ASSUME NEW r \in Syncs, r # s, pc[r] # "start", Apart(r)', r \notin stray,
               copy[r] # NoKernel
        PROVE  /\ record = copy[r]
               /\ \A x \in Syncs : r \in prior'[x] => copy'[x] = copy'[r]
    <3>1. Apart(r)
      BY <1>1, <2>1, <2>4 DEF Apart, ClientInv, PriorEnded
    <3>2. /\ record = copy[r]
          /\ \A x \in Syncs : r \in prior[x] => copy[x] = copy[r]
      BY <2>4, <3>1 DEF ClientInv, KernelIsKept
    <3> QED
      BY <2>1, <2>4, <3>2 DEF ClientInv, HasKernel, PriorEnded
  <2>5. \A x \in Syncs : s \notin prior'[x]
    BY <1>1, <2>1 DEF ClientInv, PriorEnded
  <2>6. KernelIsKept'
    BY <1>1, <2>1, <2>4, <2>5 DEF KernelIsKept, ClientInv, HasKernel
  <2> QED
    BY <2>2, <2>3, <2>6 DEF ClientInv
<1>3. CASE Connects(s) \/ RecordsSession(s)
  <2>1. /\ UNCHANGED <<prior, held>>
        /\ pc[s] \in {"connect", "store"} /\ pc'[s] \in {"store", "send"}
    BY <1>3, <1>0 DEF Connects, RecordsSession, Goes, Shape
  <2>2. /\ copy' \in [Syncs -> Kernels \cup {NoKernel}]
        /\ \A r \in Syncs \ {s} : copy'[r] = copy[r]
        /\ copy[s] # NoKernel => copy'[s] = copy[s]
        /\ record' = copy'[s] \/ (record' = record /\ copy[s] # NoKernel)
    <3>1. CASE Connects(s)
      <4>1. CASE copy[s] = NoKernel
        <5>1. PICK k \in Kernels : kernel' = [kernel EXCEPT ![s] = k]
          BY <3>1, <4>1 DEF Connects, StartsKernel
        <5>2. kernel'[s] = k
          BY <5>1 DEF ClientInv, HasKernel
        <5> QED
          BY <3>1, <4>1, <5>2 DEF Connects, ClientInv, HasKernel
      <4>2. CASE copy[s] # NoKernel
        BY <3>1, <4>2 DEF Connects, ClientInv, HasKernel
      <4> QED
        BY <4>1, <4>2
    <3>2. CASE RecordsSession(s)
      BY <3>2 DEF RecordsSession, ClientInv, HasKernel
    <3> QED
      BY <1>3, <3>1, <3>2
  <2>3. /\ kernel'[s] \in Kernels /\ kernel' \in [Syncs -> Kernels \cup {NoKernel}]
        /\ \A r \in Syncs \ {s} : kernel'[r] = kernel[r]
        /\ kernel'[s] = copy'[s] \/ (s \in stray' /\ copy'[s] \in gone')
    <3>1. CASE Connects(s) /\ StartsKernel(s)
      <4>1. PICK k \in Kernels : kernel' = [kernel EXCEPT ![s] = k]
        BY <3>1 DEF StartsKernel
      <4>2. kernel'[s] = k /\ kernel[s] \in gone \cup {NoKernel} /\ gone' = gone
        BY <3>1, <4>1 DEF StartsKernel, ClientInv, HasKernel
      <4>3. CASE copy[s] = NoKernel
        <5>1. copy' = [copy EXCEPT ![s] = kernel'[s]]
          BY <3>1, <4>3 DEF Connects
        <5> QED
          BY <4>1, <4>2, <5>1 DEF ClientInv, HasKernel
      <4>4. CASE copy[s] # NoKernel
        <5>1. copy' = copy
          BY <3>1, <4>4 DEF Connects
        <5>2. s \in stray' \/ KeepsKernel(s)
          BY <3>1, <4>4 DEF Connects
        <5>3. ~KeepsKernel(s)
          BY <4>2 DEF KeepsKernel
        <5>4. copy[s] \in gone
          BY <4>2, <4>4 DEF ClientInv, KernelIsOwn
        <5> QED
          BY <4>1, <4>2, <5>1, <5>2, <5>3, <5>4 DEF ClientInv, HasKernel
      <4> QED
        BY <4>3, <4>4
    <3>2. CASE Connects(s) /\ ~StartsKernel(s)
      <4>1. KeepsKernel(s) /\ copy' = copy /\ stray' = stray
        BY <3>2 DEF Connects
      <4>2. kernel' = kernel /\ gone' = gone /\ kernel[s] # NoKernel
        BY <4>1 DEF KeepsKernel, server
      <4> QED
        BY <4>1, <4>2 DEF ClientInv, HasKernel, KernelIsOwn
    <3>3. CASE RecordsSession(s)
      BY <3>3 DEF RecordsSession, ClientInv, HasKernel, KernelIsOwn, server
    <3> QED
      BY <1>3, <3>1, <3>2, <3>3
  <2>4. stray \subseteq stray' /\ gone \subseteq gone'
    BY StrayStays DEF Next
  <2>5. PriorEnded'
    BY <1>1, <2>1 DEF ClientInv, PriorEnded
  <2>6. HasKernel'
    BY <1>1, <2>1, <2>2, <2>3 DEF ClientInv, HasKernel
  <2>7. KernelIsOwn'
    BY <2>2, <2>3, <2>4 DEF ClientInv, KernelIsOwn
  <2>8. \A x \in Syncs : s \notin prior[x]
    BY <1>1 DEF ClientInv, PriorEnded
  <2>9. \A r \in Syncs : Apart(r)' => Apart(r)
    BY <1>1, <2>1 DEF Apart
  <2>10. ASSUME NEW r \in Syncs, pc'[r] # "start", Apart(r), r \notin stray',
                copy'[r] # NoKernel
         PROVE  /\ record' = copy'[r]
                /\ \A x \in Syncs : r \in prior[x] => copy'[x] = copy'[r]
    <3>1. CASE r = s
      <4>1. copy[s] # NoKernel => record = copy[s]
        BY <1>1, <2>1, <2>4, <2>10, <3>1 DEF ClientInv, KernelIsKept
      <4> QED
        BY <2>2, <2>8, <3>1, <4>1
    <3>2. CASE r # s
      <4>1. copy[r] = copy'[r] /\ copy[r] # NoKernel /\ pc[r] # "start"
        BY <1>1, <2>2, <2>10, <3>2
      <4>2. /\ record = copy[r]
            /\ \A x \in Syncs : r \in prior[x] => copy[x] = copy[r]
        BY <2>4, <2>10, <4>1 DEF ClientInv, KernelIsKept
      <4>3. r \in prior[s]
        BY <1>1, <2>1, <2>10, <3>2, <4>1 DEF Apart, ClientInv, PriorEnded
      <4>4. copy[s] = copy[r] /\ copy'[s] = copy[s]
        BY <2>2, <4>1, <4>2, <4>3
      <4> QED
        BY <2>2, <4>1, <4>2, <4>4
    <3> QED
      BY <3>1, <3>2
  <2>11. KernelIsKept'
    BY <2>1, <2>9, <2>10 DEF KernelIsKept
  <2> QED
    BY <2>5, <2>6, <2>7, <2>11 DEF ClientInv
<1>4. CASE ~Begins(s) /\ ~Connects(s) /\ ~RecordsSession(s)
  <2>1. UNCHANGED <<prior, copy, kernel, record, held, stray, gone>>
    BY <1>4, ClientStep
  <2>2. PriorEnded'
    BY <1>1, <2>1 DEF ClientInv, PriorEnded
  <2>3. HasKernel'
    <3>1. pc'[s] # "store" /\ pc'[s] # "send"
      BY <1>0, <1>4, PcStep
    <3>2. pc'[s] = "await" => pc[s] = "send"
      BY <1>0, <1>4, PcStep DEF Sends
    <3> QED
      BY <1>1, <2>1, <3>1, <3>2 DEF ClientInv, HasKernel
  <2>4. \A r \in Syncs : Apart(r)' => Apart(r)
    BY <1>1, <1>4, <2>1 DEF Apart
  <2>5. KernelIsOwn' /\ KernelIsKept'
    BY <1>1, <1>4, <2>1, <2>4 DEF ClientInv, KernelIsOwn, KernelIsKept
  <2> QED
    BY <2>2, <2>3, <2>5 DEF ClientInv
<1> QED
  BY <1>2, <1>3, <1>4

LEMMA QuietKeepsClient ==
    ASSUME ClientInv, Quiet
    PROVE  ClientInv'
<1>1. /\ UNCHANGED <<pc, prior, copy, kernel>> /\ gone \subseteq gone'
      /\ UNCHANGED <<record, held, stray>> \/ Others
  BY QuietKeeps
<1>2. stray \subseteq stray'
  BY <1>1, OthersKeep
<1>3. PriorEnded' /\ KernelIsOwn'
  BY <1>1, <1>2 DEF ClientInv, PriorEnded, KernelIsOwn
<1>4. HasKernel'
  BY <1>1, OthersKeep DEF ClientInv, HasKernel
<1>5. \A r \in Syncs : Apart(r)' <=> Apart(r)
  BY <1>1 DEF Apart
<1>6. \A r \in Syncs \ stray' : copy[r] = record => record' = record
  BY <1>1, OthersKeep
<1>7. KernelIsKept'
  BY <1>1, <1>2, <1>5, <1>6 DEF ClientInv, KernelIsKept
<1> QED
  BY <1>3, <1>4, <1>7 DEF ClientInv

\* Syncs that have been apart only get fewer.
LEMMA ApartStep ==
    ASSUME Inv, ClientInv, [Next]_vars, NEW r \in Syncs, Apart(r)'
    PROVE  Apart(r)
<1>1. ASSUME NEW s \in Syncs, Command(s) PROVE Apart(r)
  <2>1. /\ \A x \in Syncs \ {s} : pc'[x] = pc[x] /\ prior'[x] = prior[x]
        /\ pc[s] = "start" \/ prior' = prior
    <3>1. CASE Begins(s)
      BY <3>1, <1>1, PcStep DEF Begins, Inv, Local, ClientInv, PriorEnded
    <3>2. CASE Connects(s) \/ RecordsSession(s)
      BY <3>2, <1>1, PcStep DEF Connects, RecordsSession, Inv, Local
    <3>3. CASE ~Begins(s) /\ ~Connects(s) /\ ~RecordsSession(s)
      BY <3>3, <1>1, PcStep, ClientStep DEF Inv, Local
    <3> QED
      BY <3>1, <3>2, <3>3
  <2>2. pc'[s] # "start"
    BY <1>1, PcStep DEF Inv, Local
  <2> QED
    BY <2>1, <2>2 DEF Apart
<1>2. CASE Quiet
  BY <1>2, QuietKeeps DEF Apart
<1> QED
  BY <1>1, <1>2 DEF Next, Quiet

\* Who has sent its script keeps what it knows.
LEMMA SentKeeps ==
    ASSUME Inv, ClientInv, NEW s \in Syncs, Command(s)
    PROVE  /\ \A r \in Syncs : pc[r] \notin Early => kernel'[r] = kernel[r]
           /\ \A r \in Syncs : pc[r] # "start" => prior'[r] = prior[r]
<1>1. CASE Begins(s)
  BY <1>1 DEF Begins, Early, ClientInv, PriorEnded, HasKernel
<1>2. CASE Connects(s)
  <2>1. pc[s] = "connect" /\ prior' = prior
    BY <1>2 DEF Connects
  <2>2. \A r \in Syncs \ {s} : kernel'[r] = kernel[r]
    BY <1>2 DEF Connects, StartsKernel, KeepsKernel, ClientInv, HasKernel
  <2> QED
    BY <2>1, <2>2 DEF Early
<1>3. CASE RecordsSession(s)
  BY <1>3 DEF RecordsSession
<1>4. CASE ~Begins(s) /\ ~Connects(s) /\ ~RecordsSession(s)
  BY <1>4, ClientStep
<1> QED
  BY <1>1, <1>2, <1>3, <1>4

LEMMA UnsentKeeps ==
    ASSUME NEW s \in Syncs, Command(s)
    PROVE  /\ UNCHANGED <<dest, installed>>
           /\ ~Sends(s) => UNCHANGED <<queue, script>>
BY DEF Command, Begins, RejectsPayload, Uploads, UploadFails, Connects,
   RecordsSession, Sends, TakesReply, GivesUp, Removes, RemoveFails, remote, files

\* A script is sent to a kernel that answers, and a kernel is lost with its
\* queue.
LEMMA GoneStaysIdle ==
    ASSUME Inv, OrderInv, [Next]_vars
    PROVE  GoneIsIdle'
<1> USE DEF OrderInv, GoneIsIdle
<1>1. ASSUME NEW s \in Syncs, Command(s) PROVE GoneIsIdle'
  <2>1. gone' = gone
    <3>1. CASE Begins(s) \/ RecordsSession(s)
      BY <3>1 DEF Begins, RecordsSession, server
    <3>2. CASE Connects(s)
      BY <3>2 DEF Connects, StartsKernel, KeepsKernel, server
    <3> QED
      BY <1>1, <3>1, <3>2, ClientStep
  <2>2. CASE Sends(s)
    BY <2>1, <2>2 DEF Sends, Inv, QueueIsSent
  <2> QED
    BY <1>1, <2>1, <2>2, UnsentKeeps
<1>2. ASSUME NEW s \in Syncs, OnVm(s) PROVE GoneIsIdle'
  <2>1. gone' = gone
    BY <1>2 DEF OnVm, OpensParents, MakesStage, Extracts, Validates,
       LooksAtDestination, Exchanges, Renames, Commits, Raises, InterruptsCommit,
       RemovesStage, RemovesArchive, Cleans, CleanupFails, InterruptsCleanup, Replies,
       server
  <2>2. CASE Replies(s)
    BY <2>1, <2>2 DEF Replies, Inv, QueueIsSent
  <2>3. CASE ~Replies(s)
    BY <1>2, <2>1, <2>3 DEF OnVm, OpensParents, MakesStage, Extracts, Validates,
       LooksAtDestination, Exchanges, Renames, Commits, Raises, InterruptsCommit,
       RemovesStage, RemovesArchive, Cleans, CleanupFails, InterruptsCleanup
  <2> QED
    BY <2>2, <2>3
<1>3. ASSUME NEW k \in Kernels, Restarts(k) \/ KernelGoes(k) PROVE GoneIsIdle'
  BY <1>3 DEF Restarts, KernelGoes, Stops, server, Inv, QueueIsSent
<1>4. CASE Others \/ UNCHANGED vars
  BY <1>4 DEF Others, OtherReads, OtherStores, vars, server, remote
<1> QED
  BY <1>1, <1>2, <1>3, <1>4 DEF Next

LEMMA CommandKeepsOrder ==
    ASSUME Inv, OrderInv, NEW s \in Syncs, Command(s)
    PROVE  QueueInOrder' /\ LiveIsQueued' /\ WaitsItsTurn' /\ DestIsInstalled'
<1>1. /\ \A r \in Syncs : pc[r] \notin Early => kernel'[r] = kernel[r]
      /\ \A r \in Syncs : pc[r] # "start" => prior'[r] = prior[r]
  BY SentKeeps DEF OrderInv
<1>2. /\ \A r \in Syncs : Apart(r)' => Apart(r)
      /\ stray \subseteq stray'
  BY ApartStep, StrayStays DEF OrderInv, Next
<1>3. DestIsInstalled'
  BY UnsentKeeps DEF OrderInv, DestIsInstalled
<1>4. \A k \in Kernels : \A i \in 1..Len(queue[k]) :
          queue[k][i] \in Syncs /\ pc[queue[k][i]] \notin Early
  BY DEF Inv, QueueIsSent
<1>5. "none" \notin Live
  BY DEF Live, Body
<1>6. \A r \in Syncs : pc[r] \in Early => script[r] = "none"
  BY DEF Inv, Local, Each, SentOnce
<1>7. \A r \in Syncs : \A x \in prior[r] : pc[x] = "end"
  BY DEF OrderInv, ClientInv, PriorEnded
<1>8. CASE ~Sends(s)
  <2>1. UNCHANGED <<queue, script>>
    BY <1>8, UnsentKeeps
  <2>2. QueueInOrder'
    <3>1. QueueInOrder
      BY DEF OrderInv
    <3>2. \A k \in Kernels : \A i \in 1..Len(queue[k]) :
            kernel'[queue[k][i]] = kernel[queue[k][i]] /\ prior'[queue[k][i]] = prior[queue[k][i]]
      BY <1>1, <1>4 DEF Early
    <3> QED
      BY <2>1, <3>1, <3>2 DEF QueueInOrder
  <2>3. LiveIsQueued'
    BY <2>1 DEF OrderInv, LiveIsQueued
  <2>4. ASSUME NEW q \in Syncs, NEW r \in prior'[q], Apart(r)', r \notin stray',
               script'[r] \in Live
        PROVE  script'[q] \in {"none", "queued"}
    <3>1. CASE pc[q] = "start"
      BY <1>6, <2>1, <3>1 DEF Early
    <3>2. CASE pc[q] # "start"
      <4>1. r \in prior[q] /\ r \in Syncs
        BY <1>1, <2>4, <3>2 DEF OrderInv, ClientInv, PriorEnded
      <4> QED
        BY <1>2, <2>1, <2>4, <4>1 DEF OrderInv, WaitsItsTurn
    <3> QED
      BY <3>1, <3>2
  <2> QED
    BY <1>3, <2>2, <2>3, <2>4 DEF WaitsItsTurn
<1>9. CASE Sends(s)
  <2>1. /\ pc[s] = "send" /\ UNCHANGED <<prior, kernel>>
        /\ queue' = [queue EXCEPT ![kernel[s]] = Append(@, s)]
        /\ script' = [script EXCEPT ![s] = "queued"]
    BY <1>9 DEF Sends
  <2>2. kernel[s] \in Kernels /\ script[s] = "none"
    BY <1>6, <2>1 DEF OrderInv, ClientInv, HasKernel, Early
  <2>3. script'[s] = "queued" /\ \A r \in Syncs \ {s} : script'[r] = script[r]
    BY <2>1 DEF Inv, Local, Shape
  <2>4. "queued" \in Live
    BY DEF Live, Body
  <2>5. /\ \A k \in Kernels \ {kernel[s]} : queue'[k] = queue[k]
        /\ Len(queue'[kernel[s]]) = Len(queue[kernel[s]]) + 1
        /\ queue'[kernel[s]][Len(queue[kernel[s]]) + 1] = s
        /\ \A i \in 1..Len(queue[kernel[s]]) : queue'[kernel[s]][i] = queue[kernel[s]][i]
        /\ Len(queue[kernel[s]]) \in Nat
    <3>1. queue \in [Kernels -> Seq(Syncs)] /\ queue'[kernel[s]] = Append(queue[kernel[s]], s)
      BY <2>1, <2>2 DEF Inv, QueueIsSent
    <3>2. queue[kernel[s]] \in Seq(Syncs)
      BY <2>2, <3>1
    <3> QED
      BY <2>1, <2>2, <3>1, <3>2
  <2>6. ASSUME NEW k \in Kernels, NEW i \in 1..Len(queue[k])
        PROVE  queue[k][i] \in Syncs \ {s} /\ s \notin prior[queue[k][i]]
    BY <1>4, <1>7, <2>1, <2>6 DEF Early
  <2>7. QueueInOrder'
    <3>1. ASSUME NEW k \in Kernels, k # kernel[s], NEW i \in 1..Len(queue'[k])
          PROVE  /\ kernel[queue'[k][i]] = k
                 /\ script'[queue'[k][i]] \in Live
                 /\ i > 1 => script'[queue'[k][i]] = "queued"
                 /\ \A j \in 1..Len(queue'[k]) :
                       i < j => queue'[k][i] # queue'[k][j] /\ queue'[k][j] \notin prior[queue'[k][i]]
      <4>1. queue'[k] = queue[k]
        BY <2>5, <3>1
      <4>2. i \in 1..Len(queue[k])
        BY <3>1, <4>1
      <4>3. /\ kernel[queue[k][i]] = k
            /\ script[queue[k][i]] \in Live
            /\ i > 1 => script[queue[k][i]] = "queued"
            /\ \A j \in 1..Len(queue[k]) :
                  i < j => queue[k][i] # queue[k][j] /\ queue[k][j] \notin prior[queue[k][i]]
        BY <4>2 DEF OrderInv, QueueInOrder
      <4>4. script'[queue[k][i]] = script[queue[k][i]]
        BY <2>3, <2>6, <4>2
      <4> QED
        BY <4>1, <4>3, <4>4
    <3>2. ASSUME NEW k \in Kernels, k = kernel[s], NEW i \in 1..Len(queue'[k])
          PROVE  /\ kernel[queue'[k][i]] = k
                 /\ script'[queue'[k][i]] \in Live
                 /\ i > 1 => script'[queue'[k][i]] = "queued"
                 /\ \A j \in 1..Len(queue'[k]) :
                       i < j => queue'[k][i] # queue'[k][j] /\ queue'[k][j] \notin prior[queue'[k][i]]
      <4>1. CASE i = Len(queue[k]) + 1
        BY <2>3, <2>4, <2>5, <3>2, <4>1
      <4>2. CASE i # Len(queue[k]) + 1
        <5>1. i \in 1..Len(queue[k]) /\ queue'[k][i] = queue[k][i]
          BY <2>5, <3>2, <4>2
        <5>2. /\ kernel[queue[k][i]] = k
              /\ script[queue[k][i]] \in Live
              /\ i > 1 => script[queue[k][i]] = "queued"
              /\ \A j \in 1..Len(queue[k]) :
                    i < j => queue[k][i] # queue[k][j] /\ queue[k][j] \notin prior[queue[k][i]]
          BY <5>1 DEF OrderInv, QueueInOrder
        <5>3. queue[k][i] \in Syncs \ {s} /\ s \notin prior[queue[k][i]]
          BY <2>6, <5>1
        <5>4. ASSUME NEW j \in 1..Len(queue'[k]), i < j
              PROVE  queue[k][i] # queue'[k][j] /\ queue'[k][j] \notin prior[queue[k][i]]
          <6>1. CASE j = Len(queue[k]) + 1
            BY <2>5, <3>2, <5>3, <6>1
          <6>2. CASE j # Len(queue[k]) + 1
            BY <2>5, <3>2, <5>2, <5>4, <6>2
          <6> QED
            BY <6>1, <6>2
        <5> QED
          BY <2>3, <5>1, <5>2, <5>3, <5>4
      <4> QED
        BY <4>1, <4>2
    <3>3. kernel' = kernel /\ prior' = prior
      BY <2>1
    <3> QED
      BY <3>1, <3>2, <3>3 DEF QueueInOrder
  <2>8. LiveIsQueued'
    <3>1. ASSUME NEW r \in Syncs, script'[r] \in Live
          PROVE  \E k \in Kernels : \E i \in 1..Len(queue'[k]) : queue'[k][i] = r
      <4>1. CASE r = s
        <5>1. Len(queue[kernel[s]]) + 1 \in 1..Len(queue'[kernel[s]])
          BY <2>5
        <5> QED
          BY <2>2, <2>5, <4>1, <5>1
      <4>2. CASE r # s
        <5>1. PICK k \in Kernels : \E i \in 1..Len(queue[k]) : queue[k][i] = r
          BY <2>3, <3>1, <4>2 DEF OrderInv, LiveIsQueued
        <5>2. PICK i \in 1..Len(queue[k]) : queue[k][i] = r
          BY <5>1
        <5>3. i \in 1..Len(queue'[k]) /\ queue'[k][i] = r
          BY <2>5, <5>2
        <5> QED
          BY <5>3
      <4> QED
        BY <4>1, <4>2
    <3> QED
      BY <3>1 DEF LiveIsQueued
  <2>9. WaitsItsTurn'
    <3>1. ASSUME NEW q \in Syncs, NEW r \in prior[q], Apart(r)', r \notin stray',
                 script'[r] \in Live
          PROVE  script'[q] \in {"none", "queued"}
      <4>1. r \in Syncs /\ r # s
        BY <1>7, <2>1, <3>1 DEF OrderInv, ClientInv, PriorEnded
      <4>2. script[q] \in {"none", "queued"}
        BY <1>2, <2>3, <3>1, <4>1 DEF OrderInv, WaitsItsTurn
      <4> QED
        BY <2>3, <4>2
    <3> QED
      BY <2>1, <3>1 DEF WaitsItsTurn
  <2> QED
    BY <1>3, <2>7, <2>8, <2>9
<1> QED
  BY <1>8, <1>9

LEMMA ScriptStep ==
    ASSUME NEW s \in Syncs, OnVm(s), ~Replies(s)
    PROVE  /\ UNCHANGED queue
           /\ script[s] \in Live
           /\ script[s] = "queued" => Runs(s)
           /\ \E v \in Live \ {"queued"} : script' = [script EXCEPT ![s] = v]
           /\ \/ UNCHANGED <<dest, installed>>
              \/ dest' = s /\ installed' = installed \cup {s}
<1> USE DEF Script, Live, Body, files
<1>1. CASE OpensParents(s) \/ MakesStage(s) \/ Extracts(s) \/ Validates(s)
  BY <1>1 DEF OpensParents, MakesStage, Extracts, Validates
<1>2. CASE LooksAtDestination(s)
  BY <1>2 DEF LooksAtDestination
<1>3. CASE Exchanges(s) \/ Renames(s) \/ InterruptsCommit(s)
  BY <1>3 DEF Exchanges, Renames, InterruptsCommit, Commits
<1>4. CASE Raises(s)
  BY <1>4 DEF Raises
<1>5. CASE RemovesStage(s) \/ RemovesArchive(s)
  BY <1>5 DEF RemovesStage, RemovesArchive, Cleans
<1>6. CASE CleanupFails(s) \/ InterruptsCleanup(s)
  BY <1>6 DEF CleanupFails, InterruptsCleanup, After
<1> QED
  BY <1>1, <1>2, <1>3, <1>4, <1>5, <1>6 DEF OnVm

\* A rerun has the kernel of the sync before it, whose script is queued there:
\* it is in the record, and a kernel with a request is not gone.
LEMMA SameQueue ==
    ASSUME Inv, OrderInv, NEW q \in Syncs, NEW r \in prior[q], Apart(r),
           r \notin stray, script[r] \in Live
    PROVE  /\ r \in Syncs /\ r # q
           /\ kernel[r] \in Kernels /\ kernel[q] = kernel[r]
           /\ \E i \in 1..Len(queue[kernel[r]]) : queue[kernel[r]][i] = r
<1>1. r \in Syncs /\ pc[r] = "end" /\ r # q
  BY DEF OrderInv, ClientInv, PriorEnded
<1>2. PICK k \in Kernels : \E i \in 1..Len(queue[k]) : queue[k][i] = r
  BY <1>1 DEF OrderInv, LiveIsQueued
<1>3. kernel[r] = k
  BY <1>2 DEF OrderInv, QueueInOrder
<1>4. k \notin gone
  <2>1. queue[k] # <<>>
    BY <1>2 DEF Inv, QueueIsSent
  <2> QED
    BY <2>1 DEF OrderInv, GoneIsIdle
<1>5. copy[r] = k /\ copy[r] # NoKernel
  BY <1>1, <1>3, SyncAssumption DEF OrderInv, ClientInv, KernelIsOwn
<1>6. copy[q] = k
  BY <1>1, <1>5 DEF OrderInv, ClientInv, KernelIsKept
<1>7. kernel[q] = k
  BY <1>4, <1>6 DEF OrderInv, ClientInv, KernelIsOwn
<1> QED
  BY <1>1, <1>2, <1>3, <1>7

LEMMA HeadIsFirst ==
    ASSUME Inv, NEW k \in Kernels, queue[k] # <<>>
    PROVE  Head(queue[k]) = queue[k][1] /\ 1 \in 1..Len(queue[k])
BY DEF Inv, QueueIsSent

\* The kernel does not turn to a rerun while the earlier script is not over.
LEMMA NotItsTurn ==
    ASSUME Inv, OrderInv, NEW q \in Syncs, Runs(q), NEW r \in prior[q], Apart(r),
           r \notin stray, script[r] \in Live
    PROVE  FALSE
<1>1. PICK k \in Kernels : queue[k] # <<>> /\ Head(queue[k]) = q
  BY DEF Runs
<1>2. queue[k][1] = q /\ 1 \in 1..Len(queue[k])
  BY <1>1, HeadIsFirst
<1>3. kernel[q] = k
  BY <1>2 DEF OrderInv, QueueInOrder
<1>4. PICK i \in 1..Len(queue[k]) : queue[k][i] = r
  BY <1>3, SameQueue
<1>5. i # 1
  BY <1>2, <1>4, SameQueue
<1>6. 1 < i
  BY <1>4, <1>5
<1>7. \A j \in 1..Len(queue[k]) : 1 < j => queue[k][j] \notin prior[queue[k][1]]
  BY <1>2 DEF OrderInv, QueueInOrder
<1> QED
  BY <1>2, <1>4, <1>6, <1>7

\* What a kernel runs is the first of its queue.
LEMMA RunsIsFirst ==
    ASSUME Inv, OrderInv, NEW k \in Kernels, NEW i \in 1..Len(queue[k]), i > 1
    PROVE  ~Runs(queue[k][i])
<1> DEFINE s == queue[k][i]
<1>1. SUFFICES ASSUME Runs(s) PROVE FALSE
  OBVIOUS
<1>2. PICK l \in Kernels : queue[l] # <<>> /\ Head(queue[l]) = s
  BY <1>1 DEF Runs
<1>3. queue[l][1] = s /\ 1 \in 1..Len(queue[l])
  BY <1>2, HeadIsFirst
<1>4. l = k
  BY <1>3 DEF OrderInv, QueueInOrder
<1> QED
  BY <1>3, <1>4 DEF OrderInv, QueueInOrder

LEMMA QuietStep ==
    ASSUME (\E s \in Syncs : OnVm(s)) \/ (\E k \in Kernels : Restarts(k) \/ KernelGoes(k))
    PROVE  UNCHANGED <<pc, prior, kernel, stray>>
BY DEF OnVm, OpensParents, MakesStage, Extracts, Validates,
   LooksAtDestination, Exchanges, Renames, Commits, Raises, InterruptsCommit,
   RemovesStage, RemovesArchive, Cleans, CleanupFails, InterruptsCleanup, Replies,
   Restarts, KernelGoes, client, session

LEMMA ScriptKeepsOrder ==
    ASSUME Inv, OrderInv, NEW s \in Syncs, OnVm(s), ~Replies(s)
    PROVE  QueueInOrder' /\ LiveIsQueued' /\ WaitsItsTurn' /\ DestIsInstalled'
<1>1. UNCHANGED <<pc, prior, kernel, queue, stray>>
  BY QuietStep, ScriptStep
<1>2. /\ script[s] \in Live /\ script'[s] \in Live
      /\ \A r \in Syncs \ {s} : script'[r] = script[r]
      /\ script[s] = "queued" => Runs(s)
  BY ScriptStep DEF Inv, Local, Shape
<1>3. DestIsInstalled'
  BY ScriptStep DEF OrderInv, DestIsInstalled
<1>4. QueueInOrder'
  <2>1. ASSUME NEW k \in Kernels, NEW i \in 1..Len(queue[k])
        PROVE  /\ queue[k][i] \in Syncs
               /\ script'[queue[k][i]] \in Live
               /\ i > 1 => script'[queue[k][i]] = "queued"
    <3>1. queue[k][i] \in Syncs
      BY DEF Inv, QueueIsSent
    <3>2. i > 1 => script[queue[k][i]] = "queued" /\ ~Runs(queue[k][i])
      BY RunsIsFirst DEF OrderInv, QueueInOrder
    <3>3. script[queue[k][i]] \in Live
      BY DEF OrderInv, QueueInOrder
    <3> QED
      BY <1>2, <3>1, <3>2, <3>3
  <2> QED
    BY <1>1, <2>1 DEF OrderInv, QueueInOrder
<1>5. LiveIsQueued'
  BY <1>1, <1>2 DEF OrderInv, LiveIsQueued
<1>6. WaitsItsTurn'
  <2>1. ASSUME NEW q \in Syncs, NEW r \in prior[q], Apart(r), r \notin stray,
               script'[r] \in Live
        PROVE  script'[q] \in {"none", "queued"}
    <3>1. r \in Syncs /\ script[r] \in Live
      BY <1>2, <2>1 DEF OrderInv, ClientInv, PriorEnded
    <3>2. script[q] \in {"none", "queued"}
      BY <2>1, <3>1 DEF OrderInv, WaitsItsTurn
    <3>3. ~Runs(q)
      BY <2>1, <3>1, NotItsTurn
    <3>4. "none" \notin Live
      BY DEF Live, Body
    <3> QED
      BY <1>2, <3>2, <3>3, <3>4
  <2> QED
    BY <1>1, <2>1 DEF WaitsItsTurn, Apart
<1> QED
  BY <1>3, <1>4, <1>5, <1>6

\* The first request leaves the queue, alone or with all that wait behind it.
LEMMA ReplyKeepsOrder ==
    ASSUME Inv, OrderInv, NEW s \in Syncs, Replies(s)
    PROVE  QueueInOrder' /\ LiveIsQueued' /\ WaitsItsTurn' /\ DestIsInstalled'
<1>1. UNCHANGED <<pc, prior, kernel, stray>>
  BY QuietStep DEF OnVm
<1>2. PICK k \in Kernels, aborts \in BOOLEAN :
        /\ queue[k] # <<>> /\ Head(queue[k]) = s
        /\ queue' = [queue EXCEPT ![k] = IF aborts THEN <<>> ELSE Tail(@)]
        /\ script' = [r \in Syncs |->
             IF r = s THEN IF outcome[s] = "committed" THEN "ok" ELSE "raised"
             ELSE IF aborts /\ script[r] = "queued" /\ kernel[r] = k THEN "aborted"
             ELSE script[r]]
  BY DEF Replies
<1>3. script[s] = "reply" /\ UNCHANGED <<dest, installed>>
  BY DEF Replies, files
<1>4. queue[k][1] = s /\ 1 \in 1..Len(queue[k])
  BY <1>2, HeadIsFirst
<1>5. kernel[s] = k
  BY <1>4 DEF OrderInv, QueueInOrder
<1>6. "ok" \notin Live /\ "raised" \notin Live /\ "aborted" \notin Live
  BY DEF Live, Body
<1>7. /\ \A l \in Kernels \ {k} : queue'[l] = queue[l]
      /\ aborts => queue'[k] = <<>>
      /\ ~aborts => /\ Len(queue'[k]) = Len(queue[k]) - 1
                    /\ \A i \in 1..Len(queue'[k]) : queue'[k][i] = queue[k][i + 1]
      /\ Len(queue[k]) \in Nat
  <2>1. queue \in [Kernels -> Seq(Syncs)] /\ queue[k] \in Seq(Syncs)
    BY DEF Inv, QueueIsSent
  <2>2. queue'[k] = IF aborts THEN <<>> ELSE Tail(queue[k])
    BY <1>2, <2>1
  <2> QED
    BY <1>2, <2>1, <2>2
<1>8. ASSUME NEW r \in Syncs, script'[r] \in Live
      PROVE  r # s /\ script'[r] = script[r] /\ (aborts /\ script[r] = "queued" => kernel[r] # k)
  BY <1>2, <1>6, <1>8
<1>9. ASSUME NEW l \in Kernels, NEW i \in 1..Len(queue[l])
      PROVE  /\ queue[l][i] \in Syncs /\ kernel[queue[l][i]] = l
             /\ script[queue[l][i]] \in Live
             /\ i > 1 => script[queue[l][i]] = "queued"
             /\ \A j \in 1..Len(queue[l]) :
                   i < j => queue[l][i] # queue[l][j] /\ queue[l][j] \notin prior[queue[l][i]]
  BY DEF Inv, QueueIsSent, OrderInv, QueueInOrder
<1>10. QueueInOrder'
  <2>1. ASSUME NEW l \in Kernels, NEW i \in 1..Len(queue'[l])
        PROVE  /\ kernel[queue'[l][i]] = l
               /\ script'[queue'[l][i]] \in Live
               /\ i > 1 => script'[queue'[l][i]] = "queued"
               /\ \A j \in 1..Len(queue'[l]) :
                     i < j => queue'[l][i] # queue'[l][j] /\ queue'[l][j] \notin prior[queue'[l][i]]
    <3>1. CASE l # k
      <4>1. queue'[l] = queue[l] /\ i \in 1..Len(queue[l])
        BY <1>7, <2>1, <3>1
      <4>2. script'[queue[l][i]] = script[queue[l][i]]
        BY <1>2, <1>5, <1>9, <3>1, <4>1
      <4> QED
        BY <1>9, <4>1, <4>2
    <3>2. CASE l = k
      <4>1. ~aborts /\ i + 1 \in 1..Len(queue[k]) /\ queue'[k][i] = queue[k][i + 1]
        BY <1>7, <2>1, <3>2
      <4>2. queue[k][i + 1] # s /\ queue[k][i + 1] \in Syncs
        <5>1. \A j \in 1..Len(queue[k]) : 1 < j => queue[k][1] # queue[k][j]
          BY <1>4, <1>9
        <5>2. 1 < i + 1
          BY <2>1
        <5> QED
          BY <1>4, <1>9, <4>1, <5>1, <5>2
      <4>3. script'[queue[k][i + 1]] = script[queue[k][i + 1]]
        BY <1>2, <4>1, <4>2
      <4>4. script[queue[k][i + 1]] = "queued" /\ kernel[queue[k][i + 1]] = k
        BY <1>9, <2>1, <4>1
      <4>5. "queued" \in Live
        BY DEF Live, Body
      <4>6. ASSUME NEW j \in 1..Len(queue'[k]), i < j
            PROVE  queue'[k][i] # queue'[k][j] /\ queue'[k][j] \notin prior[queue'[k][i]]
        <5>1. j + 1 \in 1..Len(queue[k]) /\ queue'[k][j] = queue[k][j + 1] /\ i + 1 < j + 1
          BY <1>7, <2>1, <4>1, <4>6
        <5> QED
          BY <1>9, <4>1, <5>1
      <4> QED
        BY <3>2, <4>1, <4>3, <4>4, <4>5, <4>6
    <3> QED
      BY <3>1, <3>2
  <2>2. kernel' = kernel /\ prior' = prior
    BY <1>1
  <2> QED
    BY <2>1, <2>2 DEF QueueInOrder
<1>11. LiveIsQueued'
  <2>1. ASSUME NEW r \in Syncs, script'[r] \in Live
        PROVE  \E l \in Kernels : \E i \in 1..Len(queue'[l]) : queue'[l][i] = r
    <3>1. r # s /\ script'[r] = script[r] /\ (aborts /\ script[r] = "queued" => kernel[r] # k)
      BY <1>8, <2>1
    <3>2. PICK l \in Kernels : \E i \in 1..Len(queue[l]) : queue[l][i] = r
      BY <2>1, <3>1 DEF OrderInv, LiveIsQueued
    <3>3. PICK i \in 1..Len(queue[l]) : queue[l][i] = r
      BY <3>2
    <3>4. CASE l # k
      BY <1>7, <3>3, <3>4
    <3>5. CASE l = k
      <4>1. i > 1
        BY <1>4, <3>1, <3>3, <3>5
      <4>2. ~aborts
        BY <1>9, <3>1, <3>3, <3>5, <4>1
      <4>3. i - 1 \in 1..Len(queue'[k]) /\ queue'[k][i - 1] = queue[k][i]
        BY <1>7, <3>3, <3>5, <4>1, <4>2
      <4> QED
        BY <3>3, <3>5, <4>3
    <3> QED
      BY <3>4, <3>5
  <2> QED
    BY <2>1 DEF LiveIsQueued
<1>12. WaitsItsTurn'
  <2>1. ASSUME NEW q \in Syncs, NEW r \in prior[q], Apart(r), r \notin stray,
               script'[r] \in Live
        PROVE  script'[q] \in {"none", "queued"}
    <3>1. r \in Syncs
      BY DEF OrderInv, ClientInv, PriorEnded
    <3>2. r # s /\ script[r] \in Live /\ (aborts /\ script[r] = "queued" => kernel[r] # k)
      BY <1>8, <2>1, <3>1
    <3>3. script[q] \in {"none", "queued"} /\ kernel[q] = kernel[r]
      BY <2>1, <3>2, SameQueue DEF OrderInv, WaitsItsTurn
    <3>4. ~(aborts /\ kernel[q] = k)
      <4> SUFFICES ASSUME aborts, kernel[q] = k PROVE FALSE
        OBVIOUS
      <4>1. PICK i \in 1..Len(queue[k]) : queue[k][i] = r
        BY <2>1, <3>2, <3>3, SameQueue
      <4>2. i > 1
        BY <1>4, <3>2, <4>1
      <4> QED
        BY <1>9, <3>2, <4>1, <4>2
    <3> QED
      BY <1>2, <1>3, <3>3, <3>4
  <2> QED
    BY <1>1, <2>1 DEF WaitsItsTurn, Apart
<1>13. DestIsInstalled'
  BY <1>3 DEF OrderInv, DestIsInstalled
<1> QED
  BY <1>10, <1>11, <1>12, <1>13

\* A kernel that stops loses its whole queue, so the earlier script with the
\* rerun's.
LEMMA StopKeepsOrder ==
    ASSUME Inv, OrderInv, NEW k \in Kernels, Restarts(k) \/ KernelGoes(k)
    PROVE  QueueInOrder' /\ LiveIsQueued' /\ WaitsItsTurn' /\ DestIsInstalled'
<1> DEFINE lost == {queue[k][i] : i \in 1..Len(queue[k])}
<1>1. UNCHANGED <<pc, prior, kernel, stray>>
  BY QuietStep
<1>2. /\ script' = [r \in Syncs |-> IF r \in lost THEN "killed" ELSE script[r]]
      /\ queue' = [queue EXCEPT ![k] = <<>>]
      /\ UNCHANGED <<dest, installed>>
  BY DEF Restarts, KernelGoes, Stops, files
<1>3. "killed" \notin Live
  BY DEF Live, Body
<1>4. queue'[k] = <<>> /\ \A l \in Kernels \ {k} : queue'[l] = queue[l]
  BY <1>2 DEF Inv, QueueIsSent
<1>5. ASSUME NEW l \in Kernels, NEW i \in 1..Len(queue[l])
      PROVE  queue[l][i] \in Syncs /\ kernel[queue[l][i]] = l
  BY DEF Inv, QueueIsSent, OrderInv, QueueInOrder
<1>6. \A r \in Syncs : r \in lost => kernel[r] = k
  BY <1>5
<1>7. QueueInOrder'
  <2>1. ASSUME NEW l \in Kernels, NEW i \in 1..Len(queue'[l])
        PROVE  /\ queue'[l] = queue[l] /\ i \in 1..Len(queue[l])
               /\ script'[queue[l][i]] = script[queue[l][i]]
    <3>1. l # k
      BY <1>4, <2>1
    <3>2. queue'[l] = queue[l] /\ i \in 1..Len(queue[l])
      BY <1>4, <2>1, <3>1
    <3>3. queue[l][i] \in Syncs \ lost
      BY <1>5, <1>6, <3>1, <3>2
    <3> HIDE DEF lost
    <3> QED
      BY <1>2, <3>2, <3>3
  <2>2. kernel' = kernel /\ prior' = prior
    BY <1>1
  <2> HIDE DEF lost
  <2>3. ASSUME NEW l \in Kernels, NEW i \in 1..Len(queue'[l])
        PROVE  /\ kernel[queue'[l][i]] = l
               /\ script'[queue'[l][i]] \in Live
               /\ i > 1 => script'[queue'[l][i]] = "queued"
               /\ \A j \in 1..Len(queue'[l]) :
                     i < j => queue'[l][i] # queue'[l][j] /\ queue'[l][j] \notin prior[queue'[l][i]]
    BY <2>1, <2>3 DEF OrderInv, QueueInOrder
  <2> QED
    BY <2>2, <2>3 DEF QueueInOrder
<1>8. LiveIsQueued'
  <2>1. ASSUME NEW r \in Syncs, script'[r] \in Live
        PROVE  \E l \in Kernels : \E i \in 1..Len(queue'[l]) : queue'[l][i] = r
    <3>1. r \notin lost /\ script[r] \in Live
      BY <1>2, <1>3, <2>1
    <3>2. PICK l \in Kernels : \E i \in 1..Len(queue[l]) : queue[l][i] = r
      BY <2>1, <3>1 DEF OrderInv, LiveIsQueued
    <3>3. l # k
      BY <3>1, <3>2
    <3> QED
      BY <1>4, <3>2, <3>3
  <2> QED
    BY <2>1 DEF LiveIsQueued
<1>9. WaitsItsTurn'
  <2>1. ASSUME NEW q \in Syncs, NEW r \in prior[q], Apart(r), r \notin stray,
               script'[r] \in Live
        PROVE  script'[q] \in {"none", "queued"}
    <3>1. r \in Syncs
      BY DEF OrderInv, ClientInv, PriorEnded
    <3>2. r \notin lost /\ script[r] \in Live
      BY <1>2, <1>3, <2>1, <3>1
    <3>3. script[q] \in {"none", "queued"} /\ kernel[q] = kernel[r]
      BY <2>1, <3>2, SameQueue DEF OrderInv, WaitsItsTurn
    <3>4. kernel[r] # k
      BY <2>1, <3>2, SameQueue
    <3>5. q \notin lost
      BY <1>6, <3>3, <3>4
    <3> HIDE DEF lost
    <3> QED
      BY <1>2, <3>3, <3>5
  <2> QED
    BY <1>1, <2>1 DEF WaitsItsTurn, Apart
<1>10. DestIsInstalled'
  BY <1>2 DEF OrderInv, DestIsInstalled
<1> QED
  BY <1>7, <1>8, <1>9, <1>10

THEOREM OrderInvariance == Spec => []OrderInv
<1>1. Init => OrderInv
  <2> SUFFICES ASSUME Init PROVE OrderInv
    OBVIOUS
  <2> USE DEF Init
  <2>1. PriorEnded
    BY DEF PriorEnded
  <2>2. HasKernel /\ KernelIsOwn /\ KernelIsKept
    BY DEF HasKernel, KernelIsOwn, KernelIsKept
  <2>3. GoneIsIdle /\ QueueInOrder
    BY DEF GoneIsIdle, QueueInOrder
  <2>4. LiveIsQueued /\ WaitsItsTurn
    BY DEF LiveIsQueued, WaitsItsTurn, Live, Body
  <2>5. DestIsInstalled
    BY DEF DestIsInstalled
  <2> QED
    BY <2>1, <2>2, <2>3, <2>4, <2>5 DEF OrderInv, ClientInv
<1>2. ASSUME Inv, OrderInv, [Next]_vars PROVE OrderInv'
  <2>1. GoneIsIdle'
    BY <1>2, GoneStaysIdle
  <2>2. ASSUME NEW s \in Syncs, Command(s) PROVE OrderInv'
    BY <1>2, <2>1, <2>2, ClientKeeps, CommandKeepsOrder DEF OrderInv
  <2>3. Quiet => ClientInv'
    BY <1>2, QuietKeepsClient DEF OrderInv
  <2>4. ASSUME NEW s \in Syncs, OnVm(s) PROVE OrderInv'
    BY <1>2, <2>1, <2>3, <2>4, ScriptKeepsOrder, ReplyKeepsOrder DEF OrderInv, Quiet
  <2>5. ASSUME NEW k \in Kernels, Restarts(k) \/ KernelGoes(k) PROVE OrderInv'
    BY <1>2, <2>1, <2>3, <2>5, StopKeepsOrder DEF OrderInv, Quiet
  <2>6. CASE Others \/ UNCHANGED vars
    <3>1. UNCHANGED <<pc, prior, kernel, queue, script, dest, installed>>
      BY <2>6 DEF Others, OtherReads, OtherStores, vars, client, remote, files
    <3>2. QueueInOrder' /\ LiveIsQueued' /\ DestIsInstalled'
      BY <1>2, <3>1 DEF OrderInv, QueueInOrder, LiveIsQueued, DestIsInstalled
    <3>3. stray \subseteq stray' /\ \A r \in Syncs : Apart(r)' <=> Apart(r)
      BY <1>2, <3>1, StrayStays DEF Apart
    <3>4. \A q \in Syncs : \A r \in prior[q] : r \in Syncs
      BY <1>2 DEF OrderInv, ClientInv, PriorEnded
    <3>5. WaitsItsTurn'
      BY <1>2, <3>1, <3>3, <3>4 DEF OrderInv, WaitsItsTurn
    <3> QED
      BY <2>1, <2>3, <2>6, <3>2, <3>5 DEF OrderInv, Quiet
  <2> QED
    BY <1>2, <2>2, <2>4, <2>5, <2>6 DEF Next
<1> QED
  BY <1>1, <1>2, Invariance, PTL DEF Spec

\* A sync that began after another had ended is not replaced by that one's
\* payload, although its script may still wait in the kernel, unless a third ran
\* beside that one or its kernel was not in the record (sync.py, runtime.py).
THEOREM RerunIsKept == Spec => RerunWins
<1>1. ASSUME Inv, OrderInv, [Next]_vars, NEW s \in Syncs, NEW r \in Syncs,
             dest = s, dest' = r, r \in prior[s], ~Overlapped(r, s), r \notin stray
      PROVE  FALSE
  <2>1. r # s /\ pc[r] = "end"
    BY <1>1 DEF OrderInv, ClientInv, PriorEnded
  <2>2. Apart(r)
    BY <1>1 DEF Apart, Overlapped
  <2>3. s \in installed
    BY <1>1, SyncAssumption DEF OrderInv, DestIsInstalled
  <2>4. script[s] \notin {"none", "queued"}
    BY <1>1, <2>3 DEF Inv, Local, Each, InstalledIsKnown, Body
  <2>5. script[r] \in Live
    <3>1. ASSUME NEW q \in Syncs, Command(q) PROVE FALSE
      BY <1>1, <2>1, <3>1, UnsentKeeps
    <3>2. ASSUME NEW k \in Kernels, Restarts(k) \/ KernelGoes(k) PROVE FALSE
      BY <1>1, <2>1, <3>2 DEF Restarts, KernelGoes, files
    <3>3. ASSUME NEW q \in Syncs, OnVm(q) PROVE script[r] \in Live
      BY <1>1, <2>1, <3>3, ScriptStep DEF Replies, files
    <3>4. ~(Others \/ UNCHANGED vars)
      BY <1>1, <2>1 DEF Others, OtherReads, OtherStores, vars, files
    <3> QED
      BY <1>1, <3>1, <3>2, <3>3, <3>4 DEF Next
  <2> QED
    BY <1>1, <2>2, <2>4, <2>5 DEF OrderInv, WaitsItsTurn
<1>2. Inv /\ OrderInv /\ [Next]_vars =>
        [\A s, r \in Syncs :
           (dest = s /\ dest' = r /\ r \in prior[s]) =>
               Overlapped(r, s) \/ r \in stray]_vars
  BY <1>1
<1> QED
  BY <1>2, Invariance, OrderInvariance, PTL DEF Spec, RerunWins
=============================================================================
