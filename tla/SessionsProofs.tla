--------------------------- MODULE SessionsProofs ---------------------------
(***************************************************************************)
(* For any number of commands, daemons, names and VMs, no VM is forgotten. *)
(*                                                                         *)
(* What carries the proof is that a record which was seen in the store     *)
(* either still is there, or its VM is gone, or the loss is known          *)
(* (Recorded): it holds of every copy that a command or a daemon may write *)
(* back, and no step can end it.                                           *)
(***************************************************************************)
EXTENDS Sessions, TLAPS

\* A VM whose record under n was seen: the record is there, or known to be lost.
Recorded(n, e) == Up(e) => Stored(n, e) \/ e \in lost

\* Nothing is lost with a record of e.
Past(e) == Up(e) => e \in lost

\* Every record names a VM that was assigned.
Assigned == \A n \in Names : store[n] # None => vm[store[n].ep] # "free"

WithRecord == Places \ {"idle", "dead", "list", "prune"}

\* What a command holds, by its place.
Holds(c) ==
  At(c, "idle") \/ At(c, "dead") \/ At(c, "list") \/ At(c, "prune")
  \/ (cmd[c].rec \in Records /\ cmd[c].name \in Names /\ vm[cmd[c].rec.ep] # "free")

\* Past its first store: the record was seen, or written.
HasSeen(c) ==
  cmd[c].pc \in {"spawn", "use", "ask"} => Recorded(cmd[c].name, cmd[c].rec.ep)

\* A pruning command that took another record than its own from the store has
\* lost its own; what it drops is not there any more.
Prunes(c) ==
  /\ At(c, "ask") => /\ cmd[c].seen \in Records /\ vm[cmd[c].seen.ep] # "free"
                     /\ cmd[c].seen.ep = cmd[c].rec.ep \/ Past(cmd[c].rec.ep)
  /\ At(c, "drop") => Past(cmd[c].rec.ep)

\* A VM that was seen to be gone, or was given up.
Confirms(c) ==
  /\ cmd[c].pc \in {"remove", "syncdrop"} => ~Up(cmd[c].rec.ep)
  /\ \A t \in cmd[c].todo : vm[t.ep] # "free"
  /\ cmd[c].pc \in {"prune", "syncdrop"} => \A t \in cmd[c].todo : ~Up(t.ep)

CommandOK(c) == Holds(c) /\ HasSeen(c) /\ Prunes(c) /\ Confirms(c)

\* A daemon keeps the VM of a record that was there before it.
DaemonOK(d) ==
  /\ Alive(d) =>
       /\ daemon[d].ep \in Endpoints /\ daemon[d].name \in Names
       /\ vm[daemon[d].ep] # "free" /\ Recorded(daemon[d].name, daemon[d].ep)
       /\ daemon[d].pc # "get" => daemon[d].rec \in Records /\ daemon[d].rec.ep = daemon[d].ep
  /\ daemon[d].pc \notin {"add", "dead"} => daemon[d].bad < 2

IInv ==
  /\ TypeOK /\ Assigned /\ NoVmForgotten
  /\ \A c \in Cmds : CommandOK(c)
  /\ \A d \in Daemons : DaemonOK(d)

-----------------------------------------------------------------------------
(***************************************************************************)
(* What a step may do.                                                     *)
(***************************************************************************)

VmMoves ==
  /\ vm' \in [Endpoints -> {"free", "up", "gone"}]
  /\ \A e \in Endpoints : \/ vm'[e] = vm[e]
                          \/ vm[e] # "free" /\ vm'[e] = "gone"
                          \/ vm[e] = "free" /\ vm'[e] = "up"

StoreMoves ==
  /\ store' \in [Names -> Maybe(Records)]
  /\ \A n \in Names : store'[n] \in {store[n], None} \/ vm[store'[n].ep] # "free"

\* No daemon goes on but as it was.
DaemonMoves ==
  /\ daemon' \in [Daemons -> DaemonStates]
  /\ \A d \in Daemons : daemon'[d] = daemon[d] \/ daemon'[d].pc = "dead"

AstrayMoves ==
  /\ astray' \subseteq Endpoints
  /\ \A e \in astray : Up(e)' => e \in astray'

\* A VM that counts on a command to be recorded.
Claims(c, e) ==
  cmd[c].pc \in {"preflight", "add", "addlast"} /\ cmd[c].op # "adopt" /\ cmd[c].rec.ep = e

Accounted(e) == (\E n \in Names : Stored(n, e)) \/ e \in astray \cup lost

\* A command that had a VM to record, or has just got one, still has it to
\* record, or has recorded it, or gave it up.
ClaimMoves(c) ==
  \A e \in Endpoints : Up(e)' /\ (Claims(c, e) \/ ~Up(e)) => Claims(c, e)' \/ Accounted(e)'

Alone(c) == cmd' = [cmd EXCEPT ![c] = cmd'[c]] /\ cmd'[c] \in CmdStates

LEMMA RecordedStays ==
  ASSUME TypeOK, VmMoves, Tracked, NEW e \in Endpoints, vm[e] # "free", NEW n \in Names
  PROVE  /\ Recorded(n, e) => Recorded(n, e)'
         /\ Past(e) => Past(e)'
         /\ ~Up(e) => ~Up(e)'
         /\ vm'[e] # "free"
  BY DEF TypeOK, VmMoves, Tracked, Taken, Recorded, Past, Stored, Up

LEMMA CommandStays ==
  ASSUME TypeOK, VmMoves, Tracked, NEW c \in Cmds, CommandOK(c), cmd'[c] = cmd[c]
  PROVE  CommandOK(c)'
  <1>0. cmd[c] \in CmdStates
    BY DEF TypeOK
  <1>1. Holds(c)'
    BY <1>0, RecordedStays DEF CommandOK, Holds, At, Records
  <1>2. HasSeen(c)'
    BY <1>0, RecordedStays DEF CommandOK, Holds, HasSeen, At, Records
  <1>3. Prunes(c)'
    BY <1>0, RecordedStays DEF CommandOK, Holds, Prunes, At, Records
  <1>4. Confirms(c)'
    BY <1>0, RecordedStays DEF CommandOK, Holds, Confirms, At, Records, CmdStates
  <1> QED BY <1>1, <1>2, <1>3, <1>4 DEF CommandOK

LEMMA DaemonStays ==
  ASSUME TypeOK, VmMoves, Tracked, NEW d \in Daemons, DaemonOK(d), daemon'[d] = daemon[d]
  PROVE  DaemonOK(d)'
  BY RecordedStays DEF DaemonOK, Alive

LEMMA Lost == ASSUME TypeOK, Tracked PROVE lost' \subseteq Endpoints
  BY DEF TypeOK, Tracked, Taken

\* No other than c takes part.
LEMMA ForgetsNone ==
  ASSUME TypeOK, NoVmForgotten, VmMoves, Tracked, AstrayMoves, NEW c \in Cmds, ClaimMoves(c),
         \A x \in Cmds \ {c} : cmd'[x] = cmd[x]
  PROVE  NoVmForgotten'
  <1> SUFFICES ASSUME NEW e \in Endpoints, Up(e)'
               PROVE  (\E x \in Cmds : Claims(x, e)') \/ Accounted(e)'
    BY DEF NoVmForgotten, Claims, Accounted
  <1>1. CASE ~Up(e) \/ Claims(c, e)
    BY <1>1 DEF ClaimMoves
  <1>2. CASE Up(e) /\ \E n \in Names : Stored(n, e)
    BY <1>2 DEF TypeOK, Tracked, Taken, Stored, Accounted, Up
  <1>3. CASE e \in astray \/ e \in lost
    BY <1>3 DEF AstrayMoves, Accounted, Tracked, Up
  <1>4. CASE \E x \in Cmds \ {c} : Claims(x, e)
    BY <1>4 DEF Claims
  <1> QED BY <1>1, <1>2, <1>3, <1>4 DEF NoVmForgotten, Claims

LEMMA Actor ==
  ASSUME IInv, Tracked, VmMoves, StoreMoves, AstrayMoves,
         NEW c \in Cmds, Alone(c), CommandOK(c)', ClaimMoves(c),
         daemon' \in [Daemons -> DaemonStates], \A d \in Daemons : DaemonOK(d)'
  PROVE  IInv'
  <1> USE DEF IInv
  <1>1. cmd' \in [Cmds -> CmdStates] /\ \A x \in Cmds \ {c} : cmd'[x] = cmd[x]
    BY DEF Alone, TypeOK
  <1>2. TypeOK'
    BY <1>1, Lost DEF TypeOK, VmMoves, StoreMoves, AstrayMoves
  <1>3. \A x \in Cmds : CommandOK(x)'
    BY <1>1, CommandStays
  <1>4. NoVmForgotten'
    BY <1>1, ForgetsNone
  <1>5. Assigned'
    BY DEF Assigned, StoreMoves, VmMoves, TypeOK, Maybe, Records
  <1> QED BY <1>2, <1>3, <1>4, <1>5

-----------------------------------------------------------------------------
(***************************************************************************)
(* The actions, by what they change.                                       *)
(***************************************************************************)

\* Nothing but the command itself.
Quiet == UNCHANGED <<store, vm, daemon, astray>>

LEMMA QuietStep ==
  ASSUME IInv, Tracked, NEW c \in Cmds, Quiet, Alone(c), CommandOK(c)', ClaimMoves(c)
  PROVE  IInv'
  <1>1. VmMoves /\ StoreMoves /\ AstrayMoves /\ daemon' \in [Daemons -> DaemonStates]
    BY DEF IInv, TypeOK, Quiet, VmMoves, StoreMoves, AstrayMoves
  <1>2. \A d \in Daemons : DaemonOK(d)'
    BY <1>1, DaemonStays DEF IInv, Quiet
  <1> QED BY <1>1, <1>2, Actor

\* A command that goes idle, or dies, holds nothing.
LEMMA IdleOK ==
  ASSUME NEW c \in Cmds, TypeOK,
         \E place \in {"idle", "dead"} : cmd' = [cmd EXCEPT ![c] = [Idle EXCEPT !.pc = place]]
  PROVE  Alone(c) /\ CommandOK(c)' /\ \A e : ~Claims(c, e)'
  BY DEF TypeOK, Idle, Alone, CommandOK, Holds, HasSeen, Prunes, Confirms, At, CmdStates, Places,
         Maybe, Claims

LEMMA EndsOK ==
  ASSUME NEW c \in Cmds, TypeOK, Ends(c)
  PROVE  Alone(c) /\ CommandOK(c)' /\ \A e : ~Claims(c, e)'
  <1>1. cmd' = [cmd EXCEPT ![c] = [Idle EXCEPT !.pc = "idle"]]
    BY DEF Ends, Idle
  <1> QED BY <1>1, IdleOK

LEMMA QuietMoves ==
  ASSUME IInv, Tracked, NEW c \in Cmds,
         PreflightPasses(c) \/ AdoptPreflightFails(c) \/ AdoptAsks(c)
  PROVE  IInv'
  <1> USE DEF IInv
  <1>1. CASE PreflightPasses(c)
    <2>1. Quiet /\ Alone(c) /\ CommandOK(c)' /\ ClaimMoves(c)
      BY <1>1 DEF PreflightPasses, Goes, At, Quiet, TypeOK, CmdStates, Alone, CommandOK, Holds, HasSeen,
         Prunes, Confirms, ClaimMoves, Claims, Places, Up
    <2> QED BY <2>1, QuietStep
  <1>2. CASE AdoptPreflightFails(c)
    <2>1. Quiet /\ ClaimMoves(c)
      BY <1>2 DEF AdoptPreflightFails, Quiet, ClaimMoves, Claims, Up
    <2> QED BY <1>2, <2>1, EndsOK, QuietStep DEF AdoptPreflightFails
  <1>3. CASE AdoptAsks(c)
    <2>1. Quiet /\ ClaimMoves(c)
      BY <1>3 DEF AdoptAsks, Quiet, ClaimMoves, Claims, Up, At
    <2>2. CASE Ends(c)
      BY <2>1, <2>2, EndsOK, QuietStep
    <2>3. ASSUME NEW place \in {"preflight", "addlast"}, Goes(c, place) PROVE IInv'
      <3>1. Alone(c) /\ cmd'[c] = [cmd[c] EXCEPT !.pc = place]
        BY <2>3 DEF Goes, TypeOK, CmdStates, Alone, Places
      <3>2. CommandOK(c)'
        BY <1>3, <2>1, <2>3, <3>1
           DEF AdoptAsks, At, Quiet, TypeOK, CmdStates, CommandOK, Holds, HasSeen, Prunes, Confirms, Up
      <3> QED BY <2>1, <3>1, <3>2, QuietStep
    <2> QED BY <1>3, <2>2, <2>3 DEF AdoptAsks
  <1> QED BY <1>1, <1>2, <1>3

\* A command begins with a record, of the store or of its own.
LEMMA BeginSteps ==
  ASSUME IInv, Tracked, NEW c \in Cmds, NEW n \in Names, NEW e \in Endpoints,
         AdoptReads(c, n, e) \/ UseReads(c, n) \/ StopReads(c, n)
  PROVE  IInv'
  <1> USE NoneAssumption DEF IInv
  <1>1. Quiet /\ ClaimMoves(c)
    BY DEF AdoptReads, UseReads, StopReads, Quiet, ClaimMoves, Claims, Up, At
  <1>2. PICK op \in {"none", "adopt"}, place \in {"adoptask", "use", "kill"}, r \in Records :
          Begins(c, op, n, r, place) /\ vm[r.ep] # "free" /\ (place = "use" => Stored(n, r.ep))
    BY DEF AdoptReads, UseReads, StopReads, Stored, Fresh, Records, Up, TypeOK, Maybe, Assigned
  <1>3. Alone(c)
    <2>1. op \in {"none", "adopt"} /\ place \in Places /\ n \in Maybe(Names) /\ r \in Maybe(Records)
             /\ None \in Maybe(Records)
      BY DEF Maybe, Places
    <2> QED BY <1>2, <2>1 DEF Begins, Idle, TypeOK, CmdStates, Alone
  <1>4. CommandOK(c)'
    BY <1>1, <1>2 DEF Begins, Idle, Quiet, TypeOK, CommandOK, Holds, HasSeen, Prunes, Confirms,
       At, Recorded, Stored, Up
  <1> QED BY <1>1, <1>3, <1>4, QuietStep

\* A pruning command reads the store.
LEMMA PruneReads ==
  ASSUME IInv, Tracked, NEW c \in Cmds, UseIsRefused(c) \/ Rereads(c)
  PROVE  IInv'
  <1> USE NoneAssumption DEF IInv
  <1>1. Quiet /\ ClaimMoves(c)
    BY DEF UseIsRefused, Rereads, Quiet, ClaimMoves, Claims, Up, At
  <1>2. cmd[c].name \in Names /\ cmd[c].rec \in Records
    BY DEF UseIsRefused, Rereads, CommandOK, Holds, At
  <1>3. CASE UseIsRefused(c)
    <2> DEFINE s == store[cmd[c].name]
    <2> DEFINE place == IF s = None THEN "drop" ELSE "ask"
    <2>1. cmd' = [cmd EXCEPT ![c].seen = s, ![c].pc = place] /\ At(c, "use")
      BY <1>3 DEF UseIsRefused
    <2>2. s \in Maybe(Records) /\ place \in {"drop", "ask"}
      BY <1>2 DEF TypeOK
    <2>3. /\ place = "ask" => s \in Records /\ vm[s.ep] # "free"
          /\ Recorded(cmd[c].name, cmd[c].rec.ep)
      BY <1>2, <2>1, <2>2 DEF Maybe, Assigned, CommandOK, HasSeen, At
    <2>4. (place = "ask" /\ s.ep = cmd[c].rec.ep) \/ Past(cmd[c].rec.ep)
      BY <1>2, <2>3 DEF Recorded, Past, Stored
    <2> HIDE DEF s, place
    <2>5. cmd'[c] = [cmd[c] EXCEPT !.seen = s, !.pc = place] /\ cmd[c] \in CmdStates
            /\ cmd' = [cmd EXCEPT ![c] = cmd'[c]]
      BY <2>1 DEF TypeOK
    <2>6. Alone(c)
      BY <2>2, <2>5 DEF CmdStates, Places, Alone
    <2>7. /\ cmd'[c].pc = place /\ cmd'[c].seen = s
          /\ cmd'[c].rec = cmd[c].rec /\ cmd'[c].name = cmd[c].name /\ cmd'[c].todo = cmd[c].todo
      BY <2>5 DEF CmdStates
    <2>8. Holds(c) /\ Confirms(c)
      BY DEF CommandOK
    <2>9. Holds(c)' /\ Confirms(c)'
      BY <1>1, <1>2, <2>1, <2>2, <2>7, <2>8 DEF Quiet, Holds, Confirms, At, Up
    <2>10. HasSeen(c)' /\ Prunes(c)'
      <3>1. VmMoves /\ cmd[c].rec.ep \in Endpoints
        BY <1>1, <1>2 DEF Quiet, TypeOK, VmMoves, Records
      <3>2. PICK e \in Endpoints : e = cmd[c].rec.ep /\ vm[e] # "free"
        BY <3>1, <2>1 DEF CommandOK, Holds, At
      <3>3. (Past(e) => Past(e)') /\ Recorded(cmd[c].name, e)'
        <4>1. PICK m \in Names : m = cmd[c].name
          BY <1>2
        <4>2. Recorded(m, e)' /\ (Past(e) => Past(e)')
          BY <2>3, <3>1, <3>2, <4>1, RecordedStays
        <4> QED BY <4>1, <4>2, <2>7
      <3>4. place = "ask" => s \in Records /\ vm'[s.ep] # "free" /\ (s.ep = e \/ Past(e)')
        BY <1>1, <2>3, <2>4, <3>2, <3>3 DEF Quiet
      <3>5. place = "drop" => Past(e)'
        BY <2>4, <3>2, <3>3
      <3> QED BY <2>2, <2>7, <3>2, <3>3, <3>4, <3>5 DEF HasSeen, Prunes, At
    <2>11. CommandOK(c)'
      BY <2>9, <2>10 DEF CommandOK
    <2> QED BY <1>1, <2>6, <2>11, QuietStep
  <1>4. CASE Rereads(c) /\ Ends(c)
    BY <1>1, <1>4, EndsOK, QuietStep
  <1>5. CASE Rereads(c) /\ ~Ends(c)
    <2>1. Alone(c) /\ CommandOK(c)'
      BY <1>1, <1>2, <1>5
         DEF Rereads, AfterPrune, Goes, Quiet, TypeOK, CmdStates, Maybe, Alone, CommandOK, Holds, HasSeen,
       Prunes, Confirms, Places, At, Assigned, Records, Up
    <2> QED BY <1>1, <2>1, QuietStep
  <1> QED BY <1>3, <1>4, <1>5

\* sync_sessions looks.
LEMMA SyncLooks ==
  ASSUME IInv, Tracked, NEW c \in Cmds, SyncLists(c) \/ SyncAsks(c)
  PROVE  IInv'
  <1> USE NoneAssumption DEF IInv
  <1>1. Quiet /\ ClaimMoves(c)
    BY DEF SyncLists, SyncAsks, Quiet, ClaimMoves, Claims, Up, At
  <1>2. CASE SyncLists(c)
    <2> DEFINE S == {[name |-> n, ep |-> store[n].ep] : n \in {m \in Names : store[m] # None}}
    <2>1. S \subseteq [name : Names, ep : Endpoints] /\ \A t \in S : vm[t.ep] # "free"
      BY DEF TypeOK, Maybe, Records, Assigned
    <2>2. cmd' = [cmd EXCEPT ![c] = [Idle EXCEPT !.pc = "list", !.todo = S]]
      BY <1>2 DEF SyncLists
    <2> HIDE DEF S
    <2>3. Alone(c) /\ CommandOK(c)'
      BY <1>1, <2>1, <2>2 DEF Idle, Quiet, TypeOK, CmdStates, Maybe, Alone, CommandOK, Holds, HasSeen,
       Prunes, Confirms, Places, At, Up
    <2> QED BY <1>1, <2>3, QuietStep
  <1>3. CASE SyncAsks(c) /\ Ends(c)
    BY <1>1, <1>3, EndsOK, QuietStep
  <1>4. CASE SyncAsks(c) /\ ~Ends(c)
    <2> DEFINE S == {t \in cmd[c].todo : ~Up(t.ep)}
    <2>1. cmd' = [cmd EXCEPT ![c].todo = S, ![c].pc = "prune"]
      BY <1>4 DEF SyncAsks
    <2>2. S \subseteq cmd[c].todo /\ \A t \in S : ~Up(t.ep)
      OBVIOUS
    <2> HIDE DEF S
    <2>3. cmd[c].todo \subseteq [name : Names, ep : Endpoints] /\ \A t \in S : vm[t.ep] # "free"
      BY <2>2 DEF TypeOK, CmdStates, CommandOK, Confirms
    <2>4. Alone(c)
      <3>1. cmd'[c] = [cmd[c] EXCEPT !.todo = S, !.pc = "prune"] /\ cmd[c] \in CmdStates
        BY <2>1 DEF TypeOK
      <3>2. S \in SUBSET [name : Names, ep : Endpoints]
        BY <2>2, <2>3
      <3>3. cmd'[c] \in CmdStates
        BY <3>1, <3>2 DEF CmdStates, Places
      <3>4. cmd' = [cmd EXCEPT ![c] = cmd'[c]]
        BY <2>1 DEF TypeOK
      <3> QED BY <3>3, <3>4 DEF Alone
    <2>5. CommandOK(c)'
      BY <1>1, <2>1, <2>2, <2>3
         DEF Quiet, TypeOK, CmdStates, CommandOK, Holds, HasSeen, Prunes, Confirms, At, Up
    <2> QED BY <1>1, <2>4, <2>5, QuietStep
  <1> QED BY <1>2, <1>3, <1>4

-----------------------------------------------------------------------------

\* A command writes its own record.
LEMMA StoresOwn ==
  ASSUME IInv, Tracked, NEW c \in Cmds,
         AddsOwn(c), cmd[c].rec \in Records, cmd[c].name \in Names, vm[cmd[c].rec.ep] # "free",
         UNCHANGED <<vm, daemon, astray>>, Alone(c), CommandOK(c)'
  PROVE  IInv'
  <1> USE DEF IInv
  <1>1. VmMoves /\ AstrayMoves /\ daemon' \in [Daemons -> DaemonStates]
    BY DEF TypeOK, VmMoves, AstrayMoves
  <1>2. StoreMoves
    BY DEF AddsOwn, Add, TypeOK, StoreMoves, Maybe
  <1>3. ClaimMoves(c)
    BY NoneAssumption DEF AddsOwn, Add, TypeOK, ClaimMoves, Claims, Accounted, Stored, Up
  <1>4. \A d \in Daemons : DaemonOK(d)'
    BY <1>1, DaemonStays
  <1> QED BY <1>1, <1>2, <1>3, <1>4, Actor

LEMMA StoreSteps ==
  ASSUME IInv, Tracked, NEW c \in Cmds,
         Adds(c) \/ AddsLast(c) \/ UseStores(c) \/ UseEnds(c) \/ RunEnds(c) \/ Clears(c)
  PROVE  IInv'
  <1> USE NoneAssumption DEF IInv
  <1>1. cmd[c].rec \in Records /\ cmd[c].name \in Names /\ vm[cmd[c].rec.ep] # "free"
    BY DEF Adds, AddsLast, UseStores, UseEnds, RunEnds, Clears, CommandOK, Holds, At
  <1>2. UNCHANGED <<vm, daemon, astray>>
    BY DEF Adds, AddsLast, UseStores, UseEnds, RunEnds, Clears
  <1>3. ASSUME AddsOwn(c) PROVE Stored(cmd[c].name, cmd[c].rec.ep)'
                                 \/ cmd'[c].rec # cmd[c].rec \/ cmd'[c].name # cmd[c].name
    BY <1>1, <1>3 DEF AddsOwn, Add, Stored, TypeOK
  <1>4. ASSUME AddsOwn(c), Goes(c, "spawn") \/ Goes(c, "use") \/ Goes(c, "kill") PROVE IInv'
    <2>1. Alone(c)
      BY <1>4 DEF Goes, TypeOK, CmdStates, Alone, Places
    <2>2. cmd'[c] = [cmd[c] EXCEPT !.pc = cmd'[c].pc] /\ cmd'[c].pc \in {"spawn", "use", "kill"}
      BY <1>4 DEF Goes, TypeOK, CmdStates
    <2>3. CommandOK(c)'
      BY <1>1, <1>2, <1>3, <1>4, <2>2
         DEF TypeOK, CmdStates, CommandOK, Holds, HasSeen, Recorded, Prunes, Confirms, At, Up
    <2> QED BY <1>1, <1>2, <1>4, <2>1, <2>3, StoresOwn
  <1>7. ASSUME AddsOwn(c), UNCHANGED cmd PROVE IInv'
    <2>1. Alone(c)
      BY <1>7 DEF TypeOK, Alone
    <2>2. VmMoves
      BY <1>2 DEF TypeOK, VmMoves
    <2> QED BY <1>1, <1>2, <1>7, <2>1, <2>2, CommandStays, StoresOwn
  <1>5. ASSUME AddsOwn(c), Ends(c) PROVE IInv'
    BY <1>1, <1>2, <1>5, EndsOK, StoresOwn
  <1>6. CASE UseEnds(c) /\ UNCHANGED store
    <2>1. Quiet /\ ClaimMoves(c)
      BY <1>6 DEF UseEnds, Quiet, ClaimMoves, Claims, Up, At
    <2> QED BY <1>6, <2>1, EndsOK, QuietStep DEF UseEnds
  <1> QED BY <1>4, <1>5, <1>6, <1>7 DEF Adds, AddsLast, UseStores, UseEnds, RunEnds, Clears, AfterPrune

\* A command removes its name from the store; it has no VM to record.
LEMMA RemovesName ==
  ASSUME IInv, Tracked, NEW c \in Cmds, cmd[c].pc \notin {"preflight", "add", "addlast"},
         Remove(cmd[c].name) \/ store' = EmptyStore,
         UNCHANGED <<vm, daemon, astray>>, Alone(c), CommandOK(c)'
  PROVE  IInv'
  <1> USE DEF IInv
  <1>1. VmMoves /\ AstrayMoves /\ daemon' \in [Daemons -> DaemonStates]
    BY DEF TypeOK, VmMoves, AstrayMoves
  <1>2. StoreMoves
    BY DEF Remove, EmptyStore, TypeOK, StoreMoves, Maybe
  <1>3. ClaimMoves(c)
    BY DEF ClaimMoves, Claims, Up
  <1>4. \A d \in Daemons : DaemonOK(d)'
    BY <1>1, DaemonStays
  <1> QED BY <1>1, <1>2, <1>3, <1>4, Actor

LEMMA RemoveSteps ==
  ASSUME IInv, Tracked, NEW c \in Cmds, Drops(c) \/ SyncDrops(c) \/ StopRemoves(c)
  PROVE  IInv'
  <1> USE DEF IInv
  <1>1. /\ UNCHANGED <<vm, daemon, astray>> /\ Remove(cmd[c].name)
        /\ cmd[c].pc \in {"drop", "syncdrop", "remove"}
        /\ Ends(c) \/ Goes(c, "kill") \/ (cmd[c].pc = "syncdrop" /\ Goes(c, "prune"))
    BY DEF Drops, SyncDrops, StopRemoves, AfterPrune, At
  <1>2. CASE Ends(c)
    BY <1>1, <1>2, EndsOK, RemovesName
  <1>3. ASSUME NEW place \in {"kill", "prune"}, Goes(c, place),
               place = "prune" => cmd[c].pc = "syncdrop"
        PROVE  IInv'
    <2>1. Alone(c)
      BY <1>3 DEF Goes, TypeOK, CmdStates, Alone, Places
    <2>2. cmd'[c] = [cmd[c] EXCEPT !.pc = place]
      BY <1>3 DEF Goes, TypeOK
    <2>3. CommandOK(c)'
      BY <1>1, <1>3, <2>2
         DEF TypeOK, CmdStates, CommandOK, Holds, HasSeen, Prunes, Confirms, At, Up
    <2> QED BY <1>1, <2>1, <2>3, RemovesName
  <1> QED BY <1>1, <1>2, <1>3

\* Killed or interrupted, between two writes or within one.
LEMMA DieSteps ==
  ASSUME IInv, Tracked, NEW c \in Cmds, DiesBetween(c) \/ CutOff(c)
  PROVE  IInv'
  <1> USE DEF IInv
  <1>1. /\ UNCHANGED <<vm, daemon>> /\ astray' = astray \cup Unrecorded(c)
        /\ cmd' = [cmd EXCEPT ![c] = [Idle EXCEPT !.pc = "dead"]]
        /\ UNCHANGED store \/ store' = EmptyStore
    BY DEF DiesBetween, CutOff, Dies
  <1>2. Alone(c) /\ CommandOK(c)'
    BY <1>1, IdleOK
  <1>3. Unrecorded(c) \subseteq Endpoints
    BY DEF Unrecorded, CommandOK, Holds, At, Records
  <1>4. VmMoves /\ AstrayMoves /\ daemon' \in [Daemons -> DaemonStates]
    BY <1>1, <1>3 DEF TypeOK, VmMoves, AstrayMoves
  <1>5. StoreMoves
    BY <1>1 DEF EmptyStore, TypeOK, StoreMoves, Maybe
  <1>6. \A d \in Daemons : DaemonOK(d)'
    BY <1>1, <1>4, DaemonStays
  <1>7. ASSUME NEW e \in Endpoints, Up(e)', Claims(c, e) \/ ~Up(e)
        PROVE  Accounted(e)'
    BY <1>1, <1>7 DEF Claims, Unrecorded, Accounted, Stored, Up, Tracked, Taken
  <1> QED BY <1>1, <1>2, <1>4, <1>5, <1>6, <1>7, Actor DEF ClaimMoves

-----------------------------------------------------------------------------

LEMMA Killing ==
  ASSUME IInv, Tracked, NEW p, Kill(p), UNCHANGED <<vm, astray>>
  PROVE  /\ VmMoves /\ StoreMoves /\ AstrayMoves
         /\ daemon' \in [Daemons -> DaemonStates] /\ \A d \in Daemons : DaemonOK(d)'
  <1> USE DEF IInv
  <1>1. VmMoves /\ AstrayMoves
    BY DEF TypeOK, VmMoves, AstrayMoves
  <1>2. StoreMoves
    BY DEF Kill, EmptyStore, TypeOK, StoreMoves, Maybe
  <1>3. DaemonMoves
    <2>1. UNCHANGED daemon \/ \E d \in Daemons : DaemonEnds(d)
      <3>1. UNCHANGED daemon \/ DaemonEnds(p)
        BY DEF Kill
      <3>2. CASE p \notin Daemons /\ DaemonEnds(p)
        BY <3>2 DEF DaemonEnds, TypeOK
      <3> QED BY <3>1, <3>2
    <2>2. [NoDaemon EXCEPT !.pc = "dead"] \in DaemonStates
      BY DEF NoDaemon, DaemonStates, Maybe
    <2>3. ASSUME NEW d \in Daemons, DaemonEnds(d) PROVE DaemonMoves
      <3> DEFINE x == [NoDaemon EXCEPT !.pc = "dead"]
      <3>1. x \in DaemonStates /\ x.pc = "dead"
        BY <2>2 DEF NoDaemon
      <3>2. daemon' = [daemon EXCEPT ![d] = x]
        BY <2>3 DEF DaemonEnds
      <3> HIDE DEF x
      <3> QED BY <3>1, <3>2 DEF TypeOK, DaemonMoves
    <2> QED BY <2>1, <2>3 DEF TypeOK, DaemonMoves
  <1>4. \A d \in Daemons : DaemonOK(d)'
    BY <1>1, <1>3, DaemonStays DEF DaemonMoves, DaemonOK, Alive
  <1> QED BY <1>1, <1>2, <1>3, <1>4 DEF DaemonMoves

\* One entry of a function written.
LEMMA OneEntry ==
  ASSUME NEW S, NEW T, NEW f \in [S -> T], NEW x \in S, NEW v, NEW g, g = [f EXCEPT ![x] = v]
  PROVE  g[x] = v /\ g = [f EXCEPT ![x] = g[x]]
  OBVIOUS

\* A command that has no VM to record and kills a daemon.
LEMMA KillStep ==
  ASSUME IInv, Tracked, NEW c \in Cmds, NEW p, Kill(p), UNCHANGED <<vm, astray>>,
         cmd[c].pc \notin {"preflight", "add", "addlast"}, Alone(c), CommandOK(c)'
  PROVE  IInv'
  <1>1. ClaimMoves(c)
    BY DEF ClaimMoves, Claims, Up
  <1> QED BY <1>1, Killing, Actor

LEMMA KillSteps ==
  ASSUME IInv, Tracked, NEW c \in Cmds,
         StopKills(c) \/ \E t \in cmd[c].todo : SyncPrunes(c, t)
  PROVE  IInv'
  <1> USE NoneAssumption DEF IInv
  <1>1. UNCHANGED <<vm, astray>>
    BY DEF StopKills, SyncPrunes
  <1>2. CASE StopKills(c)
    <2>1. cmd[c].pc = "kill" /\ Kill(cmd[c].rec.pid) /\ Goes(c, "unassign")
      BY <1>2 DEF StopKills, At
    <2>2. Alone(c) /\ cmd'[c] = [cmd[c] EXCEPT !.pc = "unassign"]
      BY <2>1 DEF Goes, TypeOK, CmdStates, Alone, Places
    <2>3. CommandOK(c)'
      BY <1>1, <2>1, <2>2
         DEF TypeOK, CmdStates, CommandOK, Holds, HasSeen, Prunes, Confirms, At, Up
    <2> QED BY <1>1, <2>1, <2>2, <2>3, KillStep
  <1>3. ASSUME NEW t \in cmd[c].todo, SyncPrunes(c, t) PROVE IInv'
    <2>1. cmd[c].pc = "prune" /\ Kill(PidOf(store[t.name]))
      BY <1>3 DEF SyncPrunes, At
    <2>2. t \in [name : Names, ep : Endpoints] /\ vm[t.ep] # "free" /\ ~Up(t.ep)
      BY <2>1 DEF TypeOK, CmdStates, CommandOK, Confirms
    <2>3. /\ cmd' = [cmd EXCEPT ![c] = cmd'[c]]
          /\ cmd'[c] = [cmd[c] EXCEPT !.name = t.name, !.rec = Fresh(t.ep),
                                      !.todo = cmd[c].todo \ {t}, !.pc = "syncdrop"]
      <3> DEFINE x == [cmd[c] EXCEPT !.name = t.name, !.rec = Fresh(t.ep),
                                     !.todo = cmd[c].todo \ {t}, !.pc = "syncdrop"]
      <3>1. cmd' = [cmd EXCEPT ![c] = x]
        BY <1>3 DEF SyncPrunes
      <3> HIDE DEF x
      <3>2. cmd'[c] = x
        BY <3>1, OneEntry DEF TypeOK
      <3> QED BY <3>1, <3>2 DEF x
    <2>4. Fresh(t.ep) \in Records /\ Fresh(t.ep).ep = t.ep
      BY <2>2 DEF Fresh, Records
    <2>5. Alone(c)
      <3>1. t.name \in Maybe(Names) /\ Fresh(t.ep) \in Maybe(Records)
        BY <2>2, <2>4 DEF Maybe
      <3>2. cmd[c] \in CmdStates /\ cmd[c].todo \ {t} \subseteq [name : Names, ep : Endpoints]
        BY DEF TypeOK, CmdStates
      <3>3. cmd'[c] \in CmdStates
        BY <2>3, <3>1, <3>2 DEF CmdStates, Places
      <3> QED BY <2>3, <3>3 DEF Alone
    <2>6. CommandOK(c)'
      BY <1>1, <2>1, <2>2, <2>3, <2>4
         DEF TypeOK, CmdStates, CommandOK, Holds, HasSeen, Prunes, Confirms, At, Up
    <2> QED BY <1>1, <2>1, <2>5, <2>6, KillStep
  <1> QED BY <1>2, <1>3

\* prune_session has its answer.
LEMMA PruneAsksStep ==
  ASSUME IInv, Tracked, NEW c \in Cmds, PruneAsks(c) PROVE IInv'
  <1> USE NoneAssumption DEF IInv
  <1>1. /\ cmd[c].pc = "ask" /\ UNCHANGED <<vm, astray>>
        /\ cmd[c].seen \in Records /\ vm[cmd[c].seen.ep] # "free" /\ cmd[c].name \in Names
    BY DEF PruneAsks, At, CommandOK, Holds, Prunes
  <1>2. VmMoves /\ AstrayMoves /\ ClaimMoves(c)
    BY <1>1 DEF TypeOK, VmMoves, AstrayMoves, ClaimMoves, Claims, Up
  <1>3. ASSUME NEW place \in {"reread", "drop"}, Goes(c, place), place = "drop" => ~Up(cmd[c].seen.ep)
        PROVE  Alone(c) /\ CommandOK(c)'
    <2>1. Alone(c) /\ cmd'[c] = [cmd[c] EXCEPT !.pc = place]
      BY <1>3 DEF Goes, TypeOK, CmdStates, Alone, Places
    <2>2. place = "drop" => Past(cmd[c].rec.ep)
      BY <1>1, <1>3 DEF CommandOK, Prunes, Past, At
    <2>3. Past(cmd[c].rec.ep) => Past(cmd[c].rec.ep)' \/ cmd'[c].rec # cmd[c].rec
      BY <1>1 DEF Past, Up, Tracked
    <2> QED BY <1>1, <1>3, <2>1, <2>2, <2>3
         DEF TypeOK, CmdStates, CommandOK, Holds, HasSeen, Prunes, Confirms, At, Up
  <1>4. CASE Goes(c, "reread") /\ UNCHANGED <<store, daemon>>
    BY <1>1, <1>2, <1>3, <1>4, QuietStep DEF Quiet
  <1>5. CASE Add(cmd[c].name, cmd[c].seen) /\ Goes(c, "reread") /\ UNCHANGED daemon
    <2>1. StoreMoves
      BY <1>1, <1>5 DEF Add, TypeOK, StoreMoves, Maybe
    <2>2. \A d \in Daemons : DaemonOK(d)'
      BY <1>2, <1>5, DaemonStays
    <2> QED BY <1>2, <1>3, <1>5, <2>1, <2>2, Actor DEF TypeOK
  <1>6. CASE ~Up(cmd[c].seen.ep) /\ Kill(cmd[c].seen.pid) /\ Goes(c, "drop")
    BY <1>1, <1>3, <1>6, KillStep
  <1> QED BY <1>4, <1>5, <1>6 DEF PruneAsks

-----------------------------------------------------------------------------

LEMMA GivingUp ==
  ASSUME TypeOK, NEW e \in Endpoints, vm[e] # "free", GivesUp(e)
  PROVE  VmMoves /\ AstrayMoves /\ ~Up(e)' /\ \A f \in Endpoints : Up(f)' => Up(f) /\ f # e
  BY DEF TypeOK, GivesUp, VmMoves, AstrayMoves, Up

\* A command gives its VM up, or fails to.
LEMMA UnassignStep ==
  ASSUME IInv, Tracked, NEW c \in Cmds, UNCHANGED <<store, daemon>>,
         cmd[c].rec \in Records, vm[cmd[c].rec.ep] # "free",
         \/ GivesUp(cmd[c].rec.ep)
         \/ UNCHANGED vm /\ astray \subseteq astray' /\ astray' \subseteq Endpoints
              /\ (cmd[c].pc \in {"preflight", "add", "addlast"} => cmd[c].rec.ep \in astray'),
         Alone(c), CommandOK(c)'
  PROVE  IInv'
  <1> USE DEF IInv
  <1>1. cmd[c].rec.ep \in Endpoints
    BY DEF Records
  <1>2. VmMoves /\ AstrayMoves
    <2>1. CASE GivesUp(cmd[c].rec.ep)
      BY <1>1, <2>1, GivingUp
    <2>2. CASE ~GivesUp(cmd[c].rec.ep)
      BY <2>2 DEF TypeOK, VmMoves, AstrayMoves
    <2> QED BY <2>1, <2>2
  <1>3. ClaimMoves(c)
    BY <1>1, GivingUp DEF ClaimMoves, Claims, Accounted, Up
  <1>4. StoreMoves /\ daemon' \in [Daemons -> DaemonStates] /\ \A d \in Daemons : DaemonOK(d)'
    BY <1>2, DaemonStays DEF TypeOK, StoreMoves
  <1> QED BY <1>2, <1>3, <1>4, Actor

LEMMA UnassignSteps ==
  ASSUME IInv, Tracked, NEW c \in Cmds,
         \/ StopUnassigns(c) \/ StopFails(c)
         \/ NewPreflightFails(c) \/ RunPreflightFails(c) \/ PreflightBreaks(c)
  PROVE  IInv'
  <1> USE DEF IInv
  <1>1. /\ cmd[c].rec \in Records /\ vm[cmd[c].rec.ep] # "free" /\ UNCHANGED <<store, daemon>>
        /\ cmd[c].pc \in {"unassign", "preflight"}
    BY DEF StopUnassigns, StopFails, NewPreflightFails, RunPreflightFails, ScopeMissing,
           PreflightBreaks, CommandOK, Holds, At
  <1>2. CASE Ends(c)
    <2>1. Alone(c) /\ CommandOK(c)'
      BY <1>2, EndsOK
    <2>2. \/ GivesUp(cmd[c].rec.ep)
          \/ UNCHANGED vm /\ astray \subseteq astray' /\ astray' \subseteq Endpoints
               /\ (cmd[c].pc \in {"preflight", "add", "addlast"} => cmd[c].rec.ep \in astray')
      <3>1. astray \subseteq Endpoints /\ cmd[c].rec.ep \in Endpoints
        BY <1>1 DEF TypeOK, Records
      <3>3. CASE ScopeMissing(c)
        BY <3>1, <3>3 DEF ScopeMissing
      <3>4. CASE StopUnassigns(c) \/ StopFails(c)
        BY <3>1, <3>4 DEF StopUnassigns, StopFails, At
      <3>5. CASE PreflightBreaks(c)
        BY <3>1, <3>5 DEF PreflightBreaks
      <3> QED BY <3>3, <3>4, <3>5 DEF NewPreflightFails, RunPreflightFails
    <2> QED BY <1>1, <2>1, <2>2, UnassignStep
  <1>3. CASE StopUnassigns(c)
    <2>1. PICK e \in Endpoints : cmd[c].rec.ep = e /\ GivesUp(e) /\ Goes(c, "remove")
      BY <1>1, <1>3 DEF StopUnassigns, Records
    <2>2. Alone(c) /\ cmd'[c] = [cmd[c] EXCEPT !.pc = "remove"] /\ cmd'[c].rec.ep = e
      BY <2>1 DEF Goes, TypeOK, CmdStates, Alone, Places
    <2>3. VmMoves /\ ~Up(e)'
      BY <1>1, <2>1, GivingUp
    <2>4. vm'[e] # "free" /\ \A t \in cmd[c].todo : vm'[t.ep] # "free"
      BY <1>1, <2>1, <2>3 DEF VmMoves, TypeOK, CmdStates, CommandOK, Confirms
    <2>5. CommandOK(c)'
      BY <1>1, <1>3, <2>2, <2>3, <2>4
         DEF StopUnassigns, TypeOK, CmdStates, CommandOK, Holds, HasSeen, Prunes, Confirms, At, Up
    <2> QED BY <1>1, <2>1, <2>2, <2>5, UnassignStep
  <1> QED BY <1>2, <1>3
          DEF StopFails, NewPreflightFails, RunPreflightFails, ScopeMissing, PreflightBreaks

\* The backend grants a VM.
LEMMA GrantedStep ==
  ASSUME IInv, Tracked, NEW c \in Cmds, NEW n \in Names, NEW e, NEW what \in {"none", "run"},
         Granted(c, n, e, what)
  PROVE  IInv'
  <1> USE NoneAssumption DEF IInv
  <1>1. /\ e \in Endpoints /\ vm[e] = "free" /\ vm' = [vm EXCEPT ![e] = "up"]
        /\ UNCHANGED <<store, daemon>> /\ cmd[c].pc = "idle"
    BY DEF Granted, At
  <1>2. Fresh(e) \in Records /\ Fresh(e).ep = e
    BY <1>1 DEF Fresh, Records
  <1>3. VmMoves /\ StoreMoves
    BY <1>1 DEF TypeOK, VmMoves, StoreMoves
  <1>4. daemon' \in [Daemons -> DaemonStates] /\ \A d \in Daemons : DaemonOK(d)'
    BY <1>1, <1>3, DaemonStays DEF TypeOK
  <1>5. AstrayMoves
    BY <1>1 DEF Granted, TypeOK, AstrayMoves
  <1>6. ASSUME NEW place \in {"preflight", "addlast"}, Begins(c, what, n, Fresh(e), place)
        PROVE  IInv'
    <2>1. /\ cmd' = [cmd EXCEPT ![c] = cmd'[c]]
          /\ cmd'[c] = [Idle EXCEPT !.pc = place, !.op = what, !.name = n, !.rec = Fresh(e)]
      BY <1>6 DEF Begins, TypeOK
    <2>2. Alone(c)
      <3>1. n \in Maybe(Names) /\ Fresh(e) \in Maybe(Records) /\ None \in Maybe(Records)
        BY <1>2 DEF Maybe
      <3> QED BY <2>1, <3>1 DEF Idle, CmdStates, Places, Alone
    <2>3. CommandOK(c)'
      BY <1>1, <1>2, <2>1
         DEF TypeOK, Idle, CommandOK, Holds, HasSeen, Prunes, Confirms, At, Up
    <2>4. ClaimMoves(c)
      BY <1>1, <1>2, <2>1 DEF TypeOK, ClaimMoves, Claims, Idle, Up
    <2> QED BY <1>3, <1>4, <1>5, <2>2, <2>3, <2>4, Actor
  <1>7. CASE astray' = astray \cup {e} /\ UNCHANGED cmd
    <2>1. Alone(c)
      BY <1>7 DEF Alone, TypeOK
    <2>2. ClaimMoves(c)
      BY <1>1, <1>7 DEF TypeOK, ClaimMoves, Claims, Accounted, Up
    <2> QED BY <1>3, <1>4, <1>5, <1>7, <2>1, <2>2, CommandStays, Actor
  <1> QED BY <1>6, <1>7 DEF Granted

LEMMA Spawned ==
  ASSUME daemon \in [Daemons -> DaemonStates], NEW d \in Daemons,
         NEW e \in Maybe(Endpoints), NEW n \in Maybe(Names),
         daemon' = [daemon EXCEPT ![d] = [daemon[d] EXCEPT !.pc = "get", !.ep = e, !.name = n]]
  PROVE  /\ daemon' = [daemon EXCEPT ![d] = daemon'[d]]
         /\ daemon'[d] \in DaemonStates /\ daemon' \in [Daemons -> DaemonStates]
         /\ daemon'[d].pc = "get" /\ daemon'[d].ep = e
         /\ daemon'[d].name = n /\ daemon'[d].bad = daemon[d].bad
  <1>1. daemon'[d] = [daemon[d] EXCEPT !.pc = "get", !.ep = e, !.name = n] /\ daemon[d] \in DaemonStates
    OBVIOUS
  <1>2. /\ daemon'[d] \in DaemonStates
        /\ daemon'[d].pc = "get" /\ daemon'[d].ep = e
        /\ daemon'[d].name = n /\ daemon'[d].bad = daemon[d].bad
    BY <1>1 DEF DaemonStates
  <1> QED BY <1>2

\* The daemon's VM is recorded, by the command that spawns it.
LEMMA SpawnsStep ==
  ASSUME IInv, Tracked, NEW c \in Cmds, NEW d \in Daemons, Spawns(c, d) PROVE IInv'
  <1> USE NoneAssumption DEF IInv
  <1> DEFINE r == [cmd[c].rec EXCEPT !.pid = d]
  <1>1. /\ cmd[c].pc = "spawn" /\ cmd[c].rec \in Records /\ cmd[c].name \in Names
        /\ vm[cmd[c].rec.ep] # "free" /\ Recorded(cmd[c].name, cmd[c].rec.ep)
        /\ UNCHANGED <<store, vm, astray>>
    BY DEF Spawns, At, CommandOK, Holds, HasSeen
  <1>2. PICK n \in Names, e \in Endpoints :
          /\ cmd[c].name = n /\ cmd[c].rec.ep = e /\ vm[e] # "free" /\ Recorded(n, e)
          /\ r \in Records /\ r.ep = e
    BY <1>1 DEF Records
  <1>3. cmd' = [cmd EXCEPT ![c] = cmd'[c]]
    <2> DEFINE x == [cmd[c] EXCEPT !.pc = "addlast", !.rec = r]
    <2>1. cmd' = [cmd EXCEPT ![c] = x]
      BY DEF Spawns, TypeOK
    <2> HIDE DEF x
    <2> QED BY <2>1 DEF TypeOK
  <1>4. cmd'[c] = [cmd[c] EXCEPT !.pc = "addlast", !.rec = r]
    BY DEF Spawns, TypeOK, CmdStates
  <1>5. daemon' = [daemon EXCEPT ![d] = [daemon[d] EXCEPT !.pc = "get", !.ep = e, !.name = n]]
    BY <1>2 DEF Spawns
  <1> HIDE DEF r
  <1>6. Alone(c)
    <2>1. cmd[c] \in CmdStates /\ r \in Maybe(Records)
      BY <1>2 DEF TypeOK, Maybe
    <2> QED BY <1>3, <1>4, <2>1 DEF CmdStates, Places, Alone
  <1>7. VmMoves /\ StoreMoves /\ AstrayMoves /\ ClaimMoves(c)
    BY <1>1 DEF TypeOK, VmMoves, StoreMoves, AstrayMoves, ClaimMoves, Claims, Up
  <1>8. CommandOK(c)'
    BY <1>1, <1>2, <1>4 DEF TypeOK, CmdStates, CommandOK, Holds, HasSeen, Prunes, Confirms, At, Up
  <1>9. e \in Maybe(Endpoints) /\ n \in Maybe(Names) /\ Recorded(n, e)' /\ vm'[e] # "free"
    BY <1>2, <1>7, RecordedStays DEF Maybe
  <1>10. /\ daemon' = [daemon EXCEPT ![d] = daemon'[d]]
         /\ daemon'[d] \in DaemonStates /\ daemon' \in [Daemons -> DaemonStates]
         /\ daemon'[d].pc = "get" /\ daemon'[d].ep = e
         /\ daemon'[d].name = n /\ daemon'[d].bad = daemon[d].bad
    <2>1. daemon \in [Daemons -> DaemonStates]
      BY DEF TypeOK
    <2> QED BY <1>5, <1>9, <2>1, Spawned
  <1>11. DaemonOK(d)'
    <2>1. daemon[d].bad < 2
      BY DEF Spawns, DaemonOK
    <2> QED BY <1>9, <1>10, <2>1 DEF DaemonOK
  <1>12. \A x \in Daemons : DaemonOK(x)'
    BY <1>7, <1>10, <1>11, DaemonStays DEF TypeOK
  <1> QED BY <1>6, <1>7, <1>8, <1>10, <1>12, Actor

-----------------------------------------------------------------------------
(***************************************************************************)
(* The daemons and the backend.                                            *)
(***************************************************************************)

\* No command takes part, and no VM is granted.
LEMMA Apart ==
  ASSUME IInv, Tracked, VmMoves, StoreMoves, AstrayMoves, UNCHANGED cmd,
         \A e \in Endpoints : Up(e)' => Up(e),
         daemon' \in [Daemons -> DaemonStates], \A d \in Daemons : DaemonOK(d)'
  PROVE  IInv'
  <1> USE DEF IInv
  <1>1. TypeOK'
    BY Lost DEF TypeOK, VmMoves, StoreMoves, AstrayMoves
  <1>2. \A c \in Cmds : CommandOK(c)'
    BY CommandStays
  <1>3. Assigned'
    BY DEF Assigned, StoreMoves, VmMoves, TypeOK, Maybe, Records
  <1>4. NoVmForgotten'
    <2> SUFFICES ASSUME NEW e \in Endpoints, Up(e)'
                 PROVE  (\E x \in Cmds : Claims(x, e)') \/ Accounted(e)'
      BY DEF NoVmForgotten, Claims, Accounted
    <2>1. Up(e)
      OBVIOUS
    <2>2. CASE \E n \in Names : Stored(n, e)
      BY <2>1, <2>2 DEF TypeOK, Tracked, Taken, Stored, Accounted, Up
    <2>3. CASE e \in astray \cup lost
      BY <2>3 DEF AstrayMoves, Accounted, Tracked, Up
    <2>4. CASE \E x \in Cmds : Claims(x, e)
      BY <2>4 DEF Claims
    <2> QED BY <2>1, <2>2, <2>3, <2>4 DEF NoVmForgotten, Claims
  <1> QED BY <1>1, <1>2, <1>3, <1>4

LEMMA ReclaimsStep ==
  ASSUME IInv, Tracked, NEW e \in Endpoints, Reclaims(e) PROVE IInv'
  <1> USE DEF IInv
  <1>1. vm[e] # "free" /\ GivesUp(e) /\ UNCHANGED <<store, cmd, daemon>>
    BY DEF Reclaims, Up
  <1>2. VmMoves /\ AstrayMoves /\ \A f \in Endpoints : Up(f)' => Up(f)
    BY <1>1, GivingUp
  <1>3. StoreMoves /\ daemon' \in [Daemons -> DaemonStates] /\ \A d \in Daemons : DaemonOK(d)'
    BY <1>1, <1>2, DaemonStays DEF TypeOK, StoreMoves
  <1> QED BY <1>1, <1>2, <1>3, Apart

\* One daemon does something.
LEMMA DaemonStep ==
  ASSUME IInv, Tracked, NEW d \in Daemons, UNCHANGED <<vm, cmd, astray>>, StoreMoves,
         daemon' = [daemon EXCEPT ![d] = daemon'[d]], daemon'[d] \in DaemonStates, DaemonOK(d)'
  PROVE  IInv'
  <1> USE DEF IInv
  <1>1. VmMoves /\ AstrayMoves /\ \A e \in Endpoints : Up(e)' => Up(e)
    BY DEF TypeOK, VmMoves, AstrayMoves, Up
  <1>2. daemon' \in [Daemons -> DaemonStates] /\ \A x \in Daemons : DaemonOK(x)'
    BY <1>1, DaemonStays DEF TypeOK
  <1> QED BY <1>1, <1>2, Apart

LEMMA DaemonSteps ==
  ASSUME IInv, Tracked, NEW d \in Daemons, Daemon(d) PROVE IInv'
  <1> USE NoneAssumption DEF IInv
  <1>1. daemon[d] \in DaemonStates /\ UNCHANGED <<vm, cmd, astray>>
    BY DEF TypeOK, Daemon, DaemonGets, PingAnswered, PingRejected, PingFails, DaemonAdds,
           DaemonExpires
  <1>2. daemon' = [daemon EXCEPT ![d] = daemon'[d]]
    BY DEF TypeOK, Daemon, DaemonGets, PingAnswered, PingRejected, PingFails, DaemonAdds,
           DaemonExpires, DaemonEnds
  <1>3. DaemonAt(d, "add") \/ UNCHANGED store
    BY DEF Daemon, DaemonGets, PingAnswered, PingRejected, PingFails, DaemonAdds, DaemonExpires
  <1>4. VmMoves
    BY <1>1 DEF TypeOK, VmMoves
  <1>5. CASE DaemonEnds(d) /\ UNCHANGED store
    <2>1. daemon'[d] \in DaemonStates /\ daemon'[d].pc = "dead"
      BY <1>5 DEF DaemonEnds, NoDaemon, DaemonStates, Maybe, TypeOK
    <2>2. DaemonOK(d)' /\ StoreMoves
      BY <1>5, <2>1 DEF DaemonOK, Alive, TypeOK, StoreMoves
    <2> QED BY <1>1, <1>2, <2>1, <2>2, DaemonStep
  <1>6. CASE DaemonGets(d) /\ ~DaemonEnds(d)
    <2>1. PICK n \in Names, e \in Endpoints :
            /\ daemon[d].name = n /\ daemon[d].ep = e /\ daemon[d].bad < 2
            /\ Stored(n, e) /\ Recorded(n, e) /\ vm[e] # "free" /\ store[n] \in Records
            /\ daemon'[d] = [daemon[d] EXCEPT !.pc = "ping", !.rec = store[n]]
      BY <1>6 DEF DaemonGets, DaemonAt, DaemonOK, Alive, Stored, TypeOK, Maybe
    <2>2. /\ daemon'[d].pc = "ping" /\ daemon'[d].name = n /\ daemon'[d].ep = e
          /\ daemon'[d].rec = store[n] /\ daemon'[d].bad < 2
      BY <1>1, <2>1 DEF DaemonStates
    <2>3. daemon'[d] \in DaemonStates
      BY <1>1, <2>1 DEF DaemonStates, Maybe
    <2>4. UNCHANGED store /\ StoreMoves /\ Recorded(n, e)' /\ vm'[e] # "free"
      BY <1>1, <1>4, <1>6, <2>1, RecordedStays DEF DaemonGets, StoreMoves, TypeOK
    <2>5. DaemonOK(d)'
      BY <2>1, <2>2, <2>4 DEF DaemonOK, Stored
    <2> QED BY <1>1, <1>2, <2>3, <2>4, <2>5, DaemonStep
  <1>7. CASE PingAnswered(d) \/ PingRejected(d) \/ PingFails(d)
    <2>1. PICK n \in Names, e \in Endpoints :
            /\ daemon[d].name = n /\ daemon[d].ep = e /\ daemon[d].rec \in Records
            /\ daemon[d].rec.ep = e /\ Recorded(n, e) /\ vm[e] # "free"
            /\ daemon[d].bad \in 0..1
      BY <1>1, <1>7
         DEF PingAnswered, PingRejected, PingFails, DaemonAt, DaemonOK, Alive, DaemonStates
    <2> DEFINE Pinged ==
          /\ daemon'[d].pc = "add" /\ daemon'[d].name = n /\ daemon'[d].ep = e
          /\ daemon'[d].rec = daemon[d].rec /\ daemon'[d] \in DaemonStates
    <2>2. Pinged
      <3>1. ASSUME NEW k \in 0..2, daemon'[d] = [daemon[d] EXCEPT !.bad = k, !.pc = "add"]
            PROVE  Pinged
        BY <1>1, <2>1, <3>1 DEF DaemonStates
      <3>2. CASE PingAnswered(d)
        BY <3>1, <3>2 DEF PingAnswered, TypeOK
      <3>3. CASE PingRejected(d)
        <4>1. daemon'[d] = [daemon[d] EXCEPT !.bad = daemon[d].bad + 1, !.pc = "add"]
          BY <3>3 DEF PingRejected, TypeOK
        <4>2. daemon[d].bad + 1 \in 0..2
          BY <2>1
        <4> QED BY <3>1, <4>1, <4>2
      <3>4. CASE PingFails(d)
        <4>1. daemon'[d] = [daemon[d] EXCEPT !.pc = "add"]
          BY <3>4 DEF PingFails, TypeOK
        <4> QED BY <1>1, <2>1, <4>1 DEF DaemonStates
      <3> QED BY <1>7, <3>2, <3>3, <3>4
    <2>3. UNCHANGED store /\ StoreMoves /\ Recorded(n, e)' /\ vm'[e] # "free"
      BY <1>1, <1>4, <1>7, <2>1, RecordedStays
         DEF PingAnswered, PingRejected, PingFails, StoreMoves, TypeOK
    <2>4. DaemonOK(d)'
      BY <2>1, <2>2, <2>3 DEF DaemonOK
    <2> QED BY <1>1, <1>2, <2>2, <2>3, <2>4, DaemonStep
  <1>8. CASE DaemonAdds(d)
    <2>1. PICK n \in Names, e \in Endpoints :
            /\ daemon[d].name = n /\ daemon[d].ep = e /\ daemon[d].rec \in Records
            /\ daemon[d].rec.ep = e /\ Recorded(n, e) /\ vm[e] # "free"
            /\ store' = [store EXCEPT ![n] = daemon[d].rec]
      BY <1>8 DEF DaemonAdds, DaemonAt, DaemonOK, Alive, Add
    <2>2. StoreMoves /\ Recorded(n, e)' /\ vm'[e] # "free"
      BY <1>1, <1>4, <2>1, RecordedStays DEF StoreMoves, TypeOK, Maybe
    <2>3. CASE daemon[d].bad = 2
      <3>1. daemon'[d] = [NoDaemon EXCEPT !.pc = "dead"]
        BY <1>8, <2>3 DEF DaemonAdds, DaemonEnds, TypeOK
      <3>2. daemon'[d] \in DaemonStates /\ DaemonOK(d)'
        BY <3>1 DEF NoDaemon, DaemonStates, Maybe, DaemonOK, Alive
      <3> QED BY <1>1, <1>2, <2>2, <3>2, DaemonStep
    <2>4. CASE daemon[d].bad # 2
      <3>1. daemon'[d] = [daemon[d] EXCEPT !.pc = "get", !.rec = None]
        BY <1>8, <2>4 DEF DaemonAdds, TypeOK
      <3>2. daemon[d].bad \in 0..2 /\ daemon[d].bad < 2
        BY <1>1, <2>4 DEF DaemonStates
      <3>3. daemon'[d] \in DaemonStates
        BY <1>1, <3>1 DEF DaemonStates, Maybe
      <3>4. /\ daemon'[d].pc = "get" /\ daemon'[d].name = n /\ daemon'[d].ep = e
            /\ daemon'[d].bad < 2
        BY <1>1, <2>1, <3>1, <3>2 DEF DaemonStates
      <3>5. DaemonOK(d)'
        BY <2>1, <2>2, <3>4 DEF DaemonOK
      <3> QED BY <1>1, <1>2, <2>2, <3>3, <3>5, DaemonStep
    <2> QED BY <2>3, <2>4
  <1> QED BY <1>5, <1>6, <1>7, <1>8 DEF Daemon, DaemonExpires, DaemonGets

-----------------------------------------------------------------------------

LEMMA InitOK == Init => IInv
  BY NoneAssumption DEF Init, IInv, TypeOK, Assigned, NoVmForgotten, CommandOK, Holds, HasSeen, Prunes,
     Confirms, At, DaemonOK, Alive, EmptyStore, Idle, NoDaemon, CmdStates, DaemonStates, Places,
     Maybe, Up

LEMMA CommandStep ==
  ASSUME IInv, Tracked, NEW c \in Cmds, Command(c) PROVE IInv'
  <1>1. CASE \E n \in Names, e \in Endpoints : AdoptReads(c, n, e)
    BY <1>1, BeginSteps
  <1>2. CASE \E n \in Names : UseReads(c, n) \/ StopReads(c, n)
    <2>1. PICK n \in Names : UseReads(c, n) \/ StopReads(c, n)
      BY <1>2
    <2>2. \E e \in Endpoints : TRUE
      BY <2>1, NoneAssumption DEF UseReads, StopReads, IInv, TypeOK, Maybe, Records
    <2> QED BY <2>1, <2>2, BeginSteps
  <1>3. CASE \E n \in Names : NewAssigns(c, n, NextVm) \/ RunAssigns(c, n, NextVm)
    BY <1>3, GrantedStep DEF NewAssigns, RunAssigns
  <1>4. CASE \E d \in Daemons : Spawns(c, d)
    BY <1>4, SpawnsStep
  <1>5. CASE PreflightPasses(c) \/ AdoptPreflightFails(c) \/ AdoptAsks(c)
    BY <1>5, QuietMoves
  <1>6. CASE UseIsRefused(c) \/ Rereads(c)
    BY <1>6, PruneReads
  <1>7. CASE SyncLists(c) \/ SyncAsks(c)
    BY <1>7, SyncLooks
  <1>8. CASE Adds(c) \/ AddsLast(c) \/ UseStores(c) \/ UseEnds(c) \/ RunEnds(c) \/ Clears(c)
    BY <1>8, StoreSteps
  <1>9. CASE Drops(c) \/ SyncDrops(c) \/ StopRemoves(c)
    BY <1>9, RemoveSteps
  <1>10. CASE DiesBetween(c) \/ CutOff(c)
    BY <1>10, DieSteps
  <1>11. CASE StopKills(c) \/ \E t \in cmd[c].todo : SyncPrunes(c, t)
    BY <1>11, KillSteps
  <1>12. CASE PruneAsks(c)
    BY <1>12, PruneAsksStep
  <1>13. CASE \/ StopUnassigns(c) \/ StopFails(c)
              \/ NewPreflightFails(c) \/ RunPreflightFails(c) \/ PreflightBreaks(c)
    BY <1>13, UnassignSteps
  <1> QED BY <1>1, <1>2, <1>3, <1>4, <1>5, <1>6, <1>7, <1>8, <1>9, <1>10, <1>11, <1>12, <1>13
      DEF Command, TearsDown

THEOREM Invariance == Spec => []IInv
  <1>1. ASSUME IInv, [Next]_vars PROVE IInv'
    <2>1. CASE UNCHANGED vars
      <3>1. VmMoves
        BY <1>1, <2>1 DEF vars, IInv, TypeOK, VmMoves
      <3> QED BY <1>1, <2>1 DEF vars, IInv, TypeOK, Assigned, NoVmForgotten, CommandOK, Holds, HasSeen, Prunes,
     Confirms, At, DaemonOK, Alive, Recorded, Past, Stored, Up
    <2>2. CASE Next
      BY <1>1, <2>2, CommandStep, DaemonSteps, ReclaimsStep DEF Next, Step
    <2> QED BY <1>1, <2>1, <2>2
  <1> QED BY InitOK, <1>1, PTL DEF Spec

-----------------------------------------------------------------------------

\* Every variable holds a value of its kind.
THEOREM TypeCorrect == Spec => []TypeOK
  <1>1. IInv => TypeOK
    BY DEF IInv
  <1> QED BY <1>1, Invariance, PTL

\* session.py, run.py, adopt.py, common.py: whatever commands and daemons do
\* beside each other, wherever they die and whatever answer a preflight gets or
\* misses, a VM that is up is recorded, or about to be, or was left for one of
\* the reasons that astray and lost stand for.
THEOREM NoneForgotten == Spec => []NoVmForgotten
  <1>1. IInv => NoVmForgotten
    BY DEF IInv
  <1> QED BY <1>1, Invariance, PTL

\* session.py:438-450, 859-867: a daemon that finds no record of its VM under its
\* name, and stops, has a VM that is gone, or one whose record was taken away: it
\* never comes before the record it looks for.
THEOREM DaemonComesLater == Spec => []DaemonFindsRecord
  <1>1. IInv => DaemonFindsRecord
    BY DEF IInv, DaemonFindsRecord, DaemonAt, DaemonOK, Alive, Recorded
  <1> QED BY <1>1, Invariance, PTL

\* What a step must show that takes the record of e from n.
Loses(n, e) == Stored(n, e) /\ ~Stored(n, e)' /\ Up(e) /\ e \notin lost

LEMMA KillTears ==
  ASSUME TypeOK, NEW p \in Daemons \cup {None}, Kill(p),
         NEW n \in Names, NEW e \in Endpoints, Loses(n, e)
  PROVE  Torn
  <1>1. store' # store
    BY DEF Loses, Stored
  <1>2. p \in Daemons /\ DaemonAt(p, "add") /\ store' = EmptyStore /\ DaemonEnds(p)
    BY <1>1 DEF Kill, DaemonAt
  <1>3. daemon'[p].pc = "dead"
    BY <1>2 DEF DaemonEnds, NoDaemon, TypeOK
  <1> QED BY <1>2, <1>3 DEF Torn

\* The steps of a command that may write the record it holds.
OwnAdd(c) == Adds(c) \/ AddsLast(c) \/ UseStores(c) \/ UseEnds(c) \/ RunEnds(c) \/ Clears(c) \/ Rereads(c)

\* What such a step, or another one that writes the store, is.
Writing(c) ==
  \/ OwnAdd(c) /\ AddsOwn(c)
  \/ Remove(cmd[c].name) /\ cmd[c].pc \in {"drop", "syncdrop", "remove"}
  \/ PruneAsks(c) \/ StopKills(c) \/ (\E t \in cmd[c].todo : SyncPrunes(c, t)) \/ CutOff(c)

LEMMA Writers ==
  ASSUME NEW c \in Cmds, Command(c), store' # store
  PROVE  Writing(c)
  <1>1. /\ \A n \in Names, e \in Endpoints : ~AdoptReads(c, n, e)
        /\ \A n \in Names : ~UseReads(c, n) /\ ~StopReads(c, n)
        /\ \A d \in Daemons : ~Spawns(c, d)
    <2>1. \A n \in Names, e \in Endpoints : ~AdoptReads(c, n, e)
      BY DEF AdoptReads
    <2>2. \A n \in Names : ~UseReads(c, n) /\ ~StopReads(c, n)
      BY DEF UseReads, StopReads
    <2>3. \A d \in Daemons : ~Spawns(c, d)
      BY DEF Spawns
    <2> QED BY <2>1, <2>2, <2>3
  <1>2. \A e : \A n \in Names : ~NewAssigns(c, n, e) /\ ~RunAssigns(c, n, e)
    BY DEF NewAssigns, RunAssigns, Granted
  <1>3. /\ ~PreflightPasses(c) /\ ~NewPreflightFails(c) /\ ~RunPreflightFails(c)
        /\ ~PreflightBreaks(c)
    BY DEF PreflightPasses, NewPreflightFails, RunPreflightFails, ScopeMissing, PreflightBreaks
  <1>4. /\ ~AdoptAsks(c) /\ ~AdoptPreflightFails(c) /\ ~UseIsRefused(c)
        /\ ~SyncLists(c) /\ ~SyncAsks(c) /\ ~DiesBetween(c)
    BY DEF AdoptAsks, AdoptPreflightFails, UseIsRefused, SyncLists, SyncAsks, DiesBetween
  <1>5. CASE OwnAdd(c)
    <2>1. Adds(c) \/ AddsLast(c) => AddsOwn(c)
      BY DEF Adds, AddsLast
    <2>2. UseStores(c) \/ UseEnds(c) \/ RunEnds(c) => AddsOwn(c)
      BY DEF UseStores, UseEnds, RunEnds
    <2>3. Rereads(c) \/ Clears(c) => AddsOwn(c)
      BY DEF Rereads, Clears
    <2> QED BY <1>5, <2>1, <2>2, <2>3 DEF OwnAdd, Writing
  <1>6. CASE Drops(c) \/ SyncDrops(c)
    BY <1>6 DEF Drops, SyncDrops, At, Writing
  <1>7. CASE TearsDown(c)
    <2>1. ~StopUnassigns(c) /\ ~StopFails(c)
      BY DEF StopUnassigns, StopFails
    <2>2. StopRemoves(c) => Remove(cmd[c].name) /\ cmd[c].pc \in {"drop", "syncdrop", "remove"}
      BY DEF StopRemoves, At
    <2> QED BY <1>7, <2>1, <2>2 DEF TearsDown, Writing
  <1>8. PruneAsks(c) \/ (\E t \in cmd[c].todo : SyncPrunes(c, t)) \/ CutOff(c) => Writing(c)
    BY DEF Writing
  <1>9. /\ ~(\E n \in Names : NewAssigns(c, n, NextVm) \/ RunAssigns(c, n, NextVm))
        /\ ~(\E n \in Names, e \in Endpoints : AdoptReads(c, n, e))
        /\ ~(\E n \in Names : UseReads(c, n) \/ StopReads(c, n))
        /\ ~(\E d \in Daemons : Spawns(c, d))
    BY <1>1, <1>2
  <1> QED BY <1>3, <1>4, <1>5, <1>6, <1>7, <1>8, <1>9, Zenon DEF Command, OwnAdd

LEMMA CommandLoses ==
  ASSUME IInv, NEW c \in Cmds, Command(c), NEW n \in Names, NEW e \in Endpoints, Loses(n, e)
  PROVE  Disputed(n) \/ Torn
  <1> USE NoneAssumption DEF IInv
  <1>1. CASE AddsOwn(c) /\ cmd[c].rec \in Records
    BY <1>1 DEF AddsOwn, Add, Loses, Stored, Disputed, TypeOK
  <1>2. CASE Remove(cmd[c].name) /\ cmd[c].pc \in {"drop", "syncdrop", "remove"}
    BY <1>2 DEF Remove, Loses, Stored, Disputed, TypeOK, CommandOK, Prunes, Confirms, Past, At
  <1>3. CASE PruneAsks(c)
    <2>1. CASE Add(cmd[c].name, cmd[c].seen)
      <3>0. cmd[c].seen \in Records
        BY <1>3 DEF PruneAsks, CommandOK, Prunes
      <3>1. cmd[c].name = n /\ cmd[c].seen.ep # e
        BY <2>1, <3>0 DEF Add, Loses, Stored, TypeOK
      <3>2. cmd[c].rec.ep # e
        BY <1>3, <3>1 DEF PruneAsks, CommandOK, Prunes, Past, Loses
      <3> QED BY <3>1, <3>2 DEF Disputed, Loses, Stored
    <2>2. CASE Kill(cmd[c].seen.pid)
      <3>1. cmd[c].seen.pid \in Daemons \cup {None}
        BY <1>3 DEF PruneAsks, CommandOK, Prunes, Records
      <3> QED BY <2>2, <3>1, KillTears
    <2> QED BY <1>3, <2>1, <2>2 DEF PruneAsks, Loses, Stored
  <1>4. CASE StopKills(c)
    <2>1. Kill(cmd[c].rec.pid) /\ cmd[c].rec.pid \in Daemons \cup {None}
      BY <1>4 DEF StopKills, At, CommandOK, Holds, Records
    <2> QED BY <2>1, KillTears
  <1>5. ASSUME NEW t \in cmd[c].todo, SyncPrunes(c, t) PROVE Disputed(n) \/ Torn
    <2>1. t.name \in Names
      BY DEF TypeOK, CmdStates
    <2>2. PidOf(store[t.name]) \in Daemons \cup {None}
      BY <2>1 DEF PidOf, TypeOK, Maybe, Records
    <2> QED BY <1>5, <2>2, KillTears DEF SyncPrunes
  <1>6. CASE CutOff(c)
    BY <1>6 DEF CutOff, Dies, Idle, Torn, At, TypeOK
  <1>7. store' # store
    BY DEF Loses, Stored
  <1>8. OwnAdd(c) => cmd[c].rec \in Records
    <2>1. CommandOK(c)
      OBVIOUS
    <2>2. Adds(c) \/ AddsLast(c) \/ UseStores(c) \/ UseEnds(c) => cmd[c].rec \in Records
      BY <2>1 DEF Adds, AddsLast, UseStores, UseEnds, CommandOK, Holds, At
    <2>3. RunEnds(c) \/ Clears(c) => cmd[c].rec \in Records
      BY <2>1 DEF RunEnds, Clears, CommandOK, Holds, At
    <2>4. Rereads(c) => cmd[c].rec \in Records
      BY <2>1 DEF Rereads, CommandOK, Holds, At
    <2> QED BY <2>2, <2>3, <2>4 DEF OwnAdd
  <1> QED BY <1>1, <1>2, <1>3, <1>4, <1>5, <1>6, <1>7, <1>8, Writers DEF Writing

LEMMA DaemonLoses ==
  ASSUME IInv, NEW d \in Daemons, Daemon(d), NEW n \in Names, NEW e \in Endpoints, Loses(n, e)
  PROVE  Disputed(n)
  <1>1. DaemonAdds(d)
    BY DEF Daemon, DaemonGets, PingAnswered, PingRejected, PingFails, DaemonExpires, Loses, Stored
  <1> QED BY <1>1, NoneAssumption
          DEF DaemonAdds, DaemonAt, DaemonOK, Alive, Add, Loses, Stored, Disputed, IInv, TypeOK

\* session.py:741-768, common.py:258-320, session.py:859-877: no stop, no
\* pruning and no late write of a copy takes the record of a VM that is up,
\* unless somebody is at work with another VM under the name, or a write was
\* cut off.
THEOREM RecordOutlives == Spec => RecordOutlivesVm
  <1>1. ASSUME IInv, Next, NEW n \in Names, NEW e \in Endpoints \ lost,
               Stored(n, e), ~Stored(n, e)', Up(e)'
        PROVE  Disputed(n) \/ Torn
    <2>1. vm[e] # "free"
      BY <1>1 DEF IInv, Assigned, Stored
    <2>2. CASE Up(e)
      BY <1>1, <2>2, CommandLoses, DaemonLoses DEF Next, Step, Loses, Reclaims, Stored
    <2>3. CASE ~Up(e)
      <3>1. vm[e] = "gone" /\ vm'[e] = "up"
        BY <1>1, <2>1, <2>3 DEF IInv, TypeOK, Up
      <3>2. ASSUME NEW f, GivesUp(f) \/ UNCHANGED vm PROVE FALSE
        BY <1>1, <3>1, <3>2 DEF GivesUp, IInv, TypeOK
      <3>3. \A c \in Cmds, m \in Names : ~NewAssigns(c, m, NextVm) /\ ~RunAssigns(c, m, NextVm)
        BY <1>1, <3>1 DEF NewAssigns, RunAssigns, Granted, IInv, TypeOK
      <3>4. \A c \in Cmds : ~Command(c)
        <4> SUFFICES ASSUME NEW c \in Cmds, Command(c) PROVE FALSE
          OBVIOUS
        <4>1. /\ \A m \in Names, f \in Endpoints : ~AdoptReads(c, m, f)
              /\ \A m \in Names : ~UseReads(c, m) /\ ~StopReads(c, m)
              /\ \A d \in Daemons : ~Spawns(c, d)
          <5>1. \A m \in Names, f \in Endpoints : ~AdoptReads(c, m, f)
            BY <3>2 DEF AdoptReads
          <5>2. \A m \in Names : ~UseReads(c, m) /\ ~StopReads(c, m)
            BY <3>2 DEF UseReads, StopReads
          <5>3. \A d \in Daemons : ~Spawns(c, d)
            BY <3>2 DEF Spawns
          <5> QED BY <5>1, <5>2, <5>3
        <4>2. /\ ~PreflightPasses(c) /\ ~NewPreflightFails(c) /\ ~RunPreflightFails(c)
              /\ ~PreflightBreaks(c)
          BY <3>2 DEF PreflightPasses, NewPreflightFails, RunPreflightFails, ScopeMissing,
                      PreflightBreaks
        <4>3. ~Adds(c) /\ ~AddsLast(c) /\ ~AdoptAsks(c) /\ ~AdoptPreflightFails(c)
          BY <3>2 DEF Adds, AddsLast, AdoptAsks, AdoptPreflightFails
        <4>4. ~UseStores(c) /\ ~UseEnds(c) /\ ~RunEnds(c) /\ ~UseIsRefused(c)
          BY <3>2 DEF UseStores, UseEnds, RunEnds, UseIsRefused
        <4>5. ~PruneAsks(c) /\ ~Drops(c) /\ ~Rereads(c) /\ ~Clears(c)
          BY <3>2 DEF PruneAsks, Drops, Rereads, Clears
        <4>6. ~SyncLists(c) /\ ~SyncAsks(c) /\ ~SyncDrops(c) /\ \A t : ~SyncPrunes(c, t)
          BY <3>2 DEF SyncLists, SyncAsks, SyncDrops, SyncPrunes
        <4>7. ~TearsDown(c)
          BY <3>2 DEF TearsDown, StopKills, StopUnassigns, StopFails, StopRemoves
        <4>8. ~DiesBetween(c) /\ ~CutOff(c)
          BY <3>2 DEF DiesBetween, CutOff, Dies
        <4> QED BY <3>3, <4>1, <4>2, <4>3, <4>4, <4>5, <4>6, <4>7, <4>8 DEF Command
      <3> QED BY <1>1, <3>2, <3>4
          DEF Next, Step, Daemon, DaemonGets, PingAnswered, PingRejected, PingFails, DaemonAdds,
              DaemonExpires, Reclaims
    <2> QED BY <2>2, <2>3
  <1>2. IInv /\ [Next]_vars => [LosesWithReason]_vars
    BY <1>1 DEF LosesWithReason
  <1> QED BY <1>2, Invariance, PTL DEF Spec, RecordOutlivesVm
=============================================================================
