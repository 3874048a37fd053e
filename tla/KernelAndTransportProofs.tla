---------------------- MODULE KernelAndTransportProofs ----------------------
(***************************************************************************)
(* Proofs about the two ways in which a command reaches its VM: Kernel,    *)
(* the websocket to the kernel, for any number of calls, pieces of output  *)
(* and messages of others, and Transport, the Contents API, for any number *)
(* of retries.  Their specifications are independent, and so are the two   *)
(* halves here.                                                            *)
(*                                                                         *)
(* Kernel: a call shows its own output, from the beginning, in order and,  *)
(* when it returns a reply, all of it.  What earlier calls have left may   *)
(* still be on the wire or in a queue, so the invariant speaks of Pipe,    *)
(* everything that was sent and not yet looked at: what it holds of this   *)
(* call goes on where the shown output stops, without a gap, and the idle  *)
(* status comes after all of it.                                           *)
(***************************************************************************)
EXTENDS Kernel, Transport, SequenceTheorems, TLAPS

\* A message of a call: a piece of its output, or Idle.
Msg(c, t) == [of |-> c, text |-> t]

\* Everything of iopub that was sent and not yet looked at, in its order.
Pipe == iopubQ \o iopubWire

\* The kernel has nothing more to do for a call, or has never heard of it.
Over(c) == running # c /\ \A i \in 1..Len(inbox) : inbox[i] # c
\* Nothing of a request has been sent, and nothing of it comes back.
Unsent(c) == Over(c) /\ made[c] = 0 /\ \A i \in 1..Len(Pipe) : Pipe[i].of # c

\* Until the connection is made, once, nothing is sent.
NothingBeforeLink ==
  pc \in {"lookup", "start", "dial"} \/ dialing =>
    ~linked /\ inbox = <<>> /\ running = Nobody /\ (\A c \in Calls : made[c] = 0)

\* The socket is opened by the call that dials, after fewer than three tries.
ConnectsOnce ==
  /\ pc \in {"lookup", "start", "dial"} => ~dialing
  /\ pc \in {"lookup", "start"} => tries < 3

\* The hook is busy with a request as long as it runs.
HookIsBusy == hand = "hook" => hooked # Nobody

\* A call under way has its number, and no answer yet.
CallIsNumbered == pc \in InCall => call # 0 /\ answer = "none"

\* Of a later call, and of this one before it is sent, nobody has heard.
SentInTurn ==
  \A c \in Calls : c > call \/ (c = call /\ pc \in {"flush", "send"}) => Unsent(c)

\* The kernel has a request at most once before it.
EachIsSentOnce ==
  \A i \in 1..Len(inbox) :
    inbox[i] # running /\ \A j \in 1..Len(inbox) : i # j => inbox[i] # inbox[j]

\* The hook was given the first pieces of the call's output.
ShownIsOutput ==
  call # 0 => Len(shown) <= made[call] /\ \A i \in 1..Len(shown) : shown[i] = Msg(call, i)

\* What is under way of the call goes on where its output stops, without a
\* gap, and Idle comes last.
InPipe(k, n) == \E i \in 1..n : Pipe[i] = Msg(call, k)
\* (Sorted, Continues and Completes say it of the message at i.)
Sorted(i) ==
  \A j \in (i+1)..Len(Pipe) : Pipe[j].of = call =>
    Pipe[i].text # Idle /\ (Pipe[j].text # Idle => Pipe[i].text < Pipe[j].text)
Continues(i) ==
  Pipe[i].text # Idle =>
    /\ Pipe[i].text > Len(shown) /\ Pipe[i].text <= made[call]
    /\ \A k \in (Len(shown)+1)..(Pipe[i].text - 1) : InPipe(k, i-1)
Completes(i) ==
  Pipe[i].text = Idle =>
    Over(call) /\ \A k \in (Len(shown)+1)..made[call] : InPipe(k, i-1)
\* All three, of each message of the call.
PipeIsInOrder ==
  call # 0 => \A i \in 1..Len(Pipe) : Pipe[i].of = call =>
    Sorted(i) /\ Continues(i) /\ Completes(i)

\* As long as the connection is there nothing is lost.
NothingIsLost ==
  linked /\ call # 0 => \A k \in (Len(shown)+1)..made[call] : InPipe(k, Len(Pipe))

\* A call that waits for its reply, or has it, has shown everything.
AllWasShown ==
  pc = "reply" \/ answer = "reply" => Over(call) /\ Len(shown) = made[call]

\* The reply it returned is to its own request.
ReplyIsOwn == answer = "reply" => reply = call /\ call # 0

\* The inductive invariant.
IInv ==
  /\ TypeOK /\ NothingBeforeLink /\ ConnectsOnce /\ HookIsBusy /\ CallIsNumbered /\ SentInTurn
  /\ EachIsSentOnce
  /\ ShownIsOutput /\ PipeIsInOrder /\ NothingIsLost /\ AllWasShown /\ ReplyIsOwn

-----------------------------------------------------------------------------

\* One message that is taken in, or looked at, or sent, moves the rest along.
LEMMA PipeMoves ==
  ASSUME TypeOK
  PROVE  /\ Pipe \in Seq(IopubMsg)
         /\ iopubWire # <<>> => Append(iopubQ, Head(iopubWire)) \o Tail(iopubWire) = Pipe
         /\ \A m \in IopubMsg : iopubQ \o Append(iopubWire, m) = Append(Pipe, m)
         /\ iopubQ # <<>> => /\ Tail(iopubQ) \o iopubWire = Tail(Pipe) /\ Pipe # <<>>
                             /\ Head(iopubQ) = Pipe[1]
  <1>0. iopubQ \in Seq(IopubMsg) /\ iopubWire \in Seq(IopubMsg)
    BY DEF TypeOK
  <1> USE <1>0 DEF Pipe
  <1>1. Pipe \in Seq(IopubMsg)
    OBVIOUS
  <1>2. iopubWire # <<>> => Append(iopubQ, Head(iopubWire)) \o Tail(iopubWire) = Pipe
    OBVIOUS
  <1>3. \A m \in IopubMsg : iopubQ \o Append(iopubWire, m) = Append(Pipe, m)
    OBVIOUS
  <1>4. iopubQ # <<>> => /\ Tail(iopubQ) \o iopubWire = Tail(Pipe) /\ Pipe # <<>>
                         /\ Head(iopubQ) = Pipe[1]
    OBVIOUS
  <1> QED BY <1>1, <1>2, <1>3, <1>4

\* What a message and a place in a sequence of messages is.
LEMMA Lengths ==
  ASSUME NEW S, NEW s \in Seq(S)
  PROVE  /\ Len(s) \in Nat /\ \A i \in 1..Len(s) : s[i] \in S
         /\ \A m \in S : /\ Len(Append(s, m)) = Len(s) + 1 /\ Append(s, m)[Len(s) + 1] = m
                         /\ \A i \in 1..Len(s) : Append(s, m)[i] = s[i]
         /\ s # <<>> => /\ Len(Tail(s)) = Len(s) - 1 /\ Head(s) = s[1] /\ Len(s) > 0
                        /\ \A i \in 1..(Len(s) - 1) : Tail(s)[i] = s[i + 1]
  OBVIOUS

\* The steps that say nothing of a request or its output: the places move, and
\* a message may be taken in.
LEMMA Keeping ==
  ASSUME IInv, TypeOK', UNCHANGED <<call, shown, inbox, running, made, Pipe>>,
         linked' => linked,
         pc' \in {"flush", "send"} => pc \in {"flush", "send"},
         pc' \in {"lookup", "start", "dial"} => pc \in {"lookup", "start", "dial"},
         dialing' => dialing \/ pc = "dial",
         dialing' => pc' \notin {"lookup", "start", "dial"},
         pc' \in {"lookup", "start"} => tries' < 3,
         pc' \in InCall => pc \in InCall /\ answer' = answer,
         hand' = "hook" => hooked' # Nobody,
         pc' = "reply" => pc = "reply",
         answer' = "reply" => \/ answer = "reply" /\ reply' = reply
                              \/ pc = "reply" /\ reply' = call
  PROVE  IInv'
  <1> USE DEF IInv
  <1>1. NothingBeforeLink'
    BY DEF NothingBeforeLink
  <1>2. ConnectsOnce' /\ HookIsBusy' /\ CallIsNumbered' /\ EachIsSentOnce' /\ ShownIsOutput'
    BY DEF ConnectsOnce, HookIsBusy, CallIsNumbered, EachIsSentOnce, ShownIsOutput
  <1>3. \A c : (Over(c)' <=> Over(c)) /\ (Unsent(c)' <=> Unsent(c))
    BY DEF Over, Unsent
  <1>4. SentInTurn'
    BY <1>3 DEF SentInTurn
  <1>5. \A k, n : InPipe(k, n)' <=> InPipe(k, n)
    BY DEF InPipe
  <1>6. PipeIsInOrder'
    BY <1>3, <1>5 DEF PipeIsInOrder, Sorted, Continues, Completes
  <1>7. NothingIsLost'
    BY <1>5 DEF NothingIsLost
  <1>8. AllWasShown' /\ ReplyIsOwn'
    BY <1>3 DEF AllWasShown, ReplyIsOwn, CallIsNumbered, InCall
  <1> QED BY <1>1, <1>2, <1>4, <1>6, <1>7, <1>8

\* The types in groups: the caller, ...
CallerTypes ==
  /\ call \in 0..MaxCalls /\ pc \in Where /\ late \in BOOLEAN /\ shown \in Seq(IopubMsg)
  /\ answer \in {"none", "reply", "lost", "timeout", "interrupted"} /\ reply \in 0..MaxCalls

\* ... the connection, ...
ConnTypes ==
  /\ names \in {"none", "kernel", "lost kernel"} /\ tries \in 0..3
  /\ event \in BOOLEAN /\ linked \in BOOLEAN /\ dialing \in BOOLEAN
  /\ hand \in {"free", "set", "hook"} /\ hooked \in 0..MaxCalls

\* ... the queues, ...
QueueTypes ==
  /\ iopubQ \in Seq(IopubMsg) /\ shellQ \in Seq(Calls) /\ stdinQ \in Seq(Calls)

\* ... the wires, ...
WireTypes ==
  /\ iopubWire \in Seq(IopubMsg) /\ shellWire \in Seq(Calls) /\ stdinWire \in Seq(Calls)

\* ... and the kernel.
KernelTypes ==
  /\ inbox \in Seq(Calls) /\ running \in 0..MaxCalls /\ replied \in BOOLEAN /\ asking \in BOOLEAN
  /\ made \in [Calls -> 0..MaxChunks] /\ finished \subseteq Calls /\ foreign \in 0..MaxForeign

\* The type invariant is those groups.
LEMMA TypeParts ==
  TypeOK <=> CallerTypes /\ ConnTypes /\ QueueTypes /\ WireTypes /\ KernelTypes
  BY DEF TypeOK, CallerTypes, ConnTypes, QueueTypes, WireTypes, KernelTypes, Calls

\* What each step of execute_interactive leaves its caller with.
LEMMA CallerTyped ==
  ASSUME TypeOK, ConnectsOnce, CallIsNumbered, HookIsBusy, Next
  PROVE  CallerTypes'
  <1> USE TypeParts, BoundsAssumption
       DEF Nobody, callerVars, connVars, socketVars, queues, wires, kernelVars, ConnRest
  <1>1. ASSUME UNCHANGED <<call, pc, late, answer, reply, shown>> PROVE CallerTypes'
    BY <1>1 DEF CallerTypes, Calls
  <1>2. CASE SkipsReply \/ ReceivesOutput \/ ReceivesReply \/ SetsEvent \/ ReceivesRequest
             \/ HookAnswers \/ HookRefused \/ HookFails \/ Opens \/ Closes \/ BeginsRequest
             \/ Prints \/ Asks \/ Replies \/ GoesIdle \/ OthersOutput \/ Restarts
    BY <1>1, <1>2, Zenon DEF SkipsReply, ReceivesOutput, ReceivesReply, SetsEvent,
       ReceivesRequest, HookAnswers, HookRefused, HookFails, Opens, Closes, BeginsRequest,
       Prints, Asks, Replies, GoesIdle, OthersOutput, Restarts
  <1>3. CASE LooksUp
    BY <1>3 DEF LooksUp, CallerTypes, Ends, Where, InCall, Idle, Calls
  <1>4. CASE StartsKernel
    BY <1>4 DEF StartsKernel, CallerTypes, Ends, Where, InCall, Idle, Calls
  <1>5. CASE TimesOut
    BY <1>5 DEF TimesOut, CallerTypes, Ends, Where, InCall, Idle, Calls
  <1>6. CASE ConnectFails
    BY <1>6 DEF ConnectFails, CallerTypes, Ends, Where, InCall, Idle, Calls
  <1>7. CASE Dials
    BY <1>7 DEF Dials, CallerTypes, Ends, Where, InCall, Idle, Calls
  <1>8. CASE Awaits
    BY <1>8 DEF Awaits, CallerTypes, Ends, Where, InCall, Idle, Calls
  <1>9. CASE RecordsKernel
    BY <1>9 DEF RecordsKernel, CallerTypes, Ends, Where, InCall, Idle, Calls
  <1>10. CASE StartsCall
    <2>1. call' \in 0..MaxCalls
      BY <1>10 DEF StartsCall, CallerTypes, Calls
    <2>2. pc' \in Where
      BY <1>10 DEF StartsCall, CallerTypes, Where, InCall, Calls
    <2>3. late' \in BOOLEAN
      BY <1>10, Zenon DEF StartsCall, CallerTypes
    <2>4. answer' \in {"none", "reply", "lost", "timeout", "interrupted"}
      BY <1>10 DEF StartsCall, CallerTypes, Calls
    <2>5. reply' \in 0..MaxCalls
      BY <1>10 DEF StartsCall, CallerTypes, Calls
    <2>6. shown' \in Seq(IopubMsg)
      BY <1>10 DEF StartsCall, CallerTypes, Calls
    <2> QED BY <2>1, <2>2, <2>3, <2>4, <2>5, <2>6 DEF CallerTypes
  <1>11. CASE Flushes
    BY <1>11 DEF Flushes, CallerTypes, Ends, Where, InCall, Idle, Calls
  <1>12. CASE Sends
    BY <1>12 DEF Sends, CallerTypes, Ends, Where, InCall, Idle, Calls
  <1>13. CASE Checks
    BY <1>13 DEF Checks, CallerTypes, Ends, Where, InCall, Idle, Calls
  <1>14. CASE Waits
    BY <1>14 DEF Waits, CallerTypes, Ends, Where, InCall, Idle, Calls
  <1>15. CASE TakesInput
    BY <1>15 DEF TakesInput, CallerTypes, Ends, Where, InCall, Idle, Calls
  <1>16. CASE TakesOutput
    <2>1. pc' \in Where
      BY <1>16 DEF TakesOutput, CallerTypes, Where, InCall, Calls
    <2>2. shown' \in Seq(IopubMsg)
      <3>1. Head(iopubQ) \in IopubMsg /\ (shown' = shown \/ shown' = Append(shown, Head(iopubQ)))
        <4>1. iopubQ \in Seq(IopubMsg) /\ iopubQ # <<>>
          BY <1>16 DEF TakesOutput, QueueTypes, Calls
        <4>2. Head(iopubQ) \in IopubMsg
          BY <4>1
        <4>3. shown' = shown \/ shown' = Append(shown, Head(iopubQ))
          BY <1>16 DEF TakesOutput, Calls
        <4> QED BY <4>2, <4>3
      <3>2. shown \in Seq(IopubMsg)
        BY DEF CallerTypes, Calls
      <3> QED BY <3>1, <3>2
    <2>3. UNCHANGED <<call, late, answer, reply>>
      BY <1>16, Zenon DEF TakesOutput
    <2> QED BY <2>1, <2>2, <2>3 DEF CallerTypes
  <1>17. CASE FindsNothing
    BY <1>17 DEF FindsNothing, CallerTypes, Ends, Where, InCall, Idle, Calls
  <1>18. CASE Rechecks
    BY <1>18 DEF Rechecks, CallerTypes, Ends, Where, InCall, Idle, Calls
  <1>19. CASE Clears
    BY <1>19 DEF Clears, CallerTypes, Ends, Where, InCall, Idle, Calls
  <1>20. CASE TakesReply
    BY <1>20 DEF TakesReply, CallerTypes, Ends, Where, InCall, Idle, Calls
  <1>21. CASE MissesReply
    BY <1>21 DEF MissesReply, CallerTypes, Ends, Where, InCall, Idle, Calls
  <1>22. CASE DeadlinePasses
    BY <1>22 DEF DeadlinePasses, CallerTypes, Ends, Where, InCall, Idle, Calls
  <1>23. CASE Interrupted
    BY <1>23 DEF Interrupted, CallerTypes, Ends, Where, InCall, Idle, Calls
  <1> QED BY <1>2, <1>3, <1>4, <1>5, <1>6, <1>7, <1>8, <1>9, <1>10, <1>11, <1>12, <1>13,
     <1>14, <1>15, <1>16, <1>17, <1>18, <1>19, <1>20, <1>21, <1>22, <1>23 DEF Next, Caller, Socket, KernelSide

\* start_channels, _on_open, _on_close and the manager of the kernel.
LEMMA ConnTyped == ASSUME TypeOK, ConnectsOnce, CallIsNumbered, HookIsBusy, Next PROVE ConnTypes'
  <1> USE TypeParts, BoundsAssumption
       DEF Nobody, callerVars, connVars, socketVars, queues, wires, kernelVars, ConnRest
  <1>1. ASSUME UNCHANGED <<names, tries, event, linked, dialing, hand, hooked>> PROVE ConnTypes'
    BY <1>1 DEF ConnTypes, Calls
  <1>2. CASE LooksUp \/ StartsKernel \/ ConnectFails \/ Awaits \/ Flushes \/ Sends \/ Checks
             \/ Waits \/ TakesInput \/ TakesOutput \/ FindsNothing \/ Rechecks \/ SkipsReply
             \/ TakesReply \/ MissesReply \/ DeadlinePasses \/ Interrupted \/ BeginsRequest
             \/ Prints \/ Asks \/ Replies \/ GoesIdle \/ OthersOutput \/ Restarts
    BY <1>1, <1>2, Zenon DEF LooksUp, StartsKernel, ConnectFails, Awaits, Flushes, Sends,
       Checks, Waits, TakesInput, TakesOutput, FindsNothing, Rechecks, SkipsReply, TakesReply,
       MissesReply, DeadlinePasses, Interrupted, BeginsRequest, Prints, Asks, Replies,
       GoesIdle, OthersOutput, Restarts
  <1>3. CASE TimesOut
    <2>1. tries' \in 0..3
      <3>1. tries \in 0..3 /\ tries < 3 /\ tries' = tries + 1
        BY <1>3 DEF TimesOut, ConnTypes, ConnectsOnce, Calls
      <3> QED BY <3>1
    <2>2. UNCHANGED <<names, event, linked, dialing, hand, hooked>>
      BY <1>3, Zenon DEF TimesOut
    <2> QED BY <2>1, <2>2 DEF ConnTypes
  <1>4. CASE Dials
    BY <1>4 DEF Dials, ConnTypes, Ends, Where, InCall, Idle, Calls
  <1>5. CASE RecordsKernel
    <2>1. names' \in {"none", "kernel", "lost kernel"}
      BY <1>5 DEF RecordsKernel, ConnTypes, Calls
    <2>2. tries' \in 0..3
      <3>1. tries' = 0
        BY <1>5, Zenon DEF RecordsKernel
      <3> QED BY <3>1
    <2>3. UNCHANGED <<event, linked, dialing, hand, hooked>>
      BY <1>5, Zenon DEF RecordsKernel
    <2> QED BY <2>1, <2>2, <2>3 DEF ConnTypes
  <1>6. CASE StartsCall
    BY <1>6 DEF StartsCall, ConnTypes, Ends, Where, InCall, Idle, Calls
  <1>7. CASE Clears
    BY <1>7 DEF Clears, ConnTypes, Ends, Where, InCall, Idle, Calls
  <1>8. CASE ReceivesOutput
    BY <1>8 DEF ReceivesOutput, ConnTypes, Ends, Where, InCall, Idle, Calls
  <1>9. CASE ReceivesReply
    BY <1>9 DEF ReceivesReply, ConnTypes, Ends, Where, InCall, Idle, Calls
  <1>10. CASE SetsEvent
    BY <1>10 DEF SetsEvent, ConnTypes, Ends, Where, InCall, Idle, Calls
  <1>11. CASE ReceivesRequest
    <2>1. hand' \in {"free", "set", "hook"}
      BY <1>11 DEF ReceivesRequest, ConnTypes, Calls
    <2>2. hooked' \in 0..MaxCalls
      <3>1. stdinWire \in Seq(Calls) /\ stdinWire # <<>> /\ hooked' = Head(stdinWire)
        BY <1>11 DEF ReceivesRequest, WireTypes, Calls
      <3>2. hooked' \in Calls
        BY <3>1
      <3> QED BY <3>2 DEF Calls
    <2>3. UNCHANGED <<names, tries, event, linked, dialing>>
      BY <1>11, Zenon DEF ReceivesRequest
    <2> QED BY <2>1, <2>2, <2>3 DEF ConnTypes
  <1>12. CASE HookAnswers
    <2>1. hand' \in {"free", "set", "hook"}
      BY <1>12 DEF HookAnswers, ConnTypes, Calls
    <2>2. hooked' \in 0..MaxCalls
      <3>1. hooked' = 0
        BY <1>12, Zenon DEF HookAnswers
      <3> QED BY <3>1
    <2>3. UNCHANGED <<names, tries, event, linked, dialing>>
      BY <1>12, Zenon DEF HookAnswers
    <2> QED BY <2>1, <2>2, <2>3 DEF ConnTypes
  <1>13. CASE HookRefused
    <2>1. hand' \in {"free", "set", "hook"}
      BY <1>13 DEF HookRefused, ConnTypes, Calls
    <2>2. hooked' \in 0..MaxCalls
      <3>1. hooked' = 0
        BY <1>13, Zenon DEF HookRefused
      <3> QED BY <3>1
    <2>3. UNCHANGED <<names, tries, event, linked, dialing>>
      BY <1>13, Zenon DEF HookRefused
    <2> QED BY <2>1, <2>2, <2>3 DEF ConnTypes
  <1>14. CASE HookFails
    <2>1. hand' \in {"free", "set", "hook"}
      BY <1>14 DEF HookFails, ConnTypes, Calls
    <2>2. hooked' \in 0..MaxCalls
      <3>1. hooked' = 0
        BY <1>14, Zenon DEF HookFails
      <3> QED BY <3>1
    <2>3. UNCHANGED <<names, tries, event, linked, dialing>>
      BY <1>14, Zenon DEF HookFails
    <2> QED BY <2>1, <2>2, <2>3 DEF ConnTypes
  <1>15. CASE Opens
    BY <1>15 DEF Opens, ConnTypes, Ends, Where, InCall, Idle, Calls
  <1>16. CASE Closes
    BY <1>16 DEF Closes, ConnTypes, Ends, Where, InCall, Idle, Calls
  <1> QED BY <1>2, <1>3, <1>4, <1>5, <1>6, <1>7, <1>8, <1>9, <1>10, <1>11, <1>12, <1>13,
     <1>14, <1>15, <1>16 DEF Next, Caller, Socket, KernelSide

\* The queues that the socket thread fills and the caller empties.
LEMMA QueueTyped ==
  ASSUME TypeOK, ConnectsOnce, CallIsNumbered, HookIsBusy, Next
  PROVE  QueueTypes'
  <1> USE TypeParts, BoundsAssumption
       DEF Nobody, callerVars, connVars, socketVars, queues, wires, kernelVars, ConnRest
  <1>1. ASSUME UNCHANGED <<iopubQ, shellQ, stdinQ>> PROVE QueueTypes'
    BY <1>1 DEF QueueTypes, Calls
  <1>2. CASE LooksUp \/ StartsKernel \/ TimesOut \/ ConnectFails \/ Dials \/ Awaits
             \/ RecordsKernel \/ StartsCall \/ Sends \/ Checks \/ Waits \/ FindsNothing
             \/ Rechecks \/ Clears \/ MissesReply \/ DeadlinePasses \/ Interrupted
             \/ SetsEvent \/ ReceivesRequest \/ HookAnswers \/ HookRefused \/ Opens \/ Closes
             \/ BeginsRequest \/ Prints \/ Asks \/ Replies \/ GoesIdle \/ OthersOutput \/ Restarts
    BY <1>1, <1>2, Zenon DEF LooksUp, StartsKernel, TimesOut, ConnectFails, Dials, Awaits,
       RecordsKernel, StartsCall, Sends, Checks, Waits, FindsNothing, Rechecks, Clears,
       MissesReply, DeadlinePasses, Interrupted, SetsEvent, ReceivesRequest, HookAnswers,
       HookRefused, Opens, Closes, BeginsRequest, Prints, Asks, Replies, GoesIdle,
       OthersOutput, Restarts
  <1>3. CASE Flushes
    BY <1>3 DEF Flushes, QueueTypes, Ends, Where, InCall, Idle, Calls
  <1>4. CASE TakesInput
    BY <1>4 DEF TakesInput, QueueTypes, Ends, Where, InCall, Idle, Calls
  <1>5. CASE TakesOutput
    BY <1>5 DEF TakesOutput, QueueTypes, Ends, Where, InCall, Idle, Calls
  <1>6. CASE SkipsReply
    BY <1>6 DEF SkipsReply, QueueTypes, Ends, Where, InCall, Idle, Calls
  <1>7. CASE TakesReply
    BY <1>7 DEF TakesReply, QueueTypes, Ends, Where, InCall, Idle, Calls
  <1>8. CASE ReceivesOutput
    <2>1. iopubQ' \in Seq(IopubMsg)
      <3>1. iopubWire \in Seq(IopubMsg) /\ iopubWire # <<>> /\ iopubQ \in Seq(IopubMsg)
        BY <1>8 DEF ReceivesOutput, WireTypes, QueueTypes, Calls
      <3>2. iopubQ' = Append(iopubQ, Head(iopubWire))
        BY <1>8 DEF ReceivesOutput, Calls
      <3> QED BY <3>1, <3>2
    <2>2. UNCHANGED <<shellQ, stdinQ>>
      BY <1>8, Zenon DEF ReceivesOutput
    <2> QED BY <2>1, <2>2 DEF QueueTypes
  <1>9. CASE ReceivesReply
    <2>1. shellQ' \in Seq(Calls)
      <3>1. shellWire \in Seq(Calls) /\ shellWire # <<>> /\ shellQ \in Seq(Calls)
        BY <1>9 DEF ReceivesReply, WireTypes, QueueTypes, Calls
      <3>2. shellQ' = Append(shellQ, Head(shellWire))
        BY <1>9 DEF ReceivesReply, Calls
      <3> QED BY <3>1, <3>2
    <2>2. UNCHANGED <<iopubQ, stdinQ>>
      BY <1>9, Zenon DEF ReceivesReply
    <2> QED BY <2>1, <2>2 DEF QueueTypes
  <1>10. CASE HookFails
    <2>1. stdinQ' \in Seq(Calls)
      <3>1. hooked \in Calls /\ stdinQ \in Seq(Calls)
        <4>1. hand = "hook"
          BY <1>10 DEF HookFails, Calls
        <4>2. hooked \in 0..MaxCalls /\ hooked # 0
          BY <4>1 DEF ConnTypes, HookIsBusy, Calls
        <4>3. stdinQ \in Seq(Calls)
          BY DEF QueueTypes, Calls
        <4> QED BY <4>2, <4>3 DEF Calls
      <3>2. stdinQ' = Append(stdinQ, hooked)
        BY <1>10, Zenon DEF HookFails
      <3> QED BY <3>1, <3>2
    <2>2. UNCHANGED <<iopubQ, shellQ>>
      BY <1>10, Zenon DEF HookFails
    <2> QED BY <2>1, <2>2 DEF QueueTypes
  <1> QED BY <1>2, <1>3, <1>4, <1>5, <1>6, <1>7, <1>8, <1>9, <1>10
     DEF Next, Caller, Socket, KernelSide

\* What is sent, and received.
LEMMA WireTyped == ASSUME TypeOK, ConnectsOnce, CallIsNumbered, HookIsBusy, Next PROVE WireTypes'
  <1> USE TypeParts, BoundsAssumption
       DEF Nobody, callerVars, connVars, socketVars, queues, wires, kernelVars, ConnRest
  <1>1. ASSUME UNCHANGED <<iopubWire, shellWire, stdinWire>> PROVE WireTypes'
    BY <1>1 DEF WireTypes, Calls
  <1>2. CASE LooksUp \/ StartsKernel \/ TimesOut \/ ConnectFails \/ Dials \/ Awaits
             \/ RecordsKernel \/ StartsCall \/ Flushes \/ Sends \/ Checks \/ Waits
             \/ TakesInput \/ TakesOutput \/ FindsNothing \/ Rechecks \/ Clears \/ SkipsReply
             \/ TakesReply \/ MissesReply \/ DeadlinePasses \/ Interrupted \/ SetsEvent
             \/ HookAnswers \/ HookRefused \/ HookFails \/ Opens \/ BeginsRequest \/ Restarts
    BY <1>1, <1>2, Zenon DEF LooksUp, StartsKernel, TimesOut, ConnectFails, Dials, Awaits,
       RecordsKernel, StartsCall, Flushes, Sends, Checks, Waits, TakesInput, TakesOutput,
       FindsNothing, Rechecks, Clears, SkipsReply, TakesReply, MissesReply, DeadlinePasses,
       Interrupted, SetsEvent, HookAnswers, HookRefused, HookFails, Opens, BeginsRequest,
       Restarts
  <1>3. CASE ReceivesOutput
    BY <1>3 DEF ReceivesOutput, WireTypes, Ends, Where, InCall, Idle, Calls
  <1>4. CASE ReceivesReply
    BY <1>4 DEF ReceivesReply, WireTypes, Ends, Where, InCall, Idle, Calls
  <1>5. CASE ReceivesRequest
    BY <1>5 DEF ReceivesRequest, WireTypes, Ends, Where, InCall, Idle, Calls
  <1>6. CASE Closes
    BY <1>6 DEF Closes, WireTypes, Ends, Where, InCall, Idle, Calls
  <1>7. CASE Prints
    <2>1. iopubWire' \in Seq(IopubMsg)
      <3>1. [of |-> running, text |-> made'[running]] \in IopubMsg
        BY <1>7 DEF Prints, KernelTypes, IopubMsg, Calls
      <3>2. iopubWire \in Seq(IopubMsg)
        BY DEF WireTypes, Calls
      <3>3. PICK m \in IopubMsg : iopubWire' = iopubWire \/ iopubWire' = Append(iopubWire, m)
        BY <1>7, <3>1 DEF Prints, Broadcasts, Idle, Calls
      <3> QED BY <3>2, <3>3
    <2>2. UNCHANGED <<shellWire, stdinWire>>
      BY <1>7, Zenon DEF Prints
    <2> QED BY <2>1, <2>2 DEF WireTypes
  <1>8. CASE Asks
    <2>1. stdinWire' \in Seq(Calls)
      <3>1. stdinWire \in Seq(Calls) /\ running \in Calls
        BY <1>8 DEF Asks, WireTypes, KernelTypes, Calls
      <3>2. stdinWire' = stdinWire \/ stdinWire' = Append(stdinWire, running)
        BY <1>8, Zenon DEF Asks, Send
      <3> QED BY <3>1, <3>2
    <2>2. UNCHANGED <<iopubWire, shellWire>>
      BY <1>8, Zenon DEF Asks
    <2> QED BY <2>1, <2>2 DEF WireTypes
  <1>9. CASE Replies
    <2>1. shellWire' \in Seq(Calls)
      <3>1. shellWire \in Seq(Calls) /\ running \in Calls
        BY <1>9 DEF Replies, WireTypes, KernelTypes, Calls
      <3>2. shellWire' = shellWire \/ shellWire' = Append(shellWire, running)
        BY <1>9, Zenon DEF Replies, Send
      <3> QED BY <3>1, <3>2
    <2>2. UNCHANGED <<iopubWire, stdinWire>>
      BY <1>9, Zenon DEF Replies
    <2> QED BY <2>1, <2>2 DEF WireTypes
  <1>10. CASE GoesIdle
    <2>1. iopubWire' \in Seq(IopubMsg)
      <3>1. [of |-> running, text |-> 0] \in IopubMsg
        BY <1>10 DEF GoesIdle, KernelTypes, IopubMsg, Calls
      <3>2. iopubWire \in Seq(IopubMsg)
        BY DEF WireTypes, Calls
      <3>3. PICK m \in IopubMsg : iopubWire' = iopubWire \/ iopubWire' = Append(iopubWire, m)
        BY <1>10, <3>1 DEF GoesIdle, Broadcasts, Idle, Calls
      <3> QED BY <3>2, <3>3
    <2>2. UNCHANGED <<shellWire, stdinWire>>
      BY <1>10, Zenon DEF GoesIdle
    <2> QED BY <2>1, <2>2 DEF WireTypes
  <1>11. CASE OthersOutput
    <2>1. iopubWire' \in Seq(IopubMsg)
      <3>1. \A t \in 0..MaxChunks : [of |-> 0, text |-> t] \in IopubMsg
        BY <1>11 DEF OthersOutput, KernelTypes, IopubMsg, Calls
      <3>2. iopubWire \in Seq(IopubMsg)
        BY DEF WireTypes, Calls
      <3>3. PICK m \in IopubMsg : iopubWire' = iopubWire \/ iopubWire' = Append(iopubWire, m)
        BY <1>11, <3>1 DEF OthersOutput, Broadcasts, Idle, Calls
      <3> QED BY <3>2, <3>3
    <2>2. UNCHANGED <<shellWire, stdinWire>>
      BY <1>11, Zenon DEF OthersOutput
    <2> QED BY <2>1, <2>2 DEF WireTypes
  <1> QED BY <1>2, <1>3, <1>4, <1>5, <1>6, <1>7, <1>8, <1>9, <1>10, <1>11
     DEF Next, Caller, Socket, KernelSide

\* The kernel, as far as its client sees it.
LEMMA KernelTyped ==
  ASSUME TypeOK, ConnectsOnce, CallIsNumbered, HookIsBusy, Next
  PROVE  KernelTypes'
  <1> USE TypeParts, BoundsAssumption
       DEF Nobody, callerVars, connVars, socketVars, queues, wires, kernelVars, ConnRest
  <1>1. ASSUME UNCHANGED <<inbox, running, replied, asking, made, finished, foreign>>
        PROVE  KernelTypes'
    BY <1>1 DEF KernelTypes, Calls
  <1>2. CASE LooksUp \/ StartsKernel \/ TimesOut \/ ConnectFails \/ Dials \/ Awaits
             \/ RecordsKernel \/ StartsCall \/ Flushes \/ Checks \/ Waits \/ TakesInput
             \/ TakesOutput \/ FindsNothing \/ Rechecks \/ Clears \/ SkipsReply \/ TakesReply
             \/ MissesReply \/ DeadlinePasses \/ Interrupted \/ ReceivesOutput
             \/ ReceivesReply \/ SetsEvent \/ ReceivesRequest \/ HookRefused \/ HookFails
             \/ Opens \/ Closes
    BY <1>1, <1>2, Zenon DEF LooksUp, StartsKernel, TimesOut, ConnectFails, Dials, Awaits,
       RecordsKernel, StartsCall, Flushes, Checks, Waits, TakesInput, TakesOutput,
       FindsNothing, Rechecks, Clears, SkipsReply, TakesReply, MissesReply, DeadlinePasses,
       Interrupted, ReceivesOutput, ReceivesReply, SetsEvent, ReceivesRequest, HookRefused,
       HookFails, Opens, Closes
  <1>3. CASE Sends
    <2>1. inbox' \in Seq(Calls)
      <3>1. inbox \in Seq(Calls) /\ call \in Calls
        BY <1>3 DEF Sends, KernelTypes, CallerTypes, CallIsNumbered, InCall, Calls
      <3>2. inbox' = inbox \/ inbox' = Append(inbox, call)
        BY <1>3, Zenon DEF Sends, Send
      <3> QED BY <3>1, <3>2
    <2>2. UNCHANGED <<running, replied, asking, made, finished, foreign>>
      BY <1>3, Zenon DEF Sends
    <2> QED BY <2>1, <2>2 DEF KernelTypes
  <1>4. CASE HookAnswers
    BY <1>4 DEF HookAnswers, KernelTypes, Ends, Where, InCall, Idle, Calls
  <1>5. CASE BeginsRequest
    <2>1. inbox' \in Seq(Calls)
      <3>1. inbox \in Seq(Calls) /\ inbox # <<>> /\ inbox' = Tail(inbox)
        BY <1>5 DEF BeginsRequest, KernelTypes, Calls
      <3> QED BY <3>1
    <2>2. running' \in 0..MaxCalls
      <3>1. inbox \in Seq(Calls) /\ inbox # <<>> /\ running' = Head(inbox)
        BY <1>5 DEF BeginsRequest, KernelTypes, Calls
      <3>2. running' \in Calls
        BY <3>1
      <3> QED BY <3>2 DEF Calls
    <2>3. replied' \in BOOLEAN
      BY <1>5, Zenon DEF BeginsRequest, KernelTypes
    <2>4. UNCHANGED <<asking, made, finished, foreign>>
      BY <1>5, Zenon DEF BeginsRequest
    <2> QED BY <2>1, <2>2, <2>3, <2>4 DEF KernelTypes
  <1>6. CASE Prints
    BY <1>6 DEF Prints, KernelTypes, Ends, Where, InCall, Idle, Calls
  <1>7. CASE Asks
    BY <1>7 DEF Asks, KernelTypes, Ends, Where, InCall, Idle, Calls
  <1>8. CASE Replies
    BY <1>8 DEF Replies, KernelTypes, Ends, Where, InCall, Idle, Calls
  <1>9. CASE GoesIdle
    <2>1. running' \in 0..MaxCalls
      BY <1>9 DEF GoesIdle, KernelTypes, Calls
    <2>2. replied' \in BOOLEAN
      BY <1>9, Zenon DEF GoesIdle, KernelTypes
    <2>3. finished' \subseteq Calls
      BY <1>9 DEF GoesIdle, KernelTypes, Calls
    <2>4. UNCHANGED <<inbox, asking, made, foreign>>
      BY <1>9, Zenon DEF GoesIdle
    <2> QED BY <2>1, <2>2, <2>3, <2>4 DEF KernelTypes
  <1>10. CASE OthersOutput
    BY <1>10 DEF OthersOutput, KernelTypes, Ends, Where, InCall, Idle, Calls
  <1>11. CASE Restarts
    <2>1. inbox' \in Seq(Calls)
      BY <1>11 DEF Restarts, KernelTypes, Calls
    <2>2. running' \in 0..MaxCalls
      BY <1>11 DEF Restarts, KernelTypes, Calls
    <2>3. replied' \in BOOLEAN
      BY <1>11, Zenon DEF Restarts, KernelTypes
    <2>4. asking' \in BOOLEAN
      BY <1>11, Zenon DEF Restarts, KernelTypes
    <2>5. foreign' \in 0..MaxForeign
      BY <1>11 DEF Restarts, KernelTypes, Calls
    <2>6. UNCHANGED <<made, finished>>
      BY <1>11, Zenon DEF Restarts
    <2> QED BY <2>1, <2>2, <2>3, <2>4, <2>5, <2>6 DEF KernelTypes
  <1> QED BY <1>2, <1>3, <1>4, <1>5, <1>6, <1>7, <1>8, <1>9, <1>10, <1>11
     DEF Next, Caller, Socket, KernelSide

-----------------------------------------------------------------------------

\* So every step keeps the types.
LEMMA TypeStep == ASSUME IInv, Next PROVE TypeOK'
  <1>1. TypeOK /\ ConnectsOnce /\ CallIsNumbered /\ HookIsBusy
    BY DEF IInv
  <1>2. CallerTypes' /\ ConnTypes' /\ QueueTypes' /\ WireTypes' /\ KernelTypes'
    BY <1>1, CallerTyped, ConnTyped, QueueTyped, WireTyped, KernelTyped
  <1> QED BY <1>2 DEF TypeOK, CallerTypes, ConnTypes, QueueTypes, WireTypes, KernelTypes

\* The steps after which every message is where it was in the pipe.
LEMMA QuietSteps ==
  ASSUME IInv, TypeOK',
         \/ LooksUp \/ StartsKernel \/ TimesOut \/ ConnectFails \/ Dials \/ Awaits
         \/ RecordsKernel
         \/ Checks \/ Waits \/ TakesInput \/ FindsNothing \/ Rechecks \/ Clears
         \/ SkipsReply \/ TakesReply \/ MissesReply \/ DeadlinePasses \/ Interrupted
         \/ (Sends /\ ~linked)
         \/ ReceivesOutput \/ ReceivesReply \/ SetsEvent \/ ReceivesRequest
         \/ HookAnswers \/ HookRefused \/ HookFails \/ Asks \/ Replies
  PROVE  IInv'
  <1> USE DEF IInv
  <1> DEFINE Same == UNCHANGED <<call, shown, inbox, running, made, Pipe>> /\ linked' = linked
  <1> DEFINE Conn ==
        /\ pc' \in {"flush", "send"} => pc \in {"flush", "send"}
        /\ pc' \in {"lookup", "start", "dial"} => pc \in {"lookup", "start", "dial"}
        /\ dialing' => dialing \/ pc = "dial"
        /\ dialing' => pc' \notin {"lookup", "start", "dial"}
        /\ pc' \in {"lookup", "start"} => tries' < 3
  <1> DEFINE Reply ==
        /\ pc' \in InCall => pc \in InCall /\ answer' = answer
        /\ pc' = "reply" => pc = "reply"
        /\ answer' = "reply" => \/ answer = "reply" /\ reply' = reply
                                \/ pc = "reply" /\ reply' = call
  <1> DEFINE Hook == hand' = "hook" => hooked' # Nobody
  <1>0. ASSUME Same, Conn, Reply, Hook PROVE IInv'
    BY <1>0, Keeping
  <1> USE DEF callerVars, connVars, socketVars, queues, wires, kernelVars, ConnRest
  <1>a. UNCHANGED <<iopubQ, iopubWire>> => Pipe' = Pipe
    BY DEF Pipe
  <1>1. CASE LooksUp \/ StartsKernel \/ TimesOut \/ ConnectFails \/ Dials \/ Awaits
             \/ RecordsKernel
    <2>1. Same
      BY <1>1, <1>a, Zenon DEF LooksUp, StartsKernel, TimesOut, ConnectFails, Dials, Awaits,
         RecordsKernel
    <2>2. Conn
      BY <1>1 DEF LooksUp, StartsKernel, TimesOut, ConnectFails, Dials, Awaits, RecordsKernel,
         ConnectsOnce
    <2>3. Reply /\ Hook
      BY <1>1 DEF LooksUp, StartsKernel, TimesOut, ConnectFails, Dials, Awaits, RecordsKernel,
         InCall, HookIsBusy
    <2> QED BY <2>1, <2>2, <2>3, <1>0
  <1>2. CASE Checks \/ Waits \/ TakesInput \/ FindsNothing \/ Rechecks \/ Clears
    <2>1. Same
      BY <1>2, <1>a, Zenon DEF Checks, Waits, TakesInput, FindsNothing, Rechecks, Clears, Ends
    <2>2. Conn
      BY <1>2 DEF Checks, Waits, TakesInput, FindsNothing, Rechecks, Clears, Ends, ConnectsOnce
    <2>3. Reply /\ Hook
      BY <1>2 DEF Checks, Waits, TakesInput, FindsNothing, Rechecks, Clears, Ends, InCall,
         HookIsBusy
    <2> QED BY <2>1, <2>2, <2>3, <1>0
  <1>3. CASE SkipsReply \/ TakesReply \/ MissesReply \/ DeadlinePasses \/ Interrupted
             \/ (Sends /\ ~linked)
    <2>1. Same
      BY <1>3, <1>a, Zenon DEF SkipsReply, TakesReply, MissesReply, DeadlinePasses,
         Interrupted, Sends, Ends
    <2>2. Conn
      BY <1>3 DEF SkipsReply, TakesReply, MissesReply, DeadlinePasses, Interrupted, Sends,
         Ends, ConnectsOnce, InCall
    <2>3. Reply /\ Hook
      BY <1>3 DEF SkipsReply, TakesReply, MissesReply, DeadlinePasses, Interrupted, Sends,
         Ends, InCall, HookIsBusy
    <2> QED BY <2>1, <2>2, <2>3, <1>0
  <1>4. CASE \/ ReceivesOutput \/ ReceivesReply \/ SetsEvent \/ ReceivesRequest
             \/ HookAnswers \/ HookRefused \/ HookFails \/ Asks \/ Replies
    <2>1. UNCHANGED <<call, shown, inbox, running, made>> /\ linked' = linked
      BY <1>4, Zenon DEF ReceivesOutput, ReceivesReply, SetsEvent, ReceivesRequest, HookAnswers,
         HookRefused, HookFails, Asks, Replies
    <2>2. Pipe' = Pipe
      <3>1. CASE ReceivesOutput
        BY <3>1, PipeMoves DEF ReceivesOutput, Pipe
      <3>2. CASE ~ReceivesOutput
        BY <3>2, <1>4, <1>a, Zenon DEF ReceivesReply, SetsEvent, ReceivesRequest, HookAnswers,
           HookRefused, HookFails, Asks, Replies
      <3> QED BY <3>1, <3>2
    <2>3. UNCHANGED <<pc, dialing, tries, answer, reply>>
      BY <1>4, Zenon DEF ReceivesOutput, ReceivesReply, SetsEvent, ReceivesRequest, HookAnswers,
         HookRefused, HookFails, Asks, Replies
    <2>4. Conn /\ Reply
      BY <2>3 DEF ConnectsOnce
    <2>5. Hook
      <3>1. CASE ReceivesRequest
        <4>1. stdinWire \in Seq(Calls) /\ stdinWire # <<>> /\ hooked' = Head(stdinWire)
          BY <3>1 DEF ReceivesRequest, TypeOK
        <4>2. hooked' \in Calls
          BY <4>1
        <4> QED BY <4>2 DEF Calls, Nobody
      <3>2. CASE ~ReceivesRequest
        BY <3>2, <1>4 DEF ReceivesOutput, ReceivesReply, SetsEvent, HookAnswers,
           HookRefused, HookFails, Asks, Replies, HookIsBusy
      <3> QED BY <3>1, <3>2
    <2> QED BY <2>1, <2>2, <2>4, <2>5, <1>0
  <1> QED BY <1>1, <1>2, <1>3, <1>4

-----------------------------------------------------------------------------

\* A message that is sent comes last.
LEMMA Grows ==
  ASSUME TypeOK, NEW m \in IopubMsg, Pipe' = Append(Pipe, m), call' = call
  PROVE  /\ Len(Pipe) \in Nat /\ Len(Pipe') = Len(Pipe) + 1 /\ Pipe'[Len(Pipe) + 1] = m
         /\ \A i \in 1..Len(Pipe) : Pipe'[i] = Pipe[i]
         /\ \A k : \A n \in 0..Len(Pipe) : InPipe(k, n)' <=> InPipe(k, n)
         /\ \A k : InPipe(k, Len(Pipe)) => InPipe(k, Len(Pipe))'
         /\ m = Msg(call, m.text) => InPipe(m.text, Len(Pipe))'
  <1>1. Pipe \in Seq(IopubMsg)
    BY PipeMoves
  <1>2. /\ Len(Pipe) \in Nat /\ Len(Pipe') = Len(Pipe) + 1 /\ Pipe'[Len(Pipe) + 1] = m
        /\ \A i \in 1..Len(Pipe) : Pipe'[i] = Pipe[i]
    BY <1>1, Lengths
  <1>3. \A k : \A n \in 0..Len(Pipe) : InPipe(k, n)' <=> InPipe(k, n)
    BY <1>2 DEF InPipe, Msg
  <1>4. \A k : InPipe(k, Len(Pipe)) => InPipe(k, Len(Pipe))'
    BY <1>2 DEF InPipe, Msg
  <1>5. m = Msg(call, m.text) => InPipe(m.text, Len(Pipe))'
    BY <1>2 DEF InPipe, Msg
  <1> QED BY <1>2, <1>3, <1>4, <1>5

\* The first message of the pipe is looked at.
LEMMA Shrinks ==
  ASSUME TypeOK, Pipe # <<>>, Pipe' = Tail(Pipe), call' = call
  PROVE  /\ Len(Pipe) \in Nat /\ Len(Pipe) > 0 /\ Len(Pipe') = Len(Pipe) - 1
         /\ \A i \in 1..Len(Pipe') : Pipe'[i] = Pipe[i + 1]
         /\ \A k \in Nat : \A n \in 0..Len(Pipe) : InPipe(k, n) /\ Pipe[1] # Msg(call, k) => InPipe(k, n - 1)'
  <1>1. Pipe \in Seq(IopubMsg)
    BY PipeMoves
  <1>2. /\ Len(Pipe) \in Nat /\ Len(Pipe) > 0 /\ Len(Pipe') = Len(Pipe) - 1
        /\ \A i \in 1..Len(Pipe') : Pipe'[i] = Pipe[i + 1]
    BY <1>1, Lengths
  <1>3. ASSUME NEW k \in Nat, NEW n \in 0..Len(Pipe), InPipe(k, n), Pipe[1] # Msg(call, k)
        PROVE  InPipe(k, n - 1)'
    <2>1. PICK i \in 1..n : Pipe[i] = Msg(call, k)
      BY <1>3 DEF InPipe
    <2>2. i # 1 /\ i - 1 \in 1..(n - 1) /\ i - 1 \in 1..Len(Pipe')
      BY <2>1, <1>2, <1>3
    <2>3. Pipe'[i - 1] = Msg(call, k)
      BY <2>1, <2>2, <1>2
    <2> QED BY <2>2, <2>3 DEF InPipe, Msg
  <1> QED BY <1>2, <1>3

\* What the sequences hold: requests are calls, a message of a call is known
\* by its text, and places are numbers.
LEMMA Facts ==
  ASSUME TypeOK
  PROVE  /\ Pipe \in Seq(IopubMsg) /\ Len(Pipe) \in Nat /\ Len(shown) \in Nat
         /\ \A i \in 1..Len(Pipe) : /\ Pipe[i].text \in Nat
                                    /\ Pipe[i] = Msg(Pipe[i].of, Pipe[i].text)
         /\ Len(inbox) \in Nat /\ \A i \in 1..Len(inbox) : inbox[i] \in Calls
         /\ \A c \in Calls : made[c] \in Nat /\ c \in Nat /\ c # 0
         /\ call \in Nat /\ (call # 0 => call \in Calls)
         /\ running \in Nat /\ (running # 0 => running \in Calls)
  <1>1. /\ Pipe \in Seq(IopubMsg) /\ Len(Pipe) \in Nat
        /\ \A i \in 1..Len(Pipe) : Pipe[i] \in IopubMsg
    BY PipeMoves, Lengths
  <1>2. \A m \in IopubMsg : m.text \in Nat /\ m = Msg(m.of, m.text)
    BY BoundsAssumption DEF IopubMsg, Msg
  <1>3. inbox \in Seq(Calls) /\ shown \in Seq(IopubMsg)
    BY DEF TypeOK
  <1>4. Len(shown) \in Nat /\ Len(inbox) \in Nat /\ \A i \in 1..Len(inbox) : inbox[i] \in Calls
    BY <1>3, Lengths
  <1>5. \A c \in Calls : made[c] \in Nat
    <2>1. made \in [Calls -> 0..MaxChunks]
      BY DEF TypeOK
    <2> QED BY <2>1
  <1>6. call \in 0..MaxCalls /\ running \in 0..MaxCalls
    BY DEF TypeOK
  <1>7. /\ \A c \in Calls : c \in Nat /\ c # 0
        /\ call \in Nat /\ (call # 0 => call \in Calls)
        /\ running \in Nat /\ (running # 0 => running \in Calls)
    BY <1>6, BoundsAssumption DEF Calls
  <1> QED BY <1>1, <1>2, <1>4, <1>5, <1>7

\* A message of another's leaves the order as it is; the next piece of the
\* output of the call under way continues it, and its idle status completes it.
LEMMA OrderGrows ==
  ASSUME IInv, TypeOK', NEW m \in IopubMsg, Pipe' = Append(Pipe, m), UNCHANGED <<call, shown>>,
         call # 0,
         m.of # call \/ (~Over(call) /\ m.text = 0) => made'[call] = made[call],
         made'[call] = made[call] \/ (~Over(call) /\ made'[call] = made[call] + 1),
         Over(call) => Over(call)',
         m.of = call => /\ ~Over(call) /\ linked
                        /\ \/ m.text = made[call] + 1 /\ made'[call] = made[call] + 1
                           \/ m.text = 0 /\ Over(call)'
  PROVE  PipeIsInOrder' /\ \A k \in (Len(shown)+1)..made[call] : linked => InPipe(k, Len(Pipe))'
  <1> USE DEF Idle
  <1>1. /\ Len(Pipe) \in Nat /\ Len(Pipe') = Len(Pipe) + 1 /\ Pipe'[Len(Pipe) + 1] = m
        /\ \A i \in 1..Len(Pipe) : Pipe'[i] = Pipe[i]
        /\ \A k : \A n \in 0..Len(Pipe) : InPipe(k, n)' <=> InPipe(k, n)
        /\ \A k : InPipe(k, Len(Pipe)) => InPipe(k, Len(Pipe))'
    BY Grows DEF IInv
  <1>2. /\ call \in Calls /\ made[call] \in Nat /\ Len(shown) \in Nat /\ m.text \in Nat
        /\ \A i \in 1..Len(Pipe) : Pipe[i].text \in Nat
        /\ Len(shown) <= made[call]
    BY Facts, BoundsAssumption DEF IInv, IopubMsg, ShownIsOutput
  <1>3. \A i \in 1..Len(Pipe) : Pipe[i].of = call => Sorted(i) /\ Continues(i) /\ Completes(i)
    BY DEF IInv, PipeIsInOrder
  <1>4. \A k \in (Len(shown)+1)..made[call] : linked => InPipe(k, Len(Pipe))
    BY DEF IInv, NothingIsLost
  <1>5. ASSUME NEW i \in 1..Len(Pipe), Pipe[i].of = call
        PROVE  Sorted(i)' /\ Continues(i)' /\ Completes(i)'
    <2>0. /\ Sorted(i) /\ Continues(i) /\ Completes(i) /\ Pipe'[i] = Pipe[i]
          /\ i - 1 \in 0..Len(Pipe)
      BY <1>1, <1>3, <1>5
    <2>a. \A k : InPipe(k, i - 1)' <=> InPipe(k, i - 1)
      BY <1>1, <2>0
    <2>1. Completes(i)'
      BY <2>0, <2>a DEF Completes
    <2>2. Continues(i)'
      BY <1>2, <2>0, <2>a DEF Continues
    <2>3. m.of = call => Pipe[i].text # 0 /\ Pipe[i].text <= made[call]
      BY <2>0 DEF Completes, Continues
    <2>4. ASSUME NEW j \in (i+1)..Len(Pipe'), Pipe'[j].of = call
          PROVE  Pipe'[i].text # Idle /\ (Pipe'[j].text # Idle => Pipe'[i].text < Pipe'[j].text)
      <3>1. CASE j \in 1..Len(Pipe)
        BY <1>1, <2>0, <2>4, <3>1 DEF Sorted
      <3>2. CASE j = Len(Pipe) + 1
        BY <1>1, <1>2, <2>0, <2>3, <2>4, <3>2
      <3> QED BY <1>1, <3>1, <3>2
    <2>5. Sorted(i)'
      BY <2>4 DEF Sorted
    <2> QED BY <2>1, <2>2, <2>5
  <1>6. ASSUME m.of = call, NEW i, i = Len(Pipe) + 1
        PROVE  Sorted(i)' /\ Continues(i)' /\ Completes(i)'
    <2>0. /\ i \in Nat /\ i - 1 = Len(Pipe) /\ Len(Pipe') = i /\ Pipe'[i] = m
          /\ Len(Pipe) \in 0..Len(Pipe)
          /\ \A k \in (Len(shown)+1)..made[call] : InPipe(k, i - 1)'
      BY <1>1, <1>4, <1>6
    <2>1. Sorted(i)'
      BY <2>0 DEF Sorted
    <2>2. Continues(i)'
      BY <2>0, <1>2, <1>6 DEF Continues
    <2>3. Completes(i)'
      BY <2>0, <1>2, <1>6 DEF Completes
    <2> QED BY <2>1, <2>2, <2>3
  <1>7. PipeIsInOrder'
    <2>1. \A i \in 1..Len(Pipe') : i \in 1..Len(Pipe) \/ i = Len(Pipe) + 1
      BY <1>1
    <2> QED BY <1>1, <1>5, <1>6, <2>1 DEF PipeIsInOrder
  <1> QED BY <1>1, <1>4, <1>7

\* A piece of output of the request that the kernel executes.
LEMMA PrintsStep == ASSUME IInv, TypeOK', Prints PROVE IInv'
  <1> USE DEF IInv, Nobody
  <1>1. /\ running \in Calls /\ made'[running] = made[running] + 1
        /\ \A c \in Calls : c # running => made'[c] = made[c]
        /\ \A c \in Calls : made[c] \in Nat
    BY Facts DEF Prints, TypeOK
  <1>2. UNCHANGED <<call, pc, shown, answer, reply, tries, dialing, linked, hand, hooked, inbox,
                    running>>
    BY Zenon DEF Prints, callerVars, connVars, socketVars
  <1>3. PICK m : m = Msg(running, made'[running])
    OBVIOUS
  <1>4. m \in IopubMsg /\ m.of = running /\ m.text = made[running] + 1
    <2>1. made'[running] \in 0..MaxChunks
      BY <1>1 DEF TypeOK
    <2> QED BY <1>1, <1>3, <2>1 DEF Msg, IopubMsg
  <1>5. (~linked /\ Pipe' = Pipe) \/ (linked /\ Pipe' = Append(Pipe, m))
    <2>0. iopubQ' = iopubQ /\ Broadcasts(Msg(running, made'[running]))
      BY DEF Prints, queues, Msg
    <2>1. iopubQ' = iopubQ /\ iopubWire' = IF linked THEN Append(iopubWire, m) ELSE iopubWire
      BY <1>3, <2>0 DEF Broadcasts
    <2>2. linked => iopubQ \o Append(iopubWire, m) = Append(Pipe, m)
      BY <1>4, PipeMoves
    <2> QED BY <2>1, <2>2 DEF Pipe
  <1>6. \A c : Over(c)' <=> Over(c)
    BY <1>2 DEF Over
  <1>7. /\ NothingBeforeLink' /\ ConnectsOnce' /\ HookIsBusy' /\ CallIsNumbered'
        /\ EachIsSentOnce' /\ ReplyIsOwn'
    BY <1>1, <1>2, Facts DEF NothingBeforeLink, ConnectsOnce, HookIsBusy, CallIsNumbered,
       EachIsSentOnce, ReplyIsOwn
  <1>8. ShownIsOutput'
    BY <1>1, <1>2, Facts DEF ShownIsOutput, Msg
  <1>9. AllWasShown'
    BY <1>1, <1>2, <1>6, Facts DEF AllWasShown, Over, ReplyIsOwn, CallIsNumbered, InCall
  <1>10. ASSUME NEW c \in Calls, Unsent(c) PROVE Unsent(c)'
    <2>1. c # running /\ made'[c] = 0 /\ Over(c)'
      BY <1>1, <1>6, <1>10 DEF Unsent, Over
    <2>2. \A i \in 1..Len(Pipe') : Pipe'[i].of # c
      <3>1. CASE Pipe' = Pipe
        BY <1>10, <3>1 DEF Unsent
      <3>2. CASE Pipe' = Append(Pipe, m)
        BY <1>2, <1>4, <1>10, <2>1, <3>2, Grows DEF Unsent
      <3> QED BY <1>5, <3>1, <3>2
    <2> QED BY <2>1, <2>2 DEF Unsent
  <1>11. SentInTurn'
    BY <1>2, <1>10 DEF SentInTurn
  <1>12. call # 0 => call \in Calls /\ (made'[call] = made[call] \/ (~Over(call) /\ made'[call] = made[call] + 1))
    BY <1>1, Facts DEF Over
  <1>13. CASE ~linked /\ Pipe' = Pipe
    <2>1. \A k, n : InPipe(k, n)' <=> InPipe(k, n)
      BY <1>2, <1>13 DEF InPipe
    <2>2. PipeIsInOrder'
      <3>1. SUFFICES ASSUME call # 0, NEW i \in 1..Len(Pipe), Pipe[i].of = call
                     PROVE  Sorted(i)' /\ Continues(i)' /\ Completes(i)'
        BY <1>2, <1>13 DEF PipeIsInOrder
      <3>2. Sorted(i) /\ Continues(i) /\ Completes(i)
        BY <3>1 DEF PipeIsInOrder
      <3>3. Sorted(i)'
        BY <1>2, <1>13, <3>2 DEF Sorted
      <3>4. Continues(i)'
        BY <1>2, <1>12, <1>13, <2>1, <3>1, <3>2, Facts DEF Continues
      <3>5. Completes(i)'
        BY <1>2, <1>6, <1>12, <1>13, <2>1, <3>1, <3>2 DEF Completes
      <3> QED BY <3>3, <3>4, <3>5
    <2>3. NothingIsLost'
      BY <1>2, <1>13 DEF NothingIsLost
    <2> QED BY <1>7, <1>8, <1>9, <1>11, <2>2, <2>3
  <1>14. CASE linked /\ Pipe' = Append(Pipe, m)
    <2>1. running = call => ~Over(call)
      BY DEF Over
    <2>2. call # 0 => PipeIsInOrder' /\ \A k \in (Len(shown)+1)..made[call] : linked => InPipe(k, Len(Pipe))'
      BY <1>1, <1>2, <1>4, <1>6, <1>12, <1>14, <2>1, OrderGrows
    <2>3. /\ Len(Pipe') = Len(Pipe) + 1
          /\ m = Msg(call, m.text) => InPipe(m.text, Len(Pipe))'
      BY <1>2, <1>4, <1>14, Grows
    <2>4. running = call => m = Msg(call, m.text)
      BY <1>3, <1>4 DEF Msg
    <2>5. NothingIsLost'
      <3>1. SUFFICES ASSUME call # 0, NEW k \in (Len(shown)+1)..made'[call]
                     PROVE  InPipe(k, Len(Pipe))'
        BY <1>2, <1>14 DEF NothingIsLost
      <3>2. /\ call \in Calls /\ k \in Nat /\ k >= Len(shown)+1 /\ made[call] \in Nat
            /\ made[running] \in Nat /\ Len(shown) \in Nat
        BY <1>1, <1>2, <3>1, Facts
      <3>3. CASE k \in (Len(shown)+1)..made[call]
        BY <1>14, <2>2, <3>1, <3>3
      <3>4. CASE k \notin (Len(shown)+1)..made[call]
        <4>1. running = call /\ k = made[call] + 1
          BY <1>1, <3>1, <3>2, <3>4
        <4> QED BY <1>4, <2>3, <2>4, <4>1
      <3> QED BY <3>3, <3>4
    <2>6. PipeIsInOrder'
      BY <1>2, <2>2 DEF PipeIsInOrder
    <2> QED BY <1>7, <1>8, <1>9, <1>11, <2>5, <2>6
  <1> QED BY <1>5, <1>13, <1>14

\* The idle status ends the request, and nothing of it follows.
LEMMA GoesIdleStep == ASSUME IInv, TypeOK', GoesIdle PROVE IInv'
  <1> USE DEF IInv, Nobody, Idle
  <1>1. running \in Calls /\ running' = 0
    BY Facts DEF GoesIdle
  <1>2. UNCHANGED <<call, pc, shown, answer, reply, tries, dialing, linked, hand, hooked, inbox,
                    made>>
    BY Zenon DEF GoesIdle, callerVars, connVars, socketVars
  <1>3. PICK m : m = Msg(running, 0)
    OBVIOUS
  <1>4. m \in IopubMsg /\ m.of = running /\ m.text = 0
    BY <1>1, <1>3, BoundsAssumption DEF Msg, IopubMsg
  <1>5. (~linked /\ Pipe' = Pipe) \/ (linked /\ Pipe' = Append(Pipe, m))
    <2>1. iopubQ' = iopubQ /\ iopubWire' = IF linked THEN Append(iopubWire, m) ELSE iopubWire
      BY <1>3, Zenon DEF GoesIdle, Broadcasts, queues, Msg
    <2>2. linked => iopubQ \o Append(iopubWire, m) = Append(Pipe, m)
      BY <1>4, PipeMoves
    <2> QED BY <2>1, <2>2 DEF Pipe
  <1>6. \A c \in Calls : (Over(c) => Over(c)') /\ (c = running => ~Over(c) /\ Over(c)')
    BY <1>1, <1>2, Facts DEF Over, EachIsSentOnce
  <1>7. /\ NothingBeforeLink' /\ ConnectsOnce' /\ HookIsBusy' /\ CallIsNumbered'
        /\ EachIsSentOnce' /\ ReplyIsOwn'
    BY <1>1, <1>2, Facts DEF NothingBeforeLink, ConnectsOnce, HookIsBusy, CallIsNumbered,
       EachIsSentOnce, ReplyIsOwn
  <1>8. ShownIsOutput'
    BY <1>2 DEF ShownIsOutput, Msg
  <1>9. AllWasShown'
    BY <1>1, <1>2, <1>6, Facts DEF AllWasShown, ReplyIsOwn, CallIsNumbered, InCall
  <1>10. ASSUME NEW c \in Calls, Unsent(c) PROVE Unsent(c)'
    <2>1. c # running /\ made'[c] = 0 /\ Over(c)'
      BY <1>1, <1>2, <1>6, <1>10 DEF Unsent, Over
    <2>2. \A i \in 1..Len(Pipe') : Pipe'[i].of # c
      <3>1. CASE Pipe' = Pipe
        BY <1>10, <3>1 DEF Unsent
      <3>2. CASE Pipe' = Append(Pipe, m)
        BY <1>2, <1>4, <1>10, <2>1, <3>2, Grows DEF Unsent
      <3> QED BY <1>5, <3>1, <3>2
    <2> QED BY <2>1, <2>2 DEF Unsent
  <1>11. SentInTurn'
    BY <1>2, <1>10 DEF SentInTurn
  <1>13. CASE ~linked /\ Pipe' = Pipe
    <2>1. \A k, n : InPipe(k, n)' <=> InPipe(k, n)
      BY <1>2, <1>13 DEF InPipe
    <2>2. PipeIsInOrder'
      BY <1>2, <1>6, <1>13, <2>1, Facts DEF PipeIsInOrder, Sorted, Continues, Completes
    <2>3. NothingIsLost'
      BY <1>2, <1>13 DEF NothingIsLost
    <2> QED BY <1>7, <1>8, <1>9, <1>11, <2>2, <2>3
  <1>14. CASE linked /\ Pipe' = Append(Pipe, m)
    <2>1. call # 0 => call \in Calls
      BY Facts
    <2>2. call # 0 => PipeIsInOrder' /\ \A k \in (Len(shown)+1)..made[call] : linked => InPipe(k, Len(Pipe))'
      BY <1>2, <1>4, <1>6, <1>14, <2>1, OrderGrows
    <2>3. Len(Pipe') = Len(Pipe) + 1
      BY <1>2, <1>4, <1>14, Grows
    <2>5. NothingIsLost'
      BY <1>2, <1>14, <2>2, <2>3 DEF NothingIsLost
    <2>6. PipeIsInOrder'
      BY <1>2, <2>2 DEF PipeIsInOrder
    <2> QED BY <1>7, <1>8, <1>9, <1>11, <2>5, <2>6
  <1> QED BY <1>5, <1>13, <1>14

\* What other clients' requests put out is of no call.
LEMMA OthersOutputStep == ASSUME IInv, TypeOK', OthersOutput PROVE IInv'
  <1> USE DEF IInv, Nobody, Idle
  <1>2. UNCHANGED <<call, pc, shown, answer, reply, tries, dialing, linked, hand, hooked, inbox,
                    made, running>>
    BY Zenon DEF OthersOutput, callerVars, connVars, socketVars
  <1>3. PICK t \in 0..MaxChunks : Broadcasts(Msg(0, t))
    BY DEF OthersOutput, Msg
  <1>4. PICK m : m = Msg(0, t)
    OBVIOUS
  <1>5. m \in IopubMsg /\ m.of = 0
    BY <1>4 DEF Msg, IopubMsg
  <1>6. (~linked /\ Pipe' = Pipe) \/ (linked /\ Pipe' = Append(Pipe, m))
    <2>1. iopubQ' = iopubQ /\ iopubWire' = IF linked THEN Append(iopubWire, m) ELSE iopubWire
      BY <1>3, <1>4, Zenon DEF OthersOutput, Broadcasts, queues
    <2>2. linked => iopubQ \o Append(iopubWire, m) = Append(Pipe, m)
      BY <1>5, PipeMoves
    <2> QED BY <2>1, <2>2 DEF Pipe
  <1>7. CASE Pipe' = Pipe
    BY <1>2, <1>7, Keeping DEF ConnectsOnce, HookIsBusy
  <1>8. CASE linked /\ Pipe' = Append(Pipe, m)
    <2>1. \A c : Over(c)' <=> Over(c)
      BY <1>2 DEF Over
    <2>2. /\ NothingBeforeLink' /\ ConnectsOnce' /\ HookIsBusy' /\ CallIsNumbered'
          /\ EachIsSentOnce' /\ ReplyIsOwn'
      BY <1>2 DEF NothingBeforeLink, ConnectsOnce, HookIsBusy, CallIsNumbered, EachIsSentOnce,
         ReplyIsOwn
    <2>3. ShownIsOutput' /\ AllWasShown'
      BY <1>2, <2>1 DEF ShownIsOutput, AllWasShown, Msg
    <2>4. /\ Len(Pipe) \in Nat /\ Len(Pipe') = Len(Pipe) + 1 /\ Pipe'[Len(Pipe) + 1] = m
          /\ \A i \in 1..Len(Pipe) : Pipe'[i] = Pipe[i]
      BY <1>2, <1>5, <1>8, Grows
    <2>5. SentInTurn'
      <3>1. ASSUME NEW c \in Calls, Unsent(c) PROVE Unsent(c)'
        <4>1. c # 0
          BY Facts
        <4> QED BY <1>2, <1>5, <2>1, <2>4, <3>1, <4>1 DEF Unsent
      <3> QED BY <1>2, <3>1 DEF SentInTurn
    <2>6. call # 0 => PipeIsInOrder' /\ \A k \in (Len(shown)+1)..made[call] : linked => InPipe(k, Len(Pipe))'
      BY <1>2, <1>5, <1>8, <2>1, OrderGrows
    <2>7. NothingIsLost'
      BY <1>2, <1>8, <2>4, <2>6 DEF NothingIsLost
    <2>8. PipeIsInOrder'
      BY <1>2, <2>6 DEF PipeIsInOrder
    <2> QED BY <2>2, <2>3, <2>5, <2>7, <2>8
  <1> QED BY <1>6, <1>7, <1>8

-----------------------------------------------------------------------------

\* A new call has sent nothing, and nothing was shown of it.
LEMMA StartsCallStep == ASSUME IInv, TypeOK', StartsCall PROVE IInv'
  <1> USE DEF IInv
  <1>1. UNCHANGED <<tries, dialing, linked, hand, hooked, iopubQ, iopubWire, inbox, made,
                    running>>
    BY Zenon DEF StartsCall, connVars, socketVars, queues, wires, kernelVars
  <1>2. /\ pc = "out" /\ call' = call + 1 /\ pc' = "flush" /\ shown' = <<>> /\ answer' = "none"
        /\ call \in Nat /\ call' \in Calls /\ call' > call /\ call' # 0
    <2>1. call \in 0..MaxCalls /\ call < MaxCalls /\ call' = call + 1
      BY DEF StartsCall, TypeOK
    <2>2. call' \in Calls /\ call' > call /\ call' # 0 /\ call \in Nat
      BY <2>1, BoundsAssumption DEF Calls
    <2> QED BY <2>2 DEF StartsCall
  <1>3. Pipe' = Pipe /\ Len(shown') = 0
    BY <1>1, <1>2 DEF Pipe
  <1>4. \A c \in Calls : (c > call => Unsent(c)) /\ (Unsent(c)' <=> Unsent(c))
    BY <1>1, <1>3 DEF SentInTurn, Unsent, Over
  <1>5. Unsent(call')
    BY <1>2, <1>4
  <1>6. SentInTurn'
    <2>1. ASSUME NEW c \in Calls, c > call' \/ c = call' PROVE c > call
      BY <1>2, <2>1, Facts
    <2> QED BY <1>4, <2>1 DEF SentInTurn
  <1>7. /\ NothingBeforeLink' /\ ConnectsOnce' /\ HookIsBusy' /\ CallIsNumbered'
        /\ EachIsSentOnce' /\ ReplyIsOwn'
    BY <1>1, <1>2 DEF NothingBeforeLink, ConnectsOnce, HookIsBusy, CallIsNumbered,
       EachIsSentOnce,
       ReplyIsOwn
  <1>8. ShownIsOutput' /\ AllWasShown'
    BY <1>1, <1>2, <1>3, Facts DEF ShownIsOutput, AllWasShown
  <1>9. PipeIsInOrder'
    BY <1>3, <1>5 DEF PipeIsInOrder, Unsent
  <1>10. NothingIsLost'
    BY <1>1, <1>2, <1>3, <1>5 DEF NothingIsLost, Unsent
  <1> QED BY <1>6, <1>7, <1>8, <1>9, <1>10

\* What is thrown away is not of this call, which has sent nothing yet.
LEMMA FlushesStep == ASSUME IInv, TypeOK', Flushes PROVE IInv'
  <1> USE DEF IInv
  <1>1. UNCHANGED <<call, shown, answer, reply, tries, dialing, linked, hand, hooked, iopubWire,
                    inbox, made, running>>
    BY Zenon DEF Flushes, connVars, socketVars, wires, kernelVars
  <1>2. /\ pc = "flush" /\ pc' = "send" /\ iopubQ' = <<>> /\ call # 0 /\ answer = "none"
        /\ call \in Calls
    BY Facts DEF Flushes, CallIsNumbered, InCall
  <1>3. \A i \in 1..Len(Pipe') : \E j \in 1..Len(Pipe) : Pipe'[i] = Pipe[j]
    <2>1. iopubQ \in Seq(IopubMsg) /\ iopubWire \in Seq(IopubMsg)
      BY DEF TypeOK
    <2>2. /\ Len(iopubQ) \in Nat /\ Len(iopubWire) \in Nat /\ Pipe' = iopubWire
          /\ Len(Pipe) = Len(iopubQ) + Len(iopubWire)
          /\ \A i \in 1..Len(iopubWire) : Pipe[Len(iopubQ) + i] = iopubWire[i]
      BY <1>1, <1>2, <2>1 DEF Pipe
    <2>3. \A i \in 1..Len(iopubWire) : Len(iopubQ) + i \in 1..Len(Pipe)
      BY <2>2
    <2> QED BY <2>2, <2>3
  <1>4. \A c \in Calls : Unsent(c) => Unsent(c)'
    BY <1>1, <1>3 DEF Unsent, Over
  <1>5. SentInTurn' /\ Unsent(call)
    BY <1>1, <1>2, <1>4 DEF SentInTurn
  <1>6. /\ NothingBeforeLink' /\ ConnectsOnce' /\ HookIsBusy' /\ CallIsNumbered'
        /\ EachIsSentOnce' /\ ReplyIsOwn'
    BY <1>1, <1>2 DEF NothingBeforeLink, ConnectsOnce, HookIsBusy, CallIsNumbered,
       EachIsSentOnce,
       ReplyIsOwn
  <1>7. ShownIsOutput' /\ AllWasShown'
    BY <1>1, <1>2 DEF ShownIsOutput, AllWasShown, Msg
  <1>8. PipeIsInOrder'
    BY <1>1, <1>3, <1>5 DEF PipeIsInOrder, Unsent
  <1>9. NothingIsLost'
    <2>1. made'[call] = 0 /\ Len(shown') \in Nat
      BY <1>1, <1>5, Facts DEF Unsent
    <2> QED BY <1>1, <2>1 DEF NothingIsLost
  <1> QED BY <1>5, <1>6, <1>7, <1>8, <1>9

\* The request goes out once, behind those that wait.
LEMMA SendsStep == ASSUME IInv, TypeOK', Sends, linked PROVE IInv'
  <1> USE DEF IInv
  <1>1. UNCHANGED <<call, shown, answer, reply, tries, dialing, linked, hand, hooked, iopubQ,
                    iopubWire, made, running>>
    BY Zenon DEF Sends, connVars, socketVars, queues, wires
  <1>2. /\ pc = "send" /\ pc' = "check" /\ inbox' = Append(inbox, call) /\ call # 0
        /\ answer = "none"
        /\ call \in Calls
    BY Facts DEF Sends, Send, CallIsNumbered, InCall
  <1>3. Pipe' = Pipe
    BY <1>1 DEF Pipe
  <1>4. /\ Len(inbox) \in Nat /\ Len(inbox') = Len(inbox) + 1 /\ inbox'[Len(inbox) + 1] = call
        /\ \A i \in 1..Len(inbox) : inbox'[i] = inbox[i]
    <2>1. inbox \in Seq(Calls)
      BY DEF TypeOK
    <2> QED BY <1>2, <2>1, Lengths
  <1>5. Unsent(call) /\ \A c \in Calls : c > call => Unsent(c)
    BY <1>2 DEF SentInTurn
  <1>6. \A c \in Calls : c # call => (Over(c) <=> Over(c)')
    BY <1>1, <1>4 DEF Over
  <1>7. SentInTurn'
    BY <1>1, <1>2, <1>3, <1>5, <1>6, Facts DEF SentInTurn, Unsent
  <1>8. EachIsSentOnce'
    BY <1>1, <1>4, <1>5 DEF EachIsSentOnce, Unsent, Over
  <1>9. NothingBeforeLink' /\ ConnectsOnce' /\ HookIsBusy' /\ CallIsNumbered' /\ ReplyIsOwn'
    BY <1>1, <1>2 DEF NothingBeforeLink, ConnectsOnce, HookIsBusy, CallIsNumbered, ReplyIsOwn
  <1>10. ShownIsOutput' /\ AllWasShown'
    BY <1>1, <1>2 DEF ShownIsOutput, AllWasShown, Msg
  <1>11. PipeIsInOrder'
    BY <1>1, <1>3, <1>5 DEF PipeIsInOrder, Unsent
  <1>12. NothingIsLost'
    BY <1>1, <1>3 DEF NothingIsLost, InPipe, Msg
  <1> QED BY <1>7, <1>8, <1>9, <1>10, <1>11, <1>12

\* The connection opens before anything was sent.
LEMMA OpensStep == ASSUME IInv, TypeOK', Opens PROVE IInv'
  <1> USE DEF IInv
  <1>1. UNCHANGED <<call, pc, shown, answer, reply, tries, hand, hooked, iopubQ, iopubWire,
                    inbox, made, running>>
    BY Zenon DEF Opens, callerVars, socketVars, queues, wires, kernelVars
  <1>2. /\ dialing /\ dialing' = FALSE /\ pc \notin {"lookup", "start", "dial"}
        /\ \A c \in Calls : made[c] = 0
    BY DEF Opens, ConnectsOnce, NothingBeforeLink
  <1>3. Pipe' = Pipe
    BY <1>1 DEF Pipe
  <1>4. \A c : (Over(c)' <=> Over(c)) /\ (Unsent(c)' <=> Unsent(c))
    BY <1>1, <1>3 DEF Over, Unsent
  <1>5. /\ NothingBeforeLink' /\ ConnectsOnce' /\ HookIsBusy' /\ CallIsNumbered'
        /\ EachIsSentOnce' /\ ReplyIsOwn'
    BY <1>1, <1>2 DEF NothingBeforeLink, ConnectsOnce, HookIsBusy, CallIsNumbered,
       EachIsSentOnce,
       ReplyIsOwn
  <1>6. SentInTurn' /\ ShownIsOutput' /\ AllWasShown'
    BY <1>1, <1>4 DEF SentInTurn, ShownIsOutput, AllWasShown, Msg
  <1>7. PipeIsInOrder'
    <2>1. \A k, n : InPipe(k, n)' <=> InPipe(k, n)
      BY <1>1, <1>3 DEF InPipe
    <2> QED BY <1>1, <1>3, <1>4, <2>1 DEF PipeIsInOrder, Sorted, Continues, Completes
  <1>8. NothingIsLost'
    BY <1>1, <1>2, Facts DEF NothingIsLost
  <1> QED BY <1>5, <1>6, <1>7, <1>8

\* The connection closes: what was received stays.
LEMMA ClosesStep == ASSUME IInv, TypeOK', Closes PROVE IInv'
  <1> USE DEF IInv
  <1>1. UNCHANGED <<call, pc, shown, answer, reply, tries, dialing, hand, hooked, iopubQ, inbox,
                    made, running>>
    BY Zenon DEF Closes, callerVars, connVars, socketVars, queues, kernelVars
  <1>2. linked /\ linked' = FALSE /\ iopubWire' = <<>>
    BY DEF Closes
  <1>3. /\ Len(Pipe') \in Nat /\ Len(Pipe) \in Nat /\ Len(Pipe') <= Len(Pipe)
        /\ \A i \in 1..Len(Pipe') : Pipe'[i] = Pipe[i] /\ i \in 1..Len(Pipe)
    <2>1. iopubQ \in Seq(IopubMsg) /\ iopubWire \in Seq(IopubMsg)
      BY DEF TypeOK
    <2>2. Pipe' = iopubQ /\ Len(iopubQ) \in Nat /\ Len(iopubWire) \in Nat
      BY <1>1, <1>2, <2>1 DEF Pipe
    <2>3. /\ Len(Pipe) = Len(iopubQ) + Len(iopubWire)
          /\ \A i \in 1..Len(iopubQ) : Pipe[i] = iopubQ[i]
      BY <2>1 DEF Pipe
    <2> QED BY <2>2, <2>3
  <1>4. \A c : (Over(c)' <=> Over(c)) /\ (Unsent(c) => Unsent(c)')
    BY <1>1, <1>3 DEF Over, Unsent
  <1>5. /\ NothingBeforeLink' /\ ConnectsOnce' /\ HookIsBusy' /\ CallIsNumbered'
        /\ EachIsSentOnce' /\ ReplyIsOwn'
    BY <1>1, <1>2 DEF NothingBeforeLink, ConnectsOnce, HookIsBusy, CallIsNumbered,
       EachIsSentOnce,
       ReplyIsOwn
  <1>6. SentInTurn' /\ ShownIsOutput' /\ AllWasShown' /\ NothingIsLost'
    BY <1>1, <1>2, <1>4 DEF SentInTurn, ShownIsOutput, AllWasShown, NothingIsLost, Msg
  <1>7. PipeIsInOrder'
    <2>1. SUFFICES ASSUME call # 0, NEW i \in 1..Len(Pipe'), Pipe'[i].of = call
                   PROVE  Sorted(i)' /\ Continues(i)' /\ Completes(i)'
      BY <1>1 DEF PipeIsInOrder
    <2>2. Sorted(i) /\ Continues(i) /\ Completes(i) /\ Pipe'[i] = Pipe[i]
      BY <1>3, <2>1 DEF PipeIsInOrder
    <2>3. \A k : InPipe(k, i - 1)' <=> InPipe(k, i - 1)
      <3>1. \A n \in 1..(i - 1) : Pipe'[n] = Pipe[n]
        BY <1>3, <2>1
      <3> QED BY <1>1, <3>1 DEF InPipe, Msg
    <2>4. Sorted(i)'
      BY <1>1, <1>3, <2>2 DEF Sorted
    <2>5. Continues(i)' /\ Completes(i)'
      BY <1>1, <1>4, <2>2, <2>3 DEF Continues, Completes
    <2> QED BY <2>4, <2>5
  <1> QED BY <1>5, <1>6, <1>7

\* A message of another call, or of nobody's, is stepped over.
LEMMA StepsOver ==
  ASSUME IInv, TypeOK', TakesOutput, Head(iopubQ).of # call
  PROVE  IInv'
  <1> USE DEF IInv
  <1>1. UNCHANGED <<call, shown, answer, reply, tries, dialing, linked, hand, hooked, iopubWire,
                    inbox, made, running>>
        /\ pc = "take" /\ pc' = "check"
    BY DEF TakesOutput, connVars, socketVars, wires, kernelVars
  <1>2. Pipe' = Tail(Pipe) /\ Pipe # <<>> /\ Head(iopubQ) = Pipe[1]
    BY PipeMoves DEF TakesOutput, wires, Pipe
  <1>3. /\ Len(Pipe) \in Nat /\ Len(Pipe) > 0 /\ Len(Pipe') = Len(Pipe) - 1
        /\ \A i \in 1..Len(Pipe') : Pipe'[i] = Pipe[i + 1]
        /\ \A k \in Nat : \A n \in 0..Len(Pipe) : InPipe(k, n) /\ Pipe[1] # Msg(call, k) => InPipe(k, n - 1)'
    BY <1>1, <1>2, Shrinks
  <1>4. \A k : Pipe[1] # Msg(call, k)
    BY <1>2 DEF Msg
  <1>5. \A c : (Over(c)' <=> Over(c)) /\ (Unsent(c) => Unsent(c)')
    BY <1>1, <1>3 DEF Over, Unsent
  <1>6. /\ NothingBeforeLink' /\ ConnectsOnce' /\ HookIsBusy' /\ CallIsNumbered'
        /\ EachIsSentOnce' /\ ReplyIsOwn'
    BY <1>1 DEF NothingBeforeLink, ConnectsOnce, HookIsBusy, CallIsNumbered, EachIsSentOnce,
       ReplyIsOwn, InCall
  <1>7. SentInTurn' /\ ShownIsOutput' /\ AllWasShown'
    BY <1>1, <1>5 DEF SentInTurn, ShownIsOutput, AllWasShown, Msg
  <1>8. PipeIsInOrder'
    <2>1. SUFFICES ASSUME call # 0, NEW i \in 1..Len(Pipe'), Pipe'[i].of = call
                   PROVE  Sorted(i)' /\ Continues(i)' /\ Completes(i)'
      BY <1>1 DEF PipeIsInOrder
    <2>2. /\ i + 1 \in 1..Len(Pipe) /\ Pipe'[i] = Pipe[i + 1] /\ i \in 0..Len(Pipe)
          /\ i + 1 - 1 = i
          /\ Sorted(i + 1) /\ Continues(i + 1) /\ Completes(i + 1)
      BY <1>3, <2>1 DEF PipeIsInOrder
    <2>3. \A k \in Nat : InPipe(k, i) => InPipe(k, i - 1)'
      BY <1>3, <1>4, <2>2
    <2>a. call' = call
      BY <1>1
    <2>4. Sorted(i)'
      <3>1. ASSUME NEW j \in (i+1)..Len(Pipe'), Pipe'[j].of = call
            PROVE  Pipe'[i].text # Idle /\ (Pipe'[j].text # Idle => Pipe'[i].text < Pipe'[j].text)
        <4>1. j + 1 \in (i+1+1)..Len(Pipe) /\ Pipe'[j] = Pipe[j + 1]
          BY <1>3, <2>2, <3>1
        <4> QED BY <2>2, <3>1, <4>1 DEF Sorted
      <3> QED BY <2>a, <3>1 DEF Sorted
    <2>5. Len(shown) \in Nat
      BY Facts
    <2>6. Continues(i)'
      BY <1>1, <2>2, <2>3, <2>5 DEF Continues
    <2>7. Completes(i)'
      BY <1>1, <1>5, <2>2, <2>3, <2>5 DEF Completes
    <2> QED BY <2>4, <2>6, <2>7
  <1>9. NothingIsLost'
    BY <1>1, <1>3, <1>4, Facts DEF NothingIsLost
  <1> QED BY <1>6, <1>7, <1>8, <1>9

\* The idle status of the call comes after all of its output.
LEMMA EndsLoop ==
  ASSUME IInv, TypeOK', TakesOutput, Head(iopubQ).of = call, Head(iopubQ).text = Idle
  PROVE  IInv'
  <1> USE DEF IInv
  <1>1. UNCHANGED <<call, shown, answer, reply, tries, dialing, linked, hand, hooked, iopubWire,
                    inbox, made, running>>
        /\ pc = "take" /\ pc' = "reply"
    BY DEF TakesOutput, connVars, socketVars, wires, kernelVars
  <1>2. Pipe' = Tail(Pipe) /\ Pipe # <<>> /\ Head(iopubQ) = Pipe[1]
    BY PipeMoves DEF TakesOutput, wires, Pipe
  <1>3. /\ Len(Pipe) \in Nat /\ Len(Pipe) > 0 /\ Len(Pipe') = Len(Pipe) - 1
        /\ \A i \in 1..Len(Pipe') : Pipe'[i] = Pipe[i + 1]
    BY <1>1, <1>2, Shrinks
  <1>4. \A c : (Over(c)' <=> Over(c)) /\ (Unsent(c) => Unsent(c)')
    BY <1>1, <1>3 DEF Over, Unsent
  <1>5. call # 0 /\ answer = "none" /\ call \in Calls /\ made[call] \in Nat /\ Len(shown) \in Nat
        /\ Len(shown) <= made[call]
    BY <1>1, Facts DEF CallIsNumbered, InCall, ShownIsOutput
  <1>6. 1 \in 1..Len(Pipe) /\ Pipe[1].text = Idle /\ Sorted(1) /\ Completes(1)
    BY <1>2, <1>3, <1>5 DEF PipeIsInOrder
  <1>7. Over(call) /\ \A k \in (Len(shown)+1)..made[call] : InPipe(k, 0)
    BY <1>6 DEF Completes
  <1>8. \A k : ~InPipe(k, 0)
    BY DEF InPipe
  <1>9. Len(shown) = made[call]
    BY <1>5, <1>7, <1>8
  <1>10. \A i \in 1..Len(Pipe') : Pipe'[i].of # call
    BY <1>3, <1>6 DEF Sorted
  <1>11. /\ NothingBeforeLink' /\ ConnectsOnce' /\ HookIsBusy' /\ CallIsNumbered'
         /\ EachIsSentOnce' /\ ReplyIsOwn'
    BY <1>1, <1>5 DEF NothingBeforeLink, ConnectsOnce, HookIsBusy, CallIsNumbered,
       EachIsSentOnce, ReplyIsOwn, InCall
  <1>12. SentInTurn' /\ ShownIsOutput' /\ AllWasShown'
    BY <1>1, <1>4, <1>7, <1>9 DEF SentInTurn, ShownIsOutput, AllWasShown, Msg
  <1>13. PipeIsInOrder'
    BY <1>1, <1>10 DEF PipeIsInOrder
  <1>14. NothingIsLost'
    BY <1>1, <1>5, <1>9 DEF NothingIsLost
  <1> QED BY <1>11, <1>12, <1>13, <1>14

\* The piece of output that comes first is the next one.
LEMMA ShowsNext ==
  ASSUME IInv, TypeOK', TakesOutput, Head(iopubQ).of = call, Head(iopubQ).text # Idle
  PROVE  IInv'
  <1> USE DEF IInv
  <1>1. UNCHANGED <<call, answer, reply, tries, dialing, linked, hand, hooked, iopubWire, inbox,
                    made, running>>
        /\ pc = "take" /\ pc' = "check" /\ shown' = Append(shown, Head(iopubQ))
    BY DEF TakesOutput, connVars, socketVars, wires, kernelVars
  <1>2. Pipe' = Tail(Pipe) /\ Pipe # <<>> /\ Head(iopubQ) = Pipe[1]
    BY PipeMoves DEF TakesOutput, wires, Pipe
  <1>3. /\ Len(Pipe) \in Nat /\ Len(Pipe) > 0 /\ Len(Pipe') = Len(Pipe) - 1
        /\ \A i \in 1..Len(Pipe') : Pipe'[i] = Pipe[i + 1]
        /\ \A k \in Nat : \A n \in 0..Len(Pipe) : InPipe(k, n) /\ Pipe[1] # Msg(call, k) => InPipe(k, n - 1)'
    BY <1>1, <1>2, Shrinks
  <1>4. \A c : (Over(c)' <=> Over(c)) /\ (Unsent(c) => Unsent(c)')
    BY <1>1, <1>3 DEF Over, Unsent
  <1>5. call # 0 /\ answer = "none" /\ call \in Calls /\ made[call] \in Nat /\ Len(shown) \in Nat
        /\ Len(shown) <= made[call]
    BY <1>1, Facts DEF CallIsNumbered, InCall, ShownIsOutput
  <1>6. /\ 1 \in 1..Len(Pipe) /\ Pipe[1].text # Idle /\ Pipe[1].text \in Nat /\ Sorted(1)
        /\ Continues(1)
        /\ Pipe[1] = Msg(call, Pipe[1].text)
    BY <1>2, <1>3, <1>5, Facts DEF PipeIsInOrder
  <1>7. /\ Pipe[1].text > Len(shown) /\ Pipe[1].text <= made[call]
        /\ \A k \in (Len(shown)+1)..(Pipe[1].text - 1) : InPipe(k, 0)
    BY <1>6 DEF Continues
  <1>8. \A k : ~InPipe(k, 0)
    BY DEF InPipe
  <1>9. Pipe[1].text = Len(shown) + 1
    BY <1>5, <1>6, <1>7, <1>8
  <1>10. /\ Len(shown') = Len(shown) + 1 /\ shown'[Len(shown) + 1] = Msg(call, Len(shown) + 1)
         /\ \A i \in 1..Len(shown) : shown'[i] = shown[i]
    <2>1. shown \in Seq(IopubMsg) /\ iopubQ \in Seq(IopubMsg) /\ iopubQ # <<>>
      BY DEF TypeOK, TakesOutput
    <2>2. Head(iopubQ) \in IopubMsg
      BY <2>1
    <2>3. shown' = Append(shown, Head(iopubQ)) /\ Head(iopubQ) = Msg(call, Len(shown) + 1)
      BY <1>1, <1>2, <1>6, <1>9
    <2> QED BY <2>1, <2>2, <2>3, Lengths
  <1>11. \A k : k # Len(shown) + 1 => Pipe[1] # Msg(call, k)
    BY <1>9 DEF Msg
  <1>12. /\ NothingBeforeLink' /\ ConnectsOnce' /\ HookIsBusy' /\ CallIsNumbered'
         /\ EachIsSentOnce' /\ ReplyIsOwn'
    BY <1>1, <1>5 DEF NothingBeforeLink, ConnectsOnce, HookIsBusy, CallIsNumbered,
       EachIsSentOnce, ReplyIsOwn, InCall
  <1>13. SentInTurn' /\ AllWasShown'
    BY <1>1, <1>4, <1>5 DEF SentInTurn, AllWasShown
  <1>14. ShownIsOutput'
    <2>1. \A i \in 1..Len(shown') : shown'[i] = Msg(call, i)
      BY <1>5, <1>10 DEF ShownIsOutput
    <2> QED BY <1>1, <1>5, <1>7, <1>9, <1>10, <2>1 DEF ShownIsOutput, Msg
  <1>15. PipeIsInOrder'
    <2>1. SUFFICES ASSUME NEW i \in 1..Len(Pipe'), Pipe'[i].of = call
                   PROVE  Sorted(i)' /\ Continues(i)' /\ Completes(i)'
      BY <1>1 DEF PipeIsInOrder
    <2>2. /\ i + 1 \in 1..Len(Pipe) /\ Pipe'[i] = Pipe[i + 1] /\ i \in 0..Len(Pipe)
          /\ i + 1 - 1 = i
          /\ Sorted(i + 1) /\ Continues(i + 1) /\ Completes(i + 1) /\ Pipe[i + 1].text \in Nat
      BY <1>3, <1>5, <2>1, Facts DEF PipeIsInOrder
    <2>3. \A k \in Nat : k # Len(shown) + 1 /\ InPipe(k, i) => InPipe(k, i - 1)'
      BY <1>3, <1>11, <2>2
    <2>a. call' = call /\ made' = made
      BY <1>1
    <2>4. Sorted(i)'
      <3>1. ASSUME NEW j \in (i+1)..Len(Pipe'), Pipe'[j].of = call
            PROVE  Pipe'[i].text # Idle /\ (Pipe'[j].text # Idle => Pipe'[i].text < Pipe'[j].text)
        <4>1. j + 1 \in (i+2)..Len(Pipe) /\ Pipe'[j] = Pipe[j + 1]
          BY <1>3, <2>2, <3>1
        <4>2. j + 1 \in (i+1+1)..Len(Pipe)
          BY <2>2, <4>1
        <4> QED BY <2>2, <3>1, <4>1, <4>2 DEF Sorted
      <3> QED BY <2>a, <3>1 DEF Sorted
    <2>5. Pipe[i + 1].text # Idle => Pipe[i + 1].text > Len(shown) + 1
      BY <1>6, <1>9, <2>1, <2>2 DEF Sorted
    <2>6. Continues(i)'
      <3>1. SUFFICES ASSUME Pipe[i + 1].text # Idle
                     PROVE  Continues(i)'
        BY <2>2 DEF Continues
      <3>2. Pipe[i + 1].text > Len(shown) + 1 /\ Pipe[i + 1].text <= made[call]
        BY <2>2, <2>5, <3>1 DEF Continues
      <3>3. \A k \in (Len(shown)+2)..(Pipe[i + 1].text - 1) : InPipe(k, i - 1)'
        <4>1. SUFFICES ASSUME NEW k \in (Len(shown)+2)..(Pipe[i + 1].text - 1)
                       PROVE  InPipe(k, i - 1)'
          OBVIOUS
        <4>2. /\ k \in (Len(shown)+1)..(Pipe[i + 1].text - 1)
              /\ k \in Nat /\ k # Len(shown) + 1
          BY <1>5, <2>2, <4>1
        <4>3. InPipe(k, i)
          BY <2>2, <3>1, <4>2 DEF Continues
        <4> QED BY <2>3, <4>2, <4>3
      <3>4. (Len(shown')+1)..(Pipe'[i].text - 1) = (Len(shown)+2)..(Pipe[i + 1].text - 1)
        BY <1>5, <1>10, <2>2
      <3> QED BY <1>5, <1>10, <2>a, <2>2, <3>2, <3>3, <3>4 DEF Continues
    <2>7. Completes(i)'
      BY <1>1, <1>4, <1>5, <1>10, <2>2, <2>3 DEF Completes
    <2> QED BY <2>4, <2>6, <2>7
  <1>16. NothingIsLost'
    BY <1>1, <1>3, <1>5, <1>10, <1>11 DEF NothingIsLost
  <1> QED BY <1>12, <1>13, <1>14, <1>15, <1>16

\* The kernel begins with the request that has waited longest.
LEMMA BeginsRequestStep == ASSUME IInv, TypeOK', BeginsRequest PROVE IInv'
  <1> USE DEF IInv, Nobody
  <1>1. UNCHANGED <<call, pc, shown, answer, reply, tries, dialing, linked, hand, hooked, iopubQ,
                    iopubWire, made>>
    BY Zenon DEF BeginsRequest, callerVars, connVars, socketVars, queues, wires
  <1>2. /\ running = 0 /\ Len(inbox) \in Nat /\ Len(inbox) > 0 /\ Len(inbox') = Len(inbox) - 1
        /\ running' = inbox[1] /\ \A i \in 1..Len(inbox') : inbox'[i] = inbox[i + 1]
    <2>1. /\ inbox \in Seq(Calls) /\ inbox # <<>> /\ inbox' = Tail(inbox)
          /\ running' = Head(inbox) /\ running = 0
      BY DEF BeginsRequest, TypeOK
    <2> QED BY <2>1, Lengths
  <1>3. Pipe' = Pipe
    BY <1>1 DEF Pipe
  <1>4. ASSUME NEW c \in Calls PROVE Over(c)' <=> Over(c)
    <2>1. c # 0
      BY Facts
    <2>2. Over(c) => Over(c)'
      BY <1>2 DEF Over
    <2>3. Over(c)' => Over(c)
      <3>1. ASSUME Over(c)', NEW i \in 1..Len(inbox) PROVE inbox[i] # c
        <4>1. CASE i = 1
          BY <1>2, <3>1, <4>1 DEF Over
        <4>2. CASE i # 1
          <5>1. i - 1 \in 1..Len(inbox') /\ inbox'[i - 1] = inbox[i]
            BY <1>2, <4>2
          <5> QED BY <3>1, <5>1 DEF Over
        <4> QED BY <4>1, <4>2
      <3> QED BY <1>2, <2>1, <3>1 DEF Over
    <2> QED BY <2>2, <2>3
  <1>5. EachIsSentOnce'
    BY <1>2 DEF EachIsSentOnce
  <1>6. ~(pc \in {"lookup", "start", "dial"} \/ dialing)
    <2>1. inbox # <<>>
      BY DEF BeginsRequest
    <2> QED BY <2>1 DEF NothingBeforeLink
  <1>7. NothingBeforeLink' /\ ConnectsOnce' /\ HookIsBusy' /\ CallIsNumbered' /\ ReplyIsOwn'
    BY <1>1, <1>6 DEF NothingBeforeLink, ConnectsOnce, HookIsBusy, CallIsNumbered, ReplyIsOwn
  <1>8. SentInTurn'
    BY <1>1, <1>3, <1>4 DEF SentInTurn, Unsent
  <1>9. ShownIsOutput' /\ AllWasShown'
    BY <1>1, <1>4, Facts DEF ShownIsOutput, AllWasShown, ReplyIsOwn, CallIsNumbered, InCall, Msg
  <1>10. PipeIsInOrder' /\ NothingIsLost'
    <2>1. \A k, n : InPipe(k, n)' <=> InPipe(k, n)
      BY <1>1, <1>3 DEF InPipe
    <2> QED BY <1>1, <1>3, <1>4, <2>1, Facts
       DEF PipeIsInOrder, NothingIsLost, Sorted, Continues, Completes
  <1> QED BY <1>5, <1>7, <1>8, <1>9, <1>10

\* A restarted kernel has nothing more to do for anybody.
LEMMA RestartsStep == ASSUME IInv, TypeOK', Restarts PROVE IInv'
  <1> USE DEF IInv, Nobody
  <1>1. UNCHANGED <<call, pc, shown, answer, reply, tries, dialing, linked, hand, hooked, iopubQ,
                    iopubWire, made>>
    BY Zenon DEF Restarts, callerVars, connVars, socketVars, queues, wires
  <1>2. inbox' = <<>> /\ running' = 0
    BY DEF Restarts
  <1>3. Pipe' = Pipe
    BY <1>1 DEF Pipe
  <1>4. \A c \in Calls : Over(c)'
    BY <1>2, Facts DEF Over
  <1>5. /\ NothingBeforeLink' /\ ConnectsOnce' /\ HookIsBusy' /\ CallIsNumbered'
        /\ EachIsSentOnce' /\ ReplyIsOwn'
    BY <1>1, <1>2 DEF NothingBeforeLink, ConnectsOnce, HookIsBusy, CallIsNumbered,
       EachIsSentOnce, ReplyIsOwn
  <1>6. SentInTurn'
    BY <1>1, <1>3, <1>4 DEF SentInTurn, Unsent
  <1>7. ShownIsOutput' /\ AllWasShown'
    BY <1>1, <1>4, Facts DEF ShownIsOutput, AllWasShown, ReplyIsOwn, CallIsNumbered, InCall, Msg
  <1>8. PipeIsInOrder' /\ NothingIsLost'
    <2>1. \A k, n : InPipe(k, n)' <=> InPipe(k, n)
      BY <1>1, <1>3 DEF InPipe
    <2> QED BY <1>1, <1>3, <1>4, <2>1, Facts
       DEF PipeIsInOrder, NothingIsLost, Sorted, Continues, Completes
  <1> QED BY <1>5, <1>6, <1>7, <1>8

-----------------------------------------------------------------------------

\* A command that has not looked for its kernel yet satisfies the invariant.
LEMMA InitIInv == Init => IInv
  <1> SUFFICES ASSUME Init PROVE IInv
    OBVIOUS
  <1>1. /\ iopubQ = <<>> /\ iopubWire = <<>> /\ inbox = <<>> /\ running = 0 /\ call = 0
        /\ shown = <<>>
        /\ made = [c \in Calls |-> 0] /\ pc = "lookup" /\ dialing = FALSE /\ linked = FALSE
        /\ tries = 0 /\ hand = "free" /\ answer = "none"
    BY DEF Init, Nobody
  <1>2. TypeOK
    <2>1. MaxCalls \in Nat /\ MaxChunks \in Nat /\ MaxForeign \in Nat
      BY BoundsAssumption
    <2>2. 0 \in 0..MaxCalls /\ 0 \in 0..MaxForeign /\ 0 \in 0..3
      BY <2>1
    <2>3. /\ names \in {"none", "kernel", "lost kernel"} /\ hand \in {"free", "set", "hook"}
          /\ pc \in Where
          /\ answer \in {"none", "reply", "lost", "timeout", "interrupted"}
      BY DEF Init, Where
    <2>4. late \in BOOLEAN /\ event \in BOOLEAN /\ linked \in BOOLEAN /\ dialing \in BOOLEAN
      BY Zenon DEF Init
    <2>5. <<>> \in Seq(IopubMsg) /\ <<>> \in Seq(Calls)
      OBVIOUS
    <2>6. /\ reply = 0 /\ hooked = 0 /\ foreign = 0 /\ finished = {} /\ shellQ = <<>>
          /\ stdinQ = <<>>
          /\ shellWire = <<>> /\ stdinWire = <<>>
      BY DEF Init, Nobody
    <2>7. replied \in BOOLEAN /\ asking \in BOOLEAN
      BY Zenon DEF Init
    <2>8. made \in [Calls -> 0..MaxChunks]
      BY <1>1, <2>1
    <2>9. finished \subseteq Calls
      BY <2>6
    <2> QED BY <1>1, <2>2, <2>3, <2>4, <2>5, <2>6, <2>7, <2>8, <2>9, Zenon DEF TypeOK
  <1>3. Pipe = <<>> /\ Len(Pipe) = 0 /\ Len(inbox) = 0
    BY <1>1 DEF Pipe
  <1>4. \A c \in Calls : Unsent(c)
    BY <1>1, <1>2, <1>3, Facts DEF Unsent, Over
  <1>5. SentInTurn /\ EachIsSentOnce /\ ShownIsOutput /\ PipeIsInOrder /\ NothingIsLost
    BY <1>1, <1>3, <1>4 DEF SentInTurn, EachIsSentOnce, ShownIsOutput, PipeIsInOrder,
       NothingIsLost
  <1>6. /\ NothingBeforeLink /\ ConnectsOnce /\ HookIsBusy /\ CallIsNumbered /\ AllWasShown
        /\ ReplyIsOwn
    BY <1>1 DEF NothingBeforeLink, ConnectsOnce, HookIsBusy, CallIsNumbered, AllWasShown,
       ReplyIsOwn,
       InCall, Nobody
  <1> QED BY <1>2, <1>5, <1>6 DEF IInv

\* Every step of the caller, the socket thread, the kernel and the network
\* preserves the invariant.
LEMMA Step == IInv /\ [Next]_vars => IInv'
  <1> SUFFICES ASSUME IInv, [Next]_vars PROVE IInv'
    OBVIOUS
  <1>1. CASE UNCHANGED vars
    <2> USE <1>1 DEF vars, callerVars, connVars, socketVars, queues, wires, kernelVars
    <2>1. TypeOK'
      <3>1. /\ UNCHANGED <<call, pc, late, shown, answer, reply>> /\ UNCHANGED <<names, tries, dialing>>
            /\ UNCHANGED <<event, linked, hand, hooked>> /\ UNCHANGED <<iopubQ, shellQ, stdinQ>>
            /\ UNCHANGED <<iopubWire, shellWire, stdinWire>>
            /\ UNCHANGED <<inbox, running, replied, asking, made, finished, foreign>>
        OBVIOUS
      <3>2. TypeOK
        BY DEF IInv
      <3>3. /\ late' \in BOOLEAN /\ event' \in BOOLEAN /\ linked' \in BOOLEAN
            /\ dialing' \in BOOLEAN /\ replied' \in BOOLEAN /\ asking' \in BOOLEAN
        BY <3>1, <3>2, Zenon DEF TypeOK
      <3> HIDE <1>1 DEF vars, callerVars, connVars, socketVars, queues, wires, kernelVars
      <3> QED BY <3>1, <3>2, <3>3 DEF TypeOK
    <2>2. Pipe' = Pipe
      BY DEF Pipe
    <2> QED BY <2>1, <2>2, Keeping DEF IInv, ConnectsOnce, HookIsBusy
  <1>2. CASE Next
    <2>1. TypeOK'
      BY <1>2, TypeStep
    <2>2. TakesOutput => IInv'
      BY <2>1, StepsOver, EndsLoop, ShowsNext
    <2>3. Sends => IInv'
      BY <2>1, SendsStep, QuietSteps
    <2>4. StartsCall \/ Flushes \/ Opens \/ Closes => IInv'
      BY <2>1, StartsCallStep, FlushesStep, OpensStep, ClosesStep
    <2>5. BeginsRequest \/ Prints \/ GoesIdle \/ OthersOutput \/ Restarts => IInv'
      BY <2>1, BeginsRequestStep, PrintsStep, GoesIdleStep, OthersOutputStep, RestartsStep
    <2>6. \/ LooksUp \/ StartsKernel \/ TimesOut \/ ConnectFails \/ Dials \/ Awaits \/ RecordsKernel
          \/ Checks \/ Waits \/ TakesInput \/ FindsNothing \/ Rechecks \/ Clears
          \/ SkipsReply \/ TakesReply \/ MissesReply \/ DeadlinePasses \/ Interrupted
          \/ ReceivesOutput \/ ReceivesReply \/ SetsEvent \/ ReceivesRequest
          \/ HookAnswers \/ HookRefused \/ HookFails \/ Asks \/ Replies
          => IInv'
      BY <2>1, QuietSteps
    <2> QED BY <1>2, <2>2, <2>3, <2>4, <2>5, <2>6 DEF Next, Caller, Socket, KernelSide
  <1> QED BY <1>1, <1>2

\* The inductive invariant holds throughout.
LEMMA Invariance == Spec => []IInv
  BY InitIInv, Step, PTL DEF Spec

\* The caller, the queues, the wires and the kernel keep to their types
\* (execute_interactive, _on_message and _on_close of wsclient.py).
THEOREM TypeCorrect == Spec => []TypeOK
  <1>1. IInv => TypeOK
    BY DEF IInv
  <1> QED BY <1>1, Invariance, PTL

\* The output of a call, as a sequence.
LEMMA OutputIsSeq ==
  ASSUME IInv, call # 0
  PROVE  /\ made[call] \in Nat /\ Output(call) \in Seq(IopubMsg) /\ Len(Output(call)) = made[call]
         /\ \A i \in 1..made[call] : Output(call)[i] = Msg(call, i)
  <1>1. call \in Calls /\ made[call] \in 0..MaxChunks
    <2>1. made \in [Calls -> 0..MaxChunks] /\ call \in Calls
      BY Facts DEF IInv, TypeOK
    <2> QED BY <2>1
  <1>2. \A i \in 1..made[call] : [of |-> call, text |-> i] \in IopubMsg
    BY <1>1, BoundsAssumption DEF IopubMsg
  <1> QED BY <1>1, <1>2, BoundsAssumption DEF Output, Msg

\* The invariant is at least as strong as the property.
LEMMA ShownIsPrefix == IInv => ShowsOwnOutput
  <1> SUFFICES ASSUME IInv, call # 0 PROVE IsPrefix(shown, Output(call))
    BY DEF ShowsOwnOutput
  <1> DEFINE all == Output(call)
  <1>1. /\ Len(shown) \in Nat /\ Len(shown) <= made[call] /\ shown \in Seq(IopubMsg)
        /\ \A i \in 1..Len(shown) : shown[i] = Msg(call, i)
    BY Facts DEF IInv, ShownIsOutput, TypeOK
  <1>2. /\ made[call] \in Nat /\ all \in Seq(IopubMsg) /\ Len(all) = made[call]
        /\ \A i \in 1..made[call] : all[i] = Msg(call, i)
    BY OutputIsSeq
  <1> HIDE DEF all
  <1>3. Len(shown) <= Len(all) /\ SubSeq(shown, 1, Len(shown)) = SubSeq(all, 1, Len(shown))
    BY <1>1, <1>2
  <1>4. IsPrefix(shown, all)
    BY <1>3 DEF IsPrefix
  <1> QED BY <1>4 DEF all

\* What a call shows is its own output, from its beginning and in order,
\* whatever earlier calls and other clients left on the wire and in the queues
\* (_handle_iopub_message, the flush of execute_interactive).
THEOREM ShowsOwn == Spec => []ShowsOwnOutput
  BY ShownIsPrefix, Invariance, PTL

\* A call that returns a reply returns its own, after all of its output
\* (_recv_reply).
THEOREM AnswerWhole == Spec => []AnswerIsWhole
  <1>1. ASSUME IInv, answer = "reply" PROVE reply = call /\ shown = Output(call)
    <2>1. reply = call /\ call # 0 /\ Len(shown) = made[call]
      BY <1>1 DEF IInv, ReplyIsOwn, AllWasShown
    <2>2. shown \in Seq(IopubMsg) /\ \A i \in 1..Len(shown) : shown[i] = Msg(call, i)
      BY <1>1, <2>1 DEF IInv, TypeOK, ShownIsOutput
    <2>3. shown = Output(call)
      BY <1>1, <2>1, <2>2, OutputIsSeq, SeqEqual
    <2> QED BY <2>1, <2>3
  <1>2. IInv => AnswerIsWhole
    BY <1>1 DEF AnswerIsWhole
  <1> QED BY <1>2, Invariance, PTL

-----------------------------------------------------------------------------
(***************************************************************************)
(* Transport: session_lost is only said of a VM that is gone, a write that *)
(* answers ok has put its text there, a removed file is gone while the     *)
(* token is valid, and not_found is true but for the minute after a        *)
(* write's stamp.                                                          *)
(***************************************************************************)

\* The Booleans, and whether the VM is there; the rest needs no types.
Kinds ==
  /\ vm \in {"up", "gone"}
  /\ fresh \in BOOLEAN /\ recent \in BOOLEAN /\ renewed \in BOOLEAN
  /\ tried \in BOOLEAN /\ landed \in BOOLEAN

\* A listing without the endpoint is only remembered of a VM that is gone.
SeenIsTrue == seen = "no" => vm = "gone"

\* Only remove asks a second time, and a call under way has no answer yet.
UnderWay ==
  /\ at \in {"probe", "relist"} => op = "remove"
  /\ at # "idle" => returned = "none"

\* What a write under way finds on the VM as its own, it has put there.
MineLanded == op = "write" /\ at # "idle" /\ content = "mine" => landed

\* A token is fresh once this call has refreshed it, and within the minute
\* of a stamp that it is no older than.
TokenIsFresh ==
  /\ tried /\ ~Listing => fresh
  /\ recent /\ renewed => fresh

TransportInv ==
  /\ Kinds /\ SeenIsTrue /\ UnderWay /\ MineLanded /\ TokenIsFresh
  /\ LostIsTrue /\ WriteLands /\ RemoveIsTrueWhenFresh

-----------------------------------------------------------------------------

USE DEF vmVars, tokenVars, loopVars, Goes, Returns, TriesAgain, Lists

\* A new transport, that has asked nothing yet, satisfies the invariant.
LEMMA TransportInitially == TransportInit => TransportInv
  BY DEF TransportInit, TransportInv, Kinds, SeenIsTrue, UnderWay, MineLanded, TokenIsFresh,
     LostIsTrue, WriteLands, RemoveIsTrueWhenFresh, RemoveIsConfirmed, Listing

\* Every request, listing and event preserves the invariant.
LEMMA TransportStep == TransportInv /\ [TransportNext]_transportVars => TransportInv'
<1> SUFFICES ASSUME TransportInv, [TransportNext]_transportVars PROVE TransportInv'
  OBVIOUS
<1> USE DEF TransportInv, Kinds, SeenIsTrue, UnderWay, MineLanded, TokenIsFresh, Listing,
     LostIsTrue, WriteLands, RemoveIsTrueWhenFresh, RemoveIsConfirmed
<1>1. ASSUME NEW o \in Ops, Start(o) PROVE TransportInv'
  BY <1>1 DEF Start, Puts
<1>2. CASE ReadGets
  <2>1. op = "read" /\ at = "try" /\ UNCHANGED <<vm, content, tokenVars, op, landed>>
    BY <1>2 DEF ReadGets
  <2>2. /\ at' \in {"idle", "try", "classify"}
        /\ tried' = tried \/ (at' = "idle" /\ tried' = FALSE)
        /\ returned' = returned \/ (at' = "idle" /\ returned' \in {"ok", "degraded"})
    BY <1>2 DEF ReadGets
  <2>3. Kinds' /\ SeenIsTrue' /\ UnderWay' /\ LostIsTrue' /\ WriteLands'
    BY <2>1, <2>2
  <2>4. TokenIsFresh'
    BY <2>1, <2>2
  <2>5. MineLanded' /\ RemoveIsTrueWhenFresh'
    BY <2>1, <2>2
  <2> QED
    BY <2>3, <2>4, <2>5
<1>3. CASE ReadRefused
  BY <1>3 DEF ReadRefused
<1>4. CASE PutSent
  <2>1. at = "try" /\ op \in Puts /\ UNCHANGED <<vm, tokenVars, op>>
    BY <1>4 DEF PutSent
  <2>2. /\ at' \in {"idle", "try", "check", "classify"}
        /\ tried' = tried \/ (at' = "idle" /\ tried' = FALSE)
        /\ returned' = returned \/ (at' = "idle" /\ returned' = "ok" /\ content' = "mine")
    BY <1>4 DEF PutSent
  <2>3. landed' = (landed \/ content' = "mine")
    BY <1>4 DEF PutSent
  <2>4. Kinds' /\ SeenIsTrue' /\ UnderWay' /\ LostIsTrue' /\ RemoveIsTrueWhenFresh'
    BY <2>1, <2>2, <2>3 DEF Puts
  <2>5. TokenIsFresh'
    BY <2>1, <2>2
  <2>6. MineLanded' /\ WriteLands'
    BY <2>1, <2>2, <2>3
  <2> QED
    BY <2>4, <2>5, <2>6
<1>5. CASE PutRefused
  BY <1>5 DEF PutRefused, Refusals, Puts
<1>6. CASE PutConfirmed
  BY <1>6 DEF PutConfirmed, Confirms, Puts
<1>7. CASE RemoveSent
  <2>1. op = "remove" /\ at = "try" /\ UNCHANGED <<vm, tokenVars, op, landed>>
    BY <1>7 DEF RemoveSent
  <2>2. /\ at' \in {"try", "probe", "classify", "list401"}
        /\ returned' = returned
        /\ tried' = tried \/ tried' = FALSE \/ (at' = "list401" /\ tried' = TRUE)
    BY <1>7 DEF RemoveSent
  <2>3. Kinds' /\ SeenIsTrue' /\ UnderWay' /\ LostIsTrue' /\ WriteLands'
    BY <2>1, <2>2
  <2>4. TokenIsFresh'
    BY <2>1, <2>2
  <2>5. MineLanded' /\ RemoveIsTrueWhenFresh'
    BY <2>1, <2>2
  <2> QED
    BY <2>3, <2>4, <2>5
<1>8. CASE RemoveProbed
  BY <1>8 DEF RemoveProbed, GetReplies, HttpReplies, Served, Refusals, Troubles
<1>9. CASE Renews
  BY <1>9 DEF Renews
<1>10. CASE FindsNone
  BY <1>10 DEF FindsNone
<1>11. CASE FailsToList
  BY <1>11 DEF FailsToList
<1>12. CASE Classifies
  BY <1>12 DEF Classifies
<1>13. CASE World
  <2>1. CASE TokenExpires
    BY <2>1 DEF TokenExpires
  <2>2. CASE MinutePasses
    BY <2>2 DEF MinutePasses
  <2>3. CASE VmReclaimed
    BY <2>3 DEF VmReclaimed
  <2>4. CASE RunnerChanges
    BY <2>4 DEF RunnerChanges
  <2> QED
    BY <1>13, <2>1, <2>2, <2>3, <2>4 DEF World
<1>14. CASE UNCHANGED transportVars
  BY <1>14 DEF transportVars
<1> QED
  BY <1>1, <1>2, <1>3, <1>4, <1>5, <1>6, <1>7, <1>8, <1>9, <1>10, <1>11, <1>12,
     <1>13, <1>14 DEF TransportNext, Turns

\* So it holds at every request of every call.
LEMMA TransportInvariance == TransportSpec => []TransportInv
  BY TransportInitially, TransportStep, PTL DEF TransportSpec

-----------------------------------------------------------------------------

\* transport.py: session_lost is only answered of a VM that is gone, from
\* whatever earlier listing; a text write that answers ok has put its text on
\* the VM, whichever replies were lost; and the file that remove answers ok
\* for is gone, as long as the token is valid.
THEOREM AnswerIsProved == TransportSpec => []AnswerIsTrue
<1>1. TransportInv => AnswerIsTrue
  BY DEF TransportInv, AnswerIsTrue
<1> QED
  BY <1>1, TransportInvariance, PTL

\* transport.py, _read and _should_refresh_404: a read's not_found is true,
\* but for the minute after the stamp of a write that could not refresh.
THEOREM NotFoundIsProved == TransportSpec => NotFoundIsTrue
<1>1. ASSUME TransportInv, TransportNext, op = "read", at # "idle", returned' = "not_found"
      PROVE  content = "absent" \/ vm = "gone" \/ (recent /\ ~renewed)
  <2>1. ReadRefused
    BY <1>1 DEF TransportInv, UnderWay, TransportNext, Turns, World, Start, ReadGets, PutSent,
         PutRefused, PutConfirmed, RemoveSent, RemoveProbed, Renews, FindsNone,
         FailsToList, Classifies, TokenExpires, MinutePasses, VmReclaimed,
         RunnerChanges, Puts
  <2>2. at = "try" /\ "404" \in GetReplies /\ (tried \/ recent)
    BY <1>1, <2>1 DEF ReadRefused, ShouldRefresh404, TransportInv, UnderWay
  <2>3. CASE Served
    BY <2>2, <2>3 DEF GetReplies, HttpReplies, Troubles
  <2>4. CASE ~Served
    BY <1>1, <2>2, <2>4 DEF Served, TransportInv, Kinds, TokenIsFresh, Listing
  <2> QED
    BY <2>3, <2>4
<1>2. TransportInv /\ [TransportNext]_transportVars =>
        [op = "read" /\ at # "idle" /\ returned' = "not_found" =>
           content = "absent" \/ vm = "gone" \/ (recent /\ ~renewed)]_transportVars
  BY <1>1
<1> QED
  BY <1>2, TransportInvariance, PTL DEF TransportSpec, NotFoundIsTrue
=============================================================================
