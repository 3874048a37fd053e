-------------------------------- MODULE Kernel --------------------------------
(***************************************************************************)
(* One command's connection to a kernel: calls of execute_interactive,     *)
(* one after the other, over a websocket whose messages a second thread    *)
(* puts into queues.  First the connection is made: the kernel that the     *)
(* session's record names is looked up, or a new one is started, and a      *)
(* websocket is opened to it.  The pieces are                              *)
(*                                                                         *)
(*   - the caller (wsclient.py: execute_interactive, _recv_reply), which   *)
(*     waits on one event for the messages of every channel;               *)
(*   - the socket thread (_on_message, _on_close), which puts a message    *)
(*     into its channel's queue and only then sets the event, and which    *)
(*     runs the hook that answers an authorisation request;                *)
(*   - the kernel, shared with other clients whose output is broadcast on  *)
(*     iopub as well, and which somebody else may restart.                 *)
(*                                                                         *)
(* A call that ended without its reply (Ctrl-C in the REPL, a timeout)     *)
(* leaves its messages behind, on the wire and in the queues, for the next *)
(* call to step over.                                                      *)
(***************************************************************************)
EXTENDS Naturals, Sequences, SequencesExt

CONSTANTS
    MaxCalls,       \* bound: calls made over this connection
    MaxChunks,      \* bound: pieces of output of one call
    MaxForeign      \* bound: messages of other clients' requests, and
                    \* restarts of the kernel by another command

ASSUME BoundsAssumption ==
    /\ MaxCalls \in Nat \ {0}
    /\ {MaxChunks, MaxForeign} \subseteq Nat

Calls  == 1..MaxCalls
Nobody == 0                     \* the parent of another client's messages
Idle   == 0                     \* the status message that ends a request

\* An iopub message: the request it answers, and a piece of output or Idle.
IopubMsg == [of : Calls \cup {Nobody}, text : 0..MaxChunks]

VARIABLES
    call,       \* the number of the latest call
    pc,         \* where its caller is; "out" between calls
    names,      \* what the session's record names: no kernel, one, a lost one
    tries,      \* attempts to connect that timed out
    late,       \* the call's deadline has passed
    shown,      \* the output its hook was given
    answer,     \* how the latest call ended
    reply,      \* the request whose reply it returned, or Nobody
    event,      \* _message_received
    linked,     \* connection_ready
    dialing,    \* the websocket is being opened
    hand,       \* what the socket thread is in the middle of
    hooked,     \* the request whose authorisation the hook is busy with
    iopubQ, shellQ, stdinQ,             \* the channels' queues
    iopubWire, shellWire, stdinWire,    \* sent and not yet received
    inbox,      \* requests the kernel has not begun
    running,    \* the request it executes, or Nobody
    replied,    \* its reply is sent
    asking,     \* it waits for an input_reply to the request it executes
    made,       \* pieces of output produced for each call
    finished,   \* calls whose idle status is sent
    foreign     \* what others have done so far

callerVars == <<call, pc, late, shown, answer, reply>>
connVars   == <<names, tries, dialing>>
socketVars == <<hand, hooked>>
queues     == <<iopubQ, shellQ, stdinQ>>
wires      == <<iopubWire, shellWire, stdinWire>>
kernelVars == <<inbox, running, replied, asking, made, finished, foreign>>
vars       == <<callerVars, connVars, event, linked, socketVars, queues, wires, kernelVars>>

Init ==
    /\ names \in {"none", "kernel", "lost kernel"} /\ tries = 0 /\ dialing = FALSE
    /\ call = 0 /\ pc = "lookup" /\ late = FALSE /\ shown = <<>>
    /\ answer = "none" /\ reply = Nobody
    /\ event = FALSE /\ linked = FALSE /\ hand = "free" /\ hooked = Nobody
    /\ iopubQ = <<>> /\ shellQ = <<>> /\ stdinQ = <<>>
    /\ iopubWire = <<>> /\ shellWire = <<>> /\ stdinWire = <<>>
    /\ inbox = <<>> /\ running = Nobody /\ replied = FALSE /\ asking = FALSE
    /\ made = [c \in Calls |-> 0] /\ finished = {}
    /\ foreign = 0

-------------------------------------------------------------------------------
(* The caller: connecting                                                  *)

ConnRest == UNCHANGED <<call, late, shown, answer, reply, event, linked, socketVars,
                        queues, wires, kernelVars>>

\* The server is asked for the recorded kernel, and may answer 404.
Found == names = "kernel"

LooksUp ==
    /\ pc = "lookup"
    /\ pc' = IF Found THEN "dial" ELSE "start"
    /\ UNCHANGED connVars /\ ConnRest

\* No kernel is named, or the one named is lost: a new one is started.
StartsKernel ==
    /\ pc = "start"
    /\ pc' = "dial"
    /\ UNCHANGED connVars /\ ConnRest

\* A request times out: from the beginning again, three times in all.
TimesOut ==
    /\ pc \in {"lookup", "start"}
    /\ tries' = tries + 1
    /\ pc' = IF tries' < 3 THEN "lookup" ELSE "over"
    /\ UNCHANGED <<names, dialing>> /\ ConnRest

\* A request is refused: the command is over.
ConnectFails ==
    /\ pc \in {"lookup", "start"}
    /\ pc' = "over"
    /\ UNCHANGED connVars /\ ConnRest

Dials ==
    /\ pc = "dial"
    /\ dialing' = TRUE
    /\ pc' = "await"
    /\ UNCHANGED <<names, tries>> /\ ConnRest

\* The wait for the connection may end without one; the command goes on.
Awaits ==
    /\ pc = "await"
    /\ pc' = "record"
    /\ UNCHANGED connVars /\ ConnRest

\* A kernel started for a session that named none is recorded; one started
\* for a lost kernel is not.
RecordsKernel ==
    /\ pc = "record"
    /\ names' = IF names = "none" THEN "kernel" ELSE names
    /\ tries' = 0
    /\ pc' = "out"
    /\ UNCHANGED dialing /\ ConnRest

-------------------------------------------------------------------------------
(* The caller: a call                                                      *)

InCall == {"flush", "send", "check", "wait", "take", "recheck", "clear", "reply"}

\* The call ends; a result other than "reply" is an exception.
Ends(how) ==
    /\ pc' = "out"
    /\ answer' = how
    /\ UNCHANGED <<call, late, shown>>

\* A new call takes the lock and clears the event.
StartsCall ==
    /\ pc = "out" /\ call < MaxCalls
    /\ call' = call + 1 /\ pc' = "flush"
    /\ late' = FALSE /\ shown' = <<>> /\ answer' = "none" /\ reply' = Nobody
    /\ event' = FALSE
    /\ UNCHANGED <<linked, socketVars, queues, wires, kernelVars, connVars>>

\* What is left in the iopub queue belongs to nobody who waits for it.
Flushes ==
    /\ pc = "flush"
    /\ iopubQ' = <<>>
    /\ pc' = "send"
    /\ UNCHANGED <<call, late, shown, answer, reply, event, linked, socketVars,
                   shellQ, stdinQ, wires, kernelVars, connVars>>

\* The request goes out; on a closed socket the send raises.
Send(request) == inbox' = Append(inbox, request)
Sends ==
    /\ pc = "send"
    /\ IF linked
         THEN /\ Send(call)
              /\ pc' = "check"
              /\ UNCHANGED <<call, late, shown, answer, reply>>
         ELSE /\ Ends("lost")
              /\ UNCHANGED <<inbox, reply>>
    /\ UNCHANGED <<event, linked, socketVars, queues, wires, running, replied,
                   asking, made, finished, foreign, connVars>>

\* Each round of the loop begins with a look at the connection.
Checks ==
    /\ pc = "check"
    /\ IF linked THEN pc' = "wait" /\ UNCHANGED <<call, late, shown, answer>>
                 ELSE Ends("lost")
    /\ UNCHANGED <<reply, event, linked, socketVars, queues, wires, kernelVars, connVars>>

\* Mutant: a wait without a deadline.
WaitsForEvent ==
    /\ pc = "wait" /\ event
    /\ pc' = "take"
    /\ UNCHANGED <<call, late, shown, answer, reply, event, linked, socketVars,
                   queues, wires, kernelVars, connVars>>

\* The wait returns on the event or at the deadline; which, nobody asks.
Waits ==
    /\ pc = "wait"
    /\ event \/ late
    /\ pc' = "take"
    /\ UNCHANGED <<call, late, shown, answer, reply, event, linked, socketVars,
                   queues, wires, kernelVars, connVars>>

\* A request for input that the socket thread's hook did not take: the
\* caller's hook reads a line, which no reply carries to the kernel.
TakesInput ==
    /\ pc = "take" /\ stdinQ # <<>>
    /\ stdinQ' = Tail(stdinQ)
    /\ pc' = "check"
    /\ UNCHANGED <<call, late, shown, answer, reply, event, linked, socketVars,
                   iopubQ, shellQ, wires, kernelVars, connVars>>

\* Mutant: output of any parent is shown.
TakesAnyOutput ==
    /\ pc = "take" /\ stdinQ = <<>> /\ iopubQ # <<>>
    /\ IF Head(iopubQ).text = Idle
         THEN pc' = "reply" /\ UNCHANGED shown
         ELSE pc' = "check" /\ shown' = Append(shown, Head(iopubQ))
    /\ iopubQ' = Tail(iopubQ)
    /\ UNCHANGED <<call, late, answer, reply, event, linked, socketVars,
                   shellQ, stdinQ, wires, kernelVars, connVars>>

\* The next iopub message, if it is this call's: output is shown, idle ends
\* the loop.
TakesOutput ==
    /\ pc = "take" /\ stdinQ = <<>> /\ iopubQ # <<>>
    /\ LET m == Head(iopubQ) IN
         CASE m.of # call                  -> pc' = "check" /\ UNCHANGED shown
           [] m.of = call /\ m.text = Idle -> pc' = "reply" /\ UNCHANGED shown
           [] OTHER                        -> /\ pc' = "check"
                                              /\ shown' = Append(shown, m)
    /\ iopubQ' = Tail(iopubQ)
    /\ UNCHANGED <<call, late, answer, reply, event, linked, socketVars,
                   shellQ, stdinQ, wires, kernelVars, connVars>>

\* Nothing to take: the caller looks once more, ...
FindsNothing ==
    /\ pc = "take" /\ stdinQ = <<>> /\ iopubQ = <<>>
    /\ pc' = "recheck"
    /\ UNCHANGED <<call, late, shown, answer, reply, event, linked, socketVars,
                   queues, wires, kernelVars, connVars>>

Rechecks ==
    /\ pc = "recheck"
    /\ pc' = IF iopubQ = <<>> /\ stdinQ = <<>> THEN "clear" ELSE "check"
    /\ UNCHANGED <<call, late, shown, answer, reply, event, linked, socketVars,
                   queues, wires, kernelVars, connVars>>

\* ... and clears the event, which a message may have set in between.
Clears ==
    /\ pc = "clear"
    /\ event' = FALSE
    /\ pc' = "check"
    /\ UNCHANGED <<call, late, shown, answer, reply, linked, socketVars, queues,
                   wires, kernelVars, connVars>>

\* _recv_reply steps over the replies of earlier calls.
SkipsReply ==
    /\ pc = "reply" /\ shellQ # <<>> /\ Head(shellQ) # call
    /\ shellQ' = Tail(shellQ)
    /\ UNCHANGED <<callerVars, event, linked, socketVars, iopubQ, stdinQ, wires,
                   kernelVars, connVars>>

\* Mutant: any reply will do.
TakesAnyReply ==
    /\ pc = "reply" /\ shellQ # <<>>
    /\ reply' = Head(shellQ)
    /\ shellQ' = Tail(shellQ)
    /\ Ends("reply")
    /\ UNCHANGED <<event, linked, socketVars, iopubQ, stdinQ, wires, kernelVars, connVars>>

TakesReply ==
    /\ pc = "reply" /\ shellQ # <<>> /\ Head(shellQ) = call
    /\ reply' = Head(shellQ)
    /\ shellQ' = Tail(shellQ)
    /\ Ends("reply")
    /\ UNCHANGED <<event, linked, socketVars, iopubQ, stdinQ, wires, kernelVars, connVars>>

\* The deadline passes with no reply in the queue: TimeoutError.
MissesReply ==
    /\ pc = "reply" /\ shellQ = <<>> /\ late
    /\ Ends("timeout")
    /\ UNCHANGED <<reply, event, linked, socketVars, queues, wires, kernelVars, connVars>>

DeadlinePasses ==
    /\ pc \in InCall /\ ~late
    /\ late' = TRUE
    /\ UNCHANGED <<call, pc, shown, answer, reply, event, linked, socketVars, queues,
                   wires, kernelVars, connVars>>

\* Ctrl-C in the REPL: the exception leaves the call, the kernel goes on.
Interrupted ==
    /\ pc \in InCall
    /\ Ends("interrupted")
    /\ UNCHANGED <<reply, event, linked, socketVars, queues, wires, kernelVars, connVars>>

Caller ==
    \/ LooksUp \/ StartsKernel \/ Dials \/ Awaits \/ RecordsKernel
    \/ Flushes \/ Sends \/ Checks \/ Waits \/ TakesInput \/ TakesOutput
    \/ FindsNothing \/ Rechecks \/ Clears
    \/ SkipsReply \/ TakesReply \/ MissesReply

-------------------------------------------------------------------------------
(* The socket thread                                                       *)

ReceivesOutput ==
    /\ linked /\ hand = "free" /\ iopubWire # <<>>
    /\ iopubQ' = Append(iopubQ, Head(iopubWire))
    /\ iopubWire' = Tail(iopubWire)
    /\ hand' = "set"
    /\ UNCHANGED <<callerVars, event, linked, hooked, shellQ, stdinQ, shellWire,
                   stdinWire, kernelVars, connVars>>

ReceivesReply ==
    /\ linked /\ hand = "free" /\ shellWire # <<>>
    /\ shellQ' = Append(shellQ, Head(shellWire))
    /\ shellWire' = Tail(shellWire)
    /\ hand' = "set"
    /\ UNCHANGED <<callerVars, event, linked, hooked, iopubQ, stdinQ, iopubWire,
                   stdinWire, kernelVars, connVars>>

SetsEvent ==
    /\ hand = "set"
    /\ event' = TRUE
    /\ hand' = "free"
    /\ UNCHANGED <<callerVars, linked, hooked, queues, wires, kernelVars, connVars>>

\* An authorisation request goes to the hook, on this same thread.
ReceivesRequest ==
    /\ linked /\ hand = "free" /\ stdinWire # <<>>
    /\ hooked' = Head(stdinWire)
    /\ stdinWire' = Tail(stdinWire)
    /\ hand' = "hook"
    /\ UNCHANGED <<callerVars, event, linked, queues, iopubWire, shellWire,
                   kernelVars, connVars>>

\* The credentials are propagated and the kernel is told to go on, if it is
\* still there to hear it.
HookAnswers ==
    /\ hand = "hook"
    /\ hand' = "free" /\ hooked' = Nobody
    /\ asking' = (asking /\ running # hooked)
    /\ UNCHANGED <<callerVars, event, linked, queues, wires, inbox, running,
                   replied, made, finished, foreign, connVars>>

\* The propagation is refused: the request counts as handled all the same.
HookRefused ==
    /\ hand = "hook"
    /\ hand' = "free" /\ hooked' = Nobody
    /\ UNCHANGED <<callerVars, event, linked, queues, wires, kernelVars, connVars>>

\* The hook raises: the request goes the way of every other message.
HookFails ==
    /\ hand = "hook"
    /\ stdinQ' = Append(stdinQ, hooked)
    /\ hand' = "set" /\ hooked' = Nobody
    /\ UNCHANGED <<callerVars, event, linked, iopubQ, shellQ, wires, kernelVars, connVars>>

\* The websocket opens, now or when nobody waits for it any more, or never.
Opens ==
    /\ dialing
    /\ dialing' = FALSE
    /\ linked' \in BOOLEAN
    /\ UNCHANGED <<callerVars, names, tries, event, socketVars, queues, wires, kernelVars>>

\* The connection closes, with what is on the wire; nothing reconnects it.
Closes ==
    /\ linked /\ hand = "free"
    /\ linked' = FALSE
    /\ iopubWire' = <<>> /\ shellWire' = <<>> /\ stdinWire' = <<>>
    /\ UNCHANGED <<callerVars, event, socketVars, queues, kernelVars, connVars>>

Socket ==
    \/ ReceivesOutput \/ ReceivesReply \/ SetsEvent \/ ReceivesRequest
    \/ HookAnswers \/ HookRefused \/ HookFails

-------------------------------------------------------------------------------
(* The kernel; what it sends after the connection closed reaches nobody.   *)

Broadcasts(m) == iopubWire' = IF linked THEN Append(iopubWire, m) ELSE iopubWire

BeginsRequest ==
    /\ running = Nobody /\ inbox # <<>>
    /\ running' = Head(inbox)
    /\ inbox' = Tail(inbox)
    /\ replied' = FALSE
    /\ UNCHANGED <<callerVars, event, linked, socketVars, queues, wires, asking, made,
                   finished, foreign, connVars>>

Prints ==
    /\ running # Nobody /\ ~replied /\ ~asking /\ made[running] < MaxChunks
    /\ made' = [made EXCEPT ![running] = @ + 1]
    /\ Broadcasts([of |-> running, text |-> made'[running]])
    /\ UNCHANGED <<callerVars, event, linked, socketVars, queues, shellWire,
                   stdinWire, inbox, running, replied, asking, finished,
                   foreign, connVars>>

\* The code asks the client for authorisation and waits for the answer.
Asks ==
    /\ running # Nobody /\ ~replied /\ ~asking
    /\ asking' = TRUE
    /\ stdinWire' = IF linked THEN Append(stdinWire, running) ELSE stdinWire
    /\ UNCHANGED <<callerVars, event, linked, socketVars, queues, iopubWire,
                   shellWire, inbox, running, replied, made, finished, foreign,
                   connVars>>

Replies ==
    /\ running # Nobody /\ ~replied /\ ~asking
    /\ replied' = TRUE
    /\ shellWire' = IF linked THEN Append(shellWire, running) ELSE shellWire
    /\ UNCHANGED <<callerVars, event, linked, socketVars, queues, iopubWire,
                   stdinWire, inbox, running, asking, made, finished, foreign,
                   connVars>>

GoesIdle ==
    /\ running # Nobody /\ replied
    /\ Broadcasts([of |-> running, text |-> Idle])
    /\ finished' = finished \cup {running}
    /\ running' = Nobody
    /\ replied' = FALSE
    /\ UNCHANGED <<callerVars, event, linked, socketVars, queues, shellWire,
                   stdinWire, inbox, asking, made, foreign, connVars>>

\* Output, or the idle status, of another client's request.
OthersOutput ==
    /\ foreign < MaxForeign
    /\ foreign' = foreign + 1
    /\ \E t \in 0..MaxChunks : Broadcasts([of |-> Nobody, text |-> t])
    /\ UNCHANGED <<callerVars, event, linked, socketVars, queues, shellWire,
                   stdinWire, inbox, running, replied, asking, made, finished,
                   connVars>>

\* Another command restarts the kernel: its requests are forgotten, the
\* connection stays.
Restarts ==
    /\ foreign < MaxForeign
    /\ foreign' = foreign + 1
    /\ inbox' = <<>> /\ running' = Nobody /\ replied' = FALSE /\ asking' = FALSE
    /\ UNCHANGED <<callerVars, event, linked, socketVars, queues, wires, made,
                   finished, connVars>>

KernelSide ==
    \/ BeginsRequest \/ Prints \/ Asks \/ Replies \/ GoesIdle
    \/ OthersOutput \/ Restarts

Next == StartsCall \/ DeadlinePasses \/ Interrupted
        \/ TimesOut \/ ConnectFails \/ Opens \/ Closes
        \/ Caller \/ Socket \/ KernelSide

\* The threads run, clocks advance, and the person who is asked to grant
\* access answers one way or the other; the kernel owes nothing.
Fairness == WF_vars(Caller) /\ WF_vars(Socket) /\ WF_vars(DeadlinePasses)

Spec     == Init /\ [][Next]_vars
FairSpec == Spec /\ Fairness

-------------------------------------------------------------------------------
(* Properties                                                              *)

Where == InCall \cup {"lookup", "start", "dial", "await", "record", "out", "over"}

TypeOK ==
    /\ call \in 0..MaxCalls /\ pc \in Where /\ late \in BOOLEAN
    /\ shown \in Seq(IopubMsg)
    /\ answer \in {"none", "reply", "lost", "timeout", "interrupted"}
    /\ reply \in 0..MaxCalls
    /\ names \in {"none", "kernel", "lost kernel"} /\ tries \in 0..3
    /\ event \in BOOLEAN /\ linked \in BOOLEAN /\ dialing \in BOOLEAN
    /\ hand \in {"free", "set", "hook"}
    /\ iopubQ \in Seq(IopubMsg) /\ iopubWire \in Seq(IopubMsg)
    /\ shellQ \in Seq(Calls) /\ shellWire \in Seq(Calls)
    /\ hooked \in 0..MaxCalls
    /\ stdinQ \in Seq(Calls) /\ stdinWire \in Seq(Calls)
    /\ inbox \in Seq(Calls) /\ running \in 0..MaxCalls
    /\ replied \in BOOLEAN /\ asking \in BOOLEAN
    /\ made \in [Calls -> 0..MaxChunks] /\ finished \subseteq Calls
    /\ foreign \in 0..MaxForeign

\* The output of a call, as the kernel has sent it.
Output(c) == [i \in 1..made[c] |-> [of |-> c, text |-> i]]

\* What a call shows is its own output, from its beginning and in order,
\* however much of an interrupted call's, or of another client's, comes with
\* it.
ShowsOwnOutput == call # 0 => IsPrefix(shown, Output(call))

\* A call that returns a reply returns its own, after all of its output: no
\* reply that an earlier call left in the queue, and none before the idle
\* status.
AnswerIsWhole ==
    answer = "reply" => /\ reply = call
                        /\ shown = Output(call)

\* A call whose request the kernel has finished, or whose connection is lost,
\* ends, although the caller may clear the event of a message it has not seen;
\* and so does the attempt to connect, with a connection or without.
AnsweredCallEnds ==
    (pc \notin {"out", "over"} /\ (call \in finished \/ ~(linked \/ dialing)))
        ~> pc \in {"out", "over"}
=============================================================================
