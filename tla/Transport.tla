----------------------------- MODULE Transport -----------------------------
(***************************************************************************)
(* The Contents transport of a job, and what its answers are worth:        *)
(*   job/transport.py    JobTransport                                      *)
(*   contents.py         ContentsClient                                    *)
(*                                                                         *)
(* One process calls read, write, upload, makedirs and remove on one path, *)
(* one call at a time; every HTTP request is a step.  The proxy token may  *)
(* expire between two requests, and an expired token answers 401 or 404;   *)
(* the VM may be reclaimed, and the runner changes the file.               *)
(***************************************************************************)
EXTENDS Naturals

CONSTANT MaxRetries   \* max_retries

ASSUME RetriesAssumption == MaxRetries \in Nat

VARIABLES
  vm,       \* the assignment: "up" or "gone"
  content,  \* the path: "absent", "mine" (this call's payload) or "other"
  fresh,    \* the transport's token is valid
  seen,     \* _last_endpoint_present
  recent,   \* _last_404_refresh_at is less than a minute old
  renewed,  \* history: the token is no older than that stamp
  op, at,   \* the last call, and where it is
  tried,    \* refresh_attempted
  retries,  \* transient_retries
  returned, \* what the last call returned
  landed    \* history: the payload of this call has been on the VM

vmVars    == <<vm, content>>
tokenVars == <<fresh, seen, recent, renewed>>
loopVars  == <<tried, retries>>
transportVars == <<vmVars, tokenVars, op, at, loopVars, returned, landed>>

Puts == {"write", "upload", "makedirs"}
Ops  == Puts \cup {"read", "remove"}

TransportInit ==
  /\ vm = "up" /\ content \in {"absent", "other"} /\ fresh \in BOOLEAN
  /\ seen = "unknown" /\ recent = FALSE /\ renewed = FALSE
  /\ op = "read" /\ at = "idle" /\ tried = FALSE /\ retries = 0
  /\ returned = "none" /\ landed = FALSE

-----------------------------------------------------------------------------
(***************************************************************************)
(* Requests and the loop around them.                                      *)
(***************************************************************************)

Served == vm = "up" /\ fresh
Refusals == {"401", "404"}
Troubles == {"5xx", "other"}

\* What may come back for a request that would be answered by one of ok.
HttpReplies(ok) == (IF Served THEN ok ELSE Refusals) \cup Troubles
GetReplies == HttpReplies({IF content = "absent" THEN "404" ELSE "200"})

Goes(place) == at' = place /\ UNCHANGED <<loopVars, returned>>
Returns(a) == at' = "idle" /\ returned' = a /\ tried' = FALSE /\ retries' = 0

\* A transient error is retried; the endpoint is classified after the last.
TriesAgain(place, otherwise) ==
  IF retries < MaxRetries
  THEN at' = place /\ retries' = retries + 1 /\ UNCHANGED <<tried, returned>>
  ELSE otherwise

\* The first 401 or 404 of a call lists the assignments.
Lists(place) == at' = place /\ tried' = TRUE /\ UNCHANGED <<retries, returned>>

\* The payload of an earlier call is somebody else's to this one, unless it
\* is the directory that makedirs asks for.
Start(o) ==
  /\ at = "idle"
  /\ op' = o /\ at' = "try" /\ returned' = "none" /\ landed' = FALSE
  /\ content' \in CASE o \in Puts /\ content = "mine" ->
                          {"other"} \cup (IF o = "makedirs" THEN {"mine"} ELSE {})
                    [] OTHER -> {content}
  /\ UNCHANGED <<vm, tokenVars, loopVars>>

-----------------------------------------------------------------------------
(***************************************************************************)
(* read_json, read_text.                                                   *)
(***************************************************************************)

NeverRefreshes404 == FALSE
ShouldRefresh404 == ~recent

ReadGets ==
  /\ op = "read" /\ at = "try"
  /\ \/ "200" \in GetReplies /\ (Returns("ok") \/ Returns("degraded"))  \* not JSON
     \/ TriesAgain("try", Goes("classify"))
     \/ Goes("classify")
  /\ UNCHANGED <<vmVars, tokenVars, op, landed>>

ReadRefused ==
  /\ op = "read" /\ at = "try"
  /\ \E r \in GetReplies \cap Refusals :
       \/ r = "404" /\ (tried \/ ~ShouldRefresh404) /\ Returns("not_found")
       \/ r = "404" /\ ~tried /\ ShouldRefresh404 /\ Lists("list404")
       \/ r = "401" /\ ~tried /\ Lists("list401")
       \/ r = "401" /\ tried /\ Goes("classify")
  /\ UNCHANGED <<vmVars, tokenVars, op, landed>>

-----------------------------------------------------------------------------
(***************************************************************************)
(* write_json, write_text, upload, makedirs.                               *)
(***************************************************************************)

\* A request whose reply is lost, or bad, may still have been carried out,
\* and an upload of many chunks in part.  A file in the way of a directory,
\* or any other error, gives up at once.
PutSent ==
  /\ op \in Puts /\ at = "try"
  /\ LET done == Served /\ ~(op = "makedirs" /\ content = "other")
         part == IF op = "upload" THEN {"other"} ELSE {}
     IN \/ done /\ content' = "mine" /\ Returns("ok")
        \/ /\ content' \in {content} \cup (IF done THEN {"mine"} \cup part ELSE {})
           /\ \/ Goes("check")
              \/ TriesAgain("try", Goes("classify"))
              \/ Goes("classify")
  /\ landed' = (landed \/ content' = "mine")
  /\ UNCHANGED <<vm, tokenVars, op>>

\* A 404 is stamped before the refresh, which may then fail; makedirs does
\* not stamp.  A parent that is missing answers 404 as well.
PutRefused ==
  /\ op \in Puts /\ at = "try"
  /\ \E r \in Refusals :
       /\ r = "404" \/ ~Served
       /\ \/ ~tried /\ Lists(IF r = "401" THEN "list401" ELSE "list404")
          \/ tried /\ r = "404" /\ op = "write" /\ Returns("not_found")
          \/ tried /\ (r = "401" \/ op # "write") /\ Goes("classify")
       /\ IF r = "404" /\ ~tried /\ op # "makedirs"
          THEN recent' = TRUE /\ renewed' = FALSE
          ELSE UNCHANGED <<recent, renewed>>
  /\ UNCHANGED <<vmVars, fresh, seen, op, landed>>

\* What the file found after a timeout proves: text is compared, an upload
\* by its size, which another file may have, a directory by its type.
Confirms ==
  CASE op = "upload" -> IF content = "mine" THEN {TRUE} ELSE BOOLEAN
    [] op # "upload" -> {content = "mine"}

\* Absent: the call is made again.  No clear answer: degraded.
PutConfirmed ==
  /\ op \in Puts /\ at = "check"
  /\ \/ "200" \in GetReplies /\ TRUE \in Confirms /\ Returns("ok")
     \/ /\ "404" \in GetReplies \/ ("200" \in GetReplies /\ FALSE \in Confirms)
        /\ TriesAgain("try", Goes("classify"))
     \/ Returns("degraded")
  /\ UNCHANGED <<vmVars, tokenVars, op, landed>>

-----------------------------------------------------------------------------
(***************************************************************************)
(* remove.                                                                 *)
(***************************************************************************)

\* A 404 of the DELETE counts as done, whatever the token; a 401 refreshes.
RemoveSent ==
  /\ op = "remove" /\ at = "try"
  /\ \/ /\ \/ Served /\ content' = "absent"
           \/ ~Served /\ UNCHANGED content
        /\ at' = "probe" /\ tried' = FALSE /\ retries' = 0 /\ UNCHANGED returned
     \/ /\ ~Served /\ UNCHANGED content
        /\ IF tried THEN Goes("classify") ELSE Lists("list401")
     \/ /\ content' \in {content, IF Served THEN "absent" ELSE content}
        /\ TriesAgain("try", Goes("classify"))
     \/ UNCHANGED content /\ Goes("classify")
  /\ UNCHANGED <<vm, tokenVars, op, landed>>

\* The GET that confirms it: only a 404 is a confirmation, again whatever
\* the token.
RemoveProbed ==
  /\ op = "remove" /\ at = "probe"
  /\ \/ "404" \in GetReplies /\ Returns("ok")
     \/ "401" \in GetReplies /\ ~tried /\ Lists("relist")
     \/ TriesAgain("probe", Returns("degraded"))
     \/ Returns("degraded")
  /\ UNCHANGED <<vmVars, tokenVars, op, landed>>

-----------------------------------------------------------------------------
(***************************************************************************)
(* _refresh_token and _classify_endpoint.                                  *)
(***************************************************************************)

Listing == at \in {"list401", "list404", "relist"}

\* The assignment is listed, with a token: the request is made again.
Renews ==
  /\ Listing /\ vm = "up"
  /\ seen' = "yes" /\ fresh' = TRUE /\ renewed' = TRUE
  /\ recent' = (recent \/ (op = "read" /\ at = "list404"))
  /\ Goes(IF at = "relist" THEN "probe" ELSE "try")
  /\ UNCHANGED <<vmVars, op, landed>>

\* It is not listed: the VM, and with it the file, is gone.
FindsNone ==
  /\ Listing /\ vm = "gone"
  /\ seen' = "no"
  /\ Returns(IF at = "relist" THEN "ok" ELSE "session_lost")
  /\ UNCHANGED <<vmVars, fresh, recent, renewed, op, landed>>

\* The listing fails, or lists the assignment without a token.
FailsToList ==
  /\ Listing
  /\ seen' \in {"unknown"} \cup (IF vm = "up" THEN {"yes"} ELSE {})
  /\ Returns("degraded")
  /\ UNCHANGED <<vmVars, fresh, recent, renewed, op, landed>>

\* Only a listing without the endpoint, now or before, proves the loss.
ClassifiesUnknownAsLost ==
  /\ at = "classify"
  /\ Returns(IF seen = "yes" THEN "degraded" ELSE "session_lost")
  /\ UNCHANGED <<seen, vmVars, fresh, recent, renewed, op, landed>>
Classifies ==
  /\ at = "classify"
  /\ seen' \in (IF seen # "unknown" THEN {seen}
                ELSE {"unknown", IF vm = "up" THEN "yes" ELSE "no"})
  /\ Returns(IF seen' = "no" THEN "session_lost" ELSE "degraded")
  /\ UNCHANGED <<vmVars, fresh, recent, renewed, op, landed>>

-----------------------------------------------------------------------------
(***************************************************************************)
(* The world.  A token lives an hour: one that is new in this call does    *)
(* not expire in it, one that came with, or after, a stamp does not expire *)
(* within the stamp's minute.                                              *)
(***************************************************************************)

TokenExpires ==
  /\ fresh /\ ~(recent /\ renewed) /\ (tried => Listing)
  /\ fresh' = FALSE
  /\ UNCHANGED <<vmVars, seen, recent, renewed, op, at, loopVars, returned, landed>>

MinutePasses ==
  /\ recent
  /\ recent' = FALSE
  /\ UNCHANGED <<vmVars, fresh, seen, renewed, op, at, loopVars, returned, landed>>

VmReclaimed ==
  /\ vm = "up"
  /\ vm' = "gone"
  /\ UNCHANGED <<content, tokenVars, op, at, loopVars, returned, landed>>

RunnerChanges ==
  /\ vm = "up"
  /\ content' \in {"absent", "other"}
  /\ returned' = "none"
  /\ UNCHANGED <<vm, tokenVars, op, at, loopVars, landed>>

Turns ==
  \/ ReadGets \/ ReadRefused \/ PutSent \/ PutRefused \/ PutConfirmed
  \/ RemoveSent \/ RemoveProbed
  \/ Renews \/ FindsNone \/ FailsToList \/ Classifies

World == TokenExpires \/ MinutePasses \/ VmReclaimed \/ RunnerChanges

TransportNext == (\E o \in Ops : Start(o)) \/ Turns \/ World

TransportSpec == TransportInit /\ [][TransportNext]_transportVars

(***************************************************************************)
(* A call goes on until it returns, and a supervisor reads again and       *)
(* again (poll's loop).  The proxy does not answer 5xx for ever to a       *)
(* request it would refuse, and the listing does not fail for ever.        *)
(***************************************************************************)
TransportFairSpec ==
  /\ TransportSpec
  /\ WF_transportVars(Turns)
  /\ WF_transportVars(Start("read")) /\ SF_transportVars(ReadRefused)
  /\ SF_transportVars(Renews \/ FindsNone) /\ WF_transportVars(MinutePasses)
-----------------------------------------------------------------------------
(***************************************************************************)
(* Properties of the answers.  The runner's change of the file clears the  *)
(* answer, which spoke of the file as it was.                              *)
(***************************************************************************)

Places == {"idle", "try", "check", "probe", "classify", "list401", "list404", "relist"}
Answers == {"none", "ok", "not_found", "degraded", "session_lost"}

\* Every variable holds a value of its kind, and no call retries more than
\* max_retries times.
TransportTypeOK ==
  /\ vm \in {"up", "gone"} /\ content \in {"absent", "mine", "other"}
  /\ fresh \in BOOLEAN /\ seen \in {"unknown", "yes", "no"}
  /\ recent \in BOOLEAN /\ renewed \in BOOLEAN
  /\ op \in Ops /\ at \in Places /\ tried \in BOOLEAN
  /\ retries \in 0..MaxRetries /\ returned \in Answers /\ landed \in BOOLEAN

\* design.md: "When the listing itself fails, the result is degraded, never
\* session_lost": session_lost is only answered of a VM that is gone.
LostIsTrue == returned = "session_lost" => vm = "gone"

\* design.md: "a 404 after a successful refresh means the path is absent":
\* not_found of a read is true, although an expired token answers 404 too.
\* It may be false for a minute after a write whose refresh failed, which
\* counts as a refresh for _should_refresh_404.
NotFoundIsTrue ==
  [][op = "read" /\ at # "idle" /\ returned' = "not_found" =>
       content = "absent" \/ vm = "gone" \/ (recent /\ ~renewed)]_transportVars

\* design.md: "a timed-out write is confirmed before retry": a text write
\* that answers ok has put its text there.
WriteLands == returned = "ok" /\ op = "write" => landed

\* transport.py: remove is to "confirm it cannot still be read".
RemoveIsConfirmed ==
  returned = "ok" /\ op = "remove" => content = "absent" \/ vm = "gone"

\* What is left of it: true as long as the token is valid at the end.
RemoveIsTrueWhenFresh == fresh => RemoveIsConfirmed

\* What each call's answer promises, of the file and of the VM as they are
\* when it is given.
AnswerIsTrue == LostIsTrue /\ WriteLands /\ RemoveIsTrueWhenFresh

\* A supervisor that only reads any more learns that the VM is gone, though
\* the proxy answers 404 as for a missing file and a 404 lists the
\* assignments at most once a minute.
GoneIsReported ==
  <>[](vm = "gone" /\ op = "read") => []<>(returned = "session_lost")
=============================================================================
