---------------------------- MODULE ShipmentPage ----------------------------
(***************************************************************************)
(* One shipment's page in a browser, beside a server on which others record*)
(* events too.  A panel asks for its data when what it depends on changes  *)
(* (the instant under the scrubber, or the refresh token), and answers come*)
(* back in any order.  Commands carry the version the page was loaded      *)
(* against; a stream tells the page that there is something to ask for.    *)
(*                                                                         *)
(* A shipment is known by its version.  The queries of the timeline, the   *)
(* chart and the two badges use the same hook and the same token as the    *)
(* ones here.  The user may operate; archival only decides which of two    *)
(* confirmations is offered and is left out.                               *)
(***************************************************************************)
EXTENDS Naturals, FiniteSets

CONSTANTS
  NULL,
  Instants,       \* positions of the scrubber
  MaxAttempts,    \* failed connections after which the stream gives up
  MaxVersion,     \* bound on the events recorded
  MaxRequests,    \* bound on the requests in flight
  MaxCommands     \* bound on the commands in flight

ASSUME PageAssumption ==
  /\ NULL \notin Instants \cup Nat
  /\ {MaxAttempts, MaxVersion, MaxRequests, MaxCommands} \subseteq Nat

VARIABLES
  recorded,   \* the version the server has
  panel,      \* per query, its status and the data it shows
  requests,   \* requests sent, answered or not, whose answer has not arrived
  scrubAt,    \* the instant looked at, NULL in the live view
  dialog,     \* the dialog the page was asked to show
  form,       \* the version the mounted form was filled in from, or NULL
  commands,   \* commands sent and not yet answered to the page
  conflict,   \* whether the conflict dialog is up
  stream,     \* the notification stream and its failed attempts
  notes,      \* events the stream has not yet told of, or told nobody
  asked,      \* the version recorded when the page was last told to refresh
  own         \* the newest version the page was told it recorded

pageVars == <<recorded, panel, requests, scrubAt, dialog, form, commands,
              conflict, stream, notes, asked, own>>

(* The shipment and its schedule depend on the token, the historical state *)
(* on the scrubber.                                                        *)
Refreshed == {"shipment", "schedule"}
Queries == Refreshed \cup {"historical"}

-----------------------------------------------------------------------------
(* The resource hook.                                                      *)

Idle == [status |-> "idle", data |-> NULL]

(* Mutant: every query keeps what it showed while it asks again.           *)
KeepsAlways(q) == TRUE

(* Whether a query keeps what it showed while it asks again.               *)
Keeps(q) == q # "shipment"

Loading(q) == [status |-> "loading", data |-> IF Keeps(q) THEN panel[q].data ELSE NULL]

Request(q, at, by) ==
  [query |-> q, at |-> at, by |-> by, newest |-> TRUE, reply |-> NULL]

(* When what a query depends on changes, the run that the last change      *)
(* started is aborted; one that was started by hand goes on.               *)
Unaborted(qs) == {r \in requests : r.query \in qs => r.by = "retry"}

(* A new run makes every earlier one of its query outdated.                *)
Outdated(qs, rs) == {IF r.query \in qs THEN [r EXCEPT !.newest = FALSE] ELSE r : r \in rs}

Rendered(panels) ==
  /\ panels["shipment"].status # "error"
  /\ panels["shipment"].data # NULL

(* The page is replaced by a placeholder while its shipment loads, which   *)
(* unmounts the forms; a form mounted again is filled in afresh.           *)
FormIn(panels, open) ==
  CASE open # "amend" \/ ~Rendered(panels) -> NULL
    [] OTHER -> IF form = NULL THEN panels["shipment"].data ELSE form

(* A form that is gone forgets that a command of its own is under way; the *)
(* archival's state belongs to the page.                                   *)
HeldIn(panels, sent) ==
  {IF Rendered(panels) \/ c.form = "archival" THEN c ELSE [c EXCEPT !.held = FALSE] : c \in sent}

Show(panels, open, sent) ==
  /\ panel' = panels
  /\ dialog' = open
  /\ form' = FormIn(panels, open)
  /\ commands' = HeldIn(panels, sent)

(* The refresh token changed: every query that depends on it asks again.   *)
RefreshShowing(open, sent) ==
  /\ Show([q \in Queries |-> IF q \in Refreshed THEN Loading(q) ELSE panel[q]], open, sent)
  /\ requests' = Outdated(Refreshed, Unaborted(Refreshed)) \cup {Request(q, NULL, "effect") : q \in Refreshed}
  /\ Cardinality(requests') <= MaxRequests
  /\ asked' = recorded

Init ==
  /\ recorded = 1
  /\ panel = [q \in Queries |-> IF q \in Refreshed THEN [Idle EXCEPT !.status = "loading"]
                                ELSE Idle]
  /\ requests = {Request(q, NULL, "effect") : q \in Refreshed}
  /\ scrubAt = NULL /\ dialog = NULL /\ form = NULL
  /\ commands = {} /\ conflict = FALSE
  /\ stream = [status |-> "connecting", attempts |-> 0]
  /\ notes = 0 /\ asked = 1 /\ own = 0

(* An answer is the version the server has then, or that the call failed;  *)
(* of a historical state the instant asked for says it all.                *)
Failed == 0

(* The server answers a request, or the call fails.                        *)
Answer(r) ==
  /\ r.reply = NULL
  /\ \E reply \in {IF r.query = "historical" THEN 1 ELSE recorded, Failed} :
       requests' = (requests \ {r}) \cup {[r EXCEPT !.reply = reply]}
  /\ UNCHANGED <<recorded, panel, scrubAt, dialog, form, commands, conflict, stream, notes,
                 asked, own>>

(* Mutant: an answer is trusted unless its request was aborted.            *)
Unquestioned(r) == TRUE

(* Whether an answer may still be shown.                                   *)
Current(r) == r.newest

(* The answer arrives.                                                     *)
Deliver(r) ==
  /\ r.reply # NULL
  /\ requests' = requests \ {r}
  /\ Show([panel EXCEPT ![r.query] =
             IF ~Current(r) THEN @
             ELSE IF r.reply = Failed THEN [status |-> "error", data |-> NULL]
             ELSE [status |-> "success", data |-> IF r.query = "historical" THEN r.at
                                                  ELSE r.reply]],
          dialog, commands)
  /\ UNCHANGED <<recorded, scrubAt, conflict, stream, notes, asked, own>>

(* The retry button of the error block.                                    *)
Retry ==
  /\ panel["shipment"].status = "error"
  /\ Show([panel EXCEPT !["shipment"] = Loading("shipment")], dialog, commands)
  /\ requests' = Outdated({"shipment"}, requests) \cup {Request("shipment", NULL, "retry")}
  /\ Cardinality(requests') <= MaxRequests
  /\ UNCHANGED <<recorded, scrubAt, conflict, stream, notes, asked, own>>

-----------------------------------------------------------------------------
(* The user.  Both dialogs cover the page.                                 *)

Free == Rendered(panel) /\ dialog = NULL /\ ~conflict

ScrubTo(instant) ==
  /\ Free /\ scrubAt # instant
  /\ scrubAt' = instant
  /\ panel' = [panel EXCEPT !["historical"] = Loading("historical")]
  /\ requests' = Outdated({"historical"}, Unaborted({"historical"}))
                   \cup {Request("historical", instant, "effect")}
  /\ Cardinality(requests') <= MaxRequests
  /\ UNCHANGED <<recorded, dialog, form, commands, conflict, stream, notes, asked, own>>

(* The query is disabled: its run is aborted, but not outdated.            *)
ReturnToLive ==
  /\ Free /\ scrubAt # NULL
  /\ scrubAt' = NULL
  /\ panel' = [panel EXCEPT !["historical"] = Idle]
  /\ requests' = Unaborted({"historical"})
  /\ UNCHANGED <<recorded, dialog, form, commands, conflict, stream, notes, asked, own>>

OpenDialog ==
  /\ Free /\ scrubAt = NULL
  /\ \E open \in {"amend", "archival"} : Show(panel, open, commands)
  /\ UNCHANGED <<recorded, requests, scrubAt, conflict, stream, notes, asked, own>>

CloseDialog ==
  /\ Rendered(panel) /\ dialog # NULL /\ ~conflict
  /\ Show(panel, NULL, commands)
  /\ UNCHANGED <<recorded, requests, scrubAt, conflict, stream, notes, asked, own>>

(* A form sends the version expected, filled in from the version seen,     *)
(* unless its previous command is still under way.                         *)
Send(f, seen, expected) ==
  /\ Rendered(panel) /\ ~conflict /\ expected # NULL
  /\ \A c \in commands : c.form # f \/ ~c.held
  /\ commands' = commands \cup {[form |-> f, expected |-> expected, seen |-> seen,
                                 held |-> TRUE, outcome |-> "sent"]}
  /\ Cardinality(commands') <= MaxCommands
  /\ UNCHANGED <<recorded, panel, requests, scrubAt, dialog, form, conflict, stream, notes,
                 asked, own>>

(* The fields that differ from the shipment as the page now has it.        *)
SubmitAmendment == dialog = "amend" /\ Send("amend", form, panel["shipment"].data)

SubmitArchival ==
  /\ dialog = "archival"
  /\ Send("archival", panel["shipment"].data, panel["shipment"].data)

SubmitReading ==
  /\ dialog = NULL /\ scrubAt = NULL
  /\ Send("reading", panel["shipment"].data, panel["shipment"].data)

(* Saving the plan, confirming a stage or extending one: the draft is      *)
(* seeded again whenever the schedule's version changes.                   *)
SubmitSchedule ==
  /\ dialog = NULL /\ scrubAt = NULL
  /\ Send("plan", panel["schedule"].data, panel["schedule"].data)

-----------------------------------------------------------------------------
(* Commands.                                                               *)

(* The server decides; an error is its refusal, or the failure of the call *)
(* on its way there or back.                                               *)
Execute(c) ==
  /\ c.outcome = "sent"
  /\ \E outcome \in {"accepted", "conflict", "error"}, done \in BOOLEAN :
       /\ done => /\ outcome \in {"accepted", "error"}
                  /\ c.expected = recorded /\ recorded < MaxVersion
       /\ outcome = "accepted" => done
       /\ outcome = "conflict" => c.expected # recorded
       /\ commands' = (commands \ {c}) \cup {[c EXCEPT !.outcome = outcome]}
       /\ recorded' = IF done THEN recorded + 1 ELSE recorded
       /\ notes' = IF done THEN notes + 1 ELSE notes
  /\ UNCHANGED <<panel, requests, scrubAt, dialog, form, conflict, stream, asked, own>>

(* Mutant: a success is reported and nothing asked again.                  *)
SucceedQuietly(c) ==
  /\ c.outcome = "accepted"
  /\ conflict' = FALSE
  /\ own' = c.expected + 1
  /\ Show(panel, IF c.form \in {"amend", "archival"} THEN NULL ELSE dialog, commands \ {c})
  /\ UNCHANGED <<recorded, requests, scrubAt, stream, notes, asked>>

Succeed(c) ==
  /\ c.outcome = "accepted"
  /\ conflict' = FALSE
  /\ own' = c.expected + 1
  /\ RefreshShowing(IF c.form \in {"amend", "archival"} THEN NULL ELSE dialog, commands \ {c})
  /\ UNCHANGED <<recorded, scrubAt, stream, notes>>

(* A conflict closes the dialog it came from; other errors stay in the     *)
(* form, if it is still there.                                             *)
Fail(c) ==
  /\ c.outcome \in {"conflict", "error"}
  /\ conflict' = (conflict \/ c.outcome = "conflict")
  /\ Show(panel, IF c.outcome = "conflict" /\ c.form \in {"amend", "archival"} THEN NULL
                 ELSE dialog, commands \ {c})
  /\ UNCHANGED <<recorded, requests, scrubAt, stream, notes, asked, own>>

Reload ==
  /\ conflict /\ Rendered(panel)
  /\ conflict' = FALSE
  /\ RefreshShowing(dialog, commands)
  /\ UNCHANGED <<recorded, scrubAt, stream, notes, own>>

DismissConflict ==
  /\ conflict /\ Rendered(panel)
  /\ conflict' = FALSE
  /\ UNCHANGED <<recorded, panel, requests, scrubAt, dialog, form, commands, stream, notes,
                 asked, own>>

-----------------------------------------------------------------------------
(* Others, and the stream.                                                 *)

RecordElsewhere ==
  /\ recorded < MaxVersion
  /\ recorded' = recorded + 1 /\ notes' = notes + 1
  /\ UNCHANGED <<panel, requests, scrubAt, dialog, form, commands, conflict, stream, asked, own>>

Notify ==
  /\ notes > 0 /\ stream.status = "open"
  /\ notes' = notes - 1
  /\ conflict' = FALSE
  /\ RefreshShowing(dialog, commands)
  /\ UNCHANGED <<recorded, scrubAt, stream, own>>

(* The event is announced while the page does not listen.                  *)
MissNotification ==
  /\ notes > 0 /\ stream.status # "open"
  /\ notes' = notes - 1
  /\ UNCHANGED <<recorded, panel, requests, scrubAt, dialog, form, commands, conflict, stream,
                 asked, own>>

Stream(new) ==
  /\ stream' = new
  /\ UNCHANGED <<recorded, panel, requests, scrubAt, dialog, form, commands, conflict, notes,
                 asked, own>>

Connected == stream.status = "connecting" /\ Stream([status |-> "open", attempts |-> 0])

Broken ==
  /\ stream.status \in {"connecting", "open"}
  /\ Stream([status |-> IF stream.attempts + 1 > MaxAttempts THEN "given up" ELSE "waiting",
             attempts |-> stream.attempts + 1])

Reconnect == stream.status = "waiting" /\ Stream([stream EXCEPT !.status = "connecting"])

-----------------------------------------------------------------------------
AnswerAny == \E r \in requests : Answer(r)
DeliverAny == \E r \in requests : Deliver(r)
ScrubAny == \E instant \in Instants : ScrubTo(instant)
ExecuteAny == \E c \in commands : Execute(c)
SucceedAny == \E c \in commands : Succeed(c)
FailAny == \E c \in commands : Fail(c)

Next ==
  \/ AnswerAny \/ DeliverAny \/ Retry
  \/ ScrubAny \/ ReturnToLive \/ OpenDialog \/ CloseDialog
  \/ SubmitAmendment \/ SubmitArchival \/ SubmitReading \/ SubmitSchedule
  \/ ExecuteAny \/ SucceedAny \/ FailAny \/ Reload \/ DismissConflict
  \/ RecordElsewhere \/ Notify \/ MissNotification
  \/ Connected \/ Broken \/ Reconnect

Safe == Init /\ [][Next]_pageVars

(* Answers and notifications arrive in the end; users and others may stop. *)
Fairness ==
  /\ \A q \in Queries :
       /\ WF_pageVars(\E r \in requests : r.query = q /\ r.newest /\ Answer(r))
       /\ WF_pageVars(\E r \in requests : r.query = q /\ r.newest /\ Deliver(r))
  /\ WF_pageVars(\E r \in requests : ~r.newest /\ (Answer(r) \/ Deliver(r)))

Spec == Safe /\ Fairness

-----------------------------------------------------------------------------
(* Properties.                                                             *)

(* "A slow early response can land after a fast later one and paint a state*)
(* the user has already moved past": a query that shows its data as        *)
(* loaded shows the instant under the scrubber, or a version at least as   *)
(* new as the one recorded when the page was last told to refresh.         *)
ShownIsAsked ==
  \A q \in Queries : panel[q].status = "success" =>
    IF q = "historical" THEN panel[q].data = scrubAt ELSE panel[q].data >= asked

(* A command the server would accept was written by someone looking at the *)
(* very version it extends: however often the page refreshed under an open *)
(* form, fields filled in from an older version are never sent as changes  *)
(* to a newer one.                                                         *)
NoBlindOverwrite ==
  \A c \in commands : c.expected = recorded => c.seen = c.expected

(* After a command succeeded, the page shows a version with it, or says    *)
(* that it cannot.                                                         *)
OwnCommandShown ==
  \A v \in 1 .. MaxVersion :
    (own = v) ~> \/ panel["shipment"].status = "error"
                 \/ panel["shipment"].data # NULL /\ panel["shipment"].data >= v
==============================================================================
