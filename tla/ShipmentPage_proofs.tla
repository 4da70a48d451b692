------------------------- MODULE ShipmentPage_proofs -------------------------
(***************************************************************************)
(* What a page shows is what it last asked for, and what it sends was      *)
(* filled in from the very version it names, in whatever order answers,    *)
(* notifications and clicks come.                                          *)
(*                                                                         *)
(* The argument: of each query one request counts, the newest, and it was  *)
(* sent after the page was last told to refresh, for the instant under the *)
(* scrubber; so an answer that is shown is new enough.  While the shipment *)
(* is asked for again nothing of it is shown, so its form is unmounted and *)
(* later filled in afresh: a mounted form always has the version shown.    *)
(***************************************************************************)
EXTENDS ShipmentPage, TLAPS

RequestAttributes == {"query", "at", "by", "newest", "reply"}

CommandAttributes == {"form", "expected", "seen", "held", "outcome"}

(* What a request that counts is good for.                                 *)
RequestOK(r) ==
  /\ DOMAIN r = RequestAttributes /\ r.query \in Queries
  /\ r.query = "historical" => r.by = "effect" /\ (r.newest => r.at = scrubAt)
  /\ r.query \in Refreshed /\ r.newest /\ r.reply \notin {NULL, Failed} =>
       r.reply \in Nat /\ r.reply >= asked
  /\ r.query = "shipment" /\ r.newest => panel["shipment"].data = NULL

OneNewest ==
  \A r, s \in requests : r.query = s.query /\ r.newest /\ s.newest => r = s

RequestsOK == (\A r \in requests : RequestOK(r)) /\ OneNewest

PanelOK ==
  /\ DOMAIN panel = Queries
  /\ \A q \in Queries : DOMAIN panel[q] = {"status", "data"}
  /\ \A q \in Refreshed : panel[q].status = "success" => panel[q].data \in Nat
  /\ ShownIsAsked

(* A mounted form was filled in from the version shown.                    *)
FormOK ==
  form = IF dialog = "amend" /\ Rendered(panel) THEN panel["shipment"].data ELSE NULL

WellSeen(sent) ==
  \A c \in sent : DOMAIN c = CommandAttributes /\ c.seen = c.expected

VersionsOK == recorded \in Nat /\ asked \in Nat /\ asked <= recorded

PageInv == VersionsOK /\ RequestsOK /\ PanelOK /\ FormOK /\ WellSeen(commands)

-----------------------------------------------------------------------------
(* The operators the actions are built from.                               *)

(* Only a request of another query still counts, and it is the same one.   *)
LEMMA OutdatedFacts ==
  ASSUME NEW qs, NEW rs, \A r \in rs : RequestOK(r), NEW s \in Outdated(qs, rs)
  PROVE  \E r \in rs : /\ DOMAIN s = RequestAttributes /\ s.query = r.query /\ s.by = r.by
                       /\ s.newest => s = r /\ r.query \notin qs
<1>1. PICK r \in rs : s = IF r.query \in qs THEN [r EXCEPT !.newest = FALSE] ELSE r
  BY DEF Outdated
<1>2. DOMAIN r = RequestAttributes
  BY DEF RequestOK
<1>3. CASE r.query \in qs
  <2>1. s = [r EXCEPT !.newest = FALSE]
    BY <1>1, <1>3
  <2>2. DOMAIN s = RequestAttributes /\ s.query = r.query /\ s.by = r.by /\ s.newest = FALSE
    BY <1>2, <2>1 DEF RequestAttributes
  <2>. QED
    BY <2>2
<1>4. CASE r.query \notin qs
  BY <1>1, <1>2, <1>4
<1>. QED
  BY <1>3, <1>4

LEMMA HeldFacts ==
  ASSUME NEW panels, NEW sent, WellSeen(sent)
  PROVE  WellSeen(HeldIn(panels, sent))
<1>. SUFFICES ASSUME NEW d \in HeldIn(panels, sent)
              PROVE  DOMAIN d = CommandAttributes /\ d.seen = d.expected
  BY DEF WellSeen
<1>1. PICK c \in sent : d = IF Rendered(panels) \/ c.form = "archival" THEN c
                            ELSE [c EXCEPT !.held = FALSE]
  BY DEF HeldIn
<1>2. DOMAIN c = CommandAttributes /\ c.seen = c.expected
  BY DEF WellSeen
<1>3. d = c \/ d = [c EXCEPT !.held = FALSE]
  BY <1>1
<1>4. CASE d = [c EXCEPT !.held = FALSE]
  BY <1>2, <1>4 DEF CommandAttributes
<1>. QED
  BY <1>2, <1>3, <1>4

(* What is shown next leaves a mounted form with the version shown, if the *)
(* shipment shown is the same, is gone, or was not there before.           *)
LEMMA FormFollows ==
  ASSUME FormOK, NEW panels, NEW open, NEW sent, Show(panels, open, sent),
         \/ panels["shipment"] = panel["shipment"]
         \/ panels["shipment"].data = NULL
         \/ panel["shipment"].data = NULL
  PROVE  FormOK'
<1>1. panel' = panels /\ dialog' = open /\ form' = FormIn(panels, open)
  BY DEF Show
<1>2. CASE open # "amend" \/ ~Rendered(panels)
  BY <1>1, <1>2 DEF FormIn, FormOK, Rendered
<1>3. CASE open = "amend" /\ Rendered(panels)
  <2>1. form' = IF form = NULL THEN panels["shipment"].data ELSE form
    BY <1>1, <1>3 DEF FormIn
  <2>2. form # NULL => form = panels["shipment"].data
    BY <1>3 DEF FormOK, Rendered
  <2>3. form' = panels["shipment"].data
    BY <2>1, <2>2
  <2>. QED
    BY <1>1, <1>3, <2>3 DEF FormOK, Rendered
<1>. QED
  BY <1>2, <1>3

-----------------------------------------------------------------------------
(* Asking again.                                                           *)

LEMMA RefreshStep ==
  ASSUME PageInv, NEW open, NEW sent, WellSeen(sent), RefreshShowing(open, sent),
         recorded' = recorded, scrubAt' = scrubAt
  PROVE  PageInv'
<1>. DEFINE panels == [q \in Queries |-> IF q \in Refreshed THEN Loading(q) ELSE panel[q]]
            others == Unaborted(Refreshed)
            asking == {Request(q, NULL, "effect") : q \in Refreshed}
<1>0. /\ VersionsOK /\ RequestsOK /\ PanelOK /\ FormOK
      /\ asked' = recorded /\ panel' = panels /\ commands' = HeldIn(panels, sent)
      /\ Show(panels, open, sent)
      /\ requests' = Outdated(Refreshed, others) \cup asking
  BY DEF PageInv, RefreshShowing, Show
<1>1. VersionsOK'
  BY <1>0 DEF VersionsOK
<1>2. WellSeen(commands')
  BY <1>0, HeldFacts
<1>3. /\ panels["shipment"] = [status |-> "loading", data |-> NULL]
      /\ panels["schedule"] = [status |-> "loading", data |-> panel["schedule"].data]
      /\ panels["historical"] = panel["historical"] /\ DOMAIN panels = Queries
  BY DEF Queries, Refreshed, Loading, Keeps
<1>. HIDE DEF panels
<1>4. PanelOK'
  <2>1. ASSUME NEW q \in Refreshed
        PROVE  DOMAIN panels[q] = {"status", "data"} /\ panels[q].status = "loading"
    BY <1>3 DEF Refreshed
  <2>2. ASSUME NEW q \in Queries
        PROVE  /\ DOMAIN panels[q] = {"status", "data"}
               /\ panels[q].status = "success" =>
                    q = "historical" /\ panels[q].data = scrubAt
    BY <1>0, <1>3, <2>1 DEF PanelOK, ShownIsAsked, Queries, Refreshed
  <2>. QED
    BY <1>0, <1>3, <2>1, <2>2 DEF PanelOK, ShownIsAsked, Queries, Refreshed
<1>5. FormOK'
  BY <1>0, <1>3, FormFollows
<1>6. ASSUME NEW s \in requests'
      PROVE  /\ RequestOK(s)'
             /\ s.newest => s \in asking \/ (s \in requests /\ s.query \notin Refreshed)
  <2>1. CASE s \in asking
    <3>1. PICK q \in Refreshed : s = Request(q, NULL, "effect")
      BY <2>1
    <3>2. q \in Queries /\ q # "historical"
      BY DEF Queries, Refreshed
    <3>3. /\ DOMAIN Request(q, NULL, "effect") = RequestAttributes
          /\ Request(q, NULL, "effect").query = q
          /\ Request(q, NULL, "effect").reply = NULL
      BY DEF Request, RequestAttributes
    <3>4. DOMAIN s = RequestAttributes /\ s.query = q /\ s.reply = NULL
      BY <3>1, <3>3
    <3>. QED
      BY <1>0, <1>3, <2>1, <3>2, <3>4 DEF RequestOK
  <2>2. CASE s \in Outdated(Refreshed, others)
    <3>1. others \subseteq requests /\ \A r \in others : RequestOK(r)
      BY <1>0 DEF RequestsOK, Unaborted
    <3>2. PICK r \in others : /\ DOMAIN s = RequestAttributes
                              /\ s.query = r.query /\ s.by = r.by
                              /\ s.newest => s = r /\ r.query \notin Refreshed
      <4>. HIDE DEF others
      <4>. QED
        BY <2>2, <3>1, OutdatedFacts
    <3>3. RequestOK(r) /\ r \in requests
      BY <3>1
    <3>. HIDE DEF others
    <3>4. RequestOK(s)'
      BY <1>0, <3>2, <3>3 DEF RequestOK, Refreshed
    <3>. QED
      BY <3>2, <3>3, <3>4
  <2>. QED
    BY <1>0, <2>1, <2>2
<1>7. ASSUME NEW r \in asking
      PROVE  r.query \in Refreshed /\ r = Request(r.query, NULL, "effect")
  <2>1. PICK q \in Refreshed : r = Request(q, NULL, "effect")
    BY <1>7
  <2>2. Request(q, NULL, "effect").query = q
    BY DEF Request, RequestAttributes
  <2>. QED
    BY <2>1, <2>2
<1>. HIDE DEF asking
<1>8. OneNewest'
  <2>. SUFFICES ASSUME NEW r \in requests', NEW s \in requests', r.query = s.query,
                       r.newest, s.newest
                PROVE  r = s
    BY DEF OneNewest
  <2>1. CASE r \in asking
    BY <1>6, <1>7, <2>1
  <2>2. CASE r \notin asking
    <3>1. r \in requests /\ s \in requests
      BY <1>6, <1>7, <2>2
    <3>. QED
      BY <1>0, <3>1 DEF RequestsOK, OneNewest
  <2>. QED
    BY <2>1, <2>2
<1>9. RequestsOK'
  BY <1>6, <1>8 DEF RequestsOK
<1>. QED
  BY <1>1, <1>2, <1>4, <1>5, <1>9 DEF PageInv

(* One query asks again: by hand, or for another instant.                  *)
LEMMA AskStep ==
  ASSUME PageInv, NEW q \in {"shipment", "historical"}, NEW others \in SUBSET requests,
         NEW at, NEW by, q = "historical" => by = "effect" /\ at = scrubAt',
         panel' = [panel EXCEPT ![q] = Loading(q)],
         requests' = Outdated({q}, others) \cup {Request(q, at, by)},
         recorded' = recorded, asked' = asked,
         scrubAt' = scrubAt \/ q = "historical"
  PROVE  VersionsOK' /\ RequestsOK' /\ PanelOK'
<1>. DEFINE asking == Request(q, at, by)
<1>0. VersionsOK /\ RequestsOK /\ PanelOK
  BY DEF PageInv
<1>1. VersionsOK'
  BY <1>0 DEF VersionsOK
<1>2. /\ DOMAIN panel' = Queries /\ q \in Queries
      /\ DOMAIN panel'[q] = {"status", "data"} /\ panel'[q].status = "loading"
      /\ q = "shipment" => panel'[q].data = NULL
      /\ \A p \in Queries \ {q} : panel'[p] = panel[p]
  BY <1>0 DEF PanelOK, Queries, Refreshed, Loading, Keeps
<1>3. PanelOK'
  <2>1. ASSUME NEW p \in Queries
        PROVE  /\ DOMAIN panel'[p] = {"status", "data"}
               /\ panel'[p].status = "success" =>
                    /\ p # q
                    /\ p \in Refreshed => panel'[p].data \in Nat
                    /\ IF p = "historical" THEN panel'[p].data = scrubAt
                       ELSE panel'[p].data >= asked
    BY <1>0, <1>2 DEF PanelOK, ShownIsAsked
  <2>2. Refreshed \subseteq Queries
    BY DEF Queries
  <2>. QED
    BY <1>2, <2>1, <2>2 DEF PanelOK, ShownIsAsked
<1>4. /\ DOMAIN asking = RequestAttributes /\ asking.query = q /\ asking.at = at
      /\ asking.by = by /\ asking.reply = NULL
  BY DEF Request, RequestAttributes
<1>. HIDE DEF asking
<1>5. ASSUME NEW s \in requests'
      PROVE  /\ RequestOK(s)'
             /\ s.newest => s = asking \/ (s \in requests /\ s.query # q)
  <2>1. CASE s = asking
    BY <1>2, <1>4, <2>1 DEF RequestOK
  <2>2. CASE s \in Outdated({q}, others)
    <3>1. \A r \in others : RequestOK(r)
      BY <1>0 DEF RequestsOK
    <3>2. PICK r \in others : /\ DOMAIN s = RequestAttributes
                              /\ s.query = r.query /\ s.by = r.by
                              /\ s.newest => s = r /\ r.query \notin {q}
      BY <2>2, <3>1, OutdatedFacts
    <3>3. RequestOK(r) /\ r \in requests
      BY <3>1
    <3>4. RequestOK(s)'
      BY <1>0, <1>2, <3>2, <3>3 DEF RequestOK, Queries, Refreshed
    <3>. QED
      BY <3>2, <3>3, <3>4
  <2>. QED
    BY <2>1, <2>2 DEF asking
<1>6. OneNewest'
  <2>. SUFFICES ASSUME NEW r \in requests', NEW s \in requests', r.query = s.query,
                       r.newest, s.newest
                PROVE  r = s
    BY DEF OneNewest
  <2>. QED
    BY <1>0, <1>4, <1>5 DEF RequestsOK, OneNewest
<1>. QED
  BY <1>1, <1>3, <1>5, <1>6 DEF RequestsOK

LEMMA RetryStep ==
  ASSUME PageInv, Retry
  PROVE  PageInv'
<1>1. VersionsOK' /\ RequestsOK' /\ PanelOK'
  BY AskStep DEF Retry, Show
<1>2. FormOK'
  <2>1. [panel EXCEPT !["shipment"] = Loading("shipment")]["shipment"].data = NULL
    BY DEF PageInv, PanelOK, Queries, Refreshed, Loading, Keeps
  <2>. QED
    BY <2>1, FormFollows DEF PageInv, Retry
<1>3. WellSeen(commands')
  BY HeldFacts DEF PageInv, Retry, Show
<1>. QED
  BY <1>1, <1>2, <1>3 DEF PageInv

LEMMA ScrubStep ==
  ASSUME PageInv, NEW instant \in Instants, ScrubTo(instant)
  PROVE  PageInv'
<1>1. VersionsOK' /\ RequestsOK' /\ PanelOK'
  <2>1. Unaborted({"historical"}) \in SUBSET requests
    BY DEF Unaborted
  <2>. QED
    BY <2>1, AskStep DEF ScrubTo
<1>2. panel'["shipment"] = panel["shipment"]
  BY DEF PageInv, PanelOK, Queries, Refreshed, ScrubTo
<1>3. FormOK' /\ WellSeen(commands')
  BY <1>2 DEF PageInv, ScrubTo, FormOK, Rendered
<1>. QED
  BY <1>1, <1>3 DEF PageInv

LEMMA LiveStep ==
  ASSUME PageInv, ReturnToLive
  PROVE  PageInv'
<1>0. /\ VersionsOK /\ RequestsOK /\ PanelOK /\ FormOK /\ WellSeen(commands)
      /\ scrubAt' = NULL /\ panel' = [panel EXCEPT !["historical"] = Idle]
      /\ requests' = Unaborted({"historical"})
      /\ UNCHANGED <<recorded, dialog, form, commands, asked>>
  BY DEF PageInv, ReturnToLive
<1>1. /\ DOMAIN panel' = Queries /\ DOMAIN panel'["historical"] = {"status", "data"}
      /\ panel'["historical"].status = "idle"
      /\ \A p \in Refreshed : panel'[p] = panel[p]
  BY <1>0 DEF PanelOK, Queries, Refreshed, Idle
<1>2. PanelOK'
  BY <1>0, <1>1 DEF PanelOK, ShownIsAsked, Queries, Refreshed
<1>3. ASSUME NEW r \in requests'
      PROVE  r \in requests /\ RequestOK(r)'
  <2>1. r \in requests /\ r.query # "historical"
    BY <1>0 DEF RequestsOK, RequestOK, Unaborted
  <2>. QED
    BY <1>0, <1>1, <2>1 DEF RequestsOK, RequestOK, Refreshed
<1>4. RequestsOK'
  BY <1>0, <1>3 DEF RequestsOK, OneNewest
<1>5. VersionsOK' /\ FormOK' /\ WellSeen(commands')
  BY <1>0, <1>1 DEF VersionsOK, FormOK, Rendered, Refreshed
<1>. QED
  BY <1>2, <1>4, <1>5 DEF PageInv

-----------------------------------------------------------------------------
(* Answers.                                                                *)

LEMMA AnswerStep ==
  ASSUME PageInv, NEW r \in requests, Answer(r)
  PROVE  PageInv'
<1>1. PICK reply \in {IF r.query = "historical" THEN 1 ELSE recorded, Failed} :
        requests' = (requests \ {r}) \cup {[r EXCEPT !.reply = reply]}
  BY DEF Answer
<1>. DEFINE s == [r EXCEPT !.reply = reply]
<1>2. RequestOK(r) /\ DOMAIN r = RequestAttributes /\ VersionsOK
  BY DEF PageInv, RequestsOK, RequestOK
<1>3. /\ DOMAIN s = RequestAttributes /\ s.query = r.query /\ s.by = r.by /\ s.at = r.at
      /\ s.newest = r.newest /\ s.reply = reply
  BY <1>2 DEF RequestAttributes
<1>. HIDE DEF s
<1>4. /\ UNCHANGED <<recorded, panel, scrubAt, dialog, form, commands, asked>>
      /\ requests' = (requests \ {r}) \cup {s}
  BY <1>1 DEF Answer, s
<1>5. RequestOK(s)'
  <2>1. s.query \in Refreshed /\ s.reply # Failed => s.reply \in Nat /\ s.reply >= asked
    BY <1>1, <1>2, <1>3 DEF VersionsOK, Refreshed
  <2>. QED
    BY <1>2, <1>3, <1>4, <2>1 DEF RequestOK
<1>6. \A t \in requests : RequestOK(t)'
  BY <1>4 DEF PageInv, RequestsOK, RequestOK
<1>7. OneNewest'
  BY <1>3, <1>4 DEF PageInv, RequestsOK, OneNewest
<1>8. RequestsOK'
  BY <1>4, <1>5, <1>6, <1>7 DEF RequestsOK
<1>. QED
  BY <1>4, <1>8 DEF PageInv, VersionsOK, PanelOK, ShownIsAsked, FormOK, Rendered

(* Only the newest request's answer changes what is shown, and it is the   *)
(* one asked for last.                                                     *)
LEMMA DeliverStep ==
  ASSUME PageInv, NEW r \in requests, Deliver(r)
  PROVE  PageInv'
<1>. DEFINE q == r.query
            shown == IF ~Current(r) THEN panel[q]
                     ELSE IF r.reply = Failed THEN [status |-> "error", data |-> NULL]
                     ELSE [status |-> "success",
                           data |-> IF r.query = "historical" THEN r.at ELSE r.reply]
            panels == [panel EXCEPT ![q] = shown]
<1>0. /\ VersionsOK /\ RequestsOK /\ PanelOK /\ FormOK /\ WellSeen(commands)
      /\ RequestOK(r) /\ q \in Queries /\ r.reply # NULL /\ DOMAIN panel = Queries
  BY DEF PageInv, RequestsOK, RequestOK, PanelOK, Deliver
<1>1. /\ Show(panels, dialog, commands) /\ requests' = requests \ {r}
      /\ UNCHANGED <<recorded, scrubAt, asked>>
  BY DEF Deliver
<1>2. panel' = panels /\ commands' = HeldIn(panels, commands)
  BY <1>1 DEF Show
<1>3. /\ DOMAIN shown = {"status", "data"}
      /\ shown.status = "success" =>
           /\ q \in Refreshed => shown.data \in Nat
           /\ IF q = "historical" THEN shown.data = scrubAt ELSE shown.data >= asked
      /\ ~r.newest => shown = panel[q]
  <2>1. CASE ~r.newest
    <3>1. shown = panel[q]
      BY <2>1 DEF Current
    <3>. HIDE DEF shown
    <3>. QED
      BY <1>0, <3>1 DEF PanelOK, ShownIsAsked
  <2>2. CASE r.newest
    <3>1. CASE r.reply = Failed
      <4>1. shown = [status |-> "error", data |-> NULL]
        BY <2>2, <3>1 DEF Current
      <4>. QED
        BY <2>2, <4>1
    <3>2. CASE r.reply # Failed
      <4>1. shown = [status |-> "success",
                     data |-> IF r.query = "historical" THEN r.at ELSE r.reply]
        BY <2>2, <3>2 DEF Current
      <4>2. shown.status = "success" /\ DOMAIN shown = {"status", "data"}
            /\ shown.data = IF r.query = "historical" THEN r.at ELSE r.reply
        BY <4>1
      <4>. HIDE DEF shown
      <4>. QED
        BY <1>0, <2>2, <3>2, <4>2 DEF RequestOK, Queries, Refreshed
    <3>. QED
      BY <3>1, <3>2
  <2>. QED
    BY <2>1, <2>2
<1>. HIDE DEF shown
<1>4. DOMAIN panels = Queries /\ panels[q] = shown
      /\ \A p \in Queries \ {q} : panels[p] = panel[p]
  BY <1>0
<1>. HIDE DEF panels
<1>5. PanelOK'
  <2>1. ASSUME NEW p \in Queries
        PROVE  /\ DOMAIN panels[p] = {"status", "data"}
               /\ panels[p].status = "success" =>
                    /\ p \in Refreshed => panels[p].data \in Nat
                    /\ IF p = "historical" THEN panels[p].data = scrubAt
                       ELSE panels[p].data >= asked
    <3>1. CASE p = q
      BY <1>3, <1>4, <3>1
    <3>2. CASE p # q
      <4>1. panels[p] = panel[p]
        BY <1>4, <3>2
      <4>. HIDE DEF q
      <4>. QED
        BY <1>0, <4>1 DEF PanelOK, ShownIsAsked
    <3>. QED
      BY <3>1, <3>2
  <2>2. Refreshed \subseteq Queries
    BY DEF Queries
  <2>. QED
    BY <1>1, <1>2, <1>4, <2>1, <2>2 DEF PanelOK, ShownIsAsked
<1>6. FormOK'
  <2>1. "shipment" \in Queries
    BY DEF Queries, Refreshed
  <2>2. \/ panels["shipment"] = panel["shipment"]
        \/ panel["shipment"].data = NULL
    BY <1>0, <1>3, <1>4, <2>1 DEF RequestOK
  <2>. QED
    BY <1>0, <1>1, <2>2, FormFollows
<1>7. RequestsOK'
  <2>1. OneNewest'
    BY <1>0, <1>1 DEF RequestsOK, OneNewest
  <2>2. ASSUME NEW s \in requests'
        PROVE  RequestOK(s)'
    <3>1. s \in requests /\ s # r /\ RequestOK(s)
      BY <1>0, <1>1 DEF RequestsOK
    <3>2. s.query = "shipment" /\ s.newest => panels["shipment"].data = NULL
      <4>. SUFFICES ASSUME s.query = "shipment", s.newest
                    PROVE  panels["shipment"].data = NULL
        OBVIOUS
      <4>1. panel["shipment"].data = NULL
        BY <3>1 DEF RequestOK
      <4>2. q # "shipment" \/ ~r.newest
        BY <1>0, <3>1 DEF RequestsOK, OneNewest
      <4>3. "shipment" \in Queries
        BY DEF Queries, Refreshed
      <4>4. panels["shipment"] = panel["shipment"]
        BY <1>3, <1>4, <4>2, <4>3
      <4>. QED
        BY <4>1, <4>4
    <3>. QED
      BY <1>1, <1>2, <3>1, <3>2 DEF RequestOK
  <2>. QED
    BY <2>1, <2>2 DEF RequestsOK
<1>8. WellSeen(commands')
  BY <1>0, <1>2, HeldFacts
<1>. QED
  BY <1>0, <1>1, <1>5, <1>6, <1>7, <1>8 DEF PageInv, VersionsOK

-----------------------------------------------------------------------------
(* The user and the commands.                                              *)

(* What is shown stays, whichever dialog is asked for.                     *)
LEMMA DialogStep ==
  ASSUME PageInv, NEW open, NEW sent \in SUBSET commands, Show(panel, open, sent),
         UNCHANGED <<recorded, requests, scrubAt, asked>>
  PROVE  PageInv'
<1>1. panel' = panel /\ commands' = HeldIn(panel, sent)
  BY DEF Show
<1>2. FormOK'
  BY FormFollows DEF PageInv
<1>3. WellSeen(commands')
  <2>1. WellSeen(sent)
    BY DEF PageInv, WellSeen
  <2>. QED
    BY <1>1, <2>1, HeldFacts
<1>4. VersionsOK' /\ RequestsOK' /\ PanelOK'
  BY <1>1 DEF PageInv, VersionsOK, RequestsOK, RequestOK, OneNewest, PanelOK, ShownIsAsked
<1>. QED
  BY <1>2, <1>3, <1>4 DEF PageInv

(* A command names the version its fields were filled in from.             *)
LEMMA SendStep ==
  ASSUME PageInv, NEW f, NEW version, Send(f, version, version)
  PROVE  PageInv'
<1>1. commands' = commands \cup {[form |-> f, expected |-> version, seen |-> version,
                                  held |-> TRUE, outcome |-> "sent"]}
      /\ UNCHANGED <<recorded, panel, requests, scrubAt, dialog, form, asked>>
  BY DEF Send
<1>2. WellSeen(commands')
  BY <1>1 DEF PageInv, WellSeen, CommandAttributes
<1>. QED
  BY <1>1, <1>2 DEF PageInv, VersionsOK, RequestsOK, RequestOK, OneNewest, PanelOK,
                    ShownIsAsked, FormOK, Rendered

LEMMA SubmitStep ==
  ASSUME PageInv, SubmitAmendment \/ SubmitArchival \/ SubmitReading \/ SubmitSchedule
  PROVE  PageInv'
<1>1. CASE SubmitAmendment
  <2>1. form = panel["shipment"].data
    BY <1>1 DEF SubmitAmendment, Send, PageInv, FormOK
  <2>. QED
    BY <1>1, <2>1, SendStep DEF SubmitAmendment
<1>. QED
  BY <1>1, SendStep DEF SubmitArchival, SubmitReading, SubmitSchedule

LEMMA ExecuteStep ==
  ASSUME PageInv, NEW c \in commands, Execute(c)
  PROVE  PageInv'
<1>1. PICK outcome \in {"accepted", "conflict", "error"} :
        commands' = (commands \ {c}) \cup {[c EXCEPT !.outcome = outcome]}
  BY DEF Execute
<1>2. recorded' \in {recorded, recorded + 1}
      /\ UNCHANGED <<panel, requests, scrubAt, dialog, form, asked>>
  BY DEF Execute
<1>3. WellSeen(commands')
  <2>. DEFINE d == [c EXCEPT !.outcome = outcome]
  <2>1. DOMAIN d = CommandAttributes /\ d.seen = d.expected
    BY DEF PageInv, WellSeen, CommandAttributes
  <2>. HIDE DEF d
  <2>. QED
    BY <1>1, <2>1 DEF PageInv, WellSeen, d
<1>4. VersionsOK'
  BY <1>2 DEF PageInv, VersionsOK
<1>. QED
  BY <1>2, <1>3, <1>4 DEF PageInv, RequestsOK, RequestOK, OneNewest, PanelOK, ShownIsAsked,
                          FormOK, Rendered

LEMMA RefreshingStep ==
  ASSUME PageInv, SucceedAny \/ Reload \/ Notify
  PROVE  PageInv'
<1>1. ASSUME NEW c \in commands, Succeed(c)
      PROVE  PageInv'
  <2>1. WellSeen(commands \ {c})
    BY DEF PageInv, WellSeen
  <2>2. PICK open : RefreshShowing(open, commands \ {c})
    BY <1>1 DEF Succeed
  <2>. QED
    BY <1>1, <2>1, <2>2, RefreshStep DEF Succeed
<1>2. CASE Reload \/ Notify
  BY <1>2, RefreshStep DEF Reload, Notify, PageInv
<1>. QED
  BY <1>1, <1>2 DEF SucceedAny

LEMMA ShowingStep ==
  ASSUME PageInv, OpenDialog \/ CloseDialog \/ FailAny
  PROVE  PageInv'
<1>1. CASE OpenDialog \/ CloseDialog
  BY <1>1, DialogStep DEF OpenDialog, CloseDialog
<1>2. ASSUME NEW c \in commands, Fail(c)
      PROVE  PageInv'
  <2>1. PICK open : Show(panel, open, commands \ {c})
    BY <1>2 DEF Fail
  <2>2. commands \ {c} \in SUBSET commands
    OBVIOUS
  <2>. QED
    BY <1>2, <2>1, <2>2, DialogStep DEF Fail
<1>. QED
  BY <1>1, <1>2 DEF FailAny

(* Steps that touch nothing the invariant is about but the version.        *)
LEMMA BesideStep ==
  ASSUME PageInv, recorded' \in {recorded, recorded + 1},
         UNCHANGED <<panel, requests, scrubAt, dialog, form, commands, asked>>
  PROVE  PageInv'
<1>1. VersionsOK'
  BY DEF PageInv, VersionsOK
<1>. QED
  BY <1>1 DEF PageInv, RequestsOK, RequestOK, OneNewest, PanelOK, ShownIsAsked, FormOK, Rendered

-----------------------------------------------------------------------------
(* The theorems.                                                           *)

LEMMA PageInvInit ==
  ASSUME Init
  PROVE  PageInv
<1>1. /\ panel["shipment"] = [status |-> "loading", data |-> NULL]
      /\ panel["schedule"] = [status |-> "loading", data |-> NULL]
      /\ panel["historical"] = [status |-> "idle", data |-> NULL]
      /\ DOMAIN panel = Queries
  BY DEF Init, Idle, Queries, Refreshed
<1>2. PanelOK
  BY <1>1 DEF PanelOK, ShownIsAsked, Queries, Refreshed
<1>3. ASSUME NEW r \in requests
      PROVE  r.query \in Refreshed /\ r = Request(r.query, NULL, "effect") /\ RequestOK(r)
  <2>1. PICK q \in Refreshed : r = Request(q, NULL, "effect")
    BY DEF Init
  <2>2. /\ DOMAIN r = RequestAttributes /\ r.query = q /\ r.reply = NULL
        /\ q \in Queries /\ q # "historical"
    BY <2>1 DEF Request, RequestAttributes, Queries, Refreshed
  <2>. QED
    BY <1>1, <2>1, <2>2 DEF RequestOK
<1>4. RequestsOK
  BY <1>3 DEF RequestsOK, OneNewest
<1>5. VersionsOK /\ FormOK /\ WellSeen(commands)
  BY <1>1 DEF Init, VersionsOK, FormOK, Rendered, WellSeen
<1>. QED
  BY <1>2, <1>4, <1>5 DEF PageInv

LEMMA PageInvNext ==
  ASSUME PageInv, [Next]_pageVars
  PROVE  PageInv'
<1>1. CASE AnswerAny \/ DeliverAny \/ Retry
  BY <1>1, AnswerStep, DeliverStep, RetryStep DEF AnswerAny, DeliverAny
<1>2. CASE ScrubAny \/ ReturnToLive
  BY <1>2, ScrubStep, LiveStep DEF ScrubAny
<1>3. CASE OpenDialog \/ CloseDialog \/ FailAny
  BY <1>3, ShowingStep
<1>4. CASE SubmitAmendment \/ SubmitArchival \/ SubmitReading \/ SubmitSchedule
  BY <1>4, SubmitStep
<1>5. CASE ExecuteAny
  BY <1>5, ExecuteStep DEF ExecuteAny
<1>6. CASE SucceedAny \/ Reload \/ Notify
  BY <1>6, RefreshingStep
<1>7. CASE \/ DismissConflict \/ RecordElsewhere \/ MissNotification
           \/ Connected \/ Broken \/ Reconnect \/ UNCHANGED pageVars
  BY <1>7, BesideStep DEF DismissConflict, RecordElsewhere, MissNotification, Connected, Broken,
                          Reconnect, Stream, pageVars
<1>. QED
  BY <1>1, <1>2, <1>3, <1>4, <1>5, <1>6, <1>7 DEF Next

(* The inductive invariant of the page.                                    *)
THEOREM PageInvariance == Spec => []PageInv
<1>1. Init => PageInv
  BY PageInvInit
<1>2. PageInv /\ [Next]_pageVars => PageInv'
  BY PageInvNext
<1>. QED
  BY <1>1, <1>2, PTL DEF Spec, Safe

(* What is shown as loaded is for the instant under the scrubber, or at    *)
(* least as new as when the page was last told to refresh.                 *)
THEOREM PageShowsWhatItAsked == Spec => []ShownIsAsked
<1>1. PageInv => ShownIsAsked
  BY DEF PageInv, PanelOK
<1>. QED
  BY <1>1, PageInvariance, PTL

(* Fields filled in from an older version are never sent as changes to a   *)
(* newer one.                                                              *)
THEOREM NothingIsOverwrittenBlindly == Spec => []NoBlindOverwrite
<1>1. PageInv => NoBlindOverwrite
  BY DEF PageInv, WellSeen, NoBlindOverwrite
<1>. QED
  BY <1>1, PageInvariance, PTL
==============================================================================
