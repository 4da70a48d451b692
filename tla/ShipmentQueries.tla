-------------------------- MODULE ShipmentQueries --------------------------
(***************************************************************************)
(* The read side over the ledger: the worker's documents, which lag behind *)
(* the streams, and one query at a time whose database calls are separate  *)
(* steps, so that events are recorded and documents written between them.  *)
(* Queries change nothing and do not see each other, so one suffices.      *)
(***************************************************************************)
EXTENDS Ledger, ShipmentReport

CONSTANTS
  PageSize,     \* most documents one page may hold
  MaxEvents     \* bound on the number of events of all streams

ASSUME QueriesAssumption == PageSize \in Nat \ {0} /\ MaxEvents \in Nat

VARIABLES
  document,     \* the stored documents, by shipment
  now,          \* the current instant
  query         \* the query being answered, with what it has read so far

queryVars == <<log, document, now, query>>

NoQuery == [kind |-> "none"]

QueriesInit ==
  /\ Init
  /\ document = <<>>
  /\ now \in Times
  /\ query = NoQuery

Today == DayOf(now)

Listed == DOMAIN document

StoredVersion(a) == IF a \in Listed THEN document[a].version ELSE 0

RecordedEvents == FoldFunctionOnSet(LAMBDA stream, n : Len(stream) + n, 0, log, Aggregates)

-----------------------------------------------------------------------------
(* The surroundings.                                                       *)

(* An event is dated by the client, or now; it may not lie in the future.  *)
Datable == {at \in Times : at <= now}

RecordEvent ==
  /\ RecordedEvents < MaxEvents
  /\ \E a \in Aggregates, c \in Commands, at \in Datable : Record(a, c, at)
  /\ UNCHANGED <<document, now, query>>

(* The worker applies the next event of a shipment to its document, or     *)
(* several after a gap; each time it starts from the document alone.       *)
Project ==
  /\ \E a \in Aggregates : \E v \in StoredVersion(a) + 1 .. Len(log[a]) :
       LET base == IF a \in Listed THEN StateFrom(document[a]) ELSE InitialShipment
           new  == SubSeq(log[a], StoredVersion(a) + 1, v)
       IN  document' = [b \in Listed \cup {a} |->
             IF b = a THEN Document(ReplayFrom(base, new), Today) ELSE document[b]]
  /\ UNCHANGED <<log, now, query>>

Tick ==
  /\ \E t \in Times : now < t /\ now' = t
  /\ UNCHANGED <<log, document, query>>

-----------------------------------------------------------------------------
(* The hash chain.  A hash determines what it was computed from, the link  *)
(* included, so the sequence of all bodies so far stands for it.           *)

Genesis == <<>>

ComputeHash(event, previous) == Append(previous, event)

Chained(events) ==
  [i \in DOMAIN events |->
     [event    |-> events[i],
      previous |-> SubSeq(events, 1, i - 1),
      hash     |-> SubSeq(events, 1, i)]]

(* Mutant: the stored hashes are compared with each other only.            *)
IntactLinks(stored) ==
  \A i \in DOMAIN stored :
    /\ stored[i].event.version = (IF i = 1 THEN 1 ELSE stored[i - 1].event.version + 1)
    /\ stored[i].previous = (IF i = 1 THEN Genesis ELSE stored[i - 1].hash)

(* What verifyChain finds nothing wrong with: versions that follow one     *)
(* another, links to the hash stored before, and hashes that can be        *)
(* computed again.                                                         *)
Intact(stored) ==
  \A i \in DOMAIN stored :
    LET previous == IF i = 1 THEN Genesis ELSE stored[i - 1].hash
    IN  /\ stored[i].event.version = (IF i = 1 THEN 1 ELSE stored[i - 1].event.version + 1)
        /\ stored[i].previous = previous
        /\ stored[i].hash = ComputeHash(stored[i].event, previous)

-----------------------------------------------------------------------------
(* One shipment: GET /shipment/:id.  The document, the version of the      *)
(* stream and the verdict on its chain are read in parallel.  (The verdict *)
(* does not depend on when it is read: TamperingIsNoticed.)  `since' is the*)
(* version recorded when the query arrived; the code does not know it.     *)

StartGet ==
  /\ query = NoQuery
  /\ \E a \in Aggregates :
       query' = [kind |-> "get", agg |-> a, since |-> Len(log[a]),
                 unread |-> {"document", "version"}, found |-> NULL, stored |-> 0]
  /\ UNCHANGED <<log, document, now>>

Found(a) == IF a \in Listed THEN document[a] ELSE NULL

Reading(kind, part) == query.kind = kind /\ part \in query.unread

ReadDocument ==
  /\ Reading("get", "document")
  /\ query' = [query EXCEPT !.unread = @ \ {"document"}, !.found = Found(query.agg)]
  /\ UNCHANGED <<log, document, now>>

ReadStreamVersion ==
  /\ Reading("get", "version")
  /\ query' = [query EXCEPT !.unread = @ \ {"version"}, !.stored = Len(log[query.agg])]
  /\ UNCHANGED <<log, document, now>>

Damaged(a) == ~Intact(Chained(log[a]))

NotFound == query' = [kind |-> "notFound", agg |-> query.agg, since |-> query.since]

Reply(answer) ==
  query' = [kind |-> "reply", agg |-> query.agg, since |-> query.since,
            at |-> now, answer |-> answer]

UpToDate == query.found # NULL /\ query.found.version = query.stored

(* The document is served when it is as new as the stream was.             *)
ServeDocument ==
  /\ query.kind = "get" /\ query.unread = {}
  /\ query.stored > 0 /\ UpToDate
  /\ Reply(Served(query.found, now, Damaged(query.agg)))
  /\ UNCHANGED <<log, document, now>>

(* Otherwise the stream is read, a further call, and replayed.             *)
ServeReplay ==
  /\ query.kind = "get" /\ query.unread = {}
  /\ query.stored > 0 /\ ~UpToDate
  /\ Reply(Served(Document(Replay(log[query.agg]), Today), now, Damaged(query.agg)))
  /\ UNCHANGED <<log, document, now>>

ServeNotFound ==
  /\ query.kind = "get" /\ query.unread = {} /\ query.stored = 0
  /\ NotFound
  /\ UNCHANGED <<log, document, now>>

-----------------------------------------------------------------------------
(* Queries that begin with the stream: its events are read first, and of a *)
(* shipment that has none there is nothing to tell.                        *)

Read(kind, a) ==
  /\ query = NoQuery
  /\ query' = [kind |-> kind, agg |-> a, since |-> Len(log[a]), stream |-> log[a]]
  /\ UNCHANGED <<log, document, now>>

StartReconcile == \E a \in Aggregates : Read("reconcile", a)

StartExport == \E a \in Aggregates : Read("export", a)

AnswerNotFound ==
  /\ query.kind \in {"reconcile", "export"} /\ query.stream = <<>>
  /\ NotFound
  /\ UNCHANGED <<log, document, now>>

(* The drift report of one shipment: then the document is read, which may  *)
(* be older or newer than the events that were, or written on another day: *)
(* all of it is reported.                                                  *)
Reconcile ==
  /\ query.kind = "reconcile" /\ query.stream # <<>>
  /\ LET d == Found(query.agg)
     IN  query' = [kind |-> "drift", agg |-> query.agg,
                   differing |-> IF d = NULL THEN {"*"}
                     ELSE Differences(Document(Replay(query.stream), Today), d)]
  /\ UNCHANGED <<log, document, now>>

(* The report to be printed: then the chain is verified, over the stream as*)
(* it is by then.  `records' is what the report says it was replayed from. *)
Export ==
  /\ query.kind = "export" /\ query.stream # <<>>
  /\ query' = [kind |-> "exported", agg |-> query.agg, since |-> query.since,
                report |-> Report(query.stream, Today),
                intact |-> ~Damaged(query.agg), records |-> Len(log[query.agg])]
  /\ UNCHANGED <<log, document, now>>

-----------------------------------------------------------------------------
(* The dashboard figures are computed over the whole read model, read page *)
(* by page, newest event first.  The order of documents whose last events  *)
(* carry the same instant is the database's choice, page by page.  The     *)
(* documents and their number are two calls in parallel.                   *)

Orders(shipments) ==
  {order \in [1 .. Cardinality(shipments) -> shipments] :
     \A i, j \in DOMAIN order : i < j =>
       /\ order[i] # order[j]
       /\ document[order[i]].lastEventAt >= document[order[j]].lastEventAt}

PageOf(order, page) ==
  SubSeq(order, (page - 1) * PageSize + 1,
         IF page * PageSize < Len(order) THEN page * PageSize ELSE Len(order))

Views == {"active", "archived", "all"}

InView(a, view) == view = "all" \/ document[a].archived = (view = "archived")

(* A page of the list is one read; each entry is brought up to date as the *)
(* document of a single shipment is.                                       *)
ListShipments ==
  /\ query = NoQuery
  /\ \E view \in Views :
       \E order \in Orders({a \in Listed : InView(a, view)}), page \in 1 .. Cardinality(Listed) :
         LET items == PageOf(order, page)
         IN  query' = [kind |-> "list", at |-> now,
                       items |-> [i \in DOMAIN items |->
                         [agg |-> items[i], answer |-> Served(document[items[i]], now, FALSE)]]]
  /\ UNCHANGED <<log, document, now>>

StartMetrics ==
  /\ query = NoQuery
  /\ query' = [kind |-> "metrics", page |-> 1, counted |-> 0, total |-> 0, empty |-> FALSE,
               unread |-> {"items", "total"}, since |-> Cardinality(Listed)]
  /\ UNCHANGED <<log, document, now>>

ReadItems ==
  /\ Reading("metrics", "items")
  /\ \E order \in Orders(Listed) :
       LET items == PageOf(order, query.page)
       IN  query' = [query EXCEPT !.unread = @ \ {"items"}, !.counted = @ + Len(items),
                                  !.empty = items = <<>>]
  /\ UNCHANGED <<log, document, now>>

ReadTotal ==
  /\ Reading("metrics", "total")
  /\ query' = [query EXCEPT !.unread = @ \ {"total"}, !.total = Cardinality(Listed)]
  /\ UNCHANGED <<log, document, now>>

(* Mutant: the first page is taken for all of them.                        *)
LastPageFirst == TRUE

(* No further page: this one was empty, everything was counted, or it was  *)
(* the last.                                                               *)
LastPage ==
  query.empty \/ query.counted >= query.total \/ query.page * PageSize >= query.total

NextPage ==
  /\ query.kind = "metrics" /\ query.unread = {}
  /\ query' = IF LastPage
                THEN [kind |-> "figures", counted |-> query.counted, since |-> query.since]
                ELSE [query EXCEPT !.page = @ + 1, !.unread = {"items", "total"}]
  /\ UNCHANGED <<log, document, now>>

(* The client has the answer.                                              *)
Forget ==
  /\ query.kind \in {"reply", "notFound", "drift", "exported", "list", "figures"}
  /\ query' = NoQuery
  /\ UNCHANGED <<log, document, now>>

-----------------------------------------------------------------------------
GetShipment ==
  \/ StartGet \/ ReadDocument \/ ReadStreamVersion
  \/ ServeDocument \/ ServeReplay \/ ServeNotFound

ReconcileOne == StartReconcile \/ AnswerNotFound \/ Reconcile

ExportHistory == StartExport \/ Export

DashboardMetrics == StartMetrics \/ ReadItems \/ ReadTotal \/ NextPage

QueriesNext ==
  \/ RecordEvent \/ Project \/ Tick
  \/ GetShipment \/ ReconcileOne \/ ExportHistory
  \/ ListShipments \/ DashboardMetrics \/ Forget

QueriesSpec == QueriesInit /\ [][QueriesNext]_queryVars

-----------------------------------------------------------------------------
(* History: the scrubber's query, one read and a fold.                     *)

(* The ends of the scrubber, sent with the events.                         *)
EventBounds(events) == [first |-> Head(events).at, last |-> Last(events).at]

StateAt(events, instant) ==
  LET included == EventsUntil(events, instant)
  IN  IF included = <<>> THEN [boundary |-> "BEFORE_FIRST_EVENT", current |-> FALSE,
                               state |-> NULL]
      ELSE [boundary |-> IF instant >= Last(events).at THEN "AT_OR_AFTER_LAST_EVENT"
                         ELSE IF \E i \in DOMAIN included : included[i].at = instant
                           THEN "EXACTLY_ON_EVENT" ELSE "BETWEEN_EVENTS",
            current |-> Len(included) = Len(events),
            state |-> Replay(included)]

-----------------------------------------------------------------------------
(* Properties.                                                             *)

(* The document of a shipment, folded one piece at a time through what the *)
(* document itself keeps, and brought up to date when it is served, says   *)
(* what a replay of as many events says: on no day does it matter when, in *)
(* how many steps or on which days it was written.                         *)
DocumentIsReplay ==
  \A a \in Listed :
    /\ document[a].version <= Len(log[a])
    /\ \A today \in {DayOf(t) : t \in Times} :
         Live(document[a], today)
           = Document(Replay(SubSeq(log[a], 1, document[a].version)), today)

(* What a query says of a shipment: a state it was in, seen with the       *)
(* schedule and the risk of the instant of the answer.                     *)
TellsVersion(a, answer, instant) ==
  /\ answer.shipment.version <= Len(log[a])
  /\ LET s == Replay(SubSeq(log[a], 1, answer.shipment.version))
         d == Document(s, DayOf(instant))
     IN  answer = [shipment |-> d, risk |-> Risk(d, instant, FALSE)]

(* Read your writes: the reply to a GET shows every event that had been    *)
(* recorded when it was asked, never a mixture of two states, judged by    *)
(* the time of the answer; "not found" means that nothing had been         *)
(* recorded.  The entries of a list may be older, but are judged alike.  A *)
(* printed report lists what had been recorded when it was asked for, and  *)
(* its verdict covers everything it lists.                                 *)
ReplyIsCurrent ==
  /\ query.kind = "reply" =>
       /\ query.since <= query.answer.shipment.version
       /\ TellsVersion(query.agg, query.answer, query.at)
  /\ query.kind = "notFound" => query.since = 0
  /\ query.kind = "list" =>
       \A i \in DOMAIN query.items :
         TellsVersion(query.items[i].agg, query.items[i].answer, query.at)
  /\ query.kind = "exported" =>
       /\ query.since <= query.report.version
       /\ query.report.version <= query.records /\ query.intact

(* The headline figure is a number of shipments the read model held at     *)
(* some moment between the question and the answer, whatever was moved     *)
(* between pages meanwhile: "a true total that only ever grows".           *)
TotalIsTrue ==
  query.kind = "figures" =>
    query.since <= query.counted /\ query.counted <= Cardinality(Listed)

(* The scrubber's answers are coherent: the label at-or-after-the-last     *)
(* event is given exactly when every event was applied, and then the state *)
(* shown is the current one, as it is at the far end of the scrubber.      *)
BoundaryIsTold(events) ==
  \A instant \in Times :
    LET reply == StateAt(events, instant)
    IN  /\ instant = EventBounds(events).last => reply.current
        /\ reply.boundary = "AT_OR_AFTER_LAST_EVENT" <=> reply.current
        /\ reply.current => reply.state = Replay(events)
        /\ reply.boundary = "BEFORE_FIRST_EVENT" <=> instant < EventBounds(events).first

(* The chart drawn beside the scrubber is of the same instant: as many     *)
(* breaches, the same latest reading, a marker for each stage confirmed.   *)
ChartAgrees(events) ==
  \A instant \in Times :
    LET chart == Chart(events, instant)
        reply == StateAt(events, instant)
        s     == reply.state
    IN  IF reply.boundary = "BEFORE_FIRST_EVENT"
          THEN chart.readings = <<>> /\ chart.markers = <<>>
        ELSE /\ chart.summary.alerts = s.breaches
             /\ s.latest = (IF chart.readings = <<>> THEN NULL
                            ELSE Last(chart.readings).payload.value)
             /\ Len(chart.markers) = 1 + Cardinality({t \in Stages : s.confirmed[t] # NULL})

(* The date a reader of the report arrives at who starts from a plan and   *)
(* follows the lines of the first n changes: where the last line of the    *)
(* stage ends.                                                             *)
FollowedDate(plan, changes, n, stage) ==
  LET lines(i) == {shift \in changes[i].shifts : shift.stage = stage}
      moving   == {i \in 1 .. n : lines(i) # {}}
  IN  IF moving = {} THEN plan[stage].date
      ELSE (CHOOSE shift \in lines(Max(moving)) : TRUE).to

(* "Stage-by-stage before/after": each line of the report starts where the *)
(* lines before it left the stage, beginning with the plan made first; an  *)
(* extension moves by the days it books, and the last line ends at the     *)
(* date in force.                                                          *)
LinesJoinUp(events) ==
  LET s       == Replay(events)
      changes == ScheduleChanges(events)
  IN  \A i \in DOMAIN changes :
        /\ \A shift \in changes[i].shifts :
             /\ shift.from = FollowedDate(s.originalPlan, changes, i - 1, shift.stage)
             /\ changes[i].by # NULL => shift.to - shift.from = changes[i].by
        /\ i = Len(changes) => \A stage \in Stages :
             FollowedDate(s.originalPlan, changes, i, stage) = s.plan[stage].date

(* The dashboard's figures add up: every shipment is in one bucket, and the*)
(* breaches are those the reports list.                                    *)
FiguresAddUp ==
  LET recorded == {a \in Aggregates : log[a] # <<>>}
      figures  == Metrics([a \in recorded |-> Replay(log[a])])
      reports  == [a \in recorded |-> Report(log[a], Today)]
  IN  /\ figures.total = figures.byState["CREATED"] + figures.byState["IN_TRANSIT"]
                          + figures.byState["AT_PORT"] + figures.byState["UNLOADED"]
      /\ figures.breaches = SumFunction([a \in recorded |-> reports[a].figures.alerts])

(* Chart, scrubber, report and dashboard go over the events each in its    *)
(* own way and do not contradict one another.  (Queries leave the events   *)
(* alone: looking between them is enough, here and below.)                 *)
ViewsAgree ==
  query = NoQuery =>
    /\ \A a \in Aggregates : log[a] # <<>> =>
         BoundaryIsTold(log[a]) /\ ChartAgrees(log[a]) /\ LinesJoinUp(log[a])
    /\ FiguresAddUp

(* The chain as the write path leaves it verifies; an event changed in a   *)
(* hashed field, one removed with events after it, one repeated, or two    *)
(* exchanged do not; nor does an event that is not the last when it was    *)
(* changed together with its hash.                                         *)
TamperingIsNoticed ==
  query = NoQuery => \A a \in Aggregates :
    LET stored == Chained(log[a])
        late(i) == [log[a][i] EXCEPT !.at = @ + 1]
    IN  /\ Intact(stored)
        /\ \A i \in DOMAIN stored :
             /\ ~Intact([stored EXCEPT ![i].event = late(i)])
             /\ i < Len(stored) =>
                  /\ ~Intact(RemoveAt(stored, i))
                  /\ ~Intact([stored EXCEPT ![i].event = late(i),
                                ![i].hash = ComputeHash(late(i), stored[i].previous)])
             /\ ~Intact(InsertAt(stored, i, stored[i]))
             /\ \A j \in 1 .. i - 1 :
                  ~Intact([stored EXCEPT ![i] = stored[j], ![j] = stored[i]])
=============================================================================
