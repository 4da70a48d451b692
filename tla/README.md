# Verification of the audit trail

TLA+ models of `src/audit-trail`: an event-sourced ledger of shipments with a
command side (aggregate, command service, event store), a query side
(projection worker, read model, queries, reports, rebuild script), an automatic
temperature monitor, accounts and sessions, and a browser client. TLC checks
the models on small instances. TLAPS proves, for every number of requests,
clients, workers, processes, shipments and commands, the domain rules, that the
concurrent write path implements an atomic ledger and so keeps them, and the
safety of everything that is read from that ledger, of the worker and the
rebuild, of the temperature monitor, of the allocation of identifiers, of the
accounts and of the client's pages.
`PROJECT.json` lists the runs, the properties, the mutant that each property
must notice, the source lines every definition stands for, the hazards and the
findings.

Paths below are relative to `src/audit-trail/backend/src`, and those of the
client (`.jsx`, hooks) to `src/audit-trail/frontend/src`, unless they say
otherwise.

## 1. The system

| Part | State it keeps | Operations | Talks to |
|---|---|---|---|
| Shipment domain (`domain/shipment`) | none; the state of a shipment is the fold of its events | one method per command, the reducer, the schedule policy | called by the command service and the worker |
| Command service (`application/services/shipmentCommandService.js`) | none between requests | load, existence, expected version, chronology, decide, append | event store |
| Event store (`infrastructure/eventStore`) | `events` with two unique indexes, the `counters` document of the global sequence | append, reads by version, instant and sequence, chain verification | database |
| Projection worker (`workers/projectionWorker`) | the checkpoint, dead letters | poll, apply, heal a gap, retry, dead-letter, save the checkpoint | event store, read model, event bus |
| Read model (`infrastructure/readModel`, `infrastructure/projections`) | one document per shipment | save guarded by version, delete all, queries | database |
| Queries, reports, metrics, risk (`application/queries`, `domain/shipment/risk`) | none | GET, list, schedule, time travel, dashboard figures, exports | read model, event store |
| Reconciliation and rebuild (`application/services/reconciliationService.js`, `backend/scripts/rebuildReadModel.js`) | none | compare each document with a replay; destroy and rebuild | event store, read model, checkpoint |
| Event bus (`infrastructure/realtime`) | listeners of this process | publish, subscribe | worker, HTTP stream, temperature monitor |
| Temperature monitor, sensors (`application/services/temperatureMonitorService.js`, `infrastructure/sensors`) | timers and slots per monitored shipment | register, release, schedule, sweep, sample | command service, event bus |
| Identifier allocator (`infrastructure/identity`) | a counter document | allocate, synchronise with the streams | command service |
| Accounts (`application/services/authService.js`, `demoAccounts.js`) | users | register, sign in, verify a token, seed | HTTP interface, start-up |
| Start and shutdown (`server.js`, `app/bootstrap.js`) | none | synchronise, seed, listen, exit | all of the above |
| Client: session (`auth/AuthContext.jsx`) | the stored token, who is signed in | restore, adopt, sign out | HTTP interface |
| Client: shipment page (`pages/ShipmentPage.jsx`, `hooks`, `store`) | one resource per panel, refresh token, dialogs, stream | fetch, scrub, send commands, follow the stream | HTTP interface |
| Client: list of shipments and overviews (`pages/DashboardPage.jsx`, `components/StatusDashboard.jsx`, `layouts/AppLayout.jsx`) | the list, waits for the worker, the figures, the lag shown | poll, refresh, send commands | HTTP interface |
| Client: location form (`components/LocationFields.jsx`, `ShipmentFormDialog.jsx`) | a draft | three dependent lists, validation, changed fields | reference data, HTTP interface |

Node runs each handler on one thread, so a handler is atomic between two
awaits and interleaves with every other handler, and with other processes, at
each await. The browser is the same. Every step of the concurrent models ends
exactly there.

What is hard about it:

* **the append is five database calls** (`eventStoreRepository.js:86-151`):
  read the stream, read the version again, read the previous hash, take a
  sequence, insert. Only the unique indexes decide a race, and a failure at any
  call must leave nothing half done;
* **the sequence is not the order of visibility**: it is taken before the
  insert, and the worker's checkpoint is a sequence;
* **delivery to the read model is at least once**, with gaps, retries, dead
  letters, crashes between the write and the checkpoint, possibly two workers,
  and a rebuild that may run beside them;
* **a document is folded from what it keeps of itself**, not from the stream,
  and parts of it depend on the day it was written;
* **the domain rules interact**: plans, revisions, extensions and confirmations
  change the same dates; amendments change the temperature range that classifies
  readings; archival must stop all of it;
* **time travel filters by instant while replay requires versions 1, 2, 3...**,
  so instants must follow versions;
* **queries are several reads** of things that change between them;
* **the client** asks many questions at once, is told of changes by a stream
  that breaks, and sends commands from forms opened some time ago.

What makes each part correct: a shipment's folded state is consistent after any
legal sequence of commands; a stream is gapless, linked, ordered and decided on
exactly the events before each event; answers to clients are true; a projection
is always the fold of an exact prefix of its stream, nothing the checkpoint
passed is missing, and every event recorded in its order is eventually
projected; every query tells a state that was, as recent as when it was asked, and all views
agree; identifiers and names are given once; a client shows what it asked for,
acts as whom it shows, and overwrites nothing it has not seen.

## 2. Modules

```
ShipmentDomain ─EXTENDS─ Shipment
   │  └ ShipmentProjection ─┴─ ShipmentCalendar ─ MCShipment, Shipment_proofs
   │          └ ShipmentReport ─┐
   ├ Ledger ────────────────────┴─ ShipmentQueries ─ MCShipmentQueries,
   │    ↑ refines                    ShipmentQueries_proofs (INSTANCE Shipment_proofs)
   └ CommandService ─ MCCommandService,
                        CommandService_proofs (INSTANCE ShipmentQueries_proofs)
ProjectionWorker ──── MCProjectionWorker
   └ ReadModelRebuild ─ MCReadModelRebuild, ReadModelRebuild_proofs
TemperatureMonitor ── MCTemperatureMonitor, TemperatureMonitor_proofs
ShipmentIdAllocator
   └ ApiServer ──────── MCApiServer, ApiServer_proofs
ShipmentPage ──────── MCShipmentPage, ShipmentPage_proofs
LedgerServer
   └ ShipmentList ───── MCShipmentList, ShipmentList_proofs
LocationForm ──────── MCLocationForm
```

**ShipmentDomain** is the pure layer, with no variables. `Create`, `Move`,
`RecordTemperature`, `Amend`, `PlanSchedule`, `ReviseSchedule`,
`ExtendSchedule`, `Archive` and `Restore` are the methods of
`shipmentAggregate.js`; each yields the set of events the command may record,
which is empty where the method throws. `ApplyEvent` and `Replay` are the
reducer, `ValidPlannedDates`, `ExtendedPlan` and `ExtendedDays` the schedule
policy. An instant is an integer and a planned date is a day, `DayOf` being the
conversion the policy does. One free-text field (`origin`) stands for the
amendable ones, and a structured location is represented by the place it names.
The sets `CreateCommands`, `AmendCommands`, ... are what the validators let
through.

**Shipment** takes one shipment through any sequence of commands, one action
per command. Its single variable is the folded state. **ShipmentCalendar** asks
of each of these states what the schedule query answers and which dates the
planner (`LifecyclePlanner.jsx`) offers from it.

**Ledger** is the abstract specification of the write side: streams of events,
and one atomic step that decides a command on the fold of the whole stream and
appends the event.

**CommandService** is the write side as it runs. `task[r]` holds the local
variables of request `r`; its phases are the awaits of `#execute` and `append`:

| phase | next await | action |
|---|---|---|
| `idle` | `getEvents`, then everything up to `decide` | `Execute` |
| `appending` | `getCurrentVersion` | `ReadVersion` |
| `linking` | `findOne` of the previous hash | `ReadPreviousHash` |
| `sequencing` | `#nextSequence` | `TakeSequence` |
| `inserting` | `insertOne` | `Insert` |
| `rejected` | `getCurrentVersion` after E11000 | `ReportConflict` |
| `inserted` | the answer | `Reply` |

`Crash` ends a request at any of them: the process died or the call failed. A
request runs once; a client's retry is another request. Hashes are taken to be
collision free, so a link is the identity of the event it names.

**ProjectionWorker** has the phases of `runOnce`: load the checkpoint, fetch a
batch, and for each event find the document, heal a gap if there is one, look
for the stored version, write, and at the end save the checkpoint. A projection
is the list of versions folded into it, so folding one twice, out of order or
past a gap shows. The write side appears as what CommandService establishes of
it: a writer takes a sequence, and at a later step inserts or gives up.
`Writers` is the number of appends in progress at once, and `overtaken` remembers
the events that were inserted after one of a higher sequence. A call that fails
inside `#processEvent` is tried again (`FailAttempt`); any other call of the
iteration ends it (`FailIteration`, phase `recording`), and the failure is
recorded, by a call of its own that may fail as well. `RecordFailure` polls again;
`EndLoop` is the rejected promise of `#loop`, phase `stopped`. `Crash` ends the
process at any phase. A write of a call that failed may have been applied all the
same (`Unsure`). `Start` is a new process, or the same one with a new loop;
`Supervised` are the workers for which somebody sees to it: the process of
`worker.js` handles no rejection, so Node (22, `backend/Dockerfile:6`) ends it
with its loop, and `docker-compose.yml:60` has it started again, while
`server.js:73` logs the rejection and lives on without a loop.

**ReadModelRebuild** adds the rebuild script as one more process: list, delete
all, and per shipment read, look up and write, then move the checkpoint.

**ShipmentProjection** is what a document contains: `Document` is
`projectShipment` (`shipmentProjection.js`), `StateFrom` the conversion back
that the worker starts its next fold from, `Live` what a query refreshes,
`Summary` the schedule as every view shows it, `Differences` the comparison of
the drift report, `ScheduleReply` the schedule query with the bounds of each
stage. Days are passed in; nothing in it has a clock.

**ShipmentReport** holds the other ways in which the read side goes over a
stream: the sensor chart, the report behind PDF and CSV, the risk score, the
dashboard's figures.

**ShipmentQueries** puts a clock, a ledger, documents and one query at a time
together. Documents are a partial function of shipments. One is advanced by the
next event of its stream, or by several after a gap, each time from what it
keeps alone and on whatever day that happens. A query of a shipment that has no
events yet is answered with not-found. GET is its three parallel reads in any order and
the replay when the document is behind; the drift report and the export are two
reads each; the dashboard reads pages and totals separately. `Chained` and
`Intact` are the hash chain and its verification, with a hash taken as the
record of what it covers.

**TemperatureMonitor** is `temperatureMonitorService.js` in any number of
processes. `entry[p]` is the map `#monitored`, `timers[p]` the timers Node
really holds (an entry goes on naming a timer that has fired), `sampling[p]` is
`#inFlight` with the local variables of `sampleShipment`, `registering[p]` and
`sweep[p]` are the registrations and the sweep in progress. A sample goes
through `loaded` (the stream was read), `asking` (the sensor) and `answered`;
`Assess`, `Record` and `Continue` are the code after each of these awaits, so
every decision is taken on the prefix that was read while the stream goes on.
`Record` asks the sensor and the command service in one step: nothing of this
process depends on the order of other events between the two, and the version
check at the end of them decides. The command service appears as what
CommandService establishes of it: a reading is appended at the version it was
based on or refused. A process may stop or crash at any step and start again;
notifications arrive at any later time, any number of times, or never. Operators'
events are stamped with the time they are issued, and of a lifecycle only what
opens or closes the monitoring window is kept.

**ShipmentIdAllocator** has one creation per client and one synchronisation per
server process, one step per database call; an identifier is its number.
**ApiServer** composes it with the start of a process (synchronise, seed the
demo accounts, listen), the accounts, and the tabs: a tab restores its session,
signs in or registers, and creates shipments with what its token allows.
`tab[t]` is what `AuthContext` shows together with the stored token,
`restoring[t]` and `form[t]` are the requests under way; an answer is computed
in one step and adopted in a later one, so anything may happen between.

**ShipmentPage** is the page of one shipment. `panel[q]` is the state of
`useAsyncResource` for the shipment, its schedule and the historical state under
the scrubber, `requests` are the calls under way with whether each is the newest
of its resource, `commands` those of `useCommand`, each with the version it was
based on (`expected`) and the version its fields were filled in from (`seen`).
`Refresh` is the bump of the refresh token, by a success, a conflict's reload or
a notification. The server is its version number, and others record too.

**LedgerServer** is what the list sees of the server: events by their
sequence, projected in order or set aside, the checkpoint, and the two reads of
`GET /meta/worker` in their order. **ShipmentList** is the list of shipments
beside it: `list` and `requests` are `useAsyncResource` again, and `sync[s]` is
one run of `useLedgerSync`'s loop with its attempt and its status call; the
waits of several commands overlap as they do in the hook, which keeps one
`settling` for all. `promised` remembers what the ended waits were for.

**LocationForm** is one address of a shipment from the three dependent lists
through the form's validation to `resolveLocation`, and back into the form that
amends it. The catalogue is a constant.

MC modules give the constants values; the `_proofs` modules hold the proofs,
those of a module and of the modules it extends: the allocator's are in
`ApiServer_proofs`, the worker's in `ReadModelRebuild_proofs`, the ledger's in
`ShipmentQueries_proofs`.
Operators named as mutants are variants of a definition that a property must
notice; no specification uses them.

## 3. Runs

| Run | Checks | Shows |
|---|---|---|
| `shipment` | TypeOK, LifecycleOrder, PlanFitsWindow, OriginalsAgree, ConfirmedAgainstPlan, GrowthIsBooked, RangeIsWhole, CalendarIsSound, HistoryIsFrozen | the domain rules, in every order, keep the state of a shipment consistent and never rewrite a fact, and no date is offered that the policy refuses |
| `queries` | TimeTravelIsPrefix, DocumentIsReplay, ReplyIsCurrent, TotalIsTrue, ViewsAgree, TamperingIsNoticed | recorded history can be replayed at every instant; documents folded piecewise equal replays; queries tell what was, and agree |
| `command_race` | Gapless, NoLostUpdate, ChainLinked, SequenceFollowsVersion, AnswerIsTrue, ImplementsLedger | the concurrent write side is a correct optimistic-concurrency protocol and implements the atomic ledger |
| `worker` | CheckpointCovers, AnnouncedIsReadable, InOrderIsProjected | with one worker that is started again when its loop ends, the checkpoint passes over nothing but dead letters and overtaken events, and everything else is projected, through failing calls, failing records of a failure, and crashes |
| `rebuild` | ProjectionIsPrefix, TakenBackKnowingly | with two workers, overtaking appends and a running rebuild, documents are still exact prefixes, and only a write that found no document takes one back |
| `monitor` | TimersAreHeld, DueIsObserved, OutsideIsReleased | timers, sweep, notifications, stops, crashes and silent sensors in any order do not lose an observation, double a timer or leave one behind |
| `monitor_pair` | ObservationsAreSpaced, NothingAfterTheWindow | the same observation is not taken by two processes, nor recorded after a window that closed while it was taken |
| `page` | ShownIsAsked, NoBlindOverwrite, OwnCommandShown | late answers are dropped, a form never sends fields older than the version it names, and a command's effect comes to be shown |
| `api` | ConflictIsSupplied, OneAccount, IdentityShown, WritesAreByOperators | starts, seeds, registrations and creations race on unique names and a counter without giving one twice, and late answers never show one account and use another |
| `list` | SyncIsTrue | the page says that it synchronises only while it waits, and once a wait ended caught up the list reflects what it was for |
| `worker_overtaken`, `location_form` | one documented claim each | the claim does not hold of the code (section 6) |

Bounds and why they are enough:

* `shipment`: seven events, three instants on three days, three planned dates of
  which the last is beyond every window that was not extended, durations and
  extensions of one and two days. Seven events are creation, a plan, three
  confirmations, and an extension and a revision between any two of them; every
  rule relates at most two stages and one later event.
* `queries`: two shipments, four events in all beside a query, two instants on
  two days, one entry to a page. A plan, a revision, an
  extension, two confirmations, a reading outside the range and an archival each
  occur, in every order the rules allow; two documents are what can change
  places between two pages; and an event on both sides of every read is what
  there is to race with.
* `command_race`: three requests on two shipments. A race needs a winner and a
  loser, and a third request to create what they race on or to write after a
  failure; the second shipment shares only the sequence.
* `worker`: two shipments, two appends in progress, three sequence numbers,
  batches of two, so that a batch is full, partial and empty, two attempts per
  event, three failures: enough to exhaust the attempts of one event and to fail
  setting it aside, or to fail an iteration, the record of it and one call more.
* `rebuild`: two workers, two writers, three sequence numbers, one failure; the
  divergence of two workers needs one event each and one more, and the script
  has one before and one after each of its steps. Its `VIEW` leaves out what was
  announced and overtaken, which no step and neither property reads. Batches are of one event: what
  races is a write, and the theorems of section 4 are about every batch size.
* `monitor`: one shipment, since the code shares nothing between shipments but
  the order of a sweep; an interval of two over a clock of three, so that
  observations fall on 1 and 3 and a pass may find both due, as many as the limit
  of a pass allows: that the limit cuts a pass short does not happen; two events of
  operators, one of them creation; one failure, silent sensor or crash; one
  announced registration beside the resume.
* `monitor_pair`: two processes, an existing shipment and two events of
  operators, so that it may be archived and restored around a sample; readings
  taken up to one unit before they are recorded. One observation is due, which
  is what the two processes compete for.
* `page`: one version after the one loaded, two instants to scrub to, three
  requests under way, one own command beside others'. A stale answer needs an
  older and a newer request, and a stale form a version recorded while it is
  open.
* `api`: two processes and two starts, two tabs, one account restored and one
  seeded, numbers up to three, one stream restored with the database, two
  candidates per allocation, four things the tabs do and one failure, exit or
  expiry. Two registrations, or one and a seed, race on one name; two creations
  and a synchronisation race on the counter.
* `list`: two events, two waits of two polls each, three things the user does
  beside others' events, one event set aside or restart. Two commands whose
  waits overlap, beside a refresh, are what can disturb a list.
* `location_form`: a country with two states and two without any, one of them
  with no curated city; the whole state space is small.

Shipments, requests, tabs and processes are interchangeable, so safety runs use
symmetry; runs with a liveness property use none. `CHECK_DEADLOCK FALSE` is
given because a finite set of requests, sequence numbers or failures is
eventually used up.

**Fairness.** The worker's runs assume weak fairness of the steps of a loop that
has not ended (`Work`), of `Settle`, since an append in progress ends one way or
the other, and of the start of a process in `Supervised`, which is a fact about
the deployment and not about the code: `worker` and `worker_overtaken` are about
the service that `docker-compose.yml` describes. Recording a failure is such a
step, and may fail instead, after which nothing of the loop is fair any more.
With `Supervised = {}`, which is the worker inside the API's process, TLC finds
`InOrderIsProjected` violated (section 6). Nothing forces a new append, a failure
or a crash, and failures are finite (`MaxFailures`); under unbounded failures a
crash may recur forever. The monitor's run assumes weak fairness of the
sweep, since its loop sweeps again after every idle wait, and of the steps of a
sample, since each call it awaits is answered or fails. Nothing forces a timer
to fire, a notification to arrive, time to pass or a process to start, so its
liveness rests on the sweep alone, which is what the code's comments claim of
it. The page's runs assume that a request under way is answered, with an error
if need be, and its answer delivered (the newest of each resource and the older
ones apart, since they are separate calls). The stream need not deliver
anything: a command of one's own is shown without it. Nothing forces a user, another operator or a failure.

## 4. Proofs

### The domain rules

`Shipment_proofs` proves, for every set of commands, places, temperatures, dates
and instants allowed by `DomainAssumption`, `NullAssumption` (the absent value is
not a state, a plan or a confirmation) and `ShipmentAssumption` (commands are
what the validators let through, instants are integers):

| Theorem | Statement |
|---|---|
| `Invariance` | `Spec => []Inv` |
| `TypeCorrect` | `Spec => []TypeOK` |
| `StagesInOrder` | `Spec => []LifecycleOrder` |
| `PlanAlwaysFits` | `Spec => []PlanFitsWindow` |
| `OriginalsAlwaysAgree` | `Spec => []OriginalsAgree` |
| `ConfirmationsMatchPlan` | `Spec => []ConfirmedAgainstPlan` |
| `GrowthAlwaysBooked` | `Spec => []GrowthIsBooked` |
| `RangeAlwaysWhole` | `Spec => []RangeIsWhole` |
| `HistoryStaysFrozen` | `Spec => HistoryIsFrozen` |
| `CalendarOffersNothingRefused` | `Spec => []CalendarIsSound` |

`Inv` is the conjunction of the rules the run checks and of `Shape`: a shipment
that does not exist is the initial record, and one that does has integers for
its instants and durations and no confirmation later than its last event. The
rules need one another. A movement keeps `LifecycleOrder` because its required
state says which stages are confirmed and because the chronology check places it
after all of them (`Shape`). An extension keeps the order of the planned dates
only because the confirmed stages, which stay, come before the ones that move
(`LifecycleOrder`); it keeps `GrowthIsBooked` only because the last date was
inside the window before (`PlanFitsWindow`). A revision keeps the dates of
confirmed stages because the policy compares the proposal with the date recorded
in the confirmation and `ConfirmedAgainstPlan` says that it is the planned one;
the same fact gives `HistoryIsFrozen`. The `...Effect` lemmas read the aggregate
and the reducer together and say what each command does to the state, the
`...Preserves` lemmas do the arithmetic, and the `...Step` lemmas, one per
action, put them together.

`CalendarOffersNothingRefused` goes from a state to an answer: the bounds the
schedule query gives a stage, with the floor the planner adds, are compared with
the checks of the policy one stage at a time, for a first plan and for a
revision. What it needs of the state is that the recorded plan is ordered, fits
the window and agrees with the confirmations, and that the confirmed stages are
the first ones.

### The ledger and what is read from it

`ShipmentQueries_proofs` proves, for any commands, instants and number of
shipments allowed by `LedgerAssumption` and `QueriesAssumption`:

| Theorem | Statement |
|---|---|
| `LedgerInvariance` | `Spec => []Inv` (of Ledger) |
| `TimeTravelIsSound` | `Spec => []TimeTravelIsPrefix` |
| `StreamIsShipment` | `Spec => One!Spec`: what a stream folds to evolves as Shipment says |
| `StreamsKeepTheRules` | `Spec =>` every property of the `shipment` run, of `Replay(log[Aggregate])` |
| `QueriesInvariance` | `QueriesSpec => []QueriesInv` |
| `DocumentsAreReplays` | `QueriesSpec => []DocumentIsReplay` |
| `RepliesAreCurrent` | `QueriesSpec => []ReplyIsCurrent` |
| `TotalsAreTrue` | `QueriesSpec => []TotalIsTrue` |
| `ChainNoticesTampering` | `QueriesSpec => []TamperingIsNoticed` |
| `ViewsNeverContradict` | `QueriesSpec => []ViewsAgree` |

`Aggregate` is a constant that stands for any one shipment: the theorem is about
whichever it is.

*The fold.* The reducer is a recursive function over a stream. That it exists,
is unique, and that one event more is one application of the reducer
(`ReplayFromOneMore`) is proved by looking at a least counterexample.
From then on streams are handled one event at a time. `StreamOK` says that
versions count up from 1 and instants never go back, `FoldOK` that the folded
state carries the envelope of the last event, which is what makes the next
decision produce the next version.

*Time travel.* Instants follow versions, so the events at or before an instant
are the first k for some k, and those replay.

*Documents.* A document keeps less than the state it was written from: of the
confirmations only when and which, and those only when there is a plan. `Similar`
relates two states that a document cannot tell apart, and `Reached` says which
states a decided stream can leave: without a plan, nothing of one. Applying the
same decided events to two similar states leaves similar states, similar states
make the same document on the same day, and serving a document refreshes exactly
the parts that depend on the day. So a document written in any number of steps on
any days is served as a replay of a prefix of its stream would be.

*Queries.* A stream only grows (`Continues`), so what one of a query's reads has
seen is still a prefix when the others are done; `QueryOK` says of each kind of
query what its reads hold, relative to when it was asked. `ReplyIsCurrent`
follows because the branch that serves the document is taken only where the
document has caught up with the version read.

*The views.* Chart, report and dashboard do not read the folded state; they pick
events by type and count what they picked. What is picked grows as the stream
does, by the new event or not at all (`OfTypesGrows`). So each view can be
compared with the state after every event, as the replay was with the state
before: as many alerts as breaches, a marker for each stage behind the shipment
and one for its creation (`ChartOK`), and lines that lead from the plan made
first to the plan in force (`LinesOK`, where a new line starts at the plan it
replaces). The dashboard's buckets are disjoint and cover every recorded
shipment, of which there are finitely many however many identifiers exist
(`RecordedIsFinite`). The sum over the breaches is not evaluated: it is the same
function that is summed on both sides.

*The chain.* A link is the record of everything before it. A changed, removed,
repeated or exchanged record therefore shows at the first link that covers it.

### The write path

`CommandService_proofs` proves, for every value of the constants allowed by
`DomainAssumption` and `CommandServiceAssumption`:

| Theorem | Statement |
|---|---|
| `Invariance` | `Spec => []Inv` |
| `GaplessTheorem` | `Spec => []Gapless` |
| `ChainLinkedTheorem` | `Spec => []ChainLinked` |
| `SequenceTheorem` | `Spec => []SequenceFollowsVersion` |
| `AnswerTheorem` | `Spec => []AnswerIsTrue` |
| `NoLostUpdateTheorem` | `Spec => []NoLostUpdate` |
| `RefInvariance` | `Spec => []RefInv` |
| `ServiceIsLedger` | `Spec => ImplementsLedger` |
| `RulesSurviveConcurrency` | `Spec =>` every property of the `shipment` run, of the fold of a stored stream |
| `TimeTravelSurvivesConcurrency` | `Spec => []L!TimeTravelIsPrefix` |

None of the five properties is inductive. `Gapless` after an insert needs that the
request's version is the next one *now*, although it was compared several steps
before: the unique index rules out that the version is taken, and the invariant
adds that the version the request was decided on is still recorded, because
nothing is ever removed. `ChainLinked` needs that the link a request holds names
the event at that version, which stays true for the same reason.
`SequenceFollowsVersion` needs that a request takes its sequence after the event
before it was recorded, hence after that event's sequence. `AnswerIsTrue` needs
that a request has written exactly when its phase says so. `NoLostUpdate` needs
that a request that got past the checks was decided on the version its client
claimed. `Inv` is the conjunction of these facts. There is one lemma per action,
and one step per conjunct the action can disturb; `InsertIsNext` and
`StreamGrows` carry the argument above for the insert. `Decide` and `Replay`
stay unexpanded: nothing in the argument depends on what commands mean, only on
the shape of the event a decision yields.

`ServiceIsLedger` maps the collection of events to the ledger's streams: the
documents of a shipment ordered by version. Every step but `Insert` leaves them
as they are. For `Insert`, `RefInv` adds that the event a request holds was
decided on the first `base` events of its stream (at most the query limit of
them), which an append elsewhere in the stream does not change. The insert
succeeds only if the version is free, hence only if the stream still has just
those events, and then it is the ledger's step: a decision on the whole stream.
The query limit is a parameter. A request that read a truncated stream cannot
insert, because the version after its prefix is taken. So this is not lost on
streams longer than one query returns; they take no more events.

With it the domain's theorems carry over: the service implements the ledger, and
the fold of a ledger's stream is a behaviour of Shipment
(`ShipmentQueries_proofs`), so `RulesSurviveConcurrency` says of the stored
events, under every interleaving and crash, what `Shipment_proofs` says of one
shipment that handles its commands one by one.

### Identifiers, accounts and sessions

`ApiServer_proofs` proves, for any number of clients, processes, tabs, names and
streams allowed by `AllocatorAssumption` and `ApiAssumption`:

| Theorem | Statement |
|---|---|
| `AllocatorInvariance` | `AllocatorSpec => []AllocatorInv` |
| `AllocatedOnce` | `AllocatorSpec => []ConflictIsSupplied` |
| `ApiInvariance` | `Spec => []ApiInv` |
| `ServerIsAllocator` | `Spec => AllocatorSpec` |
| `ServerAllocatesOnce` | `Spec => []ConflictIsSupplied` |
| `AccountsAreUnique` | `Spec => []OneAccount` |
| `CreatorsAreOperators` | `Spec => []WritesAreByOperators` |
| `TabsShowTheirAccount` | `Spec => []IdentityShown` |

`ConflictIsSupplied` says that a creation whose identifier is found taken lost
to a number some client chose itself. It is not inductive: a synchronisation may
lift the counter, and a creation be recorded, between the steps of another one.
`HandedOutOnce` says that a number handed out is never ahead of the counter, that
no two creations hold the same one, and that none is held under which an
allocated stream is recorded; the counter only grows, so that stays true.
`ServerIsAllocator` shows that starts, stops, registrations and sign-ins are
steps or stutters of the allocator, which carries its theorem over. Accounts are
only added and never share a name, so what a name stands for, and its role, is stable; that
makes the role a token carries the role of the stored account
(`WritesAreByOperators`) however late the token is used. `IdentityShown` is not
inductive: what a tab may show depends on what it waits for, and `TabOK` relates
the two through every answer that may still arrive.

### The read model

`ReadModelRebuild_proofs` proves, for any number of workers and appends in
progress, every batch size, number of attempts, failures and crashes allowed by
`ProjectionAssumption`:

| Theorem | Statement |
|---|---|
| `WorkersInvariance` | `Spec => []PrefixInv` |
| `DocumentsArePrefixes` | `Spec => []ProjectionIsPrefix` |
| `AloneInvariance` | `OneWorker`: `Spec => []AloneInv` |
| `AnnouncedCanBeRead` | `OneWorker`: `Spec => []AnnouncedIsReadable` |
| `DocumentsOnlyGrow` | `OneWorker`: `Spec => [][DocumentsGrow]_vars` |
| `CheckpointInvariance` | `OneWorker`: `Spec => []CoverInv` |
| `CheckpointNeverPasses` | `OneWorker`: `Spec => []CheckpointCovers` |
| `RebuildInvariance` | `RebuildSpec => []RebuildInv` |
| `RebuiltDocumentsArePrefixes` | `RebuildSpec => []ProjectionIsPrefix` |
| `NothingIsTakenBackBlindly` | `RebuildSpec => TakenBackKnowingly` |

A document is looked up, folded and written in separate steps, and the write may
come arbitrarily late. `PrefixInv` therefore says of everything a worker holds
what `ProjectionIsPrefix` says of documents: it is the list of versions 1 to n
for some recorded n. Versions are recorded without a gap and never removed
(`EventsOK`), so a prefix stays one while a worker sleeps (`PrefixKept`), one
version more or the missing ones in order make a longer one (`PrefixExtended`),
and whichever write comes last leaves one. `RebuildOK` says the same of the
script, whose input is a whole stream (`StreamIsPrefix`). `NothingIsTakenBackBlindly`
then follows by going through the writes: one that found a document compares
versions again in the filter of the update.

The theorems with a premise are about the deployment the code is written for, a
single worker process (`docker-compose.yml:48-49`: "two workers on one checkpoint
is a race, not redundancy"). Without it a write that found no document takes one
back (`TakenBackKnowingly`). A lone worker's knowledge does not age: what it
found stored is what is stored, and what it is about to write is the document of
the event at hand (`HeldOK`). So documents only grow, and what was announced
stays readable.

For the checkpoint, appends are not ordered: any number of them are in progress
and they may overtake each other. `CheckpointCovers` says that this is the only
way to lose an event: what the checkpoint passed and no document shows is a dead
letter, or was inserted after an event of a higher sequence. The argument turns on
`Passed`: a worker never holds, loads or saves any sequence but that of a recorded
event. An append that is still in progress with a lower one is then overtaken the
moment it inserts, whether the worker has passed its place or only read a batch
around it (`InsertedBelow`); and one that has taken its sequence later has a
higher one (`SequencesOK`). `BatchOK` says that what comes before an event of the
batch is covered or in the batch before it, `ReachedOK` where in the batch the
worker is. A crash or the end of the loop gives up what the worker held, and the
checkpoint it starts again from covers what it passed.

### The temperature monitor

`TemperatureMonitor_proofs` proves, for any number of processes, shipments,
registrations and handles, any interval and window, and any failures allowed by
`MonitorAssumption`:

| Theorem | Statement |
|---|---|
| `MonitorInvariance` | `Spec => []MonitorInv` |
| `LiveTimersAreHeld` | `Spec => []TimersAreHeld` |
| `NothingIsObservedTwice` | `Spec => []ObservationsAreSpaced` |
| `WindowIsRespected` | `Spec => []NothingAfterTheWindow` |

A sample plans its slots from the stream as it read it and then waits, for the
sensor and for the service, while other processes and operators go on.
`SampleOK` states what that plan is worth as long as the stream has the version
the sample expects: the slots are after the last reading, an interval apart and
inside the window. Streams only grow, so a stream of that version is the very
stream the plan was made from; any other version makes the service refuse the
reading. A reading of the sample itself moves the expected version and the
stream on together (`Continue`). Timers rest on `NamedOnce`: no two entries name
one handle, so that replacing or cancelling one never orphans another's.

### The shipment page

`ShipmentPage_proofs` proves, for any number of versions, requests, instants,
notifications and failures allowed by `PageAssumption`:

| Theorem | Statement |
|---|---|
| `PageInvariance` | `Spec => []PageInv` |
| `PageShowsWhatItAsked` | `Spec => []ShownIsAsked` |
| `NothingIsOverwrittenBlindly` | `Spec => []NoBlindOverwrite` |

At most one request of a resource counts (`OneNewest`), and it was sent after
the last refresh and for the instant under the scrubber (`RequestOK`); an answer
that is shown therefore reflects everything recorded when it was asked for. While
the shipment is asked for, its data is gone and its form is unmounted; so a
mounted form has the fields of the version shown (`FormOK`), and what it sends
names that version.

### The list of shipments

`ShipmentList_proofs` proves, for any number of events, failures, waits, polls
and things the user does allowed by `ServerAssumption` and `ListAssumption`:

| Theorem | Statement |
|---|---|
| `ListInvariance` | `Spec => []IInv` |
| `CaughtUpIsListed` | `Spec => []SyncIsTrue` |
| `ShownListsGrow` | `Spec => ListNeverGoesBack` |

`SyncIsTrue` rests on the order of the two reads behind a status. The worker
is done with everything up to the checkpoint (`WorkerInv`) and the checkpoint
never goes back; the lag is the newest event less a checkpoint read *before*, so
no lag means that everything recorded when the wait began is behind the
checkpoint now (`CallInv`). A promise is therefore behind the checkpoint, and a
request that is answered later reads a model that reflects it. A request that
was answered earlier does not count any more, because the end of the wait asks
anew. `ListNeverGoesBack` (no list is replaced by an older one; stated and
proved only) needs that at most one request counts and that its answer was read
no earlier than the list shown (`ListInv`).

### Only model-checked

* Every liveness property: `InOrderIsProjected`, `DueIsObserved`,
  `OutsideIsReleased`, `OwnCommandShown`. They rest on fairness, and TLAPS does
  not reason about ENABLED.
* The location form, whose run is the counterexample to what its source says.

Every safety invariant and every action property of the passing runs is the
statement of a theorem.

Resting on `OneWorker`: `CheckpointCovers`, `AnnouncedIsReadable` and
`DocumentsGrow`.

## 5. Not modelled

* Wording, notes, actors, correlation identifiers and statistics: nothing reads
  them back to decide anything.
* The value of a reading and how a provider makes or fetches it; the monitor's
  model keeps whether and when there is one, and leaves out the deployment
  without sensors (`sensors.source` "none"). In the views a reading is taken
  when it is recorded, so the chart's order by the sensor's clock is its order
  by version.
* The first `CheckpointRepository.load` of all, which finds no checkpoint and
  stores one at zero: `Init` is after it, since `start` awaits it before the loop
  polls. `catchUp`, and the status a stopped worker leaves.
* A deployment without authentication, in which every request is an operator's
  (`auth.js:28`): `WritesAreByOperators` is about the other.
* What the drift report concludes: the model has its two reads and the fields it
  lists (`Reconcile`), and no property says what they mean (section 6).
* Events dated up to five minutes ahead (`commandValidators.js:138`), which make
  undated commands fail the chronology check until then.
* Rendering: PDF and CSV, charts, captions, rounded averages.
* What the list of shipments is narrowed to, and its pages: a change asks for
  the list as the end of a wait does. The lag in the header, polled on a timer,
  and the fetches of the figures by the dashboard (section 6). Two workers, and
  appends that overtake each other, are left out of LedgerServer; an event that
  the checkpoint passed by would be missing from the list as from the read model.
* HTTP routing; the rate limiter, a fixed window of counters per process keyed
  by address that is charged before the role is checked and only ever refuses.
* Two tabs that share one browser's token store, and two sign-ins under way in
  one tab: the form is disabled while one is, so the second needs a reload in
  between, and then the answer of the first is not heard.
* The tables of countries, states and cities: a constant of LocationForm. A
  city's spelling: the server compares it without regard to case, the lists with.
* Reading a truncated stream, other than by the command service (section 6): the
  queries, the worker and the script read whole streams here. The paged reads of
  the audit trail.
* The database itself: single-document operations are atomic, reads see the
  latest committed state, and unique indexes hold, as the code assumes of one
  MongoDB primary.
* Of the hash chain: what it leaves out of the hash (sequence, recording time,
  actor), and the removal of the newest events or a rewrite of the whole chain,
  which verification cannot notice, as `eventStoreRepository.js:246-255` says.

## 6. Where the code and its documentation differ

Each of these is a run that TLC finds violated.

* `worker_overtaken`: two appends on different shipments take sequences 1 and 2,
  and 2 is inserted first. The worker saves checkpoint 2; event 1 is never read
  again unless a later event of its shipment reveals the gap.
* `location_form`: Singapore (no states), its city, then India: the city stays
  selected, the form lets the creation through and the server refuses it.
  A creation that is refused lacks only a state; a city of one country without
  states can also be kept for another one and is accepted.

More, without a run of their own:

* the loop of the worker may end for good although it says that it "will retry"
  (`projectionWorker.js:108`): the handler of a failed iteration first records the
  failure in the same database (line 107), nothing catches a failure of that, and
  in the API's process `server.js:73` only logs it, `#running` staying true so
  that `start` does nothing. `MCWorker.cfg` with `Supervised = {}` shows it with
  one failed iteration and one failed record (`FailIteration`, `EndLoop`);
* the drift report lists differences where nothing drifted, which
  `shipmentProjection.js:144-149` means to avoid. The comment is about the time of
  writing; but whether a stage is overdue, and by how much (lines 141-143),
  depends on the day a document was written, so a document of an earlier day
  differs from a replay of today. And `reconcileOne`
  (`reconciliationService.js:30-31`) reads the stream before the document, so an
  event recorded and projected in between makes the document the newer one,
  reported as inconsistent with `lagVersions` 0 (line 97);
* the version guard of `saveProjection` (`shipmentReadModelRepository.js:109`)
  protects every write but the first, so a slow worker that found no document
  may write version 1 over version 2; `TakenBackKnowingly` says exactly when,
  and `ProjectionIsPrefix` why a later event heals it;
* `rebuildReadModel.js:8-9` calls the script "safe to run at any time"; an event
  recorded and projected between the listing and the deletion
  (`reconciliationService.js:120`) is deleted with the read model, and the
  checkpoint the script writes stays past it;
* `getEvents` (`eventStoreRepository.js:175-180`), "Full stream, ascending by
  version", cuts a stream at `maxEventsPerQuery`; commands on a longer one are
  decided on the oldest part and then refused as conflicts (`ServiceIsLedger`
  says that nothing worse happens to the stored events);
* an amendment that repeats the recorded structured location is accepted and
  changes nothing, because `amendDetails` (`shipmentAggregate.js:510`) compares
  objects by identity; lines 498-500 promise a refusal;
* readings are classified by the range in force, not, as
  `shipmentAggregate.js:217` says, the range declared at creation; the chart
  (`sensorService.js:31-33`) does show the range of the creation;
* the event catalogue describes an extension as of a stage that has passed its
  date, and the aggregate never compares a date with the time of the command;
* the schedule query alone offers, for a stage after one that was confirmed
  early, dates before the planned date of the stage in front of it; the planner
  adds that floor itself, and `CalendarIsSound` is about the two together. For a
  shipment with a confirmed stage and no plan the query offers dates although no
  plan can be accepted any more;
* the schedule reply's `nextStage` of a completed shipment falls back to loading
  (`queryHandlers.js:348`), which the model leaves out;
* the export verifies the chain in a second read (`exportShipmentHistory.js:73`)
  and prints that read's number of records beside a report replayed from the
  first one's; `ReplyIsCurrent` says that the second is never the smaller;
* the dashboard counts a shipment as on time by hours against the duration in
  force (`queryHandlers.js:537`), where `metricDefinitions.js:174` speaks of the
  estimate, and the report's "finished early" counts calendar days against the
  original estimate. Between two pages a shipment may be counted twice and
  another missed, although the total stays true (`TotalIsTrue`);
* `proposeEarlyCompletionShift` (`schedulePolicy.js:374-399`) is called by tests only;
* the in-memory database performs `findOneAndUpdate` as an update and a later
  read (`inMemoryDb.js:309-316`), so two increments of a counter may return one
  value where lines 21-22 promise the semantics of the real one;
* a shutdown while a page follows the stream never reaches the end of
  `server.close` (`server.js:58`), which waits for open connections, and is
  finished by the ten-second timer, not by the orderly path lines 48-51
  describe;
* a notification reloads the page's panels and with them closes the conflict
  dialog and drops drafts (`ShipmentPage.jsx:192` shows the loading block when
  there is no data); `NoBlindOverwrite` says that nothing old is sent, not that
  nothing typed is lost. The error of a command whose form is gone is lost too;
* `settling` is one flag for all waits (`useShipmentData.js:205`): the first wait
  to end says that the page is in step while a later command is still waited for;
* an event announced while a page's stream is down is not shown when the stream
  comes back: nothing asks again (`useShipmentStream.js:73-76`), and the polling
  of which lines 16-20 and 96 speak is done by no page of a shipment;
* the fetches of the figures are not told apart (`StatusDashboard.jsx:134-146`)
  as those of `useAsyncResource` are: one that the timer started before an event
  and that is answered after the refresh of its notification puts the older
  figures back until the next poll, the gap that lines 159-163 say is closed. An
  error of one fetch stays on the page when a fetch that was under way beside it
  succeeds, and goes when the next begins. The header keeps the last lag after signing out
  (`AppLayout.jsx:64`);
* `useWorkerStatus` is described as polling "while the read model is behind"
  (`useShipmentData.js:144`); it polls always;
* while the historical state is being loaded, the page shows live data under the
  historical banner (`shipmentStore.jsx:12-16`, `ShipmentPage.jsx:111-122`).

## 7. Plan

Done: every component of section 1 but the overviews other than the list and the
rate limiter, with the proofs of section 4. What could follow:

1. `LedgerServer` as a refinement of `ProjectionWorker` under one worker and
   appends in order.
2. `ApiServer`: several tabs on one token store.
