# OCPP-Demo: verification project

TLA+ specifications of the backend and the worker of this repository, TLC runs that check
them on small instances, and TLAPS proofs of nearly all safety properties for every size.
Paths are relative to `src/`; `app/` stands for `src/backend/app/`.

## The system

Chargers hold a websocket to the backend and send OCPP 1.6 CALL frames. The backend stores
each frame together with an outbox row and applies it to stations, connectors, sessions,
transactions and meter values, all in one transaction, and answers. A separate worker process
polls the outbox, marks the messages of due events as processed, retries with backoff,
dead-letters, takes back the claims of dead workers, and marks silent stations offline. Partners
post webhooks, which are stored with an outbox row too. Admins retry or acknowledge outbox events,
switch stations and connectors, and manage users; the console reads lists page by page. Everything
meets in PostgreSQL; there are no calls between the processes, apart from the simulator, a client.

| component | state it keeps | operations | hard behaviour | what makes it correct |
|---|---|---|---|---|
| Outbox repository, processing (`repositories/outbox.py`, `services/outbox.py`) | `outbox_events` rows: status, attempts, next attempt, lock; status of the message or partner event | enqueue, claim, recover stale claims, process, retry, dead-letter | row copies older than the row, several workers, failure half-way | an event stays open until it is delivered with its effect or given up; claims are exclusive, or can be recovered |
| Worker loop (`worker.py`, `services/stations.py`) | the batch in memory | sweep, recover, claim, process | crash between commits, a slow worker taken for dead, a sweep that overlaps a heartbeat | every event is settled in the end; silent stations end offline |
| Admin outbox controls (`api/routes/admin.py:102-152`) | none | retry, acknowledge | check and commit are two steps, and race the worker | an acknowledgement keeps the terminal state |
| OCPP ingestion (`services/ingestion.py`) | stations, connectors, sessions, transactions, meter values, messages, audit events | seven actions, duplicates, error path | frames repeated or lost, replies lost, checks against a stale copy, colliding checksums | one effect per start, sessions and transactions agree, samples are stored once, the tables refuse no honest report |
| OCPP websocket (`api/routes/ocpp.py`, `services/station_auth.py`) | one database session per connection, with its copy of the station | authenticate, receive, answer, roll back | the copy outlives other sessions' commits; several connections of one station | what a charger was told is durable |
| Admin station and connector controls (`admin.py:294-437`) | none | online, offline, available, unavailable, maintenance, token | race the sweep and stale copies | row, audit events and admission of starts agree |
| Partner webhooks (`services/webhooks.py`, `api/routes/partner.py`) | `partner_events` | verify, refuse repeated ids, store with an outbox row | repeated deliveries at several backends, lost answers | one event and one outbox row per id; an answered event is stored |
| User administration (`admin.py:45-53, 174-291`, `api/deps.py`) | users, roles | create, change role, deactivate, activate | admins demoting each other, changes computed from old rows | an active admin remains; no change undoes another |
| Lists (`api/routes/resources.py`, `requestAllPages` of `frontend/app/page.tsx`) | the console's items and offset | count, read a page, go on or end | rows added between count and page and between pages | a list read to its end is complete |
| Simulator (`simulator/simulator/app.py`) | one global STATE | scenario runs | overlapping runs share STATE | STATE describes a run that exists |
| Authentication, bootstrap and seed, other queries, cache, observability, migrations, the rest of the frontend | | | | see "Not modelled" |

## Modules

`UnitOfWork` is the one assumption about the ORM the rest builds on: a flush writes the columns
whose value differs from the one loaded (`NetChange`), and no row has a version. It is the only
external part, with the operators that apply it to a row (each called `Saved`).

`Delivery` is the abstract specification of the outbox: an event is absent, open, delivered or
given up; a settled event is opened again only by an admin who asked.

`Outbox` is the detailed one. A row is a record whose timestamps are reduced to what the queries
compare them with (`next` is NULL, in the future or due; `lockedAt` is NULL, fresh or stale).
Each commit is one action, with every assignment of its handler. Where a handler loads a row and
writes it after another process could commit, the load is a separate action and the copy is part
of the state (`work`, `admin`). `StoreFailed` keeps the code's missing rollback: the mark on the
message may be committed with the retry. `Crash` also stands for an exception that escapes
`process_outbox_event`. A backend restart that loses an admin request in flight adds nothing:
its load changed no row. `SKIP LOCKED` is a choice of rows passed over among those another
process is about to write. `Claim` is the SELECT and the commit of the lock in one step, since the
row locks of the SELECT keep others out in between; what becomes of a claim without them is not
explored.

| action | code |
|---|---|
| `Enqueue` | `OutboxRepository.enqueue` in the caller's commit |
| `Recover`, `Claim` | `worker.py:31-38`, `repositories/outbox.py:20-69` |
| `Load`, `StoreProcessed`, `StoreFailed`, `Advance` | `services/outbox.py:24-60`, `worker.py:39-44` |
| `RetryLoad`, `RetryCommit`, `AckLoad`, `AckCommit` | `api/routes/admin.py:102-152` |
| `BackoffElapses`, `LockAges` | the clock, against `next_attempt_at` and 300 s |

The `.cfg` files instantiate `Outbox` for TLC directly.

`Webhooks` extends `Outbox` with the intake of partner events: the lookup and the commit are two
steps of a backend, so that two of them may deliver one event at once; the unique constraint on
`event_id` decides (`Violates`). The commit enqueues the outbox row, and its answer may be lost.
`Listing` extends `Webhooks` with the console's loop over the pages of a list and the handler that
serves it: `CountRows` and `ReadPage` are the two statements of a list handler, which see what was
committed when each of them began. A row's place is that of the start of its transaction, and
transactions commit in any order, so a row may appear anywhere in the list.

| action | code |
|---|---|
| `Lookup`, `AnswerDuplicate` | `services/webhooks.py:30-41`, `api/routes/partner.py:31-33` |
| `StoreWebhook`, `StoreFails` | `services/webhooks.py:43-69` |
| `BeginList`, `CountRows`, `ReadPage` | `frontend/app/page.tsx:303-323`, `api/routes/resources.py:278-307` |

`AdminUsers` has the four operations on users. A request is authorized, loads its user, finds and
locks the active admins if the row it loaded makes it count them, and commits. The locks of
`FOR UPDATE` are in it with what PostgreSQL does at READ COMMITTED: rows are found in a snapshot,
waited for, and checked again. What it locks is not what it decides by: `with_for_update` does not
refresh an object the session already holds, so the copy stays as loaded. The commit waits for a
lock on the row it changes, and the audit event's foreign key for one on the actor's. Inside one
backend a handler does not await, so requests interleave only between backends; the locks are
there for deployments with several.

| action | code (`api/routes/admin.py`) |
|---|---|
| `Authorize` | `api/deps.py:27-50` |
| `Create` | `create_user`, 174-210 |
| `Load`, `Find`, `Lock`, `Commit` | `update_user_role` 213-240, `deactivate_user` 243-268, `activate_user` 271-291, `lock_active_admins` 45-53 |

`StateTables` has the four state sets, the four transition tables and the status map of
`services/ingestion.py`. `Ingestion` has the seven actions of `ingest_ocpp_message` (Boot and
Heartbeat are one, they do the same), the duplicate branch, the error path, the sweep and the
admin's station and connector controls. The backend is one event loop and its handlers do not
await between their first query and their commit, so they are atomic towards each other; the
worker is another process. Hence an admin's station request and a sweep are two steps, and a
connection carries `copy`, the station as its session holds it: taken at `Connect`, dropped by
commit and rollback, loaded again when the reply is built or at the next frame, and not refreshed
by anybody else's commit. `Reply` and `LoseReply` separate the commit from the answer, and `told`
records which starts a charger was given a transaction id for. A frame whose id is `None` stands
for frames with a new id each time. `lastEvent` keeps the state in which the audit event about a
station that was committed last ends; it says that events and rows go together, not how a list
orders the events.

`Trail` extends `Ingestion` with that order. `GET /events` lists events by `created_at`, which the
database fills with the start of the transaction. A connection's transaction is open while its
session holds the station (`Open`): from the authentication, the reply before or the first frame
after a rollback, to the commit or rollback of a frame or the end of the connection; a sweep's
from its query to its commit. `trail` is the state the first event listed of a station ends in,
`since` has the open transactions that are younger than that event's, and `younger` orders the open
ones; so no clock is needed. A commit puts its events first in the list of those stations alone
whose first event is older (`CommitsEvents`). Each action of `Trail` is one of `Ingestion` with
what it does to its transaction. Admins are left out of it: an admin's event would hide a report
as a sweep's does, and what it ends in is not always offline.

| action of `Ingestion` | transaction |
|---|---|
| `Connect`, `Reload`, `Reply`, `SweepSelect` | `Opens` |
| `HandleHeartbeat`, `HandleStatus`, `SweepCommit` | `CommitsEvents` |
| other frames, `Reject`, `Disconnect`, `BackendRestart`, `WorkerCrash` | `Ends` |

`Charge` is the abstract specification of what a charger sees of the transactions it starts: a
start takes effect at most once, its charge is interrupted or completed by itself, and what the
charger was told exists.

`MCIngestion` and `MCTrail` have the frames and the initial rows of the TLC instances.

`Simulator` composes scenario runs with `Ingestion` (`Backend == INSTANCE Ingestion`): each run is
a coroutine that yields at its awaits, holds a connection of its own and sends the frames of its
scenario one at a time, and all share the two flags of the global `STATE` (`shared`). A run's
place (`at`) is the await it is suspended at. `Send` is the backend's commit, `Receive` its reply.
`MCSimulator` has the scenarios of its instances.

| action | code (`simulator/simulator/app.py`) |
|---|---|
| `Begin` | `connect_and_run` up to its first await |
| `CheckStation`, `CheckConnector`, `Refuse`, `Escape` | `assert_connector_can_run`, refused in `run_scenario` or ended by an HTTP client error |
| `Open`, `OpenFails` | `websockets.connect` |
| `Send`, `SendRefused`, `Receive` | `send_frame` |
| `Finish`, `Fail`, `Lost` | the `finally` clause, in one step with the closing of the connection |

Definitions marked `(variant)` are plausible defects of the code; each property of a passing run
was seen to fail with one of them in place of the original definition. Each `...Proofs` module has
the theorems about the module it is named after; `TimelyProofs` has those about the timely
behaviours of `Outbox`.

## Runs

| run | instance | shows |
|---|---|---|
| `OutboxOneWorker` | 1 worker, 3 events (2 tracked), batch 2, 2 attempts, 1 event the admin touches, 2 whose lock ages | the delivery contract and row consistency, as deployed |
| `OutboxTwoWorkers` | 2 workers, 2 events, batch 1, the locks of one age, no admin, fair | claims can be recovered, events settle; claims of the other event are exclusive |
| `IngestionSessions` | 2 stations, one connection each, 1 connector number, 2 starts each, ids that collide across stations, an admin on one connector | sessions against messages, replies and tables; `Ingestion` implements `Charge` |
| `IngestionPresence` | 1 station, connection and worker, an admin, frames without end, fair | silence ends offline, heartbeats end online |
| `StationRecords` | `Trail`: the same without an admin, with 3 samples in overlapping frames | state and events change together; the list of events misplaces only the sweep's; samples are stored once |
| `SimulatorRuns` | 2 runs of any of 6 scenarios on one connector, with restarts of the backend, fair | runs end; a finished charge left a completed session; the connected flag |
| `AdminUsersRaces` | 3 users, 2 backends, 2 users who may be lowered, 1 who may be raised, crashes | an active admin remains; counts hold; changes land |
| `WebhooksListed` | 2 partner events, 4 outbox rows, 2 backends, pages of 2 | events are accepted once; answered events are stored; lists are complete |
| `OutboxStranded`, `TrailHidden`, `IngestionStaleStart`, `SimulatorOverlap` | smallest that shows it | see "Disagreements" |

Bounds. Two attempts give both branches of a failure, and three events against a batch of two leave
a due event behind. A smaller batch suffices with two workers, since what matters is that a claim
outlives its worker. `AgingEvents` and `AdminEvents` limit which rows age and which the admin
touches; the others meet neither, so the runs have rows with and without. Two starts per station
let a connector be started again after its session was interrupted, and two stations with equal ids
make every checksum collide that can. Two runs of the simulator are enough for one to overwrite the
flags, the connector or the session of another; of the three partner scenarios one stands for all,
since they send no frame. Two backends and three users give every overlap of two administrators who
lower each other or the third, with one left who may be raised. Four rows and pages of two make
lists of one to three pages that grow at any point; the outbox's workers change no list's length
and are left out of that run, since the theorems carry the rest over. Deadlock is not checked in
any run: with every event settled, or every connection closed and every bound reached, the system
may stop.

Fairness. The worker's loop has no exit and its container is restarted, so its steps are weakly
fair; a request that loaded its row runs to its commit in the same handler; the clock passes a
row's backoff and a lock's 300 s. Nothing makes a charger send or fall silent, an admin act or a
process die. That crashes stop is a premise of the liveness properties, not fairness: it is
stated of the steps only a crash explains (`Crashed`, `SweepLost`), because giving up an empty
batch looks like a poll that found nothing. `EventsSettle` needs no fairness between events:
`Claim` takes the oldest due rows, and a retried row is due only after its backoff.
Every real lock ages, so it is stated of the events in `AgingEvents`; the others are there for
`ClaimExclusive`, which is about claims that stay within the threshold.
A scenario run goes on at each await: requests are answered or fail, the backend handles the
frame it has, a closed connection is noticed; nothing makes anyone begin a run.
`SilentGoesOffline` has the silence as its premise, `HeartbeatsRestore` frames that keep coming.

Observations from instances that are not kept as runs.

* `ClaimsRecoverable` holds with two workers and fails with three even without an admin: a worker
  that was slow twice over stores its retry into the claim of a third.
* `ChangesRecorded` fails without an admin as soon as one station has two connections, or the
  deployment two workers. With an admin it fails when the sweep commits between the load and the
  commit of `/stations/{id}/online`: the event committed last says online, the row stays offline.
* `ReportsKeepOrder` fails with two connections of one station: a report of the connection whose
  transaction is older is listed below that of the other, which it follows.
* What `TrailHidden` finds need not pass. If a station was faulted when the sweep marked it offline
  and the connection still holds the faulted copy, a Heartbeat sets it online with an event that is
  listed below the sweep's; the Heartbeats after it change no state and add none, so the history
  ends in offline for as long as the station stays online.
* The simulator's `running` flag is cleared by the run that ends first, so its panel says "Ready"
  while another run is under way (`frontend/app/page.tsx:1409`).
* A StatusNotification of one connector sets the state and the online flag of its station:
  Unavailable of one takes the station offline, Available of another brings it back
  (`services/ingestion.py:313-328`; compare `features.md:62`).
* A frame that holds the same sample twice stores it twice: the duplicate check queries the
  database, and with `autoflush=False` it does not see what the same frame has added
  (`services/ingestion.py:474-508`; compare `features.md:67`). `SamplesAlwaysOnce` has the premise
  that no frame does.
* With several backends, `AdminRemains` needs its premise `Disjoint`. A handler that loads B as an
  operator takes no lock; if B is then promoted, A demoted with a count of two, and the first
  handler commits its deactivation of B, no active admin is left. The one backend of
  `docker-compose.yml` cannot do that.

## Disagreements with the documentation

* `OutboxStranded`: an admin's retry committed from an old copy clears the lock of a new claim,
  and if that worker dies the row is in `processing` with no lock time, where the recovery of
  `features.md:81` does not look for it.
* `TrailHidden`: a report and a sweep overlap, the event committed last is not the first listed,
  and the history of the station ends in a state its row does not hold (`features.md:66`,
  `frontend/app/page.tsx:1464`).
* `IngestionStaleStart`: a connection that was open when the admin set the station offline can
  start one more session (`frontend/app/page.tsx:1569`).
* `SimulatorOverlap`: two runs both find the connector available; the status report of the second
  frees it while the first is charging, and a second active session starts
  (`frontend/app/page.tsx:446`, `simulator/simulator/app.py:346`).

## Theorems

All are for any values of the constants, from the named assumptions of the modules alone; what a
theorem assumes beyond them is in its statement.

`OutboxProofs`, for any workers and events and any positive limits:

* `TypeCorrect`: `TypeOK` is inductive. The lemmas say that every row operation, and every
  flush of one, yields a row; the counter needs the comparison with `max_attempts`.
* `LocksPaired`: `LockPair` is not inductive, since the writes come from copies. `LockInv` adds
  that every copy in flight is paired too; then each column of the pair is cleared or kept
  together with the other (`SavedPaired`).
* `ProcessedIsMarked`: only `MarkProcessed` yields the status (`OnlyMarkProcessed`), and it is
  stored with the effect.
* `ClaimsAreExclusive`, of the events no admin touches and whose claims do not outlive the
  threshold (`Prompt`), whatever happens to the others: `ExclusiveInv` adds that their locks are
  never stale and that no admin request is about them. `LoopInv` relates the place in the loop to
  batch and copy.
* `ClaimsAlwaysRecoverable`, for at most two workers and no admin: `RecoverInv` says that rows and
  copies are locked as their statuses say, and that a row which became final while a worker still
  holds its event is in no other batch and is loaded as it stays. So what that worker writes clears
  no lock of a third; with three workers it may, and an admin is such a third.
* `AckKeepsTerminalState` and `ImplementsDelivery`, for one worker, the deployment's number:
  `SoleInv` says that the worker's copy has the status the row has unless the admin has changed
  it, and that an admin's check for `dead_lettered` still holds when it commits. Every action
  then is a step of `Delivery` or a stutter. With more than one worker both fail, because a worker
  taken for dead may still write; that is why they assume one.

`TimelyProofs`, for any workers, any events and an admin, of behaviours that are `Timely`: no lock
grows stale, and no admin's retry is committed, while the event is still in a batch. So the 300 s
and the admin's retry are the only ways by which more than one worker breaks what one worker keeps.

* `TimelyClaimsAreExclusive`: `TimelyInv` says that an event of a batch is processing, under a fresh
  lock, by the batch's worker alone.
* `TimelyImplementsDelivery`, `TimelyAckKeepsTerminalState`: the theorems for one worker, for any
  number. Both proofs share one lemma over the actions (`ContractStep`), from what the copies in
  flight have to satisfy (`OpenInv`).
* `TimelyWritesAreAtomic`, `TimelyDeadLettersExhausted`: `CopyInv` adds that a worker's copy is the
  row and that no processing row waits for a backoff. So a load and its commit act as one step
  (`StoredAtOnce`), and an event is given up only by the attempt that uses up its limit.
* `TimelyClaimsRecoverable`, if an admin's retry is besides committed on the row that was checked
  (`PromptRetry`); `LockedInv` adds that the copy is paired as its status says. `Timely` alone is
  not enough: a retry committed from an older copy leaves a pending row with a lock, and a second
  one from a copy of that row clears the lock of a later claim, which nobody recovers if its worker
  dies.

`WebhooksProofs`, for any partner events, backends and workers:

* `WebhooksImplementOutbox`: every step of `Webhooks` is one of `Outbox` or leaves it alone, so the
  theorems above hold of partner events. `ListingImplementsWebhooks`: reading changes nothing.
* `PartnerEventsKeepContract`: with `TimelyImplementsDelivery` partner events keep the contract too.
* `AnsweredTakesEffect`: what a partner was answered about has exactly one outbox row, and once
  that is processed the partner event is marked. It joins `WebhooksInv` with `ProcessedIsMarked`,
  by `OriginTracked`: a row with an origin is one whose message the outbox marks.
* `AlwaysAcceptedOnce`, `AnsweredAlwaysStored`: `WebhooksInv` adds that the partner is told only of
  stored events and that a row that is not enqueued has no origin. A backend that has looked an
  event up and not found it needs no invariant: the constraint decides at its commit.

`ListingProofs`, for any page size besides:

* `ListingTypeCorrect`, `AlwaysListedComplete`: the ranks of a list's rows are the numbers below its
  length, each once (`RankBounds`, `RanksInject`, `RowAt`), and a row added moves others only back
  (`RankGrows`). `ListInv` then says that whatever was there at the start and comes before the
  offset has been read, and that between the count and the page the list has grown by `late`.
* `OneBackendListsAll`: the one backend is the console's own while it answers a page, so nothing is
  added between count and page and `late` stays 0 (`SoleServer`); a finished list then lacks nothing
  that was there at the start.

`IngestionProofs`, for any stations, connections, workers, frames and checksums:

* `TypeCorrect`: `TypeInv` adds to `TypeOK` that a handler past its load has a copy, and one past
  its commit a frame to answer (`Sockets`).
* `StartsAlwaysMatch`, `ToldAlwaysDurable`, `SessionsAlwaysAgree`: one inductive invariant,
  `ChargeInv`. It adds that a session is only ever active, interrupted or completed and that its
  connector has a row (`Phases`), and that a start whose reply is due has its session
  (`AnswersExist`).
* `ImplementsCharge`: under `ChargeInv` every step is a step of `Charge` or a stutter. A stop moves
  one charge because transaction ids are unique, a fault because only one session is interrupted,
  and a repeated start none because it is recorded.
* `ReportsAlwaysAccepted`: with `Phases` and the four tables, no report is refused.
* `CompletedStays`: no session is deleted or moved, and a completed one stays so: a fault
  interrupts active sessions only, and a repeated start is recorded, by `ChargeInv`.
* `SamplesAlwaysOnce`: if no frame holds a sample twice, none is stored twice, in whatever frames it
  comes again.
* `ChangesAlwaysRecorded`, with one worker, one connection per station, no admin, and stations that
  start online only as online or faulted. `AuditInv` says how old a copy may be: a connection's is
  the row, or the sweep has marked the station offline since; and while a sweep has a station
  selected, the connection's copy of it is the row.
* `PromptChangesRecorded`, for any connections, workers and an admin, of behaviours in which a sweep or
  an admin's request commits on a row in the state it loaded (`PromptWrites`). A handler's state
  change and audit event go together however old its copy is; only the start of a session writes a
  state without an event, and `BlankInv` says that it then changes none: nobody holds an online
  copy of a station whose state is unknown, since no write returns to that state.
* `OrderlyFramesKeepConnectors`: if no stop, report of availability or admin frees a connector
  while another session is active on it (`Orderly`), no connector has two active sessions.
  `TakenInv` says that a connector with an active session is not available. Each of the three
  premises is needed: TLC finds two sessions without it, for the stops both with a repeated stop of
  a completed session and with the late stop of an interrupted one.

`TrailProofs`, for any stations, connections, workers and frames:

* `TrailImplementsIngestion`: every step of `Trail` is one of `Ingestion`, so the theorems above
  hold of it. `TrailTypeCorrect` needs that a connection which is closed or has committed holds no
  copy (`Apart`). Every step begins a transaction, ends some, commits events, or does not matter to
  the order (`OrderStep`), which is all the other proofs use of the actions.
* `ReportsAlwaysKeepOrder`, with the premises of `ChangesAlwaysRecorded`, and
  `PromptReportsKeepOrder`, with those of `PromptChangesRecorded` and one connection per station.
  The transactions of one connection follow each other, so an open one that is older than the first
  event listed is older than a sweep's, and that event says offline (`Hidden`).
* `OrderedHistoryEndsInRow`: if every event is besides added by a transaction younger than that of
  the first event listed (`CommitsInOrder`), the history ends in the state of the row, for any
  connections. So the time events carry is what `TrailHidden` turns on.

`SimulatorProofs`, for any runs, connectors and scenarios:

* `SimulatorKeepsIngestion`: every step of the simulator is one of `Ingestion` or leaves it alone;
  `RunInv` says that a run sends only the frames of its scenario.
* `ConnectedAlwaysOpen`: the shared flag means that some run is connected.
* `BackendKeepsPromises`: `Ingested`, an instance of `IngestionProofs` under the simulator's
  substitution, carries its theorems over. `AssumptionsHold` shows that the simulator meets the
  assumptions of `Ingestion`, from `SimulatorAssumption` (runs are numbers, their meter frames have
  ids no run has, `None` is no datum). `TypeCorrect` adds `RunInv` to what is carried over.
* `SimulatorKeepsCharge`: through `Ingested` and `ImplementsCharge` the backend keeps `Charge`
  under the simulator.
* `CompletedAlwaysClosed`: `ScriptInv` says what a charging run has behind it: once the backend has
  handled its start the session exists, once it has handled its stop the session is completed, and
  a run is completed only then. `CompletedStays` keeps both through the frames of other runs.
* `SequentialRunsKeepConnectors`: if a run begins only when no other is under way, no two active
  sessions share a connector, although restarts and lost replies leave sessions active behind runs
  that failed. `SequentialInv` says that a connector somebody charges on is not available, that the
  run under way, once it has found its connector available, is the only one that may charge on it,
  and that once its session has begun it will not report the connector available again. So what
  `SimulatorOverlap` finds takes two runs at once; the check before the connection is enough
  without.

`AdminUsersProofs`, for any finite set of users and any number of backends:

* `TypeCorrect`, `CountAlwaysHolds`: nobody else writes a row under lock, and a holder commits once.
* `AdminAlwaysRemains`: `Inv` adds that a request about to lower a user has counted another admin
  under locks it still holds, or that the user is no active admin (`Counted`), which stays so since
  nobody raises those who may be lowered.
* `ChangesAlwaysLand`: a request's copy differs from the row only in directions its own change
  agrees with (`Drift`), so what is not written because it equals the copy is in the row already.
* `OneBackendKeepsAdmin`, `OneBackendLandsChanges`: with the one backend of `docker-compose.yml`
  both hold without `Disjoint`, since a request's copy then is the row until it commits (`Alone`).
  What `Disjoint` excludes takes two backends.

Only model-checked: the liveness properties `EventsSettle`, `SilentGoesOffline`,
`HeartbeatsRestore` and `RunsEnd`. They need weak fairness, that is ENABLED, and an induction over
backoffs, silences or the steps of a script, which are outside what the prover does. Under the
premises above every invariant and action property of a passing run is a theorem.

## Not modelled

The signature and password checks and the decoding of tokens read no state these properties depend
on; that the user of a token is looked up at every request is in `Authorize`. Of the read-only
routes, the paged lists are in `Listing`, in the order of the outbox list; the others read once and
change nothing. The counts of the metrics and status routes come from separate statements and may
disagree; nothing is decided by them. Filters of lists are left out. Rows of one commit may have
equal times, and what PostgreSQL does with ties at a page boundary is not in the code. Bootstrap
and seed run before everything else; what they leave are initial states. The cache class is unused
and the Redis heartbeat is only displayed (that a missing Redis ends the worker is a `Crash`).
Metrics, logging, tracing, the schema migrations and the rest of the frontend keep no state of the
program's.

Payload validation is one `Malformed` frame. The lookup of a station by external id, station
credentials, `maintenance_mode`, which ingestion never reads, token rotation, `mark_failed`, which
nothing calls, the audit events of user administration, and failures of the database in the backend
other than a violated constraint are left out, and so are the simulator's message log, pauses and
scenario and station fields, which no run reads, and that its partner scenarios end in `Webhooks`.
Session ids are sha256 digests and taken as unique. Waiting for row locks is granted all at once
(`Lock`): how PostgreSQL breaks a deadlock between requests that lock rows in different orders is a
`Crash` of one of them.

## Plan

Done: the outbox with its contract, ingestion with its contract, the simulator against ingestion,
partner webhooks over the outbox with the lists that show it, and user administration; all checked,
and their safety proved.

What could be added, in this order:

1. `Pipeline`: `Ingestion` composed with `Outbox` the way `Webhooks` is, a message being stored
   exactly when its event is enqueued. It is one commit, so the composition adds no interleaving.
2. What a connector may hold: repeated stops and second starts on one connector, once the
   repository says what is intended.
