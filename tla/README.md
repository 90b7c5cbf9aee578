# Flight Hunter: formal models

Flight Hunter (`src/`) is a Python service that looks for flights under strict
source policies.  Its riskiest part is the *live-observation control plane*: a user
asks for a one-time grant, spends it on a "live refresh" of one search, and reads
the result back; grants, idempotency keys and a minimum gap keep the number of
outbound refreshes down, and a clean-up command deletes what has expired.  Around
it stand a Telegram webhook, a chat agent that searches and creates watches, a
browser page, a reader of saved or observed pages, price alerts and a backup
command.  This directory holds the TLA+ models of these parts, their TLC instances
and the TLAPS proofs about them.

## 1. Inventory

| Component | State it keeps | Operations | Hard behaviour |
|---|---|---|---|
| Durable service, `application/durable_live_observations.py`, endpoints `api/app.py:711-830`, `LiveObservationRepository` (`persistence/repositories.py:420-825`) | four SQLite tables: grants, observations, offers, idempotency rows | issue a grant, create an observation, read one | every SQL statement is an `await`; check-then-write on grant, gap and key; retries, lost answers, crash between statements, lock time-outs |
| Retention clean-up, `application/live_observation_cleanup.py`, `ops/live_observation_cleanup.py` | none of its own (deletes from the four tables) | run once, dry run | candidates are read first and deleted later by id; overlaps with requests and with other runs |
| Policy guard and live-refresh gate, `policy/guard.py`, `application/live_refresh.py` | none | `authorize` | order of the checks, boundary instants |
| Browser-source catalog, `domain/observation.py` | fixed at start | permission status at an instant | a permission that lapses between two checks |
| In-memory service, `application/live_observations.py` | five dictionaries | issue, create, read | a stamp and a table that must agree |
| Telegram live check, `application/telegram_live_check.py` | callback key -> observation | one button press | retried presses; refused second call after a granted first one |
| Telegram webhook, `notifications/telegram.py`, `TelegramUpdateRepository` | seen set of the process, dedupe table | one update | seen is set before the durable row; restart; retries |
| Price alerts, `notifications/alerts.py`, `AlertDedupeRepository` | dedupe rows per watch | load, evaluate, record | two evaluators of one watch; late observations; a table replaced by a restore |
| Watches and scheduler planner, `application/watch_*.py` | watch rows; provider registry | create, list, decide | decision from captured quota and circuit state |
| Backup and restore, `ops/backup.py` | files | back up, restore | plain copies beside sessions that commit; names to the second |
| Search pipeline, `application/search_service.py`, `search_planner.py`, `provider_registry.py`, `domain/ranking.py`, `domain/search_results.py`, `providers/fake.py`, `providers/aviasales_data/` | none | one search | one provider failing; prices of a seat beside prices of a party; penalties |
| Agent chat, `agent/chat.py`, `agent/openai_responses.py`, `api/app.py:652-690` | none (watch and audit rows) | one turn | slots from the message, the model and the user; a failure between the writes of a turn |
| Web page, `api/web.py` | the form, the lists, `lastSearchPayload`, local storage | search, live check, agent turn, edits | handlers that interleave at every `await` and share one form |
| Personal observer, `providers/personal_observer/`, `browser/html_extractor.py` | parser counters, the page in the browser | observe, extract | tag counting on unbalanced pages; a page that moves after the host check |
| Source gates, `application/mcp_policy.py`, `search_api_policy.py`, `scraping_policy.py`, `source_contracts.py`, `agent/codex_cli.py` | none | verdicts | a second list of the guard's checks |
| Outbound links, date matrix, airports, value types | none, or one table | see `PROJECT.json` | pure decisions |

How they interact.  The API endpoints and the clean-up command meet only in the
database; they run as separate sessions, possibly in separate processes.  The
durable service calls the gate, the gate calls the guard, and both take the
policy derived from the catalog.  The Telegram callback calls the in-memory
service twice (issue, then create) in one synchronous call.  The webhook
endpoint does not dispatch to the callback yet: it only records the update.  The
page calls `/searches`, `/agent/chat/turn` and the three live-observation
endpoints.  A chat turn calls the search pipeline, the date matrix, the airports and
the watch service in one session.  The alert evaluator, the scheduler planner, the
backup commands and the gates of `SourceGates` (but for the readiness report) have
no caller in `src/` outside their tests or a command line.

What makes each part correct:

* *Durable service*: a grant is consumed with an observation or not at all; an
  observation belongs to its grant's user, source, intent and lifetime; a key
  names one active observation; an accepted answer is backed by a committed row;
  the gap is kept.
* *Clean-up*: active results and their replay rows stay; no dependents without a
  parent; the lock is given back, in a dry run too.
* *In-memory service and callback*: the same promise; the refresh stamp is the
  latest request; a pressed button is answered from one recorded observation.
* *Webhook*: an update is accepted once, and lost only if recording it failed.
* *Alerts, scheduler, backup*: a price is alerted once, the cooldown holds for what
  an evaluation has read, only background sources are called, and no restore loses
  an alert that neither the database nor the saved copy holds.
* *Search and chat*: the best source named is the cheapest; airports are not
  guessed; a wish for a watch is honoured; a watch and its audit rows exist together.
* *Page*: what is shown together belongs to one search, a live check is of the
  search that was clicked, and the page settles.
* *Observer*: a price belongs to its card, every card is read once, and an offer
  comes from a page that may be read.

`PROJECT.json` lists every component with its status, and under `hazards` each
place where such a property could fail unnoticed.

## 2. Plan

Order of work, most important behaviour first:

1. `PolicyGuard`, `ControlPlane`: shared decisions, parameters and rows.  *Done.*
2. `DurableLiveObservations`: service, repository, clean-up, one step per SQL
   statement, with crashes and lock time-outs.  *Done.*
3. `ObservationLedger`: the promise as an abstract specification; the durable
   service implements it when requests do not overlap, `LiveObservations` (the
   in-memory service and the Telegram callback) always.  *Done.*
4. `DurableLiveObservationsProofs`: type correctness, consistency of the tables,
   durability of answers.  *Done.*
5. `DurableLiveObservationsGuarantees`: consumption, ownership and lifetime of grants,
   for any number of requests and clean-ups; what the clean-up leaves alone, the
   replay rows under the assumption that clean-up runs do not overlap, which
   `cleanup_overlap` shows to be needed.  *Done.*
6. The refinements of `ObservationLedger` as theorems: `LiveObservationsProofs` without
   a proviso, `DurableLiveObservationsGuarantees` for requests and clean-ups that do
   not overlap.  *Done.*
7. `TelegramWebhook` and its proofs: seen set, durable row, restart, provider
   retries.  *Done.*
8. `WatchScheduler`, `PriceAlerts`, `DatabaseBackup` and their proofs.  *Done.*
9. `SearchPipeline` and `AgentChat`: searches, chat turns and watches over one
   database; `AgentGuarantees`, the proofs.  *Done.*
10. `WebClient`: the page's script; `WebClientProofs`.  *Done.*
11. `OfferHtmlParser`, `PersonalObserver` and their proofs.  *Done.*
12. `SourceGates`: the remaining gates, with theorems over their operators in
    `AgentGuarantees`.  *Done.*

## 3. The modules

**`PolicyGuard`** (`policy/guard.py`, `application/live_refresh.py`).  The
verdicts as operators.  A verdict is `"allowed"` or the code of the first check
that fails, in the code's order.  `IsExpired` and `TooSoon` carry the boundary
instants.

**`ControlPlane`** (`domain/observation.py`, `durable_live_observations.py`).  The
parameters, the rows, the catalog and the policy derived from a catalog entry.
A search intent is its fingerprint.  `validUntil` is the earlier of
`valid_until` and `revoked_at`, as every status but ACTIVE is refused alike.  A
grant's `consumed_at` is kept as a flag.  `RetentionAssumption` states what the
shipped numbers satisfy (grants 5 minutes, results 15, gap 10).

**`DurableLiveObservations`** composes handlers (requests in flight) and cleaners
(clean-up runs) over one database.

| State | Code |
|---|---|
| `db` | the committed rows of the four tables |
| `work`, `writer` | the same tables as the one session that holds SQLite's write lock sees them |
| `pc`, `req`, `mem` | where a coroutine stands, its request, its local variables |
| `clock` | `datetime.now(UTC)` |
| `tokens`, `ledger` | history only: grants handed out, observations ever committed |

One action per `await`: `IssueStart`, `IssueInsert`, `IssueCommit`; `CreateStart`
(idempotency select, clock, source check), `SelectGrant`, `Authorize` (gap
select, gate, guard), `CheckGrant` and `Consume` (the two statements of
`consume_grant`), `Observe` (two inserts under the lock), `RecordIdempotency` or
`RecordConflict`, `CreateCommit`; `GetStart`, `GetOffers`; `CleanStart`,
`ScanOffers`, `ScanReplays`, `Purge`, `ScanGrants`, `PurgeGrants`, `Finish`.
`Respond` delivers or loses the answer, `BusyTimeout` is the driver giving up on
the lock, `Crash` ends any session with its uncommitted writes.

Modelling decisions.

* The driver opens no transaction before the first write, so a SELECT before it
  sees the latest commit and two SELECTs may see different ones; after it the
  session sees its own writes.  A rollback or the end of the session drops them.
* Statements that follow each other under the write lock (the two inserts of an
  observation, the three deletes of a clean-up) are one step: no other session
  can write in between, and none can see them before the commit.
* The gate and the guard read the clock twice with no `await` between; the model
  takes one reading.
* `uuid4` is a choice of an id never used before, told by the history variables.
  A caller presents a grant only if it was handed that grant.
* Missing headers, malformed tokens and the response texts change no state and
  are left out.  The only worker of the code completes an observation before it
  is stored, so the status is always `succeeded`.
* `STATE_MISMATCH` of the gate and the create code for a denied policy other
  than the mapped ones cannot be reached from these callers.

**`ObservationLedger`**.  What callers are promised (ADR 0014, ADR 0016), with no
rows, sessions or clean-up: a ledger of accepted observations that grows by one,
where a grant pays once, an active key names one observation and a search waits
for the gap.

**`LiveObservations`**.  The in-memory service and the Telegram callback.  A call
is synchronous, hence a step, but the clock may advance between the readings it
makes (`at`, `gate`, `clock'`).  Refused calls, replays and reads leave the
state alone and are not steps; a refused callback is one, as it leaves a grant.

**`TelegramWebhook`** (`notifications/telegram.py`, the webhook endpoint,
`TelegramUpdateRepository`).

| State | Code |
|---|---|
| `seen` | `_seen_update_ids` of each process |
| `rows`, `writer` | the rows of `telegram_update_dedupe`, the session that holds the write lock |
| `pc`, `job`, `answer` | a delivery in flight, its process and update, the code it will send |
| `acked` | external: the updates the provider got a 2xx for |
| `accepted`, `failed` | history: how often an update was accepted, whether recording it failed |

`Deliver` is `handle_update` and everything up to the first `await`; `Select`,
`Insert` (or `Conflict`) and `Commit` are the statements of `record_update` and
the commit; `DatabaseError`, `BusyTimeout` and `Restart` fail a delivery;
`Respond` delivers or loses the answer.  The mark in `seen` outlives a failure:
the retry is then answered `duplicate` although no row exists.  The decision
record allows that answer, so it is no finding; `LossNeedsFailure` says exactly
when an update can be lost this way.

**`WatchScheduler`** (`application/watch_scheduler.py`).  The registry and the
decision for a due watch as operators over `PolicyGuard`; circuit and quota are what
the caller captured.

**`PriceAlerts`** (`notifications/alerts.py`, `AlertDedupeRepository`).  From a
scheduled call to a committed alert of one watch and itinerary.  `Load` is
`load_state`, `Judge` is `evaluate` and the select of `record_alert`, `Insert` takes
the write lock, `Commit` ends the session, `Fail` drops it.  A row keeps, as history,
which rows its evaluation had read: the cooldown promises nothing about the others,
and two evaluations that overlap may both send inside it.

**`DatabaseBackup`** (`ops/backup.py`) composes `PriceAlerts` with the two commands.  A
copy begins and ends in two steps; one that a commit or a restore overlaps may hold
the file as it was before, after, or a file SQLite cannot read.  Names carry the second
(one tick), so a later copy of that second replaces an earlier one.  A restore reads its
backup at its second copy, steps after it looked whether the file is there: a backup of
the same second may have replaced it, or may still be writing it.

| State | Code |
|---|---|
| `db`, `writer`, `ev` | the rows of `alert_dedupe_entries` and whether the file is readable; the session with the write lock; the evaluations in flight |
| `backups`, `kept` | `flight_hunter_<second>.db`, `<database>.before-restore-<second>.db` |
| `backing`, `restoring` | a command between the begin and the end of a copy |
| `recorded`, `twice`, `epoch`, `exposed` | history: alerts committed, replacements of the database, prices that a commit beside a restore or a second restore of one second took protection from |

**`SearchPipeline`**.  One search as operators, from the registry's policies to the
result or the exception nobody catches.  A code is a number in alphabetical order, so
that the orders the code sorts by stay comparable.  What the Data API answers is an
argument; a body of another shape counts as an unsuccessful one.  `ValidIntent` has every
check of `SearchIntent`: codes, currency, party, trip type and return date.  A list from which
entries were dropped keeps the places of the others (a function of a finite set of
numbers, read in their order).  `Rank` gives each rank the offer that comes before all
but the rest: `SortedBefore` is the sort's key with the input order for ties, as
Python's sort is stable, and `PlaceInOrder` counts what comes before an offer.

**`AgentChat`** composes chat turns, searches and watch requests over one database.
Up to its first write a turn has no `await` that lets another run, except the model's
answer before it: `Receive`, then `ModelRaises`, `AskBack`, `ToolsRaise` or `RunTools`;
then `WriteWatch`, `ReadWatch`, one `WriteAudit` per event and `Commit`, with `Abort`
anywhere.  The operators `ParsedDraft`, `ModelDraft`, `MergedDraft`, `Options`,
`SelectedCode` and `DateMatrix` are the code's functions; what the regular expressions
find in a text, and how well a text fits an airport, are inputs.

**`WebClient`** (`api/web.py`).  An action is what the script runs between two
`await`s.  `Submit`, `SearchAnswered` and `SearchFailed` are `runSearch`; `Click`,
`Granted`, `Created`, `Observed` and `CheckFailed` are `runLiveCheck`; `Ask`,
`Answered` and `AnswerFailed` are `requestAgentChat`.  The server is taken at the
promise the other modules show: it accepts an observation only for the user and the
search of its grant.

**`OfferHtmlParser`** (`browser/html_extractor.py`).  The handlers of the tokenizer's
events with the code's two counters, beside the DOM the page would have (`open`,
`outer`, `seen`, `priced`).  `VoidTag` and `StrayEndTag` are the tokens that counters
cannot account for; a page where one of them meets a card is `broken`, and the
properties excuse it.

**`PersonalObserver`** (`providers/personal_observer/runner.py`) composes the parser
with the runner: the gates, the browser, the page that may move on after its host was
checked (`Move`), and the extraction.

**`SourceGates`**.  Gates that keep no state, as operators.  An MCP answer is a payload
whose shape, and the shape of each entry, are fields the checks read in the code's order.

The modules named **`MC...`** give catalogs, requests, answers and symmetry sets for
TLC.  **`DurableLiveObservationsProofs`** and **`DurableLiveObservationsGuarantees`**,
which extends it, **`LiveObservationsProofs`**, **`TelegramWebhookProofs`**,
**`WebClientProofs`**, **`AgentGuarantees`** (of `AgentChat`, `SearchPipeline` and
`SourceGates`), **`PersonalObserverProofs`** and **`DatabaseBackupProofs`** hold the proofs (section 6).

Definitions whose comment starts with "Mutant of" are broken variants of a
definition.  Nothing of the specification uses them; each stands for a plausible
bug, and with it in place of the original the named property fails.

## 4. What the runs check

| Run | Instance | Shows |
|---|---|---|
| `durable_requests` | 2 handlers, no clean-up, 2 users, 2 intents, 2 keys, 2 grants, 2 observations, clock 0..1 | grants are consumed exactly with committed observations, fit them, and stay spent; an accepted answer is durable |
| `durable_cleanup` | 2 handlers, 1 cleaner, 1 user, 2 keys, 2 grants, 2 observations, clock 0..3 | types; tables consistent; active results and replay rows preserved; retries make no second active observation; the gap holds since a request's start; a torn read only after expiry |
| `durable_serialised` | 1 handler, 1 cleaner, as above, with fairness | implements `ObservationLedger`; the write lock is always released |
| `live_observations` | 2 users, 2 sources, a callback key, 3 grants, 2 observations, clock 0..3 | types; stamp and callback table agree with the observations; implements `ObservationLedger` |
| `telegram_webhook` | 2 processes, 2 deliveries in flight, 2 updates, with fairness | types; an update is accepted once; one the provider gave up on is recorded unless a delivery failed; every update settles |
| `web_client` | 2 live checks, 2 agent turns, 2 airports, 5 acts of the user, with fairness | what is shown together belongs together; observations are of the search clicked; the offered choices fit the form; the page settles |
| `offer_extractor` | pages of up to 6 tokens of 5 tags, 6 runs | the counters follow the page; prices stay in their card; every card once; offers have grounds |
| `price_alerts` | 2 evaluations, 6 providers, 5 watches, 2 prices, 2 copies, clock 0..2 | a price is alerted once per database; cooldown; background sources only, with what was captured respected; restores lose no alert |
| `agent_turns` | 2 requests out of 7 chat, 2 search and 2 watch requests, 6 model and 6 API answers | watches and trails whole; wishes honoured; no guessed airport; the best is the cheapest |
| `grant_race` | 2 handlers, 1 grant | **violated**: two creates spend one grant (ADR 0016 says one-time) |
| `gap_race` | 2 handlers, 2 grants, clock 0 | **violated**: two creates refresh one search at once (ADR 0014 says 600 seconds) |
| `cleanup_overlap` | 1 handler, 2 cleaners | **violated**: overlapping clean-ups delete an active replay row (ADR 0018 says it is preserved) |

Bounds and why they suffice.  Two requests in flight are the fewest that race,
and every property relates at most two observations, two rows or two requests;
two grants and two observations let each request use its own or the other's.
Clock values: grant lifetime 1, result lifetime 2 and gap 2 keep the code's order
(5 <= 10 <= 15 minutes) and clock 3 lets a result expire and be replaced.  In
`durable_requests` no clean-up runs, so the lifetimes are 1 and the clock stops at
1, the instant every grant expires.  There is one user where the users are told
apart by no other state; `durable_requests` has two, for the checks on who owns
a row.  The catalog holds an enabled and a disabled source (`durable_cleanup` and
`cleanup_overlap` have the enabled one only, as a refused request touches no
table), and a source whose permission lapses in `live_observations`.  Two
processes with two deliveries are the fewest that race for one dedupe row and
leave a mark in one process that the other does not have.  In `web_client` five acts
are the fewest in which a search, a live check of it, a second search, an edit and a
turn all meet.  Six tokens hold a card in a card with a price and text, or two cards
one after the other.  In `price_alerts` the clock reaches the cooldown (2), a day
boundary and the instant a pause ends; two copies are a backup and a restore of it,
or two restores; five of the six providers each fail one check of the registration or
the guard, the watches are due, paused, past their departure, disabled or limited to
some providers, and the captured states leave the sixth provider free, with its circuit
open or without a reservation.  In `agent_turns` each request
stands for a way through the slots: codes, words that fit one airport or several,
choices of the user, missing dates, wrong parties, a malformed currency.  One place is a
word of three letters that two airports fit: `han` is Hanoi's code, which the demo
repository does not hold, and a part of the word Shanghai.  `MaxClock` bounds the
clock and the id sets bound the history; `live_observations` therefore may stop
once ids and clock are used up and turns the deadlock check off, and so do the last
four runs of the table above that pass, where a user, a page, a clock or a set of
requests comes to its end; the others never stop because a session or a process can
always die and start again.

## 5. Fairness

`FairSpec` asks weak fairness of each handler's and each cleaner's own steps: the
event loop serves every coroutine whose statement can proceed, and SQLite ends a
wait for the lock by granting it or by its busy time-out (`BusyTimeout`), so a
waiting session always has an enabled step.  Arrivals, crashes and the clock get
no fairness: nobody has to call, die or wait.

`FairSpec` of `TelegramWebhook` asks the same of a delivery's own steps, and strong
fairness of the provider's delivery of each genuine update it has no 2xx for: the
provider retries ("Telegram can retry webhook updates", ADR 0019), and a slot that
is busy with another delivery only postpones it.  Failures, restarts and lost
answers get no fairness.

`FairSpec` of `WebClient` asks weak fairness of the requests the page has sent: `fetch`
settles every request, with an answer or an error, and the handler then runs to its
next `await`.  The user has no fairness.

## 6. What is proved

Every theorem holds for every value of the constants that meets the named assumptions of
the modules it is about, and every such assumption is evaluated by TLC on the runs.

**The durable service**, under the assumptions of `ControlPlane` and
`DurableLiveObservations`, for any number of handlers and cleaners:

* `TypeCorrect`: `Spec => []TypeOK`.  One lemma per kind of step (`MoveType`,
  `CloseType`, `ReadType`, `WriteType`, ...), each about what a session's place
  says of its request and locals (`SessionOK`).
* `TableInvariant`: `Spec => []TableInv`.  `TablesConsistent` and
  `AcceptedIsDurable` are not inductive: a commit publishes what was computed
  steps before, and a clean-up deletes by ids read steps before.  `TableInv` adds
  - who holds the write lock, read off the places (`LockOK`),
  - that a request's uncommitted rows are its own, under a fresh id (`MadeOK`),
  - that every row stems from a committed request or the one being written, and
    that ids of committed observations gain no rows (`OriginOK`),
  - that what a clean-up read still covers every row it has to delete together
    (`CleanOK`),
  - that both the committed and the working tables are consistent.
* `TablesStayConsistent` and `AnswersAreDurable` follow from it.
* `GrantInvariant`: `Spec => []GrantInv`.  A grant is judged from a copy read
  several `await`s before the writes that rely on it, and the clean-up may delete
  the row in between.  `GrantInv` adds that ids of grants are handed out once, that
  a row's consumption mark agrees with the observations committed or being
  written with it, in both the committed and the working tables, and what a request's
  earlier reads still say at each later place (`SpendOK`).
* `ConsumptionIsAtomic`, `ObservationsFitGrants` and `SpentGrantsStaySpent` follow
  from it.  None of them says that a grant is spent once: `grant_race` refutes that.
* `RowInvariant`: `Spec => []RowInv`, with any number of overlapping clean-ups: what
  a clean-up has chosen is expired and stays so, because an observation's id is
  never used again.  `TornReadsHaveExpired` follows, and `GapHoldsSinceStart`, where
  an observation that was deleted is old enough because results outlive the gap
  (`RetentionAssumption`).
* `ReplayInvariant`: `NoOverlap` implies `Spec => []ReplayInv`.  A replay row's key
  is used again, so the keys a clean-up has read keep their meaning only while no
  other clean-up can delete them.  `ActiveResultsStay` and `RetriesMakeOne` follow
  under the same assumption; without it `cleanup_overlap` is a counterexample.
* `SerialisedImplementsLedger`: `Serialised` (one request in flight) and `NoOverlap` (one
  clean-up) imply `Spec => ImplementsLedger`.  Clean-ups, crashes, lost answers and lock
  time-outs still come between any two statements of the request.  Every step but the
  commit of a create is a stutter or a tick of the ledger's clock; the commit is its
  `AcceptSome`.  For that the guard must still hold when the row is published, many steps
  after the reads: `SerialInv` says that every committed observation was there when the
  request started and that its clock readings lie in the past; the grant then follows
  from `GrantInv`, the key from `ReplayInv` and the gap from `RowInv`.
  `SerialisedGrantsPayOnce` needs `Serialised` only.  `grant_race`, `gap_race` and
  `cleanup_overlap` show what happens without the two provisos: nothing in the code
  enforces them.

**The in-memory service and the callback**, under `CallbackAssumption` and those of
`ControlPlane`, for any sources, users, keys and lifetimes:

* `ServiceTypes`, and `ServiceInvariant`: `Spec => []ServiceInv`.  `ServiceInv` says
  that an id names one observation, that its grant is known and every grant of that id is
  consumed, that a user's key names one row and the row an observation of that user, and
  that a search has one stamp at most, of one of its observations and no earlier than the
  others'.  `StampsAreLatest` and `CallbacksAgree` follow.
* `ServiceImplementsLedger`: `Spec => ImplementsLedger`, without a proviso.  A callback,
  which issues and creates within one call, is one step of the ledger.

**The Telegram webhook**, for any number of processes and deliveries:

* `WebhookInvariant`: `Spec => []WebhookInv` of `TelegramWebhook`, for any number of
  processes and deliveries: the write lock is held exactly between INSERT and
  commit, what is about to be committed has no row yet, and every mark, pending
  success answer and acknowledgement stands for an update that is recorded, being
  recorded or known to have failed.  `UpdatesAcceptedOnce` and `LossesHaveFailures`
  follow.

**The page**, under `ClientAssumption`, for any number of live checks and turns in flight:

* `ClientTypes`, and `ClientInvariant`: `Spec => []ClientInv`.  None of the page's
  properties is inductive: what is shown depends on what a request in flight carries.
  `SearchInv` says that one search at most is in flight and that results and denials go
  together; `CheckInv` says, for each `await` of a live check, what its intent and its
  grant still agree with, and what a search that came between leaves of that.
* `ResultsFollowLastSearch`, `ObservationsAreAsClicked`, `ShownListsAgree` and
  `OffersFitForm` follow.

**The agent and the search**, under `RequestAssumption` (what a request's kind says of
its fields), `ReplyAssumption` and `PlaceAssumption` (lists are finite, prices and ids
numbers) and `FareAssumption`, for any requests, replies, places and settings:

* `AgentInvariant`: `Spec => []AgentInv`.  What is committed was written in a session
  steps before, from a draft older still.  `AgentInv` says what a session holds at each
  stage (`SessionOK`), that its written rows and those still to write make up the tools of
  the turn, and that the rows of answered turns, and no others, are committed.
  `WatchesHaveAudits`, `WishesAreHonoured`, `TrailsAreWhole` and `AgentNeverGuesses`
  follow; the last rests on lemmas about the slots (`DraftPlaces`, `CodeIsNamed`,
  `FirstSuggestion`): where no choice and no code was given, the code asked for is the
  best fit of the words (`BestFit`), and the only one unless the word has three letters.
* `BestIsCheapest`: `ResultInv` (inductive next to `AgentInv`) ties a result to the search
  of its turn, and `BestOfSearch` is about the search.  `SortOrder` shows that the ranking's
  key and the input order are a strict total order; `EveryRankIsTaken`, by the pigeonhole
  principle, that the number of offers before an offer is a different one for each and
  leaves no rank empty; `RankStartsCheapest` that the first of the ranked list is no dearer
  than any offer it was made of.  `PerSeat` divides by the party.
* The gates: `McpNeverBypassesTheGuard`, `McpAnswersAreWhole`, `BookingNeedsAGrant`,
  `ConsumedGrantBuysNothing`, `ReadyMeansSearchable`, for every policy, grant and instant.
  They compare code that repeats the guard's checks with the guard.  `McpAnswersAreWhole`
  says that an answer is believed exactly when it is a dictionary with a list of which
  every entry is believable (`McpBelievable`); then every entry becomes a candidate, in
  its place, and building it does not raise; otherwise no candidate comes through, and
  the error is that of the first entry that is not believable.

**The observer**, for pages of any length and any set of tags:

* `ObserverTypes`, `DepthsFollowThePage`, `PricesStayInTheirCard`, `CardsAreReadOnce`:
  `Spec => []...` of `PersonalObserver`.
  `DepthsMatchPage` is inductive next to the parser's types; the two others follow it
  step by step: a text is filed only while the depths say that a price is open, and a
  card is finished only by the end tag that closes it.  `OffersAreGrounded` adds
  `Grounds`, what each phase of the runner remembers of the gates before it; that the
  first price of a card exists uses that the natural numbers are well-founded.

**Alerts, scheduler and backups**:

* `AlertsAreRecordedOnce`, `CooldownSeparatesAlerts`, `SchedulerStaysInBackground`,
  `RestoreKeepsAlerts`: `Spec => []...` of `DatabaseBackup`, for any number of
  evaluations in flight, any clock and any number of copies.  Beside the types:
  - `OnceInv`: what was recorded since the database was last replaced is in it, unless
    it became unreadable, and what is about to be committed was not;
  - `SpacedInv`: no row is from the future or closer than the cooldown to one its
    evaluation had read, in the database and in every copy that may come back, and
    what an evaluation in flight has read bounds what it decided;
  - `SurviveInv`: once a restore has saved its copy, the copy or an excuse covers
    every row of the database.

The proof of a step names, for each action, a lemma on what it keeps
(`QuietKeeps` for reads, `ObserveKeeps`, `RecordKeeps`, `PurgeKeeps`, ...), and
`PublishKeeps` for the commits; the later modules repeat the pattern with frame
lemmas for the sessions that do not move (`RowFrame`, `ReplayFrame`).

## 7. Checked by TLC only, and not modelled

`WriteLockReleased`, `UpdatesSettle` and `PageSettles` need fairness, which the prover
does not handle, and stay with TLC.  Every other property of a passing run is stated by a
theorem.  Of the three violated ones, `MinimumGapKept` has none under any proviso:
`completed` is a clock reading from the start of a request and the gate reads the clock
later, so a request that starts just before the gap has passed and reaches the gate just
after is let through, also where nothing overlaps (TLC finds it with one handler and a
grant lifetime of 2); the ledger measures the gap at the commit, and `GapSinceStart` from the start of
a request.

What the models leave out of the code they cover:

* texts: labels, warnings' wording, titles, URLs, the status line of the page;
* what a regular expression finds: digits of neighbouring texts that `_first_price`
  joins, words of three letters that `_parse_message` takes for codes;
* the arithmetic of nearby airports, the risk labels of the date matrix;
* the answers `database_missing` and `backup_missing` of the backup commands;
* the `ScraplingRuHtmlOfferExtractor`, which nothing but its tests calls.

Not modelled: the presets of the agent and the catalog of price sources (static
texts), the import of airports (one transaction of one command), price snapshots and
provider audit rows (single inserts that nothing reads back), the smoke command of the
Data API, reading the environment, migrations.  `PROJECT.json` gives the reason for
each.

What the properties excuse, and therefore do not cover:

* `CooldownKept` speaks of the rows an evaluation had read (`saw`): two evaluators that
  load the state before either commits may both send inside one cooldown
  (`notifications/alerts.py:110`);
* `AlertsSurviveRestore` excuses prices that a commit beside a restore, or a second
  restore of the same second, took protection from (`exposed`, `ops/backup.py:50`, `:86`);
* `ShownTogether` excuses a live check that another search overlapped: its answer is shown
  below the newer results (`overlapped`, `api/web.py:1323`);
* `ObservedAsClicked` excuses a click while a search runs (`duringSearch`);
* `OffersMatchForm` compares a choice list with its field; that a late answer of the agent
  overwrites what the user has typed meanwhile (`api/web.py:1228`) is not covered;
* `OffersHaveGrounds` excuses a page that moves between the host check and the reading of
  its content (`moved`, `providers/personal_observer/runner.py:179`);
* `SpentGrantStaysSpent` and `GapSinceStart` speak of requests that start after the commit;
  the requests that overlap are the subject of `grant_race` and `gap_race`.

Disagreements between code and documents that the models met and that no run refutes:

* a place named by three letters is resolved to its best match without asking
  (`agent/chat.py:421-430`), while `docs/START_HERE_RU.md:287` says an ambiguity is not
  guessed.  `NeverGuesses` allows this exception and no other.  The instance of
  `agent_turns` exercises it: a turn to `han`, which several airports fit and no code
  matches, is searched to Shanghai's first airport.  Without the disjunct
  `query \in ThreeLetters` the property is violated there after three states;
* `LIVE_REFRESH_MIN_GAP_SECONDS` is read and shown (`config.py:77`), but the durable
  service builds its gate with the default gap, so that changing the variable does not
  change what is enforced.  The gap is a parameter of the models;
* the language model's draft alone may carry the wish for a watch
  (`agent/chat.py:285`), while `docs/START_HERE_RU.md:288` lets only the user's explicit
  request create one; `WishIsHonoured` states the other direction;
* a failed search replaces the results but leaves the denials and the live list of the
  search before it (`api/web.py:1270-1275`); `ResultsAreOfLastSearch` is about results.
