# Verification of hermes-home

TLA+ models of hermes-home, the TLC configurations that check them, and TLAPS
proofs about them. Paths are relative to the repository; code paths are below
`src/hermes_home/`.

hermes-home is one asyncio process with a SQLite database in WAL mode. Home
Assistant posts a webhook for every camera trigger; ingest workers turn each
delivery into an immutable event; two monitors record whether the cameras worked
and whether the webhooks arrived; MCP tools answer an agent's questions from all
of it.

## 1. Inventory

| Component | State | Operations | What makes it correct |
|---|---|---|---|
| Webhook, `api/webhooks.py` | request in flight | stamp, insert, confirm, answer | 202 only for a row that is really stored |
| Delivery queue, `storage/repositories.py:36-178` | rows of `event_deliveries`: status, attempts, due time, lease, body, outcome | enqueue, claim, complete, reject, retry or fail, prune | one holder at a time, final outcomes stay final, retries bounded, everything accepted comes to rest |
| Ingest worker, `ingest/worker.py` | the delivery each task holds; the wakeup and stop events; the time of the last retention | claim, process, write the outcome; wait; maintain; stop | every way a job can end leaves a row that is handled; a lost wakeup costs one poll; a stop ends |
| Pipeline, `ingest/pipeline.py` | one job's local values | dedupe by key, freshness, dedupe by content, analysis, insert, correlate | one event per occurrence; no outage recorded as an observation; a bounded time |
| Freshness gate, `ingest/freshness.py` | the timestamps already consumed (in `events`) | poll the image entity, fetch | a frame was published for the event it is stored with, and serves another only after the dedupe window |
| HA client, `clients/home_assistant.py` | none | requests with bounded retries | transient and permanent failures are told apart |
| Vision providers, `vision/` | none | one call, its reply classified | only a finished answer of the model asked counts |
| Incidents, `ingest/correlate.py` | `incidents` | join or open, close idle | one incident per stretch of activity; nothing joins a closed one |
| Retention, `ingest/retention.py` | `raw_body` | null old bodies | only the body goes |
| Health monitor, `health/monitor.py` | `camera_health` (current), `camera_health_intervals` (history), first-poll flag | poll, record, restart | history claims only what was observed; current status is debounced |
| Coverage, `health/coverage.py` | none | camera, zone and pipeline coverage over a period | `complete` is true, false or unknown, never wrong |
| Reconciler, `health/reconcile.py` | `camera_delivery_gaps`, `camera_pipeline_state` | pass over the cameras | a gap for each lost trigger and for nothing else; the watermark is honest |
| Spatial model, `spatial.py` | `zones`, `zone_edges`, `entity_zones`, the files loaded | validate, seed at startup, place an event, fields of view | connections, entities and places converge to the files, zones accumulate; no event out of reach |
| Read services, `services/event_service.py`, MCP tools, `mcp/` | none; the agent keeps the thread | search, recent events, hints, effective status | a cut list can be continued without loss; a hint leads somewhere |
| Lifespan and probes, `api/app.py`, `api/health.py` | tasks, clients, engines | start, readiness, stop | tasks end before what they use; ready means ready |
| Configuration, storage engine, CLI, migrations, helpers | settings, the schema's revision | | see section 5 and `PROJECT.json` |

Interactions: the webhook and the workers share only the table (plus a wakeup
event that may be missed); workers share the tables and the UNIQUE constraint on
`events.delivery_key`; the reconciler reads rows the webhook writes; coverage
reads rows the monitors write; the read services read rows the jobs and the
seeding write. There is no lock and no message channel, so every hard behaviour
is an interleaving of database transactions and awaits: leases that expire under a
running job, crashes between transactions, values read before an `await` and used
after it, an image entity that moves on while a job waits for it, polls and passes
that fail or are skipped, late and lost webhooks, tasks that are still busy when
the service stops. `PROJECT.json` lists them as hazards, each at its line.

## 2. Modules

| Module | Models | Instance | Proofs |
|---|---|---|---|
| `IngestContract` | the abstract promise of ingestion: a stored delivery comes to rest at most once, an occurrence becomes at most one event | | |
| `DeliveryQueue` | webhook, queue, workers, pipeline outcomes, retention, crashes; refines `IngestContract` | `MCDeliveryQueue` | `DeliveryQueueProofs` |
| `IngestJob` over `VisionReply` | one job in time: every request, poll and call and how it can end | `MCIngestJob` | `IngestJobProofs` |
| `FreshFrame` | the freshness gate and content dedupe against an image entity that moves | `MCFreshFrame` | `FreshFrameProofs` |
| `Incidents` | correlation in the order jobs finish, and the closing sweep | `MCIncidents` | `IncidentsProofs` |
| `ServiceLife` | start, worker loops, maintenance, readiness, shutdown, crash | `MCServiceLife` | `ServiceLifeProofs` |
| `CameraHealth` over `CameraCoverage` | the health monitor, and coverage asked of its history | `MCCameraHealth` | `CameraHealthProofs` |
| `DeliveryReconcile` | the reconciler, pipeline coverage and pipeline status | `MCDeliveryReconcile` | `DeliveryReconcileProofs` |
| `EventSearch` over `HouseMap` | the map seeded at each startup, the place of events, and an agent that reads long lists and follows hints | `MCEventSearch` | `EventSearchProofs` (both) |

A job appears in four modules because four different things can go wrong with
it: what its transactions do to shared rows (`DeliveryQueue`), how long it takes
and what it makes of failures (`IngestJob`), which picture it gets (`FreshFrame`)
and where in the order of events it is stored (`Incidents`). `DeliveryQueue`
abstracts the other three to "a job ends in one of these ways within `JobBudget`";
`IngestJob` shows the ways and the time.

Definitions named after a fault and commented "Seeded fault" are not reachable
from any `Next`; they are the mutated forms the properties are tried against.

### DeliveryQueue

One action per transaction. A job is three: `Claim` (the `UPDATE ... RETURNING`,
its own commit), `StartWork` or an outcome of stage A, and a final write. What a
worker keeps between them, the delivery, the attempt number and whether the body
was there, is state, because nothing rereads it: every final write is an ORM
update by primary key without a condition. `drain_once` has five exits, each an
action: an outcome, a `ProcessingError` or any other exception (`Transient`), a
`KeyError`/`ValueError` (`RejectInvalid`), an exception after the event was
flushed (`PersistThenRaise`: `drain_once` returns normally, so the event commits
with the retry), and cancellation (`Abandon`). `LoseRace` is the `IntegrityError`
branch; where the rolled back session cannot reload the delivery that branch
raises, which is `Abandon` too.

Timestamps are countdowns, so no clock grows. `attempts` is counted up to
`MaxAttempts + 1`; beyond that nothing distinguishes the values. `JobBudget`
bounds the time a job takes. `JobBudget < Lease` is the inequality of
`Settings.analysis_budget_seconds`, enforced at startup for Ollama only; the
budget also leaves out the HA client's own timeouts (`IngestJob`'s `WorstCase`
has them), so the queue is checked on both sides of the inequality. The theorem
`LeaseOutlastsJob` says when the startup check does establish it.

### IngestJob and VisionReply

`IngestJob` is `process_delivery` with `_get` unfolded: `Again`, `GiveUp`, `Denied`
and `Garbled` are the ways a request fails with attempts left, without, for
good, or with a body that is no JSON; the `Read...` actions are one turn of the
freshness poll; `Analyze` is one call of `_analyze_with_retry`. `elapsed` adds
every wait up to its timeout. A timeout takes all of it, any other answer any part.
`VisionReply` translates what each provider makes of a reply: `_parse`, test by test,
and the two classifications of errors. `Passing` in `IngestJob` says of the same
replies, without looking at the code's verdict, whether the obstacle may pass. What a
reply is worth is `_parse` itself, translated and not judged.

`RequestTime` bounds one request to its end. httpx applies its timeout to each
phase of a request, so this is an assumption about the network; likewise
`VisionTime` includes the retries inside the Anthropic SDK.

### FreshFrame

A frame is named by the publication that first brought its bytes; comparing content
hashes is comparing frames. The world moves freely between two steps of a job:
`Publish` (new bytes, or those published last a second time, with a timestamp or
without), `Reload` (the entity is `unknown` while `image_proxy` serves the last
picture), `Trigger`. The entity's state is the time of a publication, of receipt as
well as of capture, and nothing is claimed of the moment a frame shows: `served`
remembers under which publication the bytes were fetched. One thing is assumed of the
integration, that it does not go back to bytes older than its last ones. `Begin` reads
the newest consumed timestamp, and `floor` keeps what the code computes from it;
`Poll...` and `Fetch` are different steps because Home Assistant is asked twice.
Retried deliveries come back in any order.

### Incidents

`Correlate` is one step: a job has inserted its event when it looks for an
incident, and SQLite has given its transaction the write lock. The sweep holds no
lock until it commits, so it is `SweepSelect`, `SweepRead` per incident and
`SweepWrite`, with jobs in between; `SweepLost` is the exception or the end of the
process. Events happen (`Occur`) and are stored in any order, which stands for
slow jobs, retries and restarts. A summary is the set of events it counts.

### ServiceLife

An action of a task is what it does between two awaits. A worker's loop is
`CheckStopping`, `Claim` or `ClaimNothing`, `FinishJob`, `LoopError`, `ClearAndWait`,
`TimeOut`; `Wake` is `Event.set()`, which releases whoever waits even if the event
is cleared before it runs. Maintenance is `SweepIncidents`, `Prune` or `PruneFails`,
and its wait. The lifespan's `finally` block is the sequence `StopOrder`, of which
`IngestWorker.stop()` is three steps: signal, grace, cancel. `Tick` lets time pass
when every task waits or is in a job; a job may take for ever.

### CameraCoverage and CameraHealth

`CameraCoverage` translates `camera_segments`, `get_camera_coverage` and
`get_zone_coverage` operator by operator; a slice `t` stands for `[t, t+1)`.
Reasons and the cosmetic merge of abutting segments are left out. `CameraHealth`
has `PollStart` (the moment is taken), `PollRecord` (every camera is written in
one transaction), `PollFails`, `Stop` and `Start`; Home Assistant's answers go
through `Evaluate`. A ghost variable logs every recorded poll; the properties
compare the code's answers with the log, never with the code's own tables. Two
polls in the same tick are not modelled: polls are at least 5 s apart.

### DeliveryReconcile

For each camera in turn `AskHistory` takes the moment and `Compare` is the
transaction after Home Assistant answered; `Unavailable` is its
`HomeAssistantError`, `Abort` anything else, including the end of the process (all
state is in the database). Triggers may be stamped up to `Skew` ticks ahead of
this host's clock; their webhooks arrive at any later time or never. The samples of
the trigger entity are abstracted to its rising edges. A ghost variable logs the
moments of completed looks. Deliveries are assumed younger than the retention
horizon (default days, against a lookback of an hour). A delivery is not consumed
by the trigger it matches, so two triggers within the match window share one:
"delivered" in the properties is the code's notion, some delivery of that camera
within the window.

### HouseMap and EventSearch

`HouseMap` has the two files, edited between startups (`Edit`), the startup that
validates and seeds them over the rows earlier files left (`Boot`), and events placed
as `resolve_zone` places them (`Ingest`). `EventSearch` adds an agent that asks
`home_recent_events` and `home_search_events`, continues a cut list from
`end_time={last}` (`NextPage`) and follows the hint of an empty window (`FollowHint`),
which the tool refuses if the hint names more minutes than it accepts (`HintRefused`).
`Follow` is the agent: after a list cut by the text (`CutByText`) it does what the
answer tells it to; that it also asks on after a list as long as its limit
(`CutByLimit`) is an assumption, the answer does not say so. An event may be posted
for any entity in `Posted`, the camera's first, another of its own or nobody's, as
`_trigger_entity` takes what the body names. The history variable `newer` remembers
which files were seeded, and in what order. Ties of one instant are ordered
arbitrarily, as the database may. A page has at least `Room` events, more than there
are of one instant: where a single event is too long for a result, or more events
share a microsecond than a page holds, paging cannot advance, and nothing is claimed.

## 3. Runs

| Run | Shows | Bounds |
|---|---|---|
| `queue_leased` | `SoleHolder`, `HolderIsCurrent`, `CompletionIsBacked`, `FailedIsExhausted`, `TerminalIsFinal`, `AcceptedComesToRest` and the refinement of `IngestContract`, when jobs end within their lease | 2 deliveries of one key, 2 workers, 2 attempts, lease 2, budget 1, retention 1: enough for a reclaim while the other worker is idle or busy, a lost race, and a retry that exhausts the attempts |
| `queue_reopened` | violation of `TerminalIsFinal`: a stale worker undoes a final outcome | lease 1 = budget 1, so two workers hold one row |
| `ingest_job` | `JobIsBounded`, `OneRetryForPassing`, `OutageKeepsTheImage`, `JobEnds` | 3 polls, 3 sends as in the code, every reply of both providers; waits of 1 to 3 |
| `job_rejected` | violation of `RejectedIsMalformed`: a body of Home Assistant that is no JSON rejects a well-formed delivery | as `ingest_job` |
| `fresh_frames` | `PublishedForItsTrigger`, `ReuseIsBounded`, `RepeatIsRefused`, `StaleIsJustified`, `TriggersSettle` | 1 worker (the default), 3 triggers, 2 polls, tolerance 1, window 1, 2 attempts, 1 fault, time to 2: a frame consumed, one published again, one retried out of order, and one that repeats after a reload |
| `incidents` | `OpenIncidentsApart`, `EndIsLastEvent`, `InOrderRule`, `ClosedIsSettled`, `IdleIsClosed` | 4 events in two zones, 4 ticks, window 1, idle 1, skew 1: two open incidents and a late event between them, a sweep overtaken by a job |
| `service_life` | `ClientsOutliveJobs`, `IdlePickup`, `OnlyJobsAreCancelled`, `ReadyIsTrue`, `RetentionIsTimely`, `ShutdownEnds` | 2 workers, so that one clears the wakeup of the other; 1 delivery at a time, poll 1, grace 2, sweep 1, retention 2, one monitor enabled |
| `camera_history` | `CoverageIsHonest`, `ZoneCoverageIsUnion`, `CurrentIsDebounced`, `OfflineSinceIsConfirmed` | 2 cameras in one zone, 4 ticks, 4 polls, tolerance 1, threshold 2: gaps of every kind before, between and after polls, all windows |
| `zone_to_now` | violation of `ZoneCoverageReachesNow`: a healthy zone is not complete up to now | as `camera_history` |
| `pipeline_gaps` | `GapsAreExact`, `PipelineStatusIsHonest`, `CompleteWhereExamined` | 2 cameras, 4 ticks, 2 triggers, 3 completed looks: a boundary, a recorded gap and a late resolution for one camera, or both cameras interleaved |
| `pipeline_outage` | violation of `CompleteIsTrue`: `complete = true` over a stretch no pass looked at | 6 ticks, 1 trigger, lookback 2 |
| `house_queries` | `SeedConverges`, `FieldOfViewIsExact`, `PagesCoverAll`, `HintReaches` | 3 zones, 3 versions of the files (a camera moved and given a second entity, one without any, a zone dropped, an edge turned round, one invalid), 2 entities posted, 4 events, at most 2 per instant, limit 4, pages of 3, minutes of 2 ticks, at most 2 minutes, time to 4: a list cut by the limit, one cut by the text, a hint that rounds, one that is refused |

**Deadlock.** Checked for `DeliveryQueue` and `ServiceLife`. Elsewhere runs end
legitimately: time is bounded (`MaxTime`), and a job that is done stays done.

**Fairness.**

- `queue_leased`: weak fairness of `Tick` (time passes), `Restart` (the container
  restarts), and per worker of `Claim` (it polls the table every
  `ingest_poll_seconds`), `StartWork` and `EndJob` (every await in a job has a
  timeout). Nothing is assumed of the webhook, retention, crashes or
  cancellations; the property asks only for behaviours in which crashes and
  cancellations cease.
- `incidents`: weak fairness of `Tick` and of the steps of a sweep (the maintenance
  loop runs for as long as the process does), nothing of the jobs; sweeps cease to
  fail eventually.
- `fresh_frames`: weak fairness per worker of its own steps. Home Assistant, the
  camera and the clock may stand still.
- `ingest_job`: weak fairness of `Next`: each await of a job is a request, a call or
  a sleep with a timeout.
- `service_life`: weak fairness of `Tick`, `Maintain`, `Stop`, and per worker of
  `Work`: asyncio runs every task that can run. `FinishJob` has none, a job may hang.

**Violations.** Each is a sentence of the documentation or a comment the code does
not keep; `PROJECT.json` quotes it. `queue_reopened` is a job slower than its lease,
`pipeline_outage` a single watermark that cannot represent a hole, `job_rejected` an
exception of a JSON decoder that a handler for malformed deliveries catches,
`zone_to_now` a grace period that is passed to the coverage of a zone and dropped
there. What a zone is told without it is `ZoneCoverageIsUnion`.

**Divergences met while modelling, without a run.** The models keep what the code
does; properties are worded so as not to claim the opposite.

- A delivery that kills the process is claimed for ever: `attempts` is compared with
  the maximum only when an error is caught (`repositories.py:97`;
  `tests/test_worker_recovery.py:177` asks for a bound).
- A status that alternates between two adverse values never becomes current: the
  counter restarts on every change (`monitor.py:383`, `storage/models.py:392`).
- A late event may join an incident that began long after it: the lookup is bounded
  on one side (`repositories.py:321`, `correlate.py:3-4`).
- The summary of an incident does not count a job that joins between the sweep's read
  and its commit (`correlate.py:135`).
- "Never reuse a frame already consumed by an earlier event" (`freshness.py:95`) is
  about timestamps, not pictures. Bytes published between the read of a timestamp and
  the fetch, or published again with a new one, pass the floor a second time; only the
  content hash refuses them, for `dedupe_window_seconds` (`ReuseIsBounded`). The second
  publication of one event's frame, 22 s after the first
  (`docs/camera-event-images.md:11-22`), passes the floor of any trigger fired until the
  tolerance after it (`freshness.py:86-87`): `PublishedForItsTrigger` speaks of
  publications, not of what they show. With several workers two jobs may consume one
  timestamp, as both read the newest before either stores (the default is one). A
  retry stored out of order can let an unverified repeat through, hence
  `RepeatIsRefused` is about events stored in order.
- `analysis_budget_seconds` leaves out Home Assistant's request time, and is enforced
  for Ollama only (`config.py:231-240`, `290-298`).
- `_parse` accepts an absent `done_reason` (`ollama.py:295-296`), as
  `docs/operations.md:183` says ("when present"); `README.md:287-288` asks for `stop`.
- The hint "naming the exact `minutes` value that reaches the most recent event"
  (`tools.py:261-263`) fails in two cases, which `HintReaches` names. It may exceed the
  525600 minutes the tool accepts, and is then refused (`HintRefused`). And
  `latest_event_time` takes every entity of a camera, `search_events` the first
  (`event_service.py:145-152`): an event posted for another entity of the camera is
  hinted at and never listed.
- A list cut by `limit` is not marked as truncated (an agent has to notice that it is
  as long as the limit), and its counts then cover the list, not every event.
- "It must converge rather than accumulate" (`spatial.py:35`; `docs/spatial-model.md:16-18`
  says it of cameras) does not hold for zones: a zone dropped from `home.yaml` stays in
  the map and among the unobserved ones, and a removed parent stays
  (`spatial.py:56-73`). `ZonesAccumulate`, a part of `SeedConverges`, states exactly
  what is kept; the other parts state what converges. "Exactly one" camera per entity
  (`spatial.py:23`) is not enforced, and a place is then either's.
- A poll extends an interval "if less than two polling intervals have passed"
  (`docs/camera-health.md:72`); the code and the model accept exactly two.
- A service that cannot read its own migrations (`head_revision` returns nothing) serves
  whatever schema it finds (`Serves`), against "Refuse to serve against a schema this
  code was not written for" (`app.py:55`), and `/ready` reports it ready.
- An event whose incident the sweep closed meanwhile opens another one.

## 4. Proofs

All are for every value of the constants under the named assumption of the module
(`QueueAssumption`, `JobAssumption`, ...), any number of cameras, workers,
deliveries, triggers or events, and any settings. `PROJECT.json` lists the theorems.

**Queue** (`DeliveryQueueProofs`). Without any assumption on the lease: `TypeOK`,
`AcceptedIsStored`, `FailedIsExhausted`, `EventsAreImmutable`, `CompletionIsBacked`;
they hold for jobs that overrun their lease too. Under `JobBudget < Lease`:
`SoleHolder`, `HolderIsCurrent`, `PendingHasBudget`, `TerminalIsFinal`, and the
refinement of `IngestContract`. `StoredInv` ties requests, workers and rows
together: whatever is accepted, held or finished has a row, and a worker's attempt
number never exceeds the row's. The second group needs `LeaseInv`: a working job's
row is `processing` with the attempt number the worker remembers, and
`leaseLeft + age = Lease`. Since `age <= JobBudget < Lease` the lease is still
running, so `Claim` cannot select the row (`HeldIsNotRunnable`). Each step of `Next`
maps to a step of the contract or to a stutter (`ContractStep`), with `outcome` read
off `status`.

**A job** (`IngestJobProofs`): its types and all its invariants. `TimeInv` bounds
`elapsed` at each place of the job by the polls and requests made so far, and
`WorstCaseSum` adds the places up, which takes a few lemmas about products.
`LeaseOutlastsJob` connects this to the queue: with a lease above
`analysis_budget_seconds`, as the startup check asks, a job stays within it if
`(PollAttempts + 1) * GetTime <= PollInterval + margin`, where `GetTime` is a request
with its retries and the margin the code's 15 s. At full timeouts the defaults (15
polls a second apart, three attempts of 10 s a request) do not meet it, which is the
divergence of section 3: the budget holds only while Home Assistant answers quickly,
and the theorem says how quickly. `JobCountsDown`: each step
of a job leaves fewer (`StepsLeft`, at most `4 * PollAttempts + 10`).

**Frames** (`FreshFrameProofs`). `Inv` says of a worker under way that its job is its
own, its floor not below its trigger, and that a timestamp it read is above the floor
and not newer than the last publication: publications only get newer, so the bytes
fetched later were served under one as new, `PublishedForItsTrigger`, for any number of
workers, and `StaleIsJustified`. Under `OneWorker`, `Ahead` adds that the worker's floor
and timestamp are ahead of every row, that no row has a newer picture, and that a
picture on its way into the table is `Forgotten`, outside the dedupe window, wherever
it is stored already; from this `ReuseIsBounded` and `RepeatIsRefused` follow. With two
workers `ReuseIsBounded` is false. `JobsCountDown` ranks a job by
its place and its polls (`JobLeft`): every step of its worker takes from the rank, or
settles the job, or spends one of its attempts; no step of anyone else adds to it.

**Incidents** (`IncidentsProofs`): types and all safety properties. A stored event
belongs to an existing incident of its zone, an incident holds the event that opened
it and starts with it, and a sweep has only open incidents in hand. The step that
matters is joining (`JoinKeepsInv`): the incident that grows is the latest candidate,
and an open incident beyond it that the event reached would have been a later
candidate, so the grown incident still ends more than a window before it.
`SummaryStaysTrue` says what is left of a summary when a job overtakes the sweep: it
counts members only, and never none (`correlate.py` has a branch for an incident
without events; it is never taken). `SeenInv` carries this from the read to the commit.

**Service** (`ServiceLifeProofs`): types and all safety properties. `LifeInv` says
which tasks, clients and monitors each step of a life has. `PickupInv` says that a
worker waiting after an empty claim waits no longer than what became due since may
still wait, `due + left <= Poll`, hence `IdlePickup`. `GraceInv` relates a
worker's wait to the rest of the grace period, `left + Grace <= Poll + grace`: if a
poll fits, nobody idle is left when it is over, hence `OnlyJobsAreCancelled`.
`RetainInv` adds the sweep's wait to the ages of the last success and the last
failure, hence `RetentionIsTimely`. `ShutdownCountsDown`: `ShutdownLeft` counts the
steps of `StopOrder` and the seconds of the grace period that are left; every step
and every second of a shutdown takes from it, and nothing a task does adds to it.

**Camera health** (`CameraHealthProofs`): types, `CurrentIsDebounced`,
`OfflineSinceIsConfirmed`, `CoverageIsHonest`, `ZoneCoverageIsUnion`. `RowInv` states
a row as a function of what the camera's `n` polls saw: its candidate and failures
are the last polls, its status that of the last decisive one, `offlineSince` the
first confirmation since the last healthy poll. The proof takes one poll (`n` to
`n + 1`) at a time.

Coverage is proved in two halves that meet at the intervals. `HistoryInv`, an
invariant of the monitor, says that the intervals of a camera are those its log of
polls proves: they follow one another, and a moment is covered by one with a status
exactly when two consecutive polls of one process frame it with that status.
`LoopInv`, an invariant of the loop in `camera_segments`, says that up to the cursor
the segments tell of each moment what the intervals say. The loop is the recursive
function `Timeline`; its induction is by the least `k` at which `LoopInv` would fail
(`LeastNat`, from the well-foundedness of `<` on the naturals), as the library's
induction theorem takes an operator the provers cannot instantiate. A zone's coverage
then is arithmetic on sets of slices, without a grace: its loop over cameras has no
order.

**Reconciliation** (`DeliveryReconcileProofs`): types and all three properties.
`GapInv` ties each gap to the looks that reached its trigger and the deliveries each
of them could see; `LooksInv` says that the watermark and its start belong to such
looks. `WatermarkStaysTrue` says which: the watermark is what the latest completed
look settled, its start the first one's moment, and the delivery last verified is one
a look found. `LatestOf` gives the maximum of a bounded set of naturals a member.

**House and search** (`EventSearchProofs`): types of both modules, `SeedConverges`,
`FieldOfViewIsExact`, `HintReaches`, `PagesCoverAll`. The map's theorems are of
`HouseMap` alone, and the agent's steps leave the map alone (`SearchKeepsMap`). That
edges and entity rows are the wanted ones is the diff of the seeding
(`SeedRowsExact`); that this amounts to the declared connections, views and places
takes the case of entities two cameras share (`RowsOfEntity`, `PlaceOfOwner`).
`ZonesAccumulate` is inductive by itself, with the order of seedings in `newer`
(`BootOrder`, `BootAccumulates`). `HintInv` says that a hint points at an event that
is still there; the rest is division: an age rounded down to minutes is short by less
than one, which `Slack` covers, and it is at most `MaxMinutes` if the event is young
enough. For the pages, `TiesInv` bounds the events of one instant (a cardinality, by
the library's theorems on finite sets) and `ReaderInv` keeps what the agent has not
been shown inside what it will ask for next: a cut page holds more events than one
instant does, so its last event is older than its first and the agent moves on.

**What remains model-checked.** `AcceptedComesToRest`, `IdleIsClosed`, `TriggersSettle`,
`JobEnds`, `ShutdownEnds`: liveness under fairness is out of the prover's reach, as
is that a step is enabled. For the last three the countdown theorems prove the other
half, that only so many steps are left before the end; what TLC adds is that in a fair
behaviour those steps are taken. `AcceptedComesToRest` has no such rank, as crashes and
cancellations may take any number of claims; `RetriesLeft` says that whatever waits
for a retry has attempts left.

## 5. Not modelled, and why

- Command line, migrations: administrative commands run while the service is down;
  `ServiceLife` has only the revision a migration leaves.
- Helpers and logging: keys, clocks and formatting. Delivery keys are the constant
  `KeyOf`.
- Parsing of files and environment; of the settings only those that bound behaviour,
  as constants.
- Storage engine: transactions and durability are what the actions assume; integrity
  checks are diagnostics.
- Prompts, image encoding, costs, the mock provider, the probe and the registry.
- Tags, the contents of analyses, incident summaries' wording, summaries and lists of
  the read services that are one statement without state, and the MCP tools that
  format them.
- Webhook validation (401, 413, 422): it changes no state.

## 6. What could come next

1. `FreshFrame` with two workers and the fence that would make `ReuseIsBounded`
   hold there.
2. What remains of `ReuseIsBounded` with several workers: that two events with one
   timestamp come only of jobs that overlapped, which needs a history of jobs.
3. A rank for the closing sweep (the incidents it has not read yet), as the safety half of
   `IdleIsClosed`.
4. `Parses` and the classifications of `VisionReply` stated as lemmas over every reply,
   apart from the job that uses them.
