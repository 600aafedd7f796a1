# Hades, verified: TLA+ models of the research loops

Hades discovers pump.fun tokens, samples the market of a bounded number of
them, computes feature vectors, raises signals, labels what happened afterwards
and simulates trades on paper. It is one Python process on one asyncio event
loop. This directory models its seven supervised loops, the providers
below them and the process around them, at the level where they can go wrong
together: every commit is a step, every other loop may run between two steps,
and the process may restart between any two commits.

Paths below are relative to the root of the repository.

## 1. The system

### 1.1 Parts

| part | code | state it keeps | operations |
| --- | --- | --- | --- |
| Discovery | `src/hades/discovery/` | rows of `tokens` (descriptive columns, `discovered_at`, `source`, `backfill_attempts`); in memory one stream frame, one parsed list, one backfill list | `stream` (push frames), `poll_once`, `backfill_created_at`, `TokenRepository.upsert` |
| Tracking | `src/hades/tracking/` | tracking columns of `tokens` (`state`, `next_snapshot_at`, `last_snapshot_at`, `snapshot_count`, `snapshot_failures`), `market_snapshots` | `retire_and_admit`, `snapshot_due`, `record_snapshot`, `record_failure` |
| Features | `src/hades/features/` | none | pure functions of a series truncated at `as_of` |
| Signals | `src/hades/signals/` | `feature_observations`, `signals` | `run_once`, `evaluate`, `record_observation`, `record_signal` |
| Outcomes | `src/hades/outcomes/` | `observation_outcomes` | `run_once`, `compute_outcome`, `_upsert` |
| Paper trading | `src/hades/paper/` | `risk_decisions`, `paper_trades` | `decide_pending`, `fill_pending`, `manage_open`, `_close`, `portfolio` |
| Risk engine | `src/hades/risk/engine.py` | none | `evaluate`: the conjunction of its gates |
| Curve, exits | `src/hades/paper/curve.py`, `exits.py` | none | pure functions |
| Supervisor | `src/hades/supervision.py` | the task, the reported state, the delay | `start`, `stop`, `_supervise` |
| Push stream | `src/hades/providers/pumpportal.py` | the connection, the attempt counter, frames in flight | `stream_new_tokens` with its reconnect loop |
| Primary provider | `src/hades/providers/pumpfun.py`, `http.py` | one request and its attempts | `get_json`, `fetch_snapshot`, `list_recent` |
| Monitoring | `src/hades/monitoring/` | the cached aggregates, the one-shot alert flag | `refresh`, `run`, `_report_once`, `/metrics` |
| API, wiring | `src/hades/api/`, `__main__.py` | which runtimes were built, which clients and engine are open | the lifespan: health check, start, stop in reverse; read-only endpoints |
| Research | `src/hades/research/`, `scripts/` | none | offline analysis |

### 1.2 How they interact

Loops do not call each other. What one commits to PostgreSQL another selects
later:

    stream, poller --tokens--> tracking --market_snapshots, last_snapshot_at--> signals
       signals --feature_observations--> outcomes
       signals --signals--> paper <--market_snapshots-- tracking
       outcomes <--market_snapshots-- tracking

Each table has one writing loop, except `tokens`, whose tracking columns are
written by tracking and whose other columns are written by the two discovery
loops. An `await` is the only place where another loop can run; a database
session that is not committed is rolled back by an exception, a cancellation or
a restart. The state a loop holds in memory (a batch, a parsed list) dies with
it. So a behaviour of the system is an interleaving of the commits of the
loops, with the loops' memory in between: that is what the modules describe.

### 1.3 What is hard

* **Stale copies.** Every pass reads a batch in one transaction and writes its
  rows one by one in others, while other loops commit.
* **Two clocks.** Rows carry the time they were stamped, queries compare it
  with the time the pass reads, and a row is committed after it was stamped.
* **Crashes between commits.** An observation and its signal, a verdict and its
  order, the rows of a batch, the configurations of an observation.
* **Batches that fill up.** Five queries are `ORDER BY ... LIMIT n`; whatever a
  pass cannot finish stays at the head of the next one.
* **Budgets.** Tracking slots, backfill attempts, failure counts, positions,
  balance, daily loss.
* **Cancellation.** A stop may hit a loop in its body, in its backoff, before
  its first step, or while its own task group is being torn down; the loops after
  it in the order run on, on clients that are closed one by one.
* **Two lossy sources.** A socket loses what is created while it is away; a list
  of fixed length shows only the newest.
* **Missing values.** The provider leaves fields out now and then: every number
  derived from a missing reserve or supply is unknown, and unknown must not pass a
  threshold. Missing decimals are replaced by defaults instead, which makes the
  numbers of one snapshot wrong by a constant factor and not unknown.
* **Numbers about the past.** Aggregates are read one session after another and
  shown long after.

### 1.4 What makes each part correct

* Discovery: what is known of a token is never lost or reattributed, whichever
  loop writes last; the first sighting is the one recorded; the backfill spends
  a bounded budget and serves everyone.
* Tracking: never more than `max_concurrent` tokens; a slot exactly for the
  scheduled; each token lives one life; snapshots keep the distance of their
  tier; a full batch starves nobody; a slot is released in the end.
* Signals: a stored vector is what a replay would compute; observations are
  immutable, spaced, and dated by a snapshot; a fresh snapshot is observed.
* Outcomes: one row per observation and configuration; a final label stays
  right; a return is the return at its horizon; every observation is labelled.
* Paper trading: caps and balance hold; a verdict and its order are one;
  no look-ahead at entry or exit; trades move forward only; losses are bounded;
  orders and positions settle.
* Supervisor: the reported state follows the task; backoff follows its
  schedule; a dead loop comes back; a cancelled one does not, and stop returns.
* Push stream and list: every token the primary lists is stored in the end, unless
  a list was too short for it or its item unreadable; reconnects are paced.
  Request: the last answer decides it, and the ones before it were worth a retry.
* Features and strategy: a signal is about a token that climbs, as far as was
  known at the time and read in the right units. Curve: both directions of a trade cost the fee.
* Process: no body runs on something that is closed; the shutdown ends.
* Monitoring: a shown number can be dated; the aggregates take a bounded share of
  the time; enough evidence is announced.

`PROJECT.json` lists every component under `components` and every hazard, at
the line where it bites, under `hazards`.

## 2. Modules

Each module is one loop with what the rest of the process may do to it. The
rest of the process appears as actions of its own that are at least as free as
the real loops: the paper loop sees snapshots and signals appear at any time
the writers can produce them, never on a convenient schedule.

### 2.1 `PaperTrading` (with `MCPaperTrading`, `PaperTrading_proofs`)

The two tables are functions on signals, both being unique on `signal_id`.
`pc` and `todo` are the position of `run_once` and the rows its current step
has read.

| action | code |
| --- | --- |
| `BeginPass` | the query of `decide_pending`: the `BatchSize` oldest undecided signals |
| `Decide(s)` | `decide`: snapshot at or before `decision_at`, portfolio, gates, verdict and order in one commit |
| `StartFill`, `Fill(s)` | `fill_pending`: due orders; first snapshot at or after `submit_at`; open, cancel or wait |
| `StartManage` | the query of `manage_open` and `risk_exit`, computed once per pass |
| `Manage(s)` | the latest snapshot; `decide_exit`; close, or carry the peak on |
| `EndPass`, `Crash` | the end of the pass; a restart between two commits |
| `Tick`, `RecordSnapshot`, `RaiseSignal` | the clock, the tracking loop, the signal loop |

`Approves` has one conjunct per gate of `RiskEngine._checks`. The portfolio
operators (`Held`, `Balance`, `Today`, `PeakEquity`) recompute the account from
the rows, as the code does on every read.

Abstractions. A price is the position on a bonding curve: the reserves
determine it and everything derived from it, so the liquidity and slippage
gates become one threshold and the SOL a position returns is the operator
constant `Proceeds`. The slippage of the entry is not told apart from the
price. The read and the commit of one row are one action: this loop is the only
writer of both tables, and the snapshot is fixed by `decision_at`, `submit_at`
or the stamp order. The order of signal ids stands for the order of trade ids,
which breaks ties in the high-water mark.

### 2.2 The process: `Supervisor`, `Lifespan`, `Monitoring`, together `Process` (with `Process_proofs`)

`Supervisor` is one task. `pc` is where it is (`none`, `ready`, `body`,
`backoff`, `ended`). `Backoff` is everything between the end of a body and the
sleep, which has no await in it. `CancelBody` covers what a body may do with a
cancellation: end with it, or end with another exception and be restarted. The
second happens to discovery, whose body is a `TaskGroup`: when one of its loops
fails while the group is being cancelled, Python 3.12 (the version of the
`Dockerfile`) raises an `ExceptionGroup` instead of the `CancelledError`.
`last_error` and the restart count only report and are left out; `streak` and
`ignored` (a body has answered `stop()` with an error) are ghosts.

`Lifespan` is the lifespan of `api/app.py`: `CheckHealth` decides once which
runtimes are built, `Startup` starts them, and `Stop`, `Join`, `Aclose` take
them from the end of the start order one by one, each with the client it owns,
before `CloseDatabase`. Its seven tasks have the places they have in
`Supervisor` and not the length of their backoff: `Wake` may come at any time,
which is more than the code does. `Outage`, `Die` and `Kill` are the
environment; `defied` is what `ignored` is in `Supervisor`.

`Monitoring` is the stats loop with one action per session of `refresh` and two
aggregates for all of them, and the one-shot alert of the heartbeat. `Page` is
what `/metrics` shows. `delivered`, `busy` and `idle` are ghosts.

`Process` puts the three together as a sum: they share no variable that another
one writes, so a behaviour is one of `part` while the others rest. `Providers`
and `Signalling` are built the same way. In them `Typed` is the conjunction of
the type invariants. All three have the parameters of their parts as constants,
so that the theorems are about the very module a run instantiates.

### 2.3 `TokenLifecycle` and `Tracking` (with `Tracking_proofs`)

`TokenLifecycle` is the abstract promise: a token is sighted once, admitted once
into one of `MaxConcurrent` slots and leaves its slot for one terminal state.
`Tracking` is the loop: `RetireOverdue` and `Admit` are the two commits of
`retire_and_admit`, `ReadDue` is `due()`, and `RecordSnapshot`,
`RecordFailure` and `RateLimited` are the three ends of one request. `batch`
holds copies of the rows, failure count included, as the session hands them
out. `Discover` and `Backfill` are discovery. `Tracking` implements
`TokenLifecycle` under the mapping of a row to its state (property
`Lifecycle`), which a step that admits several tokens or retires several at
once has to satisfy as one step.

### 2.4 The sources: `Discovery`, `PushStream`, `HttpRequest`, together `Providers` (with `Providers_proofs`)

In `Discovery` the stream has one frame in flight (`frame`), the poller a list
that was parsed at one moment and is stored item by item (`listing`), and the
backfill its addresses (`backlog`). `Upsert` is the `INSERT ... ON CONFLICT` with
its `coalesce`: `dated` stands for the descriptive columns, which all follow
that rule.

`PushStream` is what is below it: the reconnect loop of the socket beside the
newest-first list, with tokens numbered in the order of their creation.
`Disconnect` ends a connection in one of two ways (`clean`), and `Drained` is the
end of the `async for` after the frames that came before: an exception and a
backoff, or nothing. `Index` is the primary learning of a mint, later than the
socket, or never: `docs/DECISIONS.md` (D12) measured mints that its list does not get to
show. `PollList` skips the items `list_recent` cannot parse, any of them, and
`PollFails` is a poll that raised. `unseen` (tokens that were listed when a list was
too short for them, or whose item was unreadable), `failed` and `elapsed` are ghosts.

`HttpRequest` is one `fetch_snapshot`: `sent` and `answers` grow with the attempts
of `get_json`, `received` is stamped before the first, and `Result` is what the
call leaves: a snapshot, with the two stamps `observed` (when the payload has been
parsed) and `received`, or the error that was raised, which has neither. `Answers`
has one member per branch of the code. The provider's `updated_at` and the age and
staleness computed from it are left out: they are stored, and nothing decides on
them.

### 2.5 `Signals`, `Market`, `Features`, `Curve`, together `Signalling` (with `MCSignals`, `Signals_proofs`, `Market_proofs`)

In `Signals` a feature vector is a function of the snapshots it may read, so it
is the set of their times. `Observe` and `Emit` are the two commits of
`evaluate`; `Fail` is an exception before either, which `run_once` logs before it
goes on. `Spaced` is applied after the limit, as in the code. The strategy is
the operator constant `Fires`.

`Market` is the other half: one token, what the vector is computed from and what
the strategy makes of it. `Trade` moves the curve, `Observe` samples it with a
field missing now and then, and `Evaluate` computes the vector as of any snapshot
of the table, newer ones being there already. `Momentum` has one conjunct per
condition of `EarlyMomentumStrategy.check`. `Features` holds the series and the
features something decides on, `Curve` the arithmetic of `derive_market`,
`simulate_buy` and `simulate_sell`.

A snapshot carries raw reserves in base units and the decimals that say how many of
them make one token and one SOL. `Units` is that number, `10 ** decimals`, with the
default of `derive_market` (6 and 9) where the provider left the decimals out;
`PoolBase` and `PoolQuote` are what the pool really has, `DefaultBase` and
`DefaultQuote` what the defaults say, and the four need not agree. `Gaps` lists the
sets of fields that may be missing together. `TrueCap` is the cap of a row by the
decimals of the pool, `Misread` a row whose SOL was converted by a default that is
not the pool's. Fills are in base units: `paper/service.py:653-654` divides the
reserves of every row by a fixed 1e9 and 1e6, which changes no comparison between
two fills.

Numbers are exact fractions with `Unknown` for `None`, so what a
threshold does to a missing value, and a division by zero, are as in the code;
the rounding of floats is left out. A series is in the order of time, so `Cut`
says what `bisect_right` finds: how many observations are not later.

### 2.6 `Labels` and `Outcomes` (with `MCOutcomes`, `Outcomes_proofs`)

`Labels` is `compute_outcome` as operators, without iteration: the first touch,
the label, the return at a horizon, the extremes of the window. `Outcomes` is
the loop around it: `BeginPass` fixes `moment`, the `now` of the pass; `Load`
reads the series; `LabelNext` upserts one row per configuration. One horizon
stands for the list of them. `q.at # moment` in `RecordSnapshot` says that two
readings of the clock differ; a snapshot stamped at the very moment of a pass
is the only case it leaves out. `late` is a ghost: the stamps that a pass
overtook, because it began after the stamp and before the commit.

### 2.7 `Doubling` and `DataLemmas`

`Doubling` is the power of two that the supervisor, the HTTP client and the socket
multiply a base delay with. `DataLemmas` is what the proofs share: induction over
finite sets and over the natural numbers, sums over finite sets, the largest and
smallest member of a set, the sequences a query with a limit returns.

## 3. Runs

Every run checks deadlock as well. Every property of a passing run is
accompanied, under `mutants`, by a plausible bug of the code that the run
finds.

| run | bounds | what it shows |
| --- | --- | --- |
| `paper_caps` | 3 signals, 2 tokens, 2 slots, 1 per token, batch 2, 1 crash | `PositionCaps`, `Solvent`, `TradeIffApproved`: three signals compete for two slots and for one slot of a token; the balance of 8 pays for two stakes of 4 and, once a position was closed at a loss, for one, so that the balance gate refuses an order the caps would let in |
| `paper_exits` | 2 signals on 1 token, 1 position at a time, prices 1 to 3 or none, snapshots committed up to 1 late, 1 crash, fair loop | `NoLookAhead`, `DailyLossBounded`, `BookMovesForward`, `EverySignalDecided`, `TradesSettle`, `LastingBreachLiquidates`: all five exit rules fire, an order is filled late, and the overshoot over the daily limit is at most what was at stake |
| `paper_peak` | 2 signals, no crash | *violation* of `PeakNeverFalls`, see 3.2 |
| `process` | `Supervisor`: delays 1, 2, 4, 6, healthy after 3; `Lifespan`: six settings on, 1 outage, 2 deaths; `Monitoring`: 5 moments, 1 signal, 1 failure | `StateHonest`, `BackoffSchedule`, `ComesBack`, `StopReturns` (the cap of 6 is not a power of two, so a doubling past it shows); `BodiesUseOpenResources`, `ShutdownCompletes`; `NumbersDated`, `DutyHeld` |
| `tracking` | 3 tokens, 2 slots, batch 1, 2 failures, 1 crash, 5 moments over the 4 tiers, retirement at 4, fair loop and clock | `SlotsAccounted`, `SpacingHeld`, `NobodyStarves`, `DeadAfterStreak`, the refinement `Lifecycle`, and `SlotsReleased` whatever the provider answers |
| `providers` | `Discovery`: 2 tokens, list of 2, backfill of 1, 1 error; `HttpRequest`: 3 attempts, 6 seconds; `PushStream`: 3 tokens, list of 2, 3 failures (lost connections, failed attempts and failed polls), cap 3, 1 crash | `HistoryKept`, `BackfillSettles`; `OneDecision`; `EveryListedStored`, `ReconnectPaced` |
| `signals` | `Signals`: 2 tokens, batch 1, interval 2, 3 moments, 1 failure, 1 crash; `Market`: 3 points of a curve, 4 moments, 1 snapshot without its token reserve, its real SOL or both its decimals | `ReplayAgrees`, `HistoryAppended`, `FreshIsObserved`; `ClimbingWhenSignalled`, `RoundTripPaysTwice` |
| `signals_retry` | 1 token, 1 failure | *violation* of `FailureRetried` |
| `outcomes` | 2 observations, 2 configurations, batch 1, unpriced and late snapshots, 1 crash | `RowsRight`, `LabellingSettles` |
| `outcomes_blocked` | 2 observations, no crash | *violation* of `EveryObservationLabelled` |
| `http_received` | 3 attempts, 6 seconds | *violation* of `ReceivedWhenGot` |
| `alert` | 1 signal, threshold 1, 1 failed post | *violation* of `AlertDelivered` |

Every invariant of a passing run, every action property and the refinement are
also proved (section 4); what the runs alone show is the liveness. The type
invariants of `PaperTrading` and `Tracking` are left to their proofs, the others
are invariants of these runs as well (`TypeOK`, and `Typed` for a sum).

### 3.1 Bounds

The named bounds are `MaxTime` (the clock stops), `MaxCrashes`, `MaxErrors`
(rate limits and failures where they need a bound), `CommitLag` (how late a
snapshot is committed), `LastCreation` (no token is created later),
`MaxObservations`, `MaxStreak` (the ghost stops counting), and in
`MCPaperTrading` `MaxSnapshots` and `RaisedInOrder`, used by `paper_caps` only;
`MaxCreated` and `MaxFailures` in `PushStream`, `MaxOutages` and `MaxDeaths` in
`Lifespan`, `MaxRows` and `MaxFailures` in `Monitoring`, `MaxGaps` in `Market`.
Two or three actors competing for one or two places is the smallest instance in
which the code's choices (who is first, who is dropped) matter. One crash
suffices because a crash leaves nothing behind but the tables: whatever two
crashes can do to the tables, a longer run with one crash at the second place
starts from. Two deaths let one body die on its own and another, or the same one,
answer its cancellation with an error. Three tokens are one more than the list
shows, so that a list can be too short for one of them and an unreadable item can
be between two others. The pool of `signals` has other decimals than the defaults
say, in both directions that matter: four base units of SOL by default where the
pool has two halve a cap, which is a rise for whoever reads the next row. No run uses symmetry, and
no run with a liveness property a constraint.

The clock of these models stops at `MaxTime`. Liveness is therefore stated only
of what can be settled before it: an order that has a snapshot to fill it, a
position whose holding time has passed at a snapshot, an observation whose
window fits (`Within`). That a system that never stops serving newer work
starves older work cannot be shown with a stopped clock, and is listed among
the hazards instead.

### 3.2 What the violations show

Five runs state what a comment or a docstring says and end in a counterexample.
They are listed with the quoted lines under `findings`.

* `outcomes_blocked`: an observation with no price at or before it never gets a
  row; `batch_size` of them at the head of the oldest-first query stop the
  labelling of everything behind them.
* `signals_retry`: an evaluation that fails after its observation was committed
  is not retried, contrary to the comment at the `except`.
* `paper_peak`: the high-water mark falls when a trade closed later has an
  earlier exit time, so the drawdown gate measures from a lower mark.
* `http_received`: `received_at`, "when it landed", is stamped before the request
  is sent, and precedes `observed_at`, "when we got it", by the whole request with
  every retry and backoff. The counterexample is a call that ends in a snapshot.
  `docs/DATA_SOURCES.md:486` calls the difference effectively zero.
* `alert`: one failed post loses the announcement for the life of the process,
  although it is said to be worth a duplicate.

Other divergences appear as the exceptions that properties of passing runs state,
so that the property says exactly when the expectation holds:

* `StopReturns` excepts a body that answers its cancellation with another error
  (`ignored`): it is restarted while `stop()` waits, although
  `src/tests/test_supervision.py:167` says that a cancellation must not be
  retried.
* `ShutdownCompletes` has the same exception (`defied`): the loops after that body
  keep running and the engine stays open.
* `ReconnectPaced` speaks of the reconnects after a failure. A connection the
  server closes cleanly is opened again at once and its attempts are forgotten.
* `EveryListedStored` excepts a token that newer ones had pushed off the list before
  it was stored, for which nothing pages back, and one whose item could not be
  parsed (`unseen`). It says nothing of a mint the primary never lists: such a token
  comes by the socket or not at all, and a frame it loses is lost.
* `ClimbingWhenSignalled` excepts a snapshot whose SOL was converted by a default
  (`Misread`). `tracking/derive.py:57-58` says that a number is `None` when an input
  is missing, but `derive.py:60-61` falls back to 6 and 9 decimals, and
  `docs/DECISIONS.md:247-250` knows pools quoted in something of 6 decimals. There,
  one snapshot without `quote_decimals` has a cap a thousand times too small, and
  the next one is a rise. Without the exception TLC finds a signal between whose
  last two snapshots the market cap did not move. The fallback for the token's
  decimals is harmless here: they divide reserve and supply alike and cancel in a
  cap.
* `DutyHeld` counts from the last failed refresh, which the supervisor's delay
  follows instead of the throttle.
* `NumbersDated` needs the duration of the refresh, which `/metrics` shows and
  `/status` does not: there a number may be older than its age says.
* `TradesSettle` takes the snapshot that ends a trade as its condition: a trade
  whose token leaves tracking first keeps its place for ever.
* `RowsRight` and `LabellingSettles` except a snapshot a pass overtook
  (`Overtaken`): TIMEOUT is called final by the clock, although a
  snapshot stamped inside the window may still be committed.
* `LabellingSettles` also excepts an observation one of whose barriers was touched: it may
  be finished before its horizon elapses, and its later returns stay NULL.
* `FreshIsObserved` speaks of the newest snapshot of a token in tracking only, and
  excepts a batch whose places are wasted (`PlaceWasted`): the minimum interval
  is applied after the limit. An overtaken snapshot, and the one that ends
  tracking, are not observed even with an interval of zero, which
  `signals/repository.py:66` calls "observe every snapshot".
* That the first sighting of a token is the recorded one is not stated at all: an
  item of a parsed list is stored after the items before it, and a frame parsed
  later may be stored first.
* `signals/early_momentum.py:84` calls the liquidity threshold "Strictly positive";
  the comparison is `>=` with 0.0, which the model has.
* `paper/curve.py:107` says that the fee makes the effective price of a buy worse;
  the code divides the SOL without the fee by the tokens it buys, so the effective
  price of a buy leaves the fee out and that of a sell has it in.
  `RoundTripPaysTwice` is about amounts, in which the fee counts on both sides.

### 3.3 Fairness

Only loops that supervision restarts for ever are fair, weakly and as a whole:
`WF(Loop)` for a pass, `WF(Poller)` and `WF(HandleFrame)` for the two loops of
discovery, `WF(Poller)` and `WF(Socket)` for the two sources of `PushStream`,
`WF(Supervise)`, `WF(Main)` and `WF(Supervised)` for a ready task on the event
loop, `WF(Count)` for the heartbeat. asyncio runs
every ready task, the passes are finite sequences of awaits with timeouts, and
`Supervisor!ComesBack` is the property that lets the other modules assume the
restart. `WF(Tick)` says that time passes. What the provider answers, whether
snapshots arrive, whether a body dies or a stop is requested is never assumed.
Crashes and failures are bounded, since a loop that dies at every pass makes no
progress; so are failed polls. That the primary ever indexes a mint is not assumed
either: `EveryListedStored` begins where it did. `Alert.cfg` is the
one place with strong fairness: `Restart` is not bounded in `Monitoring`, and
`SF(Post)` says that not every post is cut off by one; the counterexample
holds under this, the most favourable, assumption.

## 4. Proofs

Each theorem is about the specification that a run instantiates, for every value
of its constants: any sets of tokens and signals, limits, delays, batch sizes and
numbers of crashes, and any bound on the clock. Each module assumes of its constants what
its `ASSUME` says: sets that are finite where rows are counted, natural
parameters, and what the code relies on, named below. The names in brackets are
the conjuncts of the inductive invariant.

### 4.1 `PaperTrading_proofs`, from `PaperAssumption` (positive prices and caps)

* `TypeCorrect`: `Spec => []TypeOK`.
* `WorkStaysCurrent`: `Spec => []WorkIsCurrent`. This is why separate
  transactions are safe here: a row in `todo` is still in the state it was
  selected for when its turn comes. The two together are the inductive invariant
  everything else starts from. Without `WorkIsCurrent` nothing is inductive: from
  an unreachable state in which `todo` holds a signal that is decided already,
  `Decide` would write a second verdict and reset a trade; from one in which it
  holds a CLOSED trade, `Fill` would open it again beyond the caps.
* `VerdictAndOrderTogether`: `Spec => []TradeIffApproved`.
* `ExposureCapped`: `Spec => []PositionCaps`. `Decide` adds one order under the
  gate, which counts pending orders as well as positions; every other action maps
  a row to a state that holds at most what it held.
* `BookOnlyMovesForward`: `Spec => BookMovesForward`. Every step takes each row one
  of five ways (`Moved`: ordered, filled, cancelled, marked, exited) or leaves it.
* `EntriesNeverLookAhead`: `Spec => []NoLookAhead` (`OrdersDated`, which makes the
  earliest fill a function of the decision, and the two parts of the property). A
  snapshot is committed after its stamp but never before an older one of its
  token (`Appends`), so the first one after the latency stays the first.
* `AccountAlwaysSolvent`: `Spec => []Solvent` (`Covered`: what is realised covers
  the stakes of the orders and positions). An order is let in against what the
  ones before it left; a close returns a stake and loses no more than it.
* `DailyLossAlwaysBounded`: `Spec => []DailyLossBounded` (`StakeCovered`: the limit
  and a full book of stakes cover what is realised and what is still at stake).
  The bound itself is not inductive: a close may lose a whole stake, so the
  invariant has to count the stakes still out. Both sums are over the set of
  trades, with the lemmas on sums of `DataLemmas`.

### 4.2 `Tracking_proofs`, from `TrackingAssumption` (ordered tiers)

* `TypeCorrect`, and `BatchStaysCurrent`: `Spec => []BatchCurrent`: the pass is
  fetching exactly while its batch lasts, and every token of the batch is in
  tracking when its turn comes and comes once. Without it a snapshot could be
  recorded for a token that has left its slot, and would schedule it again.
* `SlotMeansScheduled`: `Spec => []SlotIffScheduled`, from `BatchCurrent`.
* `RowsLiveOneLife`: `Spec => Lifecycle`, the refinement of `TokenLifecycle`. Every
  action is mapped to a step of a life or to a stutter. `Admit` needs the count:
  the set it takes is empty or fits beside what is in tracking (`AdmittedFit`).
* `CapacityAlwaysHeld`: `Spec => []CapacityHeld`, not from the code's actions but
  from the refinement: a step of a life takes no more slots than there are; and
  `SlotsAlwaysAccounted`: `Spec => []SlotsAccounted`, the two together.
* `DeadOnlyAfterStreak`, `SpacingAlwaysHeld` and `NobodyEverStarves`:
  `DeadAfterStreak`, `SpacingHeld` and `NobodyStarves` always hold. All three rest
  on what a copy in a batch is worth: its age and failure count are still those
  of the row (`CopiesCurrent`), no series reaches into the future (`SeriesPast`),
  and no token that is due is planned before one that is ahead of it in the batch
  (`BatchOrdered`). To these the first adds that the column counts the failures
  since the last snapshot (`FailuresCounted`), the second that the next snapshot is
  planned an interval after every earlier one (`NextSpaced`), and the third that,
  while a token waits, another is observed once at most and is then planned after
  it (`TurnsTaken`).

### 4.3 `Signals_proofs`, from `SignalsAssumption`

* `TypeCorrect`.
* `ReplayAlwaysAgrees`: `Spec => []ReplayAgrees`. Snapshots are appended while
  candidates wait; that a replay sees the same needs that a candidate is dated by
  a snapshot that is there (`TodoDated`) and that new ones are later
  (`LastIsNewest`). Then a vector is what its moment gave (`VectorsRight`) and a
  signal what the strategy says of it (`VerdictsRight`).
* `HistoryOnlyAppended`: `Spec => HistoryAppended`. The interval is checked when
  the batch is read and the vector is written later: `TodoAhead` says that
  whoever waits is still ahead of every vector of its token, as nobody else
  observes.

### 4.4 `Market_proofs`, from `SignallingAssumption` (whole reserves, units of at least one, a fee below one)

Numbers are fractions in lowest terms. `Is(v, n, d)` says that v is n out of d,
however it is written; Euclid's algorithm gives a common divisor (`GcdDivides`), so
every operation of `Curve` does on `Is` what it does on fractions (`SumIs`,
`ProductIs`, `Comparable`), and a claim becomes one about integers.

* `RoundTripAlwaysPaysTwice`: `Market!Spec => []RoundTripPaysTwice`, from the lemma
  `FeePaidTwice` about any two snapshots, which is the constant product with the
  fee on both sides. Snapshots without a reserve refuse the fill.
* `ClimbsAlwaysWhenSignalled`: `Market!Spec => []ClimbingWhenSignalled`. The window of
  a signal is a stretch of the table that ends with the row being judged
  (`SignalClimbs`). Over it the strategy asks for a velocity and for one that has
  not slowed down between the halves; so the later half rose at least as fast as
  the whole (`LaterHalfRises`), and both of its ends have reserves and supply. That
  is a rise of the caps as they were stored. `CapIs` gives a stored cap as a
  fraction in which the decimals of the token cancel, so a row that is not `Misread`
  stores the cap of the pool, and `TrueRise` carries the rise over.
* `SignallingTyped`: `PartsSpec => []Typed`: besides types, drawdown and movement
  are shares and the longest gap lies between the mean and the span, for every
  table that can come to be.

The invariant is that the table is a series up to now (`Sampled`) and a signal is
of an observed moment (`Observed`).

### 4.5 `Providers_proofs`, from `ProvidersAssumption` (the bound on a request's clock has room for its delays)

* `HistoryAlwaysKept`: `Spec => HistoryKept` (`WorkAtHand`; `BacklogWorth`: whoever is
  in the backlog is stored, comes once and has an attempt left; `BudgetKept`). The
  budget is read with the backlog and spent later: it holds because a token is
  in a backlog once and nobody else spends attempts.
* `RequestDecidedOnce`: `Http!Spec => []OneDecision` (`Progress`, `Spaced`: two requests are a
  doubling delay apart; `AnswersRetried`: only an answer worth a retry is followed
  by another request; `LastDecides`).
* `ReconnectAlwaysPaced`: `Stream!Spec => ReconnectPaced` (`CountHonest`: the counter
  counts the failures in a row; `BackoffElapses`).
* `DiscoveryTyped`, `HttpTyped`, `StreamTyped`, and `ProvidersTyped`:
  `PartsSpec => []Typed`.

### 4.6 `Process_proofs`, from `SupervisorAssumption` (a base delay not above the cap) and `ProcessAssumption`

* `TypeCorrect`; `StateAlwaysHonest`: `Spec => []StateHonest`, inductive by itself:
  every action that moves the task writes the state it reports.
* `BackoffAlwaysInSchedule`: `Spec => []BackoffSchedule` (`InSchedule`: the delay
  kept is the one of the deaths counted so far, capped or not).
* `BodiesAlwaysUseOpenResources`: `Life!Spec => []BodiesUseOpenResources`
  (`TasksHaveResources`, `PhaseOfTasks`, `ShutdownOrder`: what has left the list of
  the shutdown is gone, and so is the head when its client is closed;
  `CancellationPending`: a cancellation belongs to the task being joined).
* `NumbersAlwaysDated`: `Monitor!Spec => []NumbersDated` (`DraftDated`,
  `SnapshotDated`); `DutyAlwaysHeld`: `Monitor!Spec => DutyHeld` (`TimeSpent`,
  `ShareHeld`: asleep, the refreshes have had their share or will have had it at
  the end of the sleep).
* `LifespanTyped`, `MonitoringTyped`, and `ProcessTyped`: `PartsSpec => []Typed`.

### 4.7 `Outcomes_proofs`, from `OutcomesAssumption`

* `OutcomesTyped`: `Spec => []TypeOK`, one row per observation and configuration
  included.
* `RowsAlwaysRight`: `Spec => []RowsRight`. A row is written from what a pass had
  read, which need not be what is there now. The invariant therefore says that
  what was read is the start of the series and that all that came since, of up
  to the moment of the pass, is recorded as late (`SeriesSeen`, `RowsSeen`, with
  `SeriesOrdered` and `ObservedSnaps`). The label and the return of
  such a start are those of the series, unless a late snapshot lies in the window.

### 4.8 Parts and sums

`Process`, `Providers` and `Signalling` are sums. In each, the lemma `PartsAreParts`
shows that a behaviour of the sum is one of each part, because a part rests
while another moves. What is proved of a part therefore holds of the sum, and
`ProcessAlwaysSafe`, `ProvidersAlwaysSafe` and `SignallingAlwaysSafe` state it of
`PartsSpec`, the specification of the runs, for all their properties but liveness.

### 4.9 Only model-checked

Liveness, as fairness and ENABLED are out of the prover's reach:
`EverySignalDecided`, `TradesSettle`, `LastingBreachLiquidates`, `ComesBack`,
`StopReturns`, `ShutdownCompletes`, `SlotsReleased`, `BackfillSettles`,
`EveryListedStored`, `FreshIsObserved` and `LabellingSettles`. The
counterexamples of the five violations are TLC's alone. `Fires` and `Proceeds` are
parameters of the theorems; in the runs they are the operators of the MC modules.

## 5. Not modelled, and why

* Notifications (`paper/notify.py`, `signals/notify.py`) and the periodic status
  message: posts after a commit that swallow their errors and change no state.
* The endpoints and schemas of the API, the text format of `/metrics`: they read
  and render. What they read is in `Monitoring` (`Page`) and `Supervisor` (`state`).
* `db/`: sessions appear as atomic commits, unique keys as functions and sets;
  the driver, the pool and migrations are trusted. The health check and the
  disposal of the engine are in `Lifespan`.
* The parsing of provider fields one by one, paging by offset (no caller uses it),
  the SOL/USD rate (only the stored row has it), and the provider's `updated_at` with
  the age and staleness of a snapshot (stored, logged and counted for the statistics).
* The rounding of floats: `Curve` and `Features` are exact. A bound that holds with
  equality there may be missed by a rounding error in the program.
* The features of a vector that nothing decides on (returns, curve consumption, the
  reply count, the graduation flag), dataset export and the statistics of outcomes.
* `research/`, `scripts/`: offline and sequential statistics over an export.
* `config.py`: values of constants; its check that the tiers are ordered is an
  assumption of `Tracking`.
* A trade whose token leaves tracking before its fill or exit keeps its place for
  ever. `PaperTrading` has such trades (nothing forces another snapshot), and its
  liveness properties take the later snapshot as their condition.
* A token whose sampling raises at every pass: crashes are bounded in `Tracking`,
  so that it is first again each time cannot be told from progress.

## 6. Plan

Done, in this order: paper trading, the supervisor, tracking with its lifecycle,
discovery, signals, outcomes and the first proofs; then the push stream and the
HTTP client, the lifespan of the process, monitoring, and the features, the
strategy and the curve behind a signal.

Proofs: first the types, the refinement and the caps; then every other invariant
and action property that a run checks, down to the arithmetic of the curve.

Next, proofs: what a single pass makes certain without fairness (that an
observation is labelled when its turn comes, that a slot is released at an age),
as steps towards the liveness that only TLC shows.

After that, models: tracking, signals and paper trading over one set of tables with
relative time, for trades that outlive their token's tracking; an abstract
ledger that `PaperTrading` implements.

## 7. Running it

    tlc -workers 2 -config PaperCaps.cfg MCPaperTrading.tla
    tlapm PaperTrading_proofs.tla
    tlapm Tracking_proofs.tla
    tlapm Signals_proofs.tla
    tlapm Market_proofs.tla
    tlapm Providers_proofs.tla
    tlapm Process_proofs.tla
    tlapm Outcomes_proofs.tla
    tlapm DataLemmas.tla

Each run is listed in `PROJECT.json` with its module and configuration; the
longest takes about four minutes.
