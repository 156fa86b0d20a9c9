# Verification of the fdv trader

`src/src/polymarket_trader` is a trading process for prediction markets: one
Python process, one asyncio event loop and a small pool of threads for signed
calls. It watches order books, buys when a strategy says so, sells what it
bought, and keeps a copy of its account in memory. This directory holds TLA+
modules translated from that code, the TLC runs that check them on small
instances, and TLAPS proofs for every value of the constants.

Run a check with `tlc -workers 2 -config orders.cfg MCOrderExecutor` and a proof
with `tlapm OrderExecutor_proof.tla`. `PROJECT.json` lists for every definition
the lines of code it stands for, for every property the mutated definition that
violates it, and for every hazard the properties about it.

Paths below are relative to `src/src/polymarket_trader/` unless they start with
`docs/` or `strategies/` (`src/docs/`, `src/src/strategies/`).

## 1. The system

```
 market ws ──► market ws worker ──► order book, registry ─┐        admin API
 discovery ──► registry                                   │ events     │
                                                          ▼            │
 user ws ───► user ws worker ──► account state store   event bus       │
                  │                 ▲   ▲   ▲        (trading lane,    │
                  └── events ───────┼───┼───┼──────►  maintenance,     │
                                    │   │   │         persistence)     │
        ┌───────────────────────────┘   │   │          │        │      │
        │ results                       │   │          │        │ sink │
 trading decision worker ◄──────────────┼───┼──────────┘        ▼      │
        │ orders                        │   │             local outbox  │
        ▼                               │   │                   │       │
 order executor ──► exchange            │   │          persistence worker
        ▲                               │   │                   │
        └── reconcile worker ───────────┘   └── authority calls  ▼
             ▲ triggered by the scheduler, by events and by the admin  database
```

Everything on the event loop runs between two `await`s without interruption, so
a step of a model is the code between two awaits. What can go wrong lives in the
gaps: a snapshot read before an await and used after it, two tasks that each do
half of something, an answer that comes late or never.

### 1.1 Components

| component | state | operations | hard because | correct when | in |
|---|---|---|---|---|---|
| local outbox (`infra/outbox/local_queue.py`) | ready queue, events by id, merge index, retained area, dead letters | put, enqueue, get, ack, retry, dead-letter | merging of an event in flight, promotion with a timeout of its own, eviction | no critical event is lost; the retained area is bounded; every critical event is settled | `LocalOutbox` |
| persistence worker (`workers/persistence_worker.py`) | the batch and the outcome of each write | poll, coalesce, write, settle one by one | some writes of an event fail, publishers run between the acks | bounded attempts, dead letters only for what the database refused | `PersistenceWorker`, `AccountRecords` |
| event bus (`runtime/event_bus.py`) | three queues, two retained lists, a pause flag | publish, next, pause, resume, mirror into the outbox | waiting publishers, retained events beside a queue that empties, the consumer publishing into its own lane | order per market, nothing stranded, no self-blocking | `EventBus` |
| order executor (`infra/polymarket/order_executor.py`) | idempotency index, result cache, running tasks, pool | submit, cancel, replace | timeouts at two levels, threads that go on after them, callers that join or are cancelled | one key is not executed twice; answers are true | `OrderExecutor` |
| account state store (`runtime/account_state.py`) | gate, pauses, positions, open orders, balances | one locked update each, copy-on-write snapshots | written by websocket, trading worker and reconcile | the gate is open only while connected and reconciled; converges to the exchange | `AccountState`, `ExitCoverage` |
| user websocket (`runtime/ws_loops.py`, `workers/user_ws_worker.py`) | the stream task, its queue | connect, disconnect, order, trade, position and balance messages | lost, repeated and late messages, resubscription without disconnect | see the account state | `UserMessages`, `ExitCoverage`, `EntryGate` |
| trading decision worker (`workers/trading_*.py`) | lifecycle of each market | entry, result, cancel of a resting entry, follow-up sell | each result is applied to a snapshot taken before the order | a market is entered once; what is bought is sold | `EntryGate`, `ExitCoverage` |
| reconcile worker and service (`workers/reconcile_*.py`, `app/reconcile_service.py`) | run progress, plan | refresh from the authority, plan, apply, prune, mark | runs overlap; plans and answers are applied long after they were taken | stale pauses lift, risk pauses stay, exits cover positions | `EntryGate`, `ExitCoverage`, `MarketTracking` |
| account projection (`app/order_projection.py`, `workers/user_ws_projection.py`) | none of its own | results, fills and authority answers into the store | three sources for the same shares | as above | `ExitCoverage`, `UserMessages` |
| entry planner, trading services, risk (`app/`, `domain/risk.py`) | none | plan, review, submit | sizing and review count the same limits differently | what is planned passes the review | `EntryPlanning` |
| market registry (`runtime/registry.py`) | markets, indexes, tradability | upsert, update, remove | discovery, websocket and reconcile overwrite each other | indexes agree; beliefs end up true | `MarketRegistry`, `MarketTracking` |
| market websocket and order book (`workers/market_ws_worker.py`, `market_book_projector.py`) | books, sequence numbers, copies of markets | snapshot, delta, REST snapshot | a REST snapshot awaited while messages continue, reconcile snapshots read long before | a settled book is the exchange's | `MarketBooks`, `MarketTracking` |
| websocket client (`infra/polymarket/ws_client.py`) | the connection | connect, reconnect, subscribe | drops what was under way | every drop is made good | `MarketBooks` |
| market discovery (`runtime/discovery_runner.py`, `workers/market_discovery_worker.py`) | cursors, finished queries, last failure | a page, a round, a back-off | a page is recorded before it is ingested | a round has seen every page | `DiscoveryScan`, `MarketTracking` |
| supervisor, status (`runtime/supervisor.py`) | phase, readiness, degraded reason | refresh, pause and resume of the low lanes | a refresh that awaits, a shutdown meanwhile | open only when ready; backpressure ends | `Supervision` |
| scheduler (`runtime/scheduler.py`) | jobs | register, run, shut down | cancelled in the middle of a run | no job outlives the shutdown | `Supervision` |
| process wiring (`main.py`) | tasks | startup, restore, shutdown, trigger coalescing | what failed at startup is looked at once | comes up sound or stays closed | `Supervision`, `AccountRecords` |
| domain algorithms (`domain/allocation.py`) | none | exposure, budget | rounding, limits | limits kept | `EntryAllocation` |
| current strategy (`strategies/current/`) | configuration | select, track, size, recover | sees one snapshot | equal weights; covers what is held | `EntryAllocation`, `EntryPlanning`, `ExitCoverage`, `MarketTracking` |
| database (`infra/db/`) | tables | upserts, loads at a start | unique keys, partial writes, crashes | rows follow the events | `AccountRecords` |
| REST clients | session | HTTP calls, signing, mapping of responses | – | – | inputs |
| admin service and API | none | reconcile, cancel, replace, views | run beside the loops | – | an input of `EntryGate` |
| extension host and API | the loaded strategy | load, replay | – | – | – |
| observability, frontend, scripts, tests | none | – | – | – | – |

### 1.2 How they interact

* **Events.** Workers publish on the bus; P0/P1 events wait for a slot of the
  trading lane, P2/P3 events never wait. Every event is mirrored to the outbox
  by a sink that does not wait either.
* **Snapshots.** The account store publishes immutable snapshots. Plans of
  reconcile, risk reviews and the application of order results all work on one
  that may be old.
* **Orders.** The trading worker, reconcile and the admin API share one
  executor; its keys are the only protection against sending an order twice.
* **Authority.** A reconcile run asks the exchange for positions, open orders,
  fills and balances, each answered at its own moment, and replaces what the
  store had.

## 2. Modules

| module | models | lines of the model stand for |
|---|---|---|
| `LocalOutbox` | the outbox as operators on one record | `local_queue.py`, `domain/events.py` |
| `PersistenceWorker` | publishers, worker and database around it | `persistence_worker.py`, `persistence_records.py` |
| `EventBus` | lanes, retained lists, waiting publishers, the consumer that publishes | `event_bus.py`, `event_sink.py` |
| `OrderExecutor` | callers, operations, threads, index, cache | `order_executor.py` |
| `IdempotentCalls` | abstract: what a key with a bounded memory promises | the specification `OrderExecutor` implements |
| `AccountState` | the gate and the pauses | `account_state.py`, `domain/account.py` |
| `EntryGate` | user websocket, reconcile runs and trading worker over `AccountState` | `ws_loops.py`, `reconcile_*.py`, `trading_*.py`, `strategies/current/recovery.py` |
| `ExitCoverage` | the shares of one token: exchange, websocket, entry, follow-up sell, reconcile runs | `order_projection.py`, `user_ws_*.py`, `reconcile_*.py`, `risk.py` |
| `MarketRegistry` | the registry as operators on one record | `registry.py`, `domain/market.py` |
| `MarketTracking` | discovery, market websocket, reconcile and pruning over `MarketRegistry` | `market_service.py`, `market_discovery_worker.py`, `market_ws_*.py`, `reconcile_*.py`, `strategies/current/tracking.py` |
| `MarketBooks` | one side of one book, its stream, queue and worker | `ws_loops.py`, `ws_client.py`, `market_ws_worker.py`, `market_book_projector.py` |
| `DiscoveryScan` | rounds and pages of the scan | `discovery_runner.py`, `market_discovery_worker.py`, `gamma_client.py` |
| `Supervision` | bootstrap, jobs, supervisor, reconcile triggers, shutdown around `DiscoveryScan` | `main.py`, `supervisor.py`, `scheduler.py`, `status.py` |
| `EntryAllocation` | how the budget is divided, a pure algorithm with what it promises | `strategies/current/allocation.py` |
| `Sums` | the sum of a function, counted | – |
| `EntryPlanning` | plan, intent and risk review over `EntryAllocation` while the account moves | `entry_planner.py`, `risk.py`, `trading_service.py`, `strategies/current/trading.py` |
| `UserMessages` | messages of the user channel as operators: store update and events | `user_ws_adapter.py`, `user_ws_projection.py` |
| `AccountRecords` | `UserMessages`, event sink, `LocalOutbox`, worker, tables, crash, restart, reconcile | `user_ws_worker.py`, `persistence_*.py`, `infra/db/*.py`, `main.py` |
| `MC*` | constants for TLC | – |
| `PersistenceWorker_proof`, `AccountRecords_proof` (which extends it), `EventBus_proof`, `OrderExecutor_proof`, `EntryGate_proof`, `EntriesAndExits_proof` (of `ExitCoverage` and `EntryPlanning`), `Markets_proof` (of `MarketTracking` and `MarketBooks`), `Supervision_proof` | inductive invariants and proofs about the module named (section 4) | – |

`PersistenceWorker` and `AccountRecords` extend `LocalOutbox`, `EntryGate` extends
`AccountState`, `MarketTracking` `MarketRegistry`, `Supervision` `DiscoveryScan`,
`EntryPlanning` `EntryAllocation`, it and `ExitCoverage` `Sums`; `OrderExecutor` instantiates `IdempotentCalls`
with a refinement mapping. Definitions called *Mutant* stand beside the definition
they are a plausible bug of; they are used by no specification.

**LocalOutbox / PersistenceWorker.** An event is its number, which orders
`created_at` and names `event_id`; a *type* stands for event type and market, the
data a merge key is made of. The record `box` has one field per attribute of the
class. Each call of the class is one operator, except `retry` into a full ready
queue, the only one that suspends between two updates. The worker's program
counter follows `run_once`: poll, write, settle each event; between any two
settlements publishers may run. `PollBudget` is the number of promotions that
may time out before a `get` does (`poll_timeout_s / enqueue_timeout`).

**EventBus.** The trading lane is a queue plus the set of tasks waiting in
`put`; the low lanes are a queue and a retained list. `todo` counts what the
trading worker still publishes for the event it handles, which makes the worker
a publisher of the lane it consumes; the reconcile loop publishes its pauses into
the same lane during a run. `TaskEnds` is the end of a loop: neither
`TradingDecisionWorker.run` nor `_run_reconcile` handles an exception and
`_run_supervised_loop` raises it again (`main.py:592-594`), so any exception ends
the only consumer of a lane for good, at any point of its work. The model lets it
happen at every step; what the handlers raise is not modelled.

**OrderExecutor.** An operation goes from created over sign and send to returned
and stored; its adapter call on the pool (`queued`, `signing`, `sending`) has a
life of its own, because a timeout cancels only a call that no thread has taken.
`placed` is what the exchange executed, `answers` what callers were told.

**AccountState / EntryGate.** Three flags and one pause per market. A reconcile
run refreshes, takes one snapshot, decides for every market, applies market by
market and marks the account reconciled. The trading worker is at one of the
awaits of `_execute_entry_plan` and `TradingOrderResultProcessor.handle`; the
flags of a result are applied after the cancel and the follow-up orders.

**ExitCoverage.** One token in lots of shares. The exchange holds shares, cash
and resting sells; each fill is reported by messages that may be lost, repeated
or late. The store holds a position and open sells, where the same order may
stand twice, once under its exchange id and once under its idempotency key
(`apply_submitted_intent` does not learn the id). The entry's result is applied
to the position of a snapshot taken before the order was sent. A run's plan is
taken in the same step that applies the authority answers, since no await is
between them. A lot is worth one unit of money; the balance the risk check sees
is the exchange's. The exchange refuses a sell of more shares than the wallet
holds. Partial executions at once, replacements and failed trades are left out.

**MarketRegistry / MarketTracking.** A market is a record of status, terms and
selection. The registry is a record of its three dictionaries, each call one
operator, with the detach and attach of the indexes as the code orders them.
Four writers interleave: a discovery page that is fetched and ingested later, a
websocket message for one token (the worker keeps a copy of the market for each
of its tokens), a reconcile run that asks for every market of its scope and
applies the answers when all are in, and the pruning at its end. `late` is a
history variable: markets forgotten while a buy was under way. An answer to the
run may be gamma's, or the copy the run started from when only the fee rate was
read, or none. A websocket message carries what the exchange says when it is
handled: news that is older than what it overwrites comes in pages and answers.

**MarketBooks.** The exchange's book is the history of its changes; change *n* is
message *n*. The worker is idle, waits for the REST snapshot of a gap, waits for
room in the trading lane, or is dead after a REST error. `state` is replaced as a
whole by snapshots, so that a message may finish on a state object that is not
current any more (`worker.on`). A price message names the best ask unless none is
left; one that never does (`market_book_projector.py:107-110`) is left out. `newest`
and `missing` are history: what the book had taken in and lost again to an older
snapshot.

**DiscoveryScan / Supervision.** A page is recorded and ingested in one step, as
only the scan job touches the scan's state, but either half may fail. Jobs are
between two runs or inside of one, at the await where a cancellation reaches
them; the refresh awaits the flush of the retained events. Triggers of the
reconcile loop go through the maintenance lane, or its retained list while the
low lanes are paused, and those that wait are one run. `overloaded` is a flag that
changes freely: it stands for the depth of the trading lane and for the latency
gauges, which `_should_pause_low_priority` compares as well.

**EntryAllocation / EntryPlanning.** Amounts are integers in units of the last
place a quotient keeps, so that `Share` rounds as the Decimal context does for
quotients of one magnitude (it keeps 28 significant digits, not a fixed place). The
`while` loop of `equal_weight_plan` is a recursive function over its rounds. A
gate of the risk manager is an operator that passes or gives its reason, and
`Verdict` takes the first that refuses. Between two entries books, statuses,
sells, orders placed by hand and a restart move what both look at.

**UserMessages / AccountRecords.** A message is handled by an operator that gives
the new store and the events it publishes. An event's payload is its publication;
`ver` of the outbox event names it, until another is merged into it. Every `get`
of a batch begins with a promotion, and a retry of an event that is queued
already only changes it, as in `LocalOutbox`. A batch is written kind by kind in
`KindOrder`, the code's `route_order`, each kind with any subset of refusals, and settled in one step
(the awaits between settlements are `PersistenceWorker`'s subject). A crash clears
store, bus and outbox; a restart reads the tables as the code's queries do, or
nothing when the database does not answer. All news comes from the user channel:
failed trades and the order rows of the trading worker's own results are left out.

## 3. Runs

| run | shows | distinct states |
|---|---|---|
| `outbox` | ready queue and retained area of one, a database that refuses any subset of records: the bounds hold (`OutboxSound`), every event gets the tries it is allowed, those an exception leaves uncounted included (`RetriesCounted`), no critical event is lost by overflow, merge, retry or eviction (`CriticalNeverLost`), and each is written or given up in the end (`CriticalSettled`) | 63 k |
| `bus_lanes` | bounds, nothing stranded beside a queue with room (`LanesSound`), order per key through queue and retained list (`KeyOrder`), the outbox mirror (`MirrorFollowsQueue`), the low lanes drain once pauses stop, unless the reconcile loop has ended or waits behind a stopped worker (`LowLanesDrain`), and the trading lane drains unless the worker's loop has ended or waits for itself (`TradingDrains`) | 86 k |
| `orders` | a key is executed again only after its result was dropped (`IndexSound`); callers hear one true final answer (`AnswersSound`); the index implements `IdempotentCalls` (`KeepsPromise`); every operation ends (`OperationsEnd`) | 0.6 M |
| `entry_gate` | gate and lifecycle (`GateSound`), no entry unreconciled, risk pauses stay, the gate reopens, stale pauses lift | 19 k |
| `entry_stuck` | *violated*: a market seen while the gate was closed is never looked at again | |
| `exits` | a sell exceeds what is held only when the exchange moved while its sender was looking (`ExitsSound`); in the end every share is covered by a resting sell (`ExitsCovered`) and the store equals the exchange (`AccountConverges`) | 0.17 M |
| `exits_unfunded` | *violated*: an entry that spends the balance leaves an exit the risk check refuses for ever | |
| `market_tracking` | indexes (`RegistrySound`) and the worker's copies (`CopiesAgree`) agree with the registry; exposure stays watched but for a race with an unanswered buy (`OrphanNeedsRace`); a resolved market reopens only on old news (`ReopenedByOldNews`); beliefs end up true (`BeliefsConverge`), a listed market of the universe is tracked (`UniverseTracked`) | 0.38 M |
| `market_books` | a settled book that lost nothing to an old snapshot is the exchange's (`BookSound`), and every book ends up true, with a dead loop too (`BookConverges`) | 0.13 M |
| `supervision` | backpressure is always taken back and never opens the gate of a process that came up unsound (`SupervisionSound`); one going down stays down (`NeverRevived`); a sound one recovers (`Recovers`); a finished round has seen every page (`RoundsComplete`), and rounds finish (`ScanGoesRound`) | 0.55 M |
| `planning` | a plan keeps every limit, gives equal weights and leaves nothing that could be bought (`PlanSound`), and the review refuses it only for what sizing does not look at or for a rounded quotient (`PlanPassesReview`) | 0.69 M |
| `records` | what the outbox forgets is written, what it gives up could not be (`RecordsSound`); without faults the rows follow the events (`RowsFollow`); an order that rests and has a row is restored (`LiveOrdersRestored`); whatever a restart brought back, the account ends up true (`AccountRestored`) | 0.46 M |

The two violated properties state what `docs/runbook.md` says; `PROJECT.json`
quotes it under "findings".

### 3.1 Bounds

* *outbox*: capacities of 1, batches of 2, one retry, 3 events of three types.
  Overflow, merging into an event in flight, promotion and queueing one event
  twice all need at most three events and a full queue of one.
  An eviction that leaves another event of the batch unsettled needs a fourth
  event; with `MaxEvents = 4` and a reconcile_applied the three invariants were
  checked as well (1.3 M states, too slow with liveness to be a run here), and
  `PersistenceWorker_proof` covers every number of events.
* *bus*: every queue and list holds one event, two keys, four events: replacement
  of a retained event, drop of the oldest and a waiting publisher all happen, and
  so do both ways to stop the trading lane and a run that waits behind it. Events
  of the trading lane have one identity, which that lane does not look at.
* *orders*: two callers, two keys, two requests, a cache of one result, one
  thread, three operations: the third is the one that restarts an evicted key.
  No symmetry: the run checks liveness.
* *entry_gate*: one market, the loop and one other caller, at most two entries.
  Markets share nothing but the gate; the proof covers any number of both.
* *exits*: one lot bought, sold through one of two orders, one message under way,
  each trade reported twice, cash of two lots.
* *market_tracking*: two markets of one event, one of two tokens, so that a slug
  is shared and copies may differ; the exchange makes two changes, to one of
  them. Two changes are enough for an answer, a page or a message to be older
  than what it overwrites and for the market to come back.
* *market_books*: two levels of one share, three changes, two broken connections,
  resubscriptions or renewed trackings: a gap needs two changes, a snapshot
  that is older than the book a third.
* *supervision*: a query of two pages and one of one, two requests in a tick, one
  failure. A tick ends in the middle of a round, a cursor outlives it, and the
  failure meets a first, a last and an only page.
* *planning*: three markets, two alike (symmetry, the run checks invariants
  only) and one with a larger smallest order; a budget of six units over a total
  of five, so that a third is rounded; two moves of the environment between
  entries. All initial books are enumerated.
* *records*: one buy of one share, four publications, batches of two, one retry,
  one fault, a refused write or a crash. Three sets of event types that share a
  row or a store occur together: order, fill and position; order and balance;
  the market's. A second event of a row, a retry behind it and a crash between
  two kinds all happen.
* `MaxEvents`, `MaxOps`, `MaxEntries`, `MaxOrders`, `MaxEdits`, `MaxChanges`,
  `MaxBreaks`, `MaxFailures`, `MaxFaults` and `MaxMoves` stop a model, not the
  system: where nothing else goes on a run allows TLC to find no next step
  (`CHECK_DEADLOCK FALSE`). In `EntryGate` and `ExitCoverage` reconcile always
  goes on and deadlock is checked.

### 3.2 Fairness

Weak fairness stands for the event loop running whatever is ready, and for
awaits that have a timeout in the code: the persistence worker's step, the bus
consumers and waiting puts, the timers of the executor, each step of a reconcile
run, of the trading worker and of the market loop, the jobs of the scheduler.
Threads, the exchange, the websocket, publishers, the admin, load and the
supervisor's pauses get none.

An exception ends a consumer's loop for good (section 5). `EventBus` models that end
and its liveness properties name it as their exception. Elsewhere weak fairness
of a loop says that the loop is alive: the reconcile loop in every liveness
property of `ExitCoverage`, `MarketTracking`, `MarketBooks` (`BookConverges`) and
`AccountRecords`, the trading worker in `EntryGate` and `ExitCoverage`. (`EntryGate`
models the end of the reconcile loop and `MarketBooks` that of the market loop.)
A call of a reconcile run that fails leaves a book as it is, so fairness of
`ReconcileReads` also says that a call is answered some time.

Some assumptions are stronger:

* `EntryGate`: `SF(ReconcilePlans(Loop, Markets))`, because the loop's trigger
  names no market and comes again and again, so runs over all markets recur.
  The liveness properties are conditional: on the loop being alive (an exception
  ends it, see 5), on the connection staying up, on the market trading.
* `ExitCoverage`: each authority call of the loop is answered again and again and
  a sell that the wallet can deliver is accepted again and again, though its
  answer may be lost. `MarketTracking`: the call for each market is answered now
  and then (`SF(Answered(m))`). `AccountRecords`: now and then all calls of a run
  are answered (`SF(ReconcileApplies(Calls))`). Without these the environment may
  refuse for ever, which says nothing about the code.
* `Supervision` recovers only if load, connections and startup are good from
  some point on, and a trigger is served only by a loop that is alive.

## 4. Proofs

Every theorem holds for any constants that satisfy the named assumption of its
module (capacities and pool sizes are positive, bounds are natural numbers, no reconcile
caller has the worker's name).

**PersistenceWorker_proof** (`OutboxAssumption`, `WorkerAssumption`). The outbox
is a record that every call replaces, so there is one lemma for each call, of
what it does to the event it is about and leaves of the others. `LocalOutbox`
chooses the oldest of the most urgent events and promotes retained events in
that order; both are orders of finite sets, and `LeastFinite`, `Greatest` and the
lemmas after them show that such an order exists and what its first is. They
replace the induction over finite sets, which the provers cannot instantiate, by
a minimal counterexample. That no critical event is lost is not inductive: an
event may be ready, retained, in the batch and among the pending ones in many
combinations, and the wrong ones lose it. `IInv` says that a critical event
published and not settled is in exactly one place (`CritBox`), and that one left
in the batch is pending, neither ready nor retained, and in the batch once
(`CritLeft`). So an ack can only remove what was written (`OutcomesOK`), and what
is evicted is of low priority (`RoomOK`). `NothingLost` follows the event through
all of it. The count of retries on an event and the tries the worker made differ
by the tries of a batch not yet settled and by those it lost (`Counts`, `dropped`);
critical events come first in a batch, are never evicted from it and so lose
none (`Bounded`). Theorems `OutboxIsSound`, `NoCriticalEventLost` and
`RetriesAreCounted`.

**AccountRecords_proof** (`OutboxAssumption`, `RecordsAssumption`). To
say of an event that its rows are there, the proof follows it from the message to
the ack. `RecordsInv` says of the outbox that the payload of every event is a
publication of its type (`Carries`), of the batch that its events are pending and
in it once (`WritingOK`, `Distinct`), of the tables that a kind the worker has
gone past has a row for every event of the batch or counts it as failed
(`HasRow`), and that a row tells what was published (`RowsTold`). An event
may be merged into, queued or retained again while the worker has it, and merge,
retry and promotion all write events back: each needs a lemma for what it does to every other event. The harder half
is why an event is given up. Each of its tries has an excuse (`Excused`): a write
refused by the database since then, another event that has the row of its order,
or a balance, which is never written. That a row stays with the event that made
it is what makes an excuse hold through later tries. An order's row has
the status of one of its events (`RowsTold`), and none of these is closed while
the exchange has not cancelled the order (`OpenTold`). As the outbox has room for all
publications (`RecordsAssumption`), nothing is evicted; `Roomy` counts this, with
the events in the worker's hands, and gives each retry its place in the ready
queue. `PutAll`, `Taken` and `SettledAll` are recursive functions along a
sequence; `Walk` is the minimal counterexample that replaces an induction.
Theorems `RecordsAreSound` (`RecordsSound`) and `LiveOrdersAreRestored`
(`LiveOrdersRestored`).

That without a fault the rows follow the events (`RowsFollow`) speaks of a quiet
system only. `FollowInv`, beside `RecordsInv`, says of every other state how far
each row is. Of the events of a trade or of the position those not yet written are
the newest, and the row has the value of the newest that is (`Follows`); an
order's row is that of its first event (`KeepsFirst`). This holds through taking,
writing and settling because critical events that were not tried before stand in
queue and batch in the order of their publication, the batch ahead of the queue
(`InTurn`): `FirstOutIn` and `CoalesceFacts` say so of what the queue gives out
and of the order in which a batch is written. Events tried again may stand
anywhere; without a fault these are orders that came too late for their row and
balances, which have none (`CleanMisses`). The events of the market have different
priorities and do overtake each other. That the last status is still written last
needs that, as long as nothing merges, an event of low priority is the only
pending one of its type (`Apart`), and that the registry does not discover a
market again while one that took it out of the selection waits behind it
(`Paused`). A crash or a refused write ends what is claimed, but not `InTurn`.
`SettledAs` follows the batch event by event through its acks, retries and dead
letters. Theorem `RowsAlwaysFollow` (`RowsFollow`).

**EventBus_proof** (`BusAssumption`). `LanesSound` is the type invariant with its
capacities and `RetainedOnlyWhenFull`. That retained events stay only beside a
full queue needs that each get and each resume flushes, which `FlushFacts` gives.
`KeyOrder` is about the concatenation of queue and retained list and is not
inductive: the event that `_retain` replaces must be the only one of its key.
`Ordered` takes the two lists apart (the queue in order, the retained list after
it and each key once, both newer than what was delivered), and there is one lemma
for each thing that happens to them: flush, take, append, replace, retain, drop.
An event is appended to a queue only beside an empty retained list, which
`RetainedOnlyWhenFull` gives. `MirrorFollowsQueue` needs that no two tasks wait
with the same publication (`WaitingApart`). Theorems `LanesSafe`, `OrderOfKeys`,
`SinkFollowsLane`.

**OrderExecutor_proof** (`ExecutorAssumption`). The property that a key is
restarted only after eviction is not inductive: nothing in it says where a
running operation is recorded. `IInv` adds that an operation not yet stored owns
the entry of its key, that one stored and not evicted left its result there, that
what was evicted had been stored, and that the cache holds only keys with a
result, each once. Theorems `NoEarlyRestart` (for `IndexSound`, types included),
`AnswersHold` and `PromiseKept`: the initial states map to those of `IdempotentCalls`; starting
an operation maps to `Execute`, storing a result to `Complete` and every other
step to a stutter. `CacheShift` shows that the trim removes at most one key, the
oldest; `KnownIsDone` that the trimmed entry had no task. For `AnswersHold`
(`AnswersSound`) the invariant `AInv` traces what a caller was told back to its
operation: an entry with a task is that of an operation of its key and request,
a result in the index and every final answer is that of an operation that has
finished, and one that finished as accepted is on the exchange, one that
finished as rejected is not and has no thread left. As a remembered key has one
operation (`RestartedOnlyAfterEviction`), all its answers are that operation's.

**EntryGate_proof** (`GateAssumption`). `IInv` is the type invariant in parts, plus
`EnteredIsLeft` (a market that was entered is not watched any more, which is what
makes a second entry impossible) and `ReconciledIsFinished` (what the store calls
reconciled is a run that ended since the last disconnect). One lemma per actor.
Theorems `EnteredOnce` (for `GateSound`), `EntriesAreReconciled`, `RiskPausesKept`.

**EntriesAndExits_proof**, exits (`CoverageAssumption`). What a sell does to the surplus
depends on what its sender decided several steps before, from answers that are
older still. `IInv` follows them: the answers of a run nothing has raced are those
the exchange would give now, but for shares bought since (`AnswersTrue`); what the
run decided on fits between the open sells and the shares held until it is sent
(`RunsFit`), and so does what the entry of the worker bought (`WorkerFits`). The
store appears in the invariant with its type only: what websocket and projection
write into it is overwritten by the answers in the step that plans. Shares are
exchanged for money one to one (`Money`), which bounds both. The open sells are a
sum, counted as the shares of all orders, so that `SumUpdate` (an order changes)
and `SumListed` (the store lists the orders of the exchange) follow from
cardinalities, without an induction. Theorem `ExitsAreSound` (`ExitsSound`).

**Supervision_proof** (`ScanAssumption`). `ScanInv`: `RoundsComplete` is not
inductive, because a round ends when the last query completes, which says nothing
of the pages before; `ReadSoFar` adds that every page a cursor has passed, and
every page of a completed query, was gone through in this round. `TurnFacts` says
which query has the turn. `SupInv`: that backpressure cannot open the gate of an
unsound process needs `UnsoundKeepsReason` (such a process keeps a reason of its
own from the start on), and that nothing outlives the shutdown needs `JobsOwned`
(a job is cancelled only by the shutdown, which cancels every one).
Theorems `BackpressureEnds` (`SupervisionSound`), `EveryPageRead`
(`RoundsComplete`) and `DownStaysDown` (`NeverRevived`).

**Markets_proof**, registry (`RegistryAssumption`, `AbsentAssumption`,
`EditsAssumption`). `UpsertFacts` and `RemoveFacts` say what the detach and attach
of a market do to the three dictionaries, once for all four writers. That exposure
stays watched is proved for a market whose buy is under way as well
(`WatchedOrLate`), since it becomes exposure when it fills. `AnswersKeepResolved`
is about a reconcile run: what its snapshot held as resolved stays so in its
answers. Theorems `RegistryAgrees`, `CopiesFollow`, `ExposureWatched` and
`ResolvedUntilOldNews` (`ReopenedByOldNews`).

**Markets_proof**, order book (`BooksAssumption`). That a settled book is true says
nothing of a book that still has messages to come, so it is not inductive. `BooksInv`
counts messages. A connection begins with the whole book and brings every change
after it, so behind the last book of the queue stand the newest changes, none
left out (`Streaming`), also when they are behind what is left of an older
connection. A worker with no book in front of it has therefore heard of all but
as many changes as are queued (`Heard`) and takes the next one. What it has heard
of is in the book or is missing (`Taken`), and a level shows its last change
unless that is ahead or missing (`Shown`). `SnapshotHeard` is the lemma all
replacements of the book share: a first book, the repair of a gap, an old
snapshot of the reconcile run, a market tracked anew. A snapshot asked for after
a gap has all that was heard of when it is applied, because the worker takes no
message meanwhile. Best prices are a minimum over a set, which exists by the same
argument on finite sets (`MinIn`). Theorem `SettledBooksAreTrue` (`BookSound`).

**EntriesAndExits_proof**, plans (`AllocationAssumption`, `PlanningAssumption`).
The division is a recursive function of the rounds done. `RoundsExist` shows that
the recursion defines one (a least number of rounds without one is impossible),
`DividedInRounds` that the plan is its last value. `Fair` is the loop invariant:
capacities and smallest orders are kept (`Limited`), the pool is what is left of
the money (`PoolLeft`), markets that can take the same have got the same (`Alike`),
and those that go on are all that can take another order, or an equal share is too
small for any (`Going`). `RoundedUp`, that all quotients together exceed the money
by half a unit for each buyer, is the delicate part: only the round that empties
the pool can exceed it, by the rounding of its one quotient (`ShareFacts`) times
the candidates that took it (`SharesOfSome`), who are buyers. `RoundFair` is the
step; each round that does not end the loop spends something, so that `Budget`
rounds reach the end. `PlanKeepsPromises` follows for all candidates whatever.
In the state machine the types are inductive (`StateTyped`), since a plan is made
anew from the state. For the review, `GatesAgree` says gate by gate what may be
refused, and `TotalRounded` that past the total limit is never more than the
rounding. Theorems `PlanKeepsPromises`, `PlansAreSound` (`PlanSound`),
`PlansPassReview` (`PlanPassesReview`).

Only model-checked: liveness and everything under fairness, which is out of the
prover's reach (`CriticalSettled`, `BookConverges`, `ExitsCovered`, `AccountConverges` and
`AccountRestored` among it). Every safety invariant of a run is stated by a
theorem. What a recursive operator computes for every input needs an induction
over data with an operator as its hypothesis, which none of the provers can
instantiate; for choices from finite sets (least, greatest, in order) and for
recursive functions of a number the proofs go around it by a minimal
counterexample, and for sums by counting.

## 5. What does not hold

Two disagreements are runs (section 3). Others were met while modelling; they are
part of the models' behaviour, which is why a property is conditional or leaves
a case out, or lie outside of them.

*Events and records*

* With the trading lane full the trading worker, which publishes its own results
  into the lane it alone empties, waits for itself (`trading_decision_worker.py:335`,
  `event_bus.py:124`; `config.py:99` says the limits avoid unbounded waits).
* Any exception while it handles an event ends the trading worker for good
  (`trading_decision_worker.py:97-107` has no handler, `main.py:592-594` raises it
  again and nothing starts the task anew). Nobody takes from the trading lane
  then; once it is full every publisher of a P0 or P1 event waits for ever, the
  reconcile run that pauses a market (`reconcile_worker.py:253`) too, and with it
  the maintenance lane (`TradingStopped`, `ReconcileStopped`).
* With more stalled retained events than promotions fit in a poll, nothing is
  taken from a full ready queue any more (`PollBudget` of the run excludes it).
* Events that `_coalesce_low_priority` drops from a batch as superseded are never
  acknowledged and stay in `_events_by_id`.
* An event of low priority that is merged into and evicted while it is in the
  batch (`local_queue.py:201`) makes its retry or dead letter raise
  (`local_queue.py:98`), the loop polls again (`persistence_worker.py:170`), and
  what was behind it in the batch stays unsettled: written events are not
  acknowledged, failed ones are tried again uncounted, more often in the end than
  `max_retry_count` allows (`dropped` in `RetriesCounted`). Critical events stand first in a batch
  and never suffer from it.
* An update that merges into an event in flight is removed by the ack of the
  older payload (`merged` in `RowsFollow`).
* The kind `account`, planned for every balance update, is missing from
  `route_order`: every balance update ends in the dead letters, with a healthy
  database too. Tables of books, allocations and accounts get no rows.
* `order_key` is new for each message of the user channel while `order_id` is
  unique: the row of an order keeps the status of its first event, its later ones
  are refused and given up, and an order long ended is restored as open
  (`models.py:605-607` says that the table serves replay and recovery).
* The market's row never hears of `MARKET_UPDATED` or of a resolution, so that a
  resolved market comes back eligible after a restart.
* A record that is written again goes behind younger ones and may put an older
  position, fill or market status over a newer row.
* A trade adds its size to the position each time it is reported, matched, mined
  or confirmed; a matched order stays in the store. Both last until a reconcile.

*Gate, account and exits*

* `mark_reconciled` asks only that *a* run ended. A run that began before an
  outage, or the startup run (`main.py:348`), lets the gate open as soon as the
  connection is back, although `docs/runbook.md:40-44` orders reconnect, pull,
  reconcile, resume. `NoEntryUnreconciled` states what the code does give. A run
  whose authority calls all failed, or over no market, also counts.
* Order and fill events of the user websocket carry no status where the trading
  worker looks for one (`trading_decision_event_payloads.py:190`); they are
  handled as an unknown outcome and reopen a gate that a resting order closed.
* Overlapping reconcile runs can sell the same shares twice; `ExitsSound` says
  that nothing but such a race, or a failed look, does. Surplus sells are never
  cancelled, although `docs/runbook.md:69` lists it.
* An exception in a run ends the reconcile loop for good (`main.py:592`), one in
  the REST snapshot of a gap the market loop (`ws_loops.py:239`).

*Planning*

* The total limit of a plan leaves out the exposure of markets the plan skips,
  and so does the gate's (`allocation.py:135`, `risk.py:614-629`): what is held
  in all may exceed `max_total_usdc` (`config.py:276`).
* `max_open_orders` counts the open orders of one token; `min_order_size`, in
  shares, is compared with an amount of USDC; the allowance is not looked at by
  sizing; shares in a resting sell count twice as exposure; after a restart a
  market that holds a position is entered again.
* Quotients are rounded up, so that the plan of a whole total may be refused by
  `total_limit_reached`, for all its markets.

*Markets and books*

* A resolved market, final by `registry.py:178-179`, trades again after an old
  page or an old answer, while its book stays frozen.
* An event slug that two markets share is lost when the one that wrote it last is
  removed. A market whose slug equals another's event slug would be taken for it
  (`RegistryAssumption` excludes that).
* A market may be forgotten while a buy is unanswered; its position is then
  watched by nobody. A listed market without an order book changes between
  eligible and paused with each discovery and reconcile.
* A reconcile snapshot read before newer changes loses them until the next one;
  a market tracked anew has an empty book until then, because the subscription
  does not change. Levels that emptied count as best ask when a message names
  none.
* `docs/runbook.md:28-29` speaks of exponential backoff and a REST snapshot after
  a reconnect; the client waits a fixed delay and reads none.

*Supervision*

* The trading gate of the supervisor is reported and read by nothing in the
  trading path. The database is looked at once, at the start, and the reason it
  left is never cleared.
* The scan records a page before it ingests it: what an exception loses is not
  read again in the round (`covered` counts it).

## 6. Not modelled, and what is left

Left out for good: HTTP, signatures and SQL, whose outcomes are inputs;
formatting, logging, metrics and trace ids, which no decision depends on; the
loading of extensions by name; the frontend, which only reads; and the scripts.
Calls that nothing makes (`next_event` of the bus, manual pause and `trigger_now`
of supervisor and scheduler) are not modelled either.

Left for later, in this order:

1. The admin's own cancel and replace (`admin_order_control.py`,
   `apply_replace_result`) as a third actor of `ExitCoverage`.
2. Last trade prices, fee updates and the second side of a book; the choice of
   the markets the two streams subscribe to.
3. Mapping of execution responses (`execution_response_mapper.py`) and of the
   REST payloads (`schemas.py`) as operators over bounded inputs.
4. Restore of more rows than the limit of 500, and of a second order of a
   market, in `AccountRecords`.
