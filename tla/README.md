# A verification project for signal-platform

The platform ingests market data, builds bars, backtests strategies and runs them
live against a broker. These modules model the parts where concurrency, crashes and
other people's failures meet orders and results: the **live trading session**, the
**control of sessions across processes**, the **streams** that carry trades to the
database and closed bars to the sessions, the **backtest and walk-forward jobs**, and
the **backtest engine** with its ledger. TLC checks the models on small instances,
TLAPS proves their main safety properties for every value of the constants.

All paths below are relative to the repository (`packages/...`, `services/...`).

## 1. Inventory

| component | state it keeps | operations | talks to |
|---|---|---|---|
| live session (`packages/livetrade/session.py`, `persistence.py`) | `_pending`, `_queued_cancels`, `bar_count`, watermark in memory; `paper_orders`, `paper_sessions` rows | `on_closed_bar`, `_persist_advance`, `_submit_order`, `warm_start`, expiry and cancels | database, broker, strategy, kill switch |
| reconciler (`reconciler.py`) | none of its own; writes `paper_orders`, `paper_fills`, `paper_positions` | `_handle_update`, `_apply_fill`, `_sweep_once` | broker stream and REST, the session's lock |
| session control (`runner.py`, `router.py`, `services/paper_trader`) | `SessionRegistry`, halt tasks, the Redis list `paper:control` | start/resume, stop, halt, flatten, ghost eviction | API through the list, database |
| session API (`services/api/routers/paper_sessions.py`, `deletes.py`) | the `paper_sessions` row | create, stop, flatten, delete | control list |
| broker adapters (`packages/broker`) | the broker's orders | submit, cancel, get, stream | Alpaca, Binance.US |
| message bus (`packages/data/messagebus.py`) | streams, and per group what was delivered and what is unacknowledged | publish with `MAXLEN`, read new entries, acknowledge | every service |
| persistence worker (`services/persistence_worker`) | a buffer, an instrument cache | read, flush, acknowledge, refresh | `trades:raw`, database |
| bar builder (`services/bar_builder`) | the bar in progress of each symbol and resolution | add a trade, close a bar | `trades:raw`, `bars:closed` |
| bar router (`packages/livetrade/router.py`) | its group, the batch in hand | read, dispatch, acknowledge | `bars:closed`, the registered sessions |
| backtest jobs (`services/backtest_worker`, `packages/backtest/persistence.py`, `walkforward_persistence.py`, `services/api/routers`, `packages/copilot/tools.py`) | job rows and results, two Redis lists | create, push, pop, run, save, fail, sweep, delete, poll | API, copilot, database |
| backtest engine (`packages/backtest/engine.py`, `fills.py`, `portfolio.py`) | resting orders, water marks, cash, positions, fills | one bar: settle, expire, cancel, fill, run the strategy, mark | strategy |
| live ledger (`packages/livetrade/position_math.py`), round trips (`packages/backtest/analytics.py`) | pure functions of fills | buy, sell; cut into trips | reconciler; results |
| walk-forward (`packages/backtest/walkforward.py`) | pure functions, one run per window | windows, cut to the test segment | engine, jobs |
| kill switch (`guards.py`) | a cached Redis flag | `engaged` | session |
| strategies, copilot, referee, machine learning, ingestion, front end, research | see `PROJECT.json` | | |

What is hard here:

* **Interleaving.** One event loop runs the bar task, the reconciler, the sweep, the
  control loop and halt tasks; each `await` lets the others in. A per-session lock
  serialises bars and updates, but rows are read before it is taken, and an update
  for a session that is not registered is applied without it.
* **Crash and restart.** Orders are committed before they are sent; a restart
  rebuilds `_pending` from the open rows and sends again, relying on deterministic
  client order ids. The trade-update stream has no replay. Control messages are
  removed from the list before they are handled.
* **Partial failure.** A transaction may roll back after memory was changed inside
  it; a broker call may raise before or after the broker acted; status writes may
  fail after the broker or the registry changed.
* **Several processes.** Shards take messages from one list and resume rows at boot;
  backtest workers take ids from two lists, and each start sweeps the others' rows.
* **Streams without redelivery.** Every consumer reads new entries only: what it had
  been handed when it died, or in a reply that was lost, stays unacknowledged and is
  not read again. The stream itself forgets its oldest entries, read or not.
* **The same arithmetic three times.** The engine's portfolio, the live ledger and the
  analytics each turn fills into positions and profit, and have to agree.

`PROJECT.json` lists each hazard with the line where it bites and the properties
that cover it, or why none does yet.

## 2. Modules

| module | what it is |
|---|---|
| `OrderBook` | what a session promises about bars, orders and the ledger, without process, database, lock or stream |
| `LiveSession` | one session: bar task, reconciler, sweep, crash, warm start, and the broker as it sees it |
| `MCLiveSession` | constants of `LiveSession` for TLC |
| `LiveSessionProofs` | the inductive invariant of `LiveSession` and the theorems |
| `LiveSessionOrderProofs` | the ledger, the refinement of `OrderBook`, and what becomes of each order |
| `SessionControl` | API, control list and runners; a loaded session is an element of a registry |
| `MCSessionControl` | constants of `SessionControl` for TLC |
| `SessionControlProofs` | the inductive invariant of `SessionControl` and the theorems |
| `Walkforward` | where the windows of a walk-forward run lie |
| `BacktestJobs` | the job rows, the two lists, the workers, the API's and the copilot's part |
| `MCBacktestJobs` | its constants for TLC |
| `BacktestJobsProofs` | the windows are honest; the inductive invariant of the jobs and the theorems |
| `Portfolio` | what a fill does to a position: portfolio, live ledger, round trips |
| `Backtest` | the engine's loop over bars, and the ledger run beside it |
| `MCBacktest` | five accounts with their bars and orders for TLC |
| `BacktestProofs` | the inductive invariant of the loop and the theorems |
| `BacktestAccountProofs` | what the fills of a backtest add up to: quantities of orders, positions, money, round trips |
| `Lists`, `ListLemmas` | sums and picked sublists, and what they do when a list grows or is reordered |
| `MessageBus` | a stream with `MAXLEN` and its consumer groups |
| `Streams` | persistence worker and bar builder on `trades:raw` |
| `BarFeed` | extends `Streams` by the bar router, the registry and the loading of sessions |
| `MCStreams` | constants of both for TLC |
| `StreamsProofs` | no trade is dropped by the persistence worker, closed bars are the aggregation of the trades, a session acts on each bar routed to it |

`LiveSession` implements `OrderBook` (`ImplementsOrderBook`: a refinement mapping
through `INSTANCE OrderBook WITH ...`). `LiveSession` is one registered session of
`SessionControl`: `WarmStart .. SubmitDone` of the one is the job step `load` of the
other, and a `Trip` of the other is a `BlockOrder` reason of the one. `BarFeed` says
which bars reach the session whose `TakeBar` takes any; `BacktestJobs` extends
`Walkforward` for the windows it stores, and the runs inside a job are the loop of
`Backtest`, where `FillsFrom` is the cut that a walk-forward makes.

### LiveSession and the code

The atomic step is what runs between two awaits whose order others can observe, or
one transaction. `pc` says where the task holding the session lock stands, and
`idle` is a free lock.

| code | model |
|---|---|
| `on_closed_bar`, gate | `TakeBar` |
| `_expire_orders` | `ExpireOrder` (the cancel at the broker), `DropOrder` (pop, mark, callback) |
| `_apply_queued_cancels` | `ApplyQueuedCancel`, `DropOrder` |
| `on_bar`, drain, `_persist_advance` | `Decide`; rolled back: `DecideFails` |
| `_submit_order` | `BlockOrder`, `SendOrder`, `SendFails`, `BrokerReplies`, `ReplyFails`, `RecordOrder`, `RefuseOrder` |
| a write of the bar task raises | `WriteFails` (`BarRouter._dispatch` catches and goes on) |
| `warm_start`, `registry.add` | `WarmStart`, the sending actions, `SubmitDone` |
| `_handle_update`: row and session looked up | `PickUpdate` (remembers the row's broker id and whether the lock will be taken) |
| `_apply_event`, `_apply_fill` | `ApplyFill`, `ApplyClosed`, `ApplyNew`, `UpdateFails` |
| `_sweep_once` | `SweepLoads`, `SweepReads`, `SweepApplies`, `SweepFails` |
| process death or shutdown | `Crash`: memory and updates under way are lost |
| broker and its stream | `Execute`, `Close`, `Emit`, `LoseUpdate` |

An order is named by its client id: the bar number and a slot. The slot stands for
the sequence number and fixes the order's life in bars, so an id used twice has the
same life; sizes, prices, symbols and sides are left out and an order is `Qty` units.
`ghost` marks the pending orders whose database id comes from a rolled-back insert:
their updates find no row (`OwnRow`). The notional check is a free choice of the
orders it refuses. A warm start that fails is `LoadFails` of `SessionControl`; for
the session it looks like a crash.

### SessionControl and the code

A runner handles one thing at a time, first the rows it read at boot, then control
messages; `busy[r]` is the job in hand and where it stands. Halts run beside it.

| code | model |
|---|---|
| `create_paper_session`, `stop_paper_session`, `_push_control` | `Create`, `Stop`, `Push` (the row commits first, the push may fail silently) |
| `delete_paper_session_endpoint` | `Delete` (status check), `DeleteRow` |
| `PaperTrader.start` | `Boot`, `ResumeRow`, `Ready`, failures `LoadFails`, `MarkFailed` |
| `_load_session` | `Loaded` (registry), `MarkRunning` |
| `_control_loop`, `_handle_control` | `Pop`; failures of a start are only logged (`LoadFails`) |
| `_stop_session` | `StopDrops`, `MarkStopped` |
| `_check_daily_loss`, `_halt_session` | `Trip`, `HaltDrops`, `HaltMarks` |
| `_evict_ghost`, the router's eviction | `Evict` |
| process death | `Crash`: the message being handled is gone |

### BacktestJobs and the code

A step of a worker is what it does between two awaits on Redis or Postgres. A row is
its status and whether the staleness gate has passed (`aged`); a result is how many
copies of the equity curve are stored, or the windows. `pushes` and `runs` are
history.

| code | model |
|---|---|
| `create_backtest`, the copilot's `create_backtest` and out-of-sample tool; the push | `CreateBacktest`, `CreateWalkforward`, `Enqueue`, `EnqueueFails` |
| `_poll_until_terminal` | `PollAnswers`, `PollTimesOut` |
| `delete_backtest_endpoint` and its walk-forward twin, foreign keys | `Delete` |
| worker start, `reclaim_stale_*` | `Age`, `Boot` |
| `BRPOP`, reading the header, the status check | `Pop`, `PopReplyLost`, `Load` |
| `mark_running` | `MarkRunning` (an update by id, whatever the status is) |
| the run | `RunBacktest`, `RunWindow` (a window at a time) |
| saving and failing | `SaveBacktest` (the points' key decides), `SaveWalkforward`, `MarkFailed` |
| process death | `Crash` |

### Backtest and the code

A scenario fixes the account (shorting, margin, volume cap, maker margins) and the
bars and orders it draws from. A bar is `OpenBar` (marks, option settlement,
expirations, cancellations), one `FillNext` per resting order in the order of
submission, and `OnBar` (strategy, queueing, mark to market). `Fill`, `Rest` and
`Reject` are the outcomes of a try; `MarketFill`, `LimitFill`, `StopFill` are
`fills.py`. The variable `ledger` is `position_math` fed with the same fills; it is
`Broken` from the fill on that would make a long-only ledger short. The rate constants
are in hundredths and prices in a unit that makes all products and averages exact, so
decimal rounding is left out.

### Streams, BarFeed and the code

A stream is its log and the first entry it still has; a group is the last entry it was
handed and the entries not acknowledged. A bar is the sequence of entries it was built
from, of which open, high, low, close, volume and VWAP are functions.

| code | model |
|---|---|
| ingestion, `publish` with `MAXLEN ~` | `Publish` (late, repeated, evicting up to the cap or less) |
| `discover_binanceus_universe` | `Discover` |
| `_consume_loop`: read, flush, failure, shutdown | `Consume`, `ConsumeFails`, `Flush`, `FlushFails`, `AckFails`, `WorkerCrash` |
| `_instrument_refresh_loop` | `Refresh` |
| `main_loop`, `process_trade` | `Read`, `ReadFails`, `Process`, `ProcessFails` (any resolution), `BuilderCrash` |
| `PaperTrader.run`, `ensure_group` | `RunnerStarts` |
| start and stop of a session, `warm_start`'s history and watermark | `StartSession`, `StopSession`, `Loaded` |
| `BarRouter.run`, `_dispatch` | `RouterReads` (a raising acknowledgement ends the task: `deaf`), `RouteBar` |
| `on_closed_bar`: watermark gate, history, a raising handler | `OnClosedBar`, `OnClosedBarFails` |
| process death | `RunnerDies` |

## 3. Properties

`LiveSession`: `TypeOK`; `PersistBeforeSend` (no order at the broker that the
database does not know); `AdvanceTogether` (orders, watermark and bar number agree
between memory and database, so the client id of a committed order is never
given to another one; the ids of a rolled-back bar are); `BarOnce`;
`NothingStranded` (a crash between commit and send is made good); `LedgerSound`
(each execution booked once); `ToldOnce` (a strategy hears once that an order is
over); `ClosedMeansCancelled` (an order called expired or canceled while the broker
still works it was asked to be cancelled, or has a fill and no broker id, see section
6); `NoLateSend` (only pending orders are
sent); `ImplementsOrderBook`; and, under fairness, `PendingResolved` and
`RowCatchesUp` (what is over at the broker is recorded in the end, whatever updates were
lost or late, except for a row that never got a broker id, see section 6).

`SessionControl`: `TypeOK`; `OneTrader` (no session in two registries);
`RunningIsTraded` (between messages, a running row is a traded session);
`RunningResumed` (a running session comes back after a crash).

`BacktestJobs`: `RunsWithinPushes` (an id that is queued, held or was run is never
more often there than it was pushed); `ResultMatchesStatus` (a completed
job has its whole result and never two equity curves, a deleted or waiting one none,
and a result under a running or failed row takes two runs, that is an id pushed twice:
the loser of the insert writes 'failed' over the winner's 'completed');
`WindowsHonest` (a stored walk-forward never tests on what it trained on);
`StrandedOnlyByFault` (no order of creations, deletes, sweeps, restarts and polls
leaves a job behind by itself); `CompletedIsFinal`, `AnswerHolds` (what the copilot
was told stays true); and, under fairness, `JobsSettle`.

`Backtest`: `OrderAccounted` (no quantity is lost or filled twice); `NoFillOutsideLife`
(no look-ahead, no fill after expiry or a cancellation); `PnlAddsUp` (cash, cost and
realised profit balance over extensions, reductions, flips and settlements);
`LongOnlyAccount` (the checks on each fill keep the account long and unborrowed);
`TripsMatchLedger` and `LongLedgerAgrees` (portfolio, analytics and live ledger tell
one story); `StopsFollowTheMarket` (a resting trailing stop keeps the best price of
every bar it was tried on, and a stop rests on a bar that breached it only for want of
volume: over partial fills and bars without volume or trade); `WindowTripsHonest` (which round trips survive the
cut to a test window).

`Streams` and `BarFeed`: `NothingDropped` (no failed flush or acknowledgement loses a
trade, and acknowledged means stored or skipped); `BarsAreTheAggregation` (undisturbed,
closed bars are exactly the aggregation of the trades); `CountedOncePerEntry`
and `ReclosedOnlyLate` (what late and repeated trades and failing publishes may do to
closed bars: the builder keeps no trade ids, so a trade published twice counts twice,
unlike in the table, and in a second closed bar only when the repeat came late);
`EveryBarDrives` (a registered session runs on each bar dispatched to it, once, in the
order of time, with the exceptions named); under fairness `TradesSettle` (every
trade reaches the table or one of the ends `Settled` names).

Five runs state what the repository says and find it violated:

* `LedgerCatchesUp`: the sweep is documented to catch missed fills, but it only
  updates the order row.
* `NoLateSend` with a failing transaction: an order refused by the notional check is
  sent, because the pending entry of the rolled-back attempt carries its id. Steps:
  a bar places order 0 and its transaction rolls back; the next bar has the same
  number, its order 0 exceeds the cap and is written 'rejected'; `_submit_order`
  finds the old entry and sends it.
* `RowFollowsBroker`: updates are documented to be applied under the session's lock,
  but during a warm start they are not, and the late submit response reopens a
  filled order for ever.
* `HaltIsFinal`: a halted session is loaded again if the process dies before its row
  is marked.
* `NoFutureBars`: `context.py:144` and `base.py:22` promise a history up to the current
  bar. A resumed session loads its history from the real-time aggregates and then runs
  on the bars still waiting in the stream, which are older: while it catches up, `on_bar`
  sees bars later than the one it runs for.

## 4. Runs

| run | instance | shows |
|---|---|---|
| `session_two_faults` | 2 bars, 1 slot, 1 unit, guarded; one fault of each kind (crash, lost, repeated, database, call), two kinds together | `TypeOK PersistBeforeSend AdvanceTogether NothingStranded ToldOnce BarOnce` |
| `session_partial_fills` | 2 bars, 1 slot, 2 units; two crashes or a repeated update | `LedgerSound ClosedMeansCancelled NoLateSend ImplementsOrderBook` |
| `session_liveness` | 2 bars, 2 units, orders on the first bar only; two crashes, three lost updates, a repeated one, a failing call, two kinds together, fair | `PendingResolved RowCatchesUp` |
| `session_lost_fill` | one lost update, fair | violates `LedgerCatchesUp` |
| `session_notional` | one failing transaction | violates `NoLateSend` |
| `session_warm_race` | one crash, fair | violates `RowFollowsBroker` |
| `control_shards` | 1 session, 2 runners, two crashes and stops, one of each other event, fair | `TypeOK OneTrader RunningIsTraded RunningResumed` |
| `control_halt` | 1 session, 1 runner, a halt and a crash | violates `HaltIsFinal` |
| `jobs` | 1 backtest, 1 walk-forward, 2 workers, one fault, one id pushed twice, fair | the properties of `BacktestJobs` |
| `backtest` | 5 accounts, 6 bars, 2 to 4 orders, a stock and a call on it | the properties of `Backtest` |
| `streams` | 4 entries, stream of 3, batches of 2, two resolutions, one fault, fair; worker alone, builder alone, builder with runner and one session | the properties of `Streams` and `BarFeed` |
| `feed_history` | builder, runner and one session | violates `NoFutureBars` |

**Bounds.** `MaxBars`, `Qty`, `Placing` (the bars on which the strategy may place
orders), `Budget` (faults of each kind), `Mix` (kinds of fault together) and, in `SessionControl`, `Budget` (events of each kind) are the only
bounds; everything else is free. Two bars are enough for an order to be placed on
one, expire or be cancelled on the next and meet a reused id; one unit gives the
races on 'filled', two units the partial fills. The second crash of
`session_partial_fills` is what an order needs that is filled in part while its first
restart sends it again (`Nameless`); `session_liveness` has it too, and two units, and
pays for them with `Placing`: the order is placed on the first bar, the second is there
for it to expire or be cancelled on. Its three lost updates are two fills and a cancel,
so that the sweep must do without the stream.
Two kinds of fault together cover a
crash during the repair of another fault. Orders of different slots interact only
through the task that sends them one after the other, and the proofs hold for every
set of slots. One session is enough in `SessionControl` because jobs of different
sessions share nothing but the runner being busy; two runners are enough for the
shard rules. The `session_notional` trace needs a failed transaction, which
`session_partial_fills`, where `NoLateSend` holds, does not allow; `ToldOnce` and
`NothingStranded` say so in their own text, since a failed write leaves a pending
order whose row is old.

`BacktestJobs`: one job of each kind meets the other only in the lists and in the
worker, two workers are what a sweep by a sibling and a double push need, and one
fault is what strands a job; `MaxFaults` and `MaxDups` are the bounds. `Backtest`:
`MaxBars` is six so that an order of life two can be submitted, rest, fill in parts and
expire, and a position can be opened, flipped and closed before a later trip; each
account has only the orders that make its own checks bite. The thin market has trailing
stops that fill in parts, bars without volume and bars on which only the call trades, so
that a remainder goes on with the mark of bars long past. `Streams`: `MaxRaw = 4` is
one more than the stream holds, so the oldest entry can be evicted before, while and
after it is read; batches of two give a batch with a processed and an unprocessed
entry; bars of one and two seconds give a trade that closes one bar and extends the
other; the third trade reopens an older bucket when it comes late. The services of one
deployment share only the stream, so each set is run by itself, with the trades it can
tell apart (`Feed`).

**Deadlock** is not checked: with the last bar processed and the last fault used,
nothing need happen, and a real session without bars or updates is idle too.

**Fairness.** `LiveSession`: the tasks of one event loop go on as long as the process
is up (weak fairness of `BarTask \/ SendTask`, of `Reconcile`, of a sweep under way);
the sweep comes round every 30 seconds for each open order (strong fairness of
`SweepLoads`, which another order's sweep disables for a while) — the code skips it
while the venue is closed, so the assumption reads "the venue opens again"; a process
that went down is started again (`restart: unless-stopped` in `docker-compose.yml`).
Nothing is assumed of the broker, of bars or of the strategy. `SessionControl`: a
runner's own steps and its restart are weakly fair; API callers and the popping of
messages are not assumed. `BacktestJobs`: a worker's steps, its restart included
(`restart: unless-stopped`), are weakly fair and so is the push that follows a
committed insert; users, deletions and polls are not. Fairness of one walk-forward's
steps says that a run ends. `Streams`: the persistence worker's read is weakly fair,
since it returns within its block time, and its flush strongly fair, since the batch
time passes; a failure may pre-empt a flush, but failures are finitely many in the
model, so the assumption reads "the database comes back".

## 5. Proofs

`LiveSessionProofs` (assumption: `LiveSessionAssumption`, the types of the constants):
`TypeCorrect`, `NoOrphanOrder` (`PersistBeforeSend`), `NumbersAdvanceTogether`
(`AdvanceTogether`) and `EachBarOnce` (`BarOnce`). None of the three invariants is
inductive: that no order is at the broker without a row needs that the task only
sends committed orders, which needs that a pending or queued order belongs to a
known bar number, which needs that memory and database agree on that number. The
inductive invariant is `IInv == TypeOK /\ MemoryInv /\ OrderInv /\ BrokerInv`, and
each of the four has a lemma (`TypeStep`, `MemoryStep`, `OrderStep`, `BrokerStep`)
with one step per action.

`SessionControlProofs` (assumption: `SessionControlAssumption`): `TypeCorrect`,
`NeverTwoTraders` (`OneTrader`) and `RunningRowsTraded` (`RunningIsTraded`), for any
sets of sessions and runners. `OneTrader` follows from `ShardInv`: a runner holds,
resumes and loads only sessions of its shard. `RunningIsTraded` needs to account for
every place a running session may be while its runner is down, resuming or busy:
`RunInv`, with `JobInv` for what a job in hand knows about its row and `HaltInv`.

`BacktestJobsProofs` begins with `ComputedWindowsHonest`: for every header the windows
computed are held out, anchored and disjoint. Its lemmas place window `i` of `n` and show
that the windows skipped for starting too early are the first ones
(`NoWindowStartsBeforeTheData`), so that a subsequence remains. It goes on (assumption:
`JobsAssumption`) with `Types` (`TypeOK`),
`CompletedFinal` (`CompletedIsFinal`), `AnswersHold` (`AnswerHolds`) and `StoredWindowsHonest` (`WindowsHonest`), for any sets of
jobs and workers, any headers and any number of faults. That a completed job stays
completed needs that nobody will still write to it: a job pushed once is in the list,
in a request or in the hands of one worker, and never in two of these places: that is
`Journey`, the inductive invariant, which says where the id of each job is. `Stored`
adds what the rows and the workers know of results. `WindowsHonest` follows from
the invariant that a worker's finished windows are a prefix of the computed ones, and
from `ComputedWindowsHonest`.

`BacktestProofs` (assumption: `BacktestAssumption`): `FillsInsideLife`
(`NoFillOutsideLife`), `LedgersAgree` (`LongLedgerAgrees`) and `StopsFollow`
(`StopsFollowTheMarket`), for any bars, orders, rates and number of symbols. The
inductive invariant is the two typing parts, `FillsKnown` (a fill's id is an order's),
`Life` (what waits was submitted before this bar, expires after it, and was not asked
to be cancelled before it) and the first two properties. `StopsFollow` goes on from it:
one more bar moves the mark to the best price of one bar more (`MarkMoves`), a stop that
a bar does not fill was not breached or found no volume (`WhyItRests`), and the three
steps of a bar keep both for the orders they leave waiting.

`LiveSessionOrderProofs` goes on from `IInv`, for any bars, slots, units and budgets of
faults:

* `LedgerCountsOnce` (`LedgerSound`). Beside the property the invariant says that every
  fill under way or in hand was executed (`Executed`); a new execution then finds room,
  since the recorded ones of an order are distinct numbers up to what the broker executed.
* `KeepsTheBook` (`ImplementsOrderBook`). A step of the session is a step of `OrderBook`
  (`DecideAdvances`, `SendAccepts`, `ExecuteFills`, `FillPosts`) or leaves all that the
  book sees alone (`Unseen`).
* `NothingIsStranded`, `ToldAtMostOnce`, and `SendsOnlyPending`, which is `NoLateSend`
  for a budget without failing writes: the trace of `session_notional` shows that the
  assumption is needed. The invariants are `FInv`, what the rows, the task's next write,
  the updates and the sweep's reading say (`RowsInv`, `TaskInv`, `HeardInv`), and
  `CareInv`: while no write failed, a pending row is in the task's hands, an order to be
  sent is still pending, and the strategy was told nothing of a pending order. `RowMoves`
  and `Hears` summarise what a step does to one row and to what is heard of the broker,
  so that most of the argument is about them and not about thirty actions.
* `NotClosedBehindTheBroker` (`ClosedMeansCancelled`). `CancelInv` follows the orders
  whose broker id the session will not be told (`Lost`): each has a fill and no id.

`BacktestJobsProofs` ends with `OnlyFaultsStrand` (`StrandedOnlyByFault`), from the
invariant that without a fault a waiting row is still to be pushed, listed, or held by a
worker that has not marked it, and a running one is held by a worker that will save or
fail it; and `RunsBounded` (`RunsWithinPushes`), by counting: the runs of a job, its
places in list and requests, and the workers that hold it unmarked are together no more
than its pushes. `ResultsMatch` (`ResultMatchesStatus`) needs that bound: a job run once
keeps the row of its one run, so a result under any row but 'completed' takes a second.

`ListLemmas` is what the proofs about ledgers and bars rest on. The prover cannot
instantiate an induction theorem whose parameter is an operator, so `SetInduction` states
induction over the naturals for a set, from the well-foundedness of `<` (`WFMin`). A
recursive function is then shown to be the one its `CHOOSE` picks (`TotalIs`, `SumsUnique`, `SumsExist`), and
the rest follows by induction on the length: how a sum (`Total`) grows and how lists of the
same sum compare, what a picked sublist (`Picked`) holds and in which order, that the
sublist of a longer list begins with the sublist of the shorter one, and that a sum over
a listing without repetition depends on the elements only (`OrderIrrelevant`).

`BacktestAccountProofs` goes on from the invariant of `BacktestProofs`, for any symbols,
scenarios, prices and length of the timeline:

* `Types` (`TypeOK`); `OrdersAccounted` (`OrderAccounted`): the fills of an order add up to
  what is no longer left of it. The property is not inductive by itself: `Quantities` adds
  that the waiting orders and the three lists of ended ones have none in common, and what
  is left of an order that is in neither.
* `PositionsAreFills`: a position is what one gets by applying the fills of its symbol, in
  order, to a flat position (`PositionsFromFills`), partial fills and settlements included.
* `NeverShort` and `LongAccount` (`LongOnlyAccount`). Where shorting is not allowed no
  position is negative. That cash is never negative besides holds under
  `[]SalesCoverFees`: the buying-power check of the code is on purchases only, and a sale of
  an option for less than the fee of its contracts takes money from an account that may
  have none. No order of the run `backtest` does that.
* `AccountAddsUp` (`PnlAddsUp`): cash, the cost of what is held and what was realised add
  up, over extensions, reductions, flips and settlements. It holds under
  `[]AveragesExact`: an average is a quotient, and the model computes in whole units; the
  hypothesis says that the quotients that occurred had no remainder, as they have in the
  prices of the run `backtest` (the code's decimals stand for a fine enough unit).
* `TripsMatch` (`TripsMatchLedger`), under the same hypothesis: what the analytics cut out
  of the fills of a flat symbol earned what the portfolio realised. `TripsCover` says of any
  list of different fills that its closed trips and the fills since the last close earn
  together what the list earns, and `TripMoney` that the fills of a symbol earn what the
  account of `AccountAddsUp` says of it. That the fills differ is an invariant of its own:
  `FillPlaces` says that their bars only grow, an order is tried once a bar and an option
  settled once. Without it two equal trips would count as one in the set of trips.
* `WindowsKeepTrips` (`WindowTripsHonest`): since bars only grow, a window is the end of
  the list of fills (`SplitExists`, `SplitOfSymbol`), and after a flat start the running
  position is the same in both lists (`RunningConcat`), so a trip closes in the window
  where it closes in the whole run, and starts at the same fill (`FlatStartKeepsTrips`).

`StreamsProofs` (assumptions: `StreamsAssumption`, `BarFeedAssumption`) is about the
composed `FeedSpec`: publisher, persistence worker, builder, router and sessions side by
side, any trades, cap, batch sizes, resolutions and number of faults.

* `NoTradeDropped` (`NothingDropped`), from `WorkerInv`.
* `StreamTypes` (`TypeOK`), `EntriesCountedOnce` (`CountedOncePerEntry`) and
  `ReclosedForLateTrades` (`ReclosedOnlyLate`). The invariant `BuilderInv` says that the
  builder handled the entries up to `Done` and holds the rest of its batch, and of the
  bars (`BarsGood`) that each holds handled entries of its symbol and bucket in order
  (`GoodBar`), that whatever is closed before another, or before the bar in progress, has
  earlier entries only and was overtaken by one of a later bucket, or was sent again with
  what came since after a publish that raised (`Followed`). A trade that is in two bars
  makes their buckets the same, so the second began after the bucket was overtaken.
* `BarsAggregate` (`BarsAreTheAggregation`): `AggregationInv` says, while nothing failed
  and nothing was evicted, that the buckets of the entries handled so far are those of the
  closed bars and of the bar in progress, which is the last, and that each of these bars
  has all the entries of its bucket (`Aggregated`).
* `EveryBarIsActedOn` (`EveryBarDrives`). `RouterInv` says that the bars in the router's
  hands are the ones after `Ahead`, and `SessionInv`, of each registered session, that it
  was given every bar of its symbols since it was loaded or missed it, that it ran on them
  in the order of time, and that its watermark is the time of the last (`Driven`).

Only model-checked is everything under fairness, which the prover does not reach
(`PendingResolved`, `RowCatchesUp`, `RunningResumed`, `JobsSettle` and `TradesSettle`), and
the violations. Every invariant and every action property of a passing run is stated by a
theorem; `LongOnlyAccount`, `PnlAddsUp` and `TripsMatchLedger` hold under the hypotheses
above.

## 6. Not modelled, and why

* Live session: sizes, prices and positions of live orders (their arithmetic is in
  `Portfolio`), the account snapshot and equity points (they feed displays and the
  daily-loss check, whose trip is free in the model), the flatten command (it acts on
  account snapshots), a session that goes on after it is unregistered, the cached
  reading of the kill switch (`BlockOrder` may fire or not for every order), the
  Binance.US adapter.
* Jobs: read endpoints, request validation, the resolution of strategies; the grid of
  parameters and the choice of the best are a run that may raise.
* Engine: signals and tags, a maker fee rate of its own, decimal rounding, strategies
  that raise.
* Streams: quotes (flushed by the same loop as trades), the metrics reporter, live
  snapshots of bars (a failing one is a failing publish), several shards in the one
  group.
* A transaction that commits while its reply is lost, and an acknowledgement that does:
  in `LiveSession`, `BacktestJobs` and `Streams` a call to the database or an XACK that
  raises is taken not to have been done. (Lost replies of the broker, of BRPOP, of stream
  reads and of publishes are modelled.) `AdvanceTogether`, `BarOnce`, `CompletedIsFinal`,
  `AnswerHolds` and the last lines of the `TypeOK` of `Streams` rest on that.
* Strategy compilation and translation, the copilot's conversation, indicators,
  attribution and machine learning, the referee, backfill, the other API routers, the
  front end and the research project: calls of language models, numerical code over
  floating point, queries, rendering or batch scripts, without the state and
  concurrency that a model checker is for. They are most of the repository's lines.

Differences between text and code that were met on the way and have no run of their own,
because they need no interleaving to show or concern code outside the models:

* `services/api/redis_subscriber.py:3-6` says trades and quotes are broadcast to the
  WebSocket clients. The subscriber takes the field `canonical_symbol` of an entry
  (line 147), while `publish` stores the single field `payload` (`messagebus.py:96`):
  every entry is skipped. Lines 8-11 say that two API workers read each event twice; they
  share one group, so each event goes to one of them.
* `services/bar_builder/main.py:23-24` calls the builder restart-safe, and
  `services/persistence_worker/main.py:4` and 246-247 count on redelivery. Consumers read
  new entries only, so what was delivered and not acknowledged is not read again
  (`BuilderCrash`, `WorkerCrash`; `NothingDropped` states what does hold).
* `packages/backtest/walkforward.py:176-178` says that a trade that spans the boundary
  counts as open. Its exit opens a trip of its own in the cut list of fills, and a later
  entry closes it; `WindowTripsHonest` is restricted to windows that start flat.
* `packages/livetrade/position_math.py` is said to agree with the backtest. It does for
  long positions; a buy over a short divides by the sum of the quantities, which is zero
  for an exact cover (line 38). `LongLedgerAgrees` is restricted accordingly.
* `services/api/routers/backtests.py:402` leaves a job whose push failed to a maintenance
  job, which does not exist: `Stranded` is an end of `JobsSettle`.
* A round trip's profit leaves the contract multiplier out (`analytics.py`), and a stop
  and a take-profit order of one position are independent, so both may fill.
* `session.py:184-190`: a restarted session takes every row that is not 'pending' for an
  order that was sent and recorded. A partial fill that is applied without the lock while
  the first restart sends the order again (`reconciler.py:98`) marks the row
  'partially_filled' before its broker id is written; after a second crash nobody learns
  the id, the sweep skips the row (`reconciler.py:267`), and the order expires here without
  a cancel (line 543) while the broker still works it. `ClosedMeansCancelled` and
  `RowCatchesUp` name the case (`Nameless`); the proof of the first shows that it is the
  only one.
* `engine.py:234-235` says that the mark of a trailing stop is dropped when the order
  leaves the book. It is when the order fills (line 388), not when it expires, is cancelled
  or is rejected; ids are not used again, so nothing comes of it.
* `router.py:118`: the acknowledgement is outside the try block, and a failing one ends
  the bar-router task while the process goes on (`deaf`).
* All shards read `bars:closed` in one group (`router.py:78`), while
  `messagebus.py:181-183` describes one group per shard.
* A fresh session's watermark is the newest stored bucket, which may be the one in
  progress: its closing bar never drives `on_bar`. A session of several symbols advances
  on the first of the bars of one time.
* `docker-compose.yml:47-48` lets Redis evict any key when memory is short, the streams
  and job lists included.

## 7. Plan

1. Done: `OrderBook`, `LiveSession`, `SessionControl` and their proofs; `Walkforward`,
   `BacktestJobs`, `Portfolio`, `Backtest` and their proofs; `MessageBus`, `Streams`,
   `BarFeed`.
2. Done: the proofs of all safety properties of `LiveSession`, `SessionControl`,
   `BacktestJobs`, `Backtest`, `Streams` and `BarFeed`, and of the refinement.
3. Stop and halt as steps of `LiveSession` (a session unregistered while its process
   lives), flatten in `SessionControl`, several shards in `BarFeed`.
