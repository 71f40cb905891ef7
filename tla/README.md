# A verification development of the trading platform

This directory holds TLA+ models of the Quantitative Trading Platform
(`src/backend/app`): its order execution, its live strategies, its simulated
accounts and backtests, the services they share, and the algorithms between
them. TLC checks the models on small instances; TLAPS checks proofs of their
invariants and action properties, of all but one of them. Paths below are
relative to `src/backend/app` unless they start with `src/`.

Contents: [the system](#the-system), [the modules](#the-modules),
[the runs](#the-runs), [bounds](#bounds), [fairness](#fairness),
[proofs](#proofs),
[where code and documentation disagree](#where-code-and-documentation-disagree),
[what is not modelled](#what-is-not-modelled), [plan](#plan).

## The system

The backend is one FastAPI process beside Celery workers and a clock that starts
scheduled tasks. In a process every coroutine runs on a single asyncio event
loop, so code between two awaits is atomic, and an await of a gateway, a Redis
command, a sleep or a queue is where other coroutines run. Workers are processes
of their own: they share Redis, the database and files with the API, and no
memory. Orders, the paper account, parent orders, protection locks, strategy
instances and risk counters live in the memory of the API process. Redis keeps
settings, quotas, locks, job records, notifications, the order events and the
audit stream; the database keeps bars, artifacts and audit rows; the archive of
bars is files.

| Component | State | Operations | Interacts with | What is hard | What makes it correct |
|---|---|---|---|---|---|
| Order manager `oms/manager.py` | `_orders`, each order's status and quantity, the poll task | submit, cancel, poll, start, stop | gateways, controls, protections; callers below | replies applied after the order changed, orders recorded after the await only, a book lost at restart | no executions that did not happen, no live order dropped but by a restart or an accepted cancel, closed orders final |
| Gateways `gateway/*` | broker connection; the paper account | submit, cancel, get_order | brokers | lost and stale replies | every reply was true at some moment |
| Algo executor `oms/algos/*` | parent orders, slices, tasks | submit, cancel, shutdown | order manager | cancellation at any await, fills after the end | outcomes are true, cancels final, everything ends |
| Protections `oms/protections/*` | locks, settings; copies in Redis | evaluate, check, clear, restore | order manager | expiry, pruning, late writes, restart | refused exactly while there is a cause |
| Trading controls `engine/controls/*` | none | run_controls | order manager, strategies, backtests | they see what is recorded and filled only | limits hold for what the account does |
| Order events `api/v1/endpoints/stream.py` | a Redis stream; per connection a position | publish, follow, snapshot | order manager, browsers | lost, swapped and late events | browsers show the truth in the end |
| Reconciliation `oms/reconcile.py` | none | compare book and broker | order manager, gateways, clock | the two sides are read at different times | what it reports is true |
| Rebalance, copilot drafts `oms/rebalance_*`, `copilot/*` | none; a bounded memory of drafts | preview, execute | order manager | replays, overlaps, rejected legs | reports are true, a preview is traded once |
| Strategies `strategy/engine.py`, `live_runner.py` | instances, queues, buckets | start, stop, bars, orders | data, risk engine, order manager | cancellation, windows, concurrent starts | bars reach the strategy, counts are true, stops are final |
| Risk engine `risk/*` | counters of the day | check, record | strategies | read before an await, counted after | overshoot is bounded |
| LLM quota `core/llm_quota.py` | counters in Redis | consume | Redis | separate commands that fail | never more than the limit |
| Data service, archive, sources `data/*` | files, cache, settings | get bars, download, delete, configure | providers, clock | readers without the writers' lock, demo bars, lost settings | what is archived is kept and real |
| Notifications `notify/*` | settings, inbox, cached copies | configure, dispatch, mark, clear | every component | read then write, copies of several processes | bounded, ordered, current |
| Audit trail `core/audit.py` | a stream, a table, counters, a breaker | audit_log | every component | partial failure, overlapping calls | what is missing was counted |
| Research jobs `tasks/*`, `quant/retrain.py`, `quant/lab/*` | records, artifacts | submit, work, delete, evict | Celery, Redis, database | workers that die, deletions in between | records and artifacts agree, jobs end |
| Backtest engine `engine/backtest/*` | queue, lots, cash, trades, ledgers | bars, orders, exits, adjustments | strategies, controls | the order of things within a time point | the books balance, orders are kept |
| Algorithms `engine/portfolio/*`, `engine/framework/*`, `data/adjustments.py`, ... | | rotation, allocation, splits, adjustments, framework | backtests, rebalance, training | rounding, gaps, partial fills, what a bar's extremes tell of its course | each has a definition it must meet |

`PROJECT.json` lists every component with its sources and status, and every
hazard of this code that tests hardly reach, with its line and the properties
that watch it.

## The modules

A definition whose comment starts with *Mutant* is a plausible bug of a
definition that follows it. No specification uses it: it shows that a property
notices the bug. `map` in `PROJECT.json` names the lines each definition stands
for.

### Orders

**`OrderManager`** - the OMS with an asynchronous gateway (Futu or Alpaca) and
its broker. One step is one piece of code between awaits. Per order, `submit`
and `cancel` say where its coroutines are. `SubmitRaises` and `SubmitRefused`
are the checks that come before the gateway; `SubmitSends` to
`SubmitReturns`/`SubmitFails`/`SubmitCancelled` the await of the gateway, after
which the order enters `_orders` (and not at all when the awaiting task is
cancelled: `CancelledError` is not an `Exception`). `CancelReturns` marks the
order CANCELLED whatever happened during the await. `PollRound`, `PollNext`,
`PollApplies`, `PollFails` list the active orders once, ask about each in turn,
and overwrite quantity and status without looking again. `Stop`, `Start`,
`Restart` are the poll task's life and the end of the process. The steps named
`Broker...` are what a broker may do in between; `BrokerAnswers` and
`PollApplies` are separate, so that every stale reply is explored. `GetOrderReply`
translates the gateways' status mappings.

**`OrderLedger`** - the abstract promise: per order, `Execute` raises the
executed quantity, `Report` the reported one, at most to the executed one. It is
instantiated by `OrderManager` as `Ledger` with `reported <- filled_qty`; it
holds as long as closed orders stay in the broker's list (Futu answers `{}` for
one that does not, which the code reads as a quantity of 0).

**`AlgoExecutor`** - the task of a parent order is at one of its awaits:
`"sleeping"`, `"placing"` (the gateway call in `submit_order`), `"publishing"`
(the awaits after the order is recorded). `cancel_algo` and `shutdown` set
`interrupted`; `InterruptLands` is the `CancelledError` raised wherever the task
is, after which the `finally` clause reads the children once and finalises.
Child orders fill and close on their own.

**`SlicePlan`** - validation and planning of slices: largest remainders, the
U-shaped VWAP weights as integers, iceberg slices with their cap. The code works
with doubles, the model with exact quotas.

**`ProtectionManager`** - a lock is `[key, n, until]`. `Evaluates` is `evaluate`
with pruning, rules and upsert, and is part of every action that calls it.
Writes to Redis are elements of `writes` that land or fail in any order;
`PutStarts`, `PutStores`, `PutApplies` are the awaits of the configuration
endpoint; `Restart` loads what is in Redis. `StoplossGuard` and `CooldownPeriod`
are modelled; `MaxDrawdown` and `LowProfitPairs` read profits, which the OMS
reports as 0, and never lock anything.

**`OrderStream`** - what a browser sees: publications that look at the order
when their task starts and reach the Redis stream in any order or not at all, a
reader that follows the stream from `"$"`, and rounds of snapshots that send
each order as it is when its turn comes. `Leaves` is the end of a connection,
which any text of the client causes too.

**`Reconcile`** - orders behave as `OrderLedger` promises, others trade on the
account, the book is lost at restarts; a check reads the book first and the
broker an await later. The scheduled task runs in a worker whose book is empty.

### Accounts

**`PaperTrading`** - the OMS over the paper gateway, which never suspends:
`submit_order`, `cancel_order` and a poll round are single steps. `Violation` is
`MaxPositionSize` and `LongOnly`.

**`PaperRebalance`** (extends `PaperTrading`) - from target weights to legs, sales
first; preview, signed token, execution leg by leg with an await after each,
directly or as a copilot draft, whose ids a bounded memory keeps.

**`BacktestBroker`** - the broker of the backtests as `portfolio_engine.py`
drives it. At each time point dividends are credited and the fee for borrowed shares
goes out (`DividendsDue`, `BorrowFee`), the queue is matched, what has expired (DAY,
GTD, a timeout) is cancelled, risk exits and adjustments are ordered, and the strategy orders what
it wants. Hooks, lots, cash, T+1, volume, time in force, the limit of the day
and the rejection ledger are those of the code; whether a bar reaches an order
is left open here and modelled in `OrderMatching`.

**`OrderMatching`** - one order and the bars of its symbol: all order types with
trigger, stop and trailing extreme, the price a bar gives, and the part the
volume allows. What a bar tells about the time before an order began to work must
not help the order: `Start` is where it begins (at the opening of a bar, or within the
bar that triggers it), and `MatchingIsFair` lets nothing be gained from before it, with
one exception, which it names: a STOP_LIMIT order may have the opening of the bar
that triggers it. That is a look ahead (see [below](#where-code-and-documentation-disagree)). The
reach of a limit in that bar is judged by the whole bar, in the model as in the code,
which says so (`order_types.py:188`).

**`RiskExits`** - what closes a position because of its profit: the risk gate
(stop, trailing stop, ROI over fractions), the framework's trailing stop, and
the drawdown of the portfolio. The exit that the gate orders is pending until a later
bar fills it, at any price, in full or in part, or it is refused (`Exits`, `Drops`);
orders of the strategy may be filled before it, and with `allow_short` it then turns the
position. One order is filled at most at a time point.

**`TradeLedgers`** - round trips and daily results computed from the fills, as the
engine feeds them at each time point. A lot is named by the fill that opened it, so
that the two queues of `build_round_trips` are the lots of either side, oldest first;
a trip is named by the fill that closes and the lot it closes a part of (`Taken`).
`Booked` is what the broker closes, from its position and not from these lots: that
both come to the same is part of what is proved. Commissions are a rate per share and
profits a gain per share closed, so that all shares come out even (the code divides
floating-point numbers).

### Live strategies

**`LiveRunner`** - the loop of a portfolio strategy: a feeder puts bars in a
queue; `TakeItem`, `Collect`, `Defers`, `WindowEnds` fill a bucket and fire it;
firing reads account and positions (two awaits), decides, and sends the orders
one by one through risk engine and OMS. `Stop`, `InterruptLands` and
`InterruptSwallowed` are a cancellation at any await; the last is
`asyncio.wait_for` of Python 3.11, which returns a result that came together
with the cancellation.

**`StrategyEngine`** - start, stop and delete calls. Each start makes an
instance and a task of its own; `registered` is `_instances`, which holds the
last one. Orders pass the risk engine's daily counter, read before the OMS is
awaited and raised after; an order of a portfolio strategy whose account has no
price for the symbol passes without being looked at (`SkipsCheck`).

### Services

**`LLMQuota`** - INCR, EXPIRE and DECR as separate commands of concurrent calls,
each of which may fail, over a change of the day.

**`DataService`** - `get_bars` over archive, cache, source and demo feed;
downloads; deletes. Coverage, reading, and merging under the file lock are steps
of their own, of several processes.

**`SourceRegistry`**, **`NotifyConfig`** - settings in one value of Redis and
their copies in memory, with requests that load, change and save. `SourceRegistry`
keeps, per request, which markets others saved since it read (`missed`), and per
market whether memory is behind (`stale`) or a PUT that had missed a save wrote over
it (`lost`, until it is set again): the exceptions of `SettingsAreStored`, no wider.
`NotifyConfig` has the copies of two processes and the version they are valid for.

**`Inbox`** - records and timeline, capacity, and the readers that mark, delete
and clear.

**`Audit`** - the two stores, the counters and the breaker of the audit trail.

**`ResearchJobs`** - the records of retrainings, drift checks and factor rounds
from request to eviction, their queues, the state machine in the worker, and the
artifacts, with failing commands, killed workers and deletions. Retrainings and loops
have a store each, with a bound of its own. An eviction is the three steps of
`retrain_store.py:151`: it counts, lists the oldest, and deletes what it listed, and
others save, evict and delete between them. `wrote` and `lost` remember for an
eviction under way what others have written to and removed from its store since it
counted. (`loop_store.py` and `retrain_store.py` do the same in the same order.)

### Algorithms

**`Allocation`** (whole shares for weights), **`SampleSplits`** (train and test),
**`PriceHistory`** (prices adjusted for splits and dividends, the dividends a backtest
pays, and one series of several futures contracts) translate an algorithm and state
what its result must be. `opened` remembers for every day, one without bars too, the
shares that were held when it began: what a dividend of the day is due for.

**`Rotation`** (TopK dropout) keeps holdings with the days they are held and ranks the
symbols anew every day; the sorted lists of the code are sets of the best and the worst
by rank (`BestOf`, `WorstOf`).

**`FrameworkStrategy`** follows views over targets to orders, with two execution models
and a risk model, while orders rest, fill in parts, are cut for lack of cash or refused.
What the equity buys of a symbol is chosen at every point, and rounded down per symbol
to its share (`TargetQty`), so that a dear symbol may get none.
`low` and `high` remember the targets a symbol ever had. Four variables name what can
come between views and positions: `crossed` holds the symbols with orders in both
directions at once, of which one may fill before the other; `cleared` and `dear` hold
those that the last targets left out because of the risk model or because their share
does not buy one; and `broken` says what happened since the start: an order not filled
at once, a rejection, and "forgotten"
(see [below](#where-code-and-documentation-disagree)).

### Compositions and model checking modules

What interacts is composed in the modules above (the OMS and its broker, the
paper account with rebalances and drafts, the instances and the risk engine, the
book, the broker and the reconciliation, API and workers). Components that do not
interact share a run, not a state: a behaviour is one of the component that the
variable `side` chooses in the initial state, and the others do not move.

**`Trading`** (OMS, protections, order events), **`Tasks`** (parent orders, research
jobs), **`Strategies`** (instances, the loop of one) and **`Services`** put components
side by side in this way: each extends one and instantiates the others, renaming
what they share, and states what their constants have to be. The proofs are about
these modules.

`MCOrderManager`, `MCTasks`, `MCStrategies`, `MCServices` and `MCAccount` (which
composes `PaperRebalance` and `BacktestBroker`) give the constants their values and
choose the properties of a run; `MCResearch` also composes the algorithms, which it
and the proofs extend under names that do not collide.

**`Trading_proofs`**, **`Tasks_proofs`**, **`Strategies_proofs`**, **`Account_proofs`**,
**`Services_proofs`**, **`Backtest_proofs`** (order matching, ledgers, exits) and
**`Research_proofs`** (the other algorithms) hold the [proofs](#proofs),
**`DataTheorems`** the lemmas about sums, ranks, products, division and finite sets
they share.

## The runs

Passing runs:

| Run | What runs | What it asks |
|---|---|---|
| `OMSafety` | the OMS with a Futu broker; protections, live and over a restart | Are reported fills real (`ReportedFillsAreReal`), is every live order the process has recorded polled until it is closed (`NoLiveOrderForgotten`; an accepted cancel ends the polls, a restart forgets the book), is what is shown of a closed order final (`ClosedReportIsFinal`), whatever the order of polls, cancels, fills, replies, stops and restarts? Is an entry refused exactly while there is a cause, and does a stored lock survive a restart (`LocksHold`)? |
| `OMLive` | the OMS with fair polls; the order events | Is every step one of the ledger (`LedgerSpec`)? Does an order the broker closed leave the active ones (`ActiveOrdersSettle`)? Does a browser that stays show the book in the end, and the events in order (`ClientsCatchUp`)? |
| `Tasks` | a parent order; research jobs | Is the outcome of a parent true of its children (`ParentIsTrue`), a cancel final (`CancelIsFinal`), does the task end (`AlgoEnds`)? Are job records kept as users rely on them (`RecordsAreKept`), do artifacts agree with them (`ArtifactsMatchRecords`), do jobs end (`JobsEnd`)? |
| `Strategies` | the loop of one instance; start, stop and delete | Does every delivered bar reach the strategy at its own time (`BarsAreKept`), do counts tell what happened (`CountsAreTrue`), is a bucket fired in the end (`BucketFires`)? Are the effects of overlapping calls bounded (`OverlapsAreBounded`), is a stop final (`StopIsFinal`) and does it return (`StopsEnd`)? |
| `Account` | the paper account with rebalances and drafts; the backtest broker | Do book, positions and cash agree (`BooksMatch`), are reports of executions true and previews traded once (`ExecutionsAreTrue`)? Is every backtest order accounted for to its end (`OrdersAreKept`), do lots, cash, profit and trade tell one story (`BooksBalance`)? |
| `Services` | quota, data, sources, reconciliation, notification settings, inbox, audit | `QuotaHolds`, `ArchiveIsKept`, `SettingsAreStored`, `ReportsAreTrue`, `NoticesAreConfigured`, `InboxIsOrdered`, `AuditIsAccounted`: does each keep its promise while commands fail, processes end and requests overlap? |
| `Research` | the algorithms | `MatchingIsFair`, `SlicesAreWhole`, `RotationIsOrderly`, `SamplesAreApart`, `LedgersAgree`, `AllocationIsSound`, `HistoryIsConsistent`, `TargetsAreKept`, `ExitsAreMeasured`: does each algorithm meet its definition on every small input? |

Several of these are conjunctions; the modules state the parts with a comment
each. `LocksHold`, for one, is `NoEntryInCooldown`, `RefusedForCause`,
`GuardHolds` or `StoredLocksHold`, and the type invariant of the component.

Runs that TLC must find violated, each a statement of the repository the code
does not keep: `BTTPlusOne`, `ArchiveIsReal`, `JobsNeverRun`, `DividendTwice`,
`StopWithoutFall` (see [below](#where-code-and-documentation-disagree)).

Deadlock is checked where some step is always possible (`OMSafety` and
`OMLive`: a restart at least). It is switched off where the system may stop: a
parent order, a job, a backtest or an algorithm that has ended.

## Bounds

Every bound is a constant of its module, given in the configuration or in the
MC module.

- *Orders.* Two orders of two shares in `OMSafety`, of two and one in `OMLive`.
  The poll task holds one snapshot and one outstanding question, so two orders
  give a round with one that waits while the other is asked about, cancelled,
  filled or recorded; two shares give "nothing", "in part" and "all". A limit of
  one order lets the second be refused once the first is recorded, and both be
  sent while neither is. The safety properties are proved for any number.
- *Protections.* Live: two symbols, a cooldown of 2 over a lookback of 1, a guard
  of 2 in 2, three instants, two trades, one change of the settings. Restart: one
  symbol, a cooldown of 3, Redis, one clear, one restart, and the
  `required_profit` of 0 with which the guard never counts an exit.
- *Order events.* Two orders, a snapshot limit of one (50 in the code), reads of
  two entries (10): an order beyond the limit, a batch and a rest.
- *Tasks.* Three slices: a first, a middle, a last. Two jobs with room for one
  record, one fault and one deletion, requested or started by the clock: two
  evictions of one store overlap. Three and more are left to the proof of
  `RecordsAreKept`, which is about any number of jobs of both stores.
- *Strategies.* Two symbols, three items of the feed, two points in time, two
  failures in a row, a daily limit of one; three start calls, two of them for one
  id, and one of a portfolio strategy.
- *Account.* Paper: one preview executed twice as a draft, a draft of one order, one
  that fails, one order of a user, a memory of two drafts. Backtest: three orders,
  three time points of which two are one day, one symbol without a bar, three
  modes (A shares; hooks; short sales and volume), a dividend and a borrow fee, a GTD
  order.
- *Services.* Four calls on a limit of two, over midnight; two reads and a
  download over three days; two markets and three changes; three orders of two
  symbols; two settings, with a secret and without; two notifications with room
  for one, and one reader of each kind; three audited calls with a threshold of
  two (three in the code) and a cooldown of one tick.
- *Research.* Three bars of six shapes on three prices, the trailing stop a third
  away; 3024 slice requests; four symbols, rankings of two dates; five days of two
  instruments; three time points with a fill of none to three shares of two symbols;
  three assets; three actions on three days, of which any may be without a bar; three
  contracts; four points with a pair, of which a leg may be too dear; four points with
  one fill each, at two prices. All of these are proved for any size.

Bounded counters (faults, restarts, deletions, clears, time) cut off repetition,
not kinds of behaviour: each is large enough for its event to happen, to matter,
and for the system to go on after it.

## Fairness

No run assumes that users act, fills come, commands succeed or cancels happen.

- `OrderManager!Fairness`. Weak fairness of the poll task's steps: asyncio runs
  every ready task, and the poll task sleeps with a timeout or waits for the
  gateway. Weak fairness of "an outstanding `get_order` is answered or fails".
  Strong fairness of `BrokerAnswers(o)`: a broker asked again and again answers
  in the end. `ActiveOrdersSettle` says "unless the OMS is stopped".
- `OrderStream!Fairness`. Weak fairness of the snapshots: a sleep of five seconds
  ends, and a message is sent or the connection is over. None for the stream:
  events may be read at any time or never.
- `AlgoExecutor!AlgoFairness`. Weak fairness of the task, its own steps or the
  delivery of a cancellation: sleeps and gateway calls have an end.
- `LiveRunner!Fairness`. Weak fairness of the loop's steps, of the window's
  timeout, of the delivery of a cancellation, and of the return of a stop. None
  for the feed. `StopEnds` excepts the swallowed cancellation.
- `StrategyEngine!Fairness`. Weak fairness of the delivery of a cancellation and
  the return of a stop.
- `ResearchJobs!Fairness`. Weak fairness of a job's task in a worker that listens
  to its queue.

The runs with several sides conjoin the fairness of all of them; a side that is
not chosen stays in its initial state, in which none of these steps is enabled.

## Proofs

Every invariant and action property of the passing runs is a theorem, for all values of
the constants.

| Theorem | Establishes |
|---|---|
| `Trading_proofs!Inductive`, `TypeCorrect`, `FillsAreReal`, `LiveOrdersAreKept`, `ClosedReportsAreFinal` | the invariants of `OMSafety` about orders |
| `Trading_proofs!ImplementsLedger` | with `~DayEnds`, `Spec` implies `LedgerSpec`: initial states map to initial states, every step to an execution, a report or a stutter |
| `Trading_proofs!LocksStayHeld` | `LocksHold` of both settings: refused exactly while there is a cause, and stored locks survive |
| `Tasks_proofs!ParentStaysTrue`, `CancelStaysFinal` | the outcome of a parent order is true, a cancel final |
| `Tasks_proofs!ArtifactsStayMatched`, `RecordsStayKept` | `ArtifactsMatchRecords` and `RecordsAreKept` of the research jobs |
| `Strategies_proofs!OverlapsStayBounded`, `StoppedIsQuiet`, `StopStaysFinal` | overlapping calls have bounded effects, a stopped instance sends nothing, a stop is final |
| `Strategies_proofs!BarsStayKept`, `CountsStayTrue` | the loop loses and mixes no bar, and counts what happened |
| `Account_proofs!CashIsKept` | cash is what the orders in the book left, whatever the controls |
| `Account_proofs!BooksStayMatched`, `RebalancedBooksStayMatched`, `ExecutionsStayTrue` | with `LongOnly`: `BooksMatch` for single orders and for rebalances, and `ExecutionsAreTrue` |
| `Account_proofs!OrdersStayKept`, `BooksStayBalanced` | `OrdersAreKept` and `BooksBalance` of the backtest broker |
| `Services_proofs!QuotaIsKept`, `ArchiveStaysKept`, `SettingsStayStored`, `ReportsStayTrue`, `NoticesStayConfigured`, `InboxStaysOrdered`, `AuditStaysAccounted` | the seven properties of `Services` |
| `Backtest_proofs!MatchesAreFair` | `MatchingIsFair`: executed when reached, at a price of the bar that the order allows, and nothing gained from before the order began to work, but for a STOP_LIMIT order in the bar that triggers it |
| `Backtest_proofs!LedgersStayAgreed` | `LedgersAgree`: round trips carry the realized profit, trips and open lots the commissions, open lots are the position, daily results add up to the equity |
| `Backtest_proofs!ExitsStayMeasured` | `ExitsAreMeasured`: a trailing stop needs a fall, the framework's stop compares with the best of this trade on its present cost, the drawdown with the values since the liquidation |
| `Research_proofs!AllocationIsKept` | `AllocationIsSound`: whole shares within the total, at most a share above the target, and nothing wanted more is left that could be paid |
| `Research_proofs!SamplesStayApart` | `SamplesAreApart` for every way to cut: no window or label over a cut, leaks bounded, folds apart |
| `Research_proofs!AdjustmentsStayConsistent`, `SeriesStaysConsistent`, `HistoriesStayConsistent` | `HistoryIsConsistent`, and its parts: adjusted prices change as a holding's worth, a continuous series as the contract it holds, and, on daily bars, a dividend whose ex date has a bar is paid once |
| `Research_proofs!SlicesStayWhole` | `SlicesAreWhole` for every request: positive slices that add up, as fair as the algorithm says, or a refusal |
| `Research_proofs!TargetsStayKept` | `TargetsAreKept`: nothing beyond the targets, and once nothing is on its way, positions are what the views ask for, pairs with both legs or none unless the last targets left one out (`cleared`, `dear`) |
| `Research_proofs!RotationStaysOrderly` | `RotationIsOrderly`, an action property, with the type invariant |

**Assumptions.** The theorems rest on the assumptions the modules state of their
constants, each named, and evaluated by TLC in the runs. Most give types: finite sets,
quantities, prices and bounds in `Nat`, `None` and its like being none of the values
they are told from. The others say of the code:

- `IdAssumption` - every order has an id of its own (`uuid4`);
- `SettingAssumption` - durations and limits of the protections are at least 1, as
  `oms/protections/config.py` demands;
- `LoopAssumption` - the number of failures in a row that end a loop is positive
  (`MAX_CONSECUTIVE_SNAPSHOT_FAILURES` is 3, `live_runner.py:51`);
- `TimeAssumption` - the points of a backtest are in order of time, and a timeout is
  positive (`_apply_timeout`);
- `MatchingAssumption` - a further extreme moves a trailing stop no closer;
- `HistoryAssumption`, `AllocationAssumption`, `LedgerAssumption` - closes are
  positive and other prices not negative, whole numbers as everywhere here;
- `ExitAssumption` - prices are above the commission of a share, so that an average cost
  is positive (`current_profit` gives 0 otherwise), and the distances of the stops are not
  negative (`ExitRules.validate`);
- `SliceAssumption`, `SplitAssumption`, `RotationAssumption`, `FrameworkAssumption` -
  what the constructors of the code demand: a least and a largest number of slices,
  periods and windows of at least one day, `topk` of at least one and a holding time
  (within the days looked at), a share of the volume above zero, directions of -1, 0
  or 1; and equity is not negative.

`HistoriesStayConsistent` has one more hypothesis, `BarsPerDay = 1`: with two bars on
a day a dividend is paid twice, which the run `DividendTwice` shows. What it says of
dividends is about those with a bar on their ex date; the others are not paid.

Two facts are hypotheses instead, because the code allows what they exclude.
`LongOnly` is one of `BooksStayMatched`, `RebalancedBooksStayMatched` and
`ExecutionsStayTrue`: without that control the paper gateway credits sales of more
than is held. `FeesAreSmall` (a minimum fee is at most the price of a share) stands
before two of the parts of `OrdersAreKept` and `BooksBalance`: that nothing is filled
beyond what was asked, and that, borrow fees aside, cash falls short by less than a
fee. The borrow fee is taken whatever the cash is, as in the code, so with short
positions it has no bound of its own.

**Strengthenings.** Hardly any of the properties is inductive. What had to be added:

- *OrderManager.* That a reply computed long before does no harm rests on a chain
  of facts: where `submit_order` is determines whether the order is recorded and
  what the broker has received (`BookInv`, `BrokerInv`); an accepted cancel left
  its mark at the broker (`CancelInv`); an order that is asked about is recorded,
  and if it stopped being active since the round began, because of a cancel
  (`RoundInv`); a reply on its way states no more than was executed, and if it
  says "closed", the order is closed with that quantity (`ReplyInv`).
- *Protections* (`GuardInv`). The order book has the latest trades (`BookHasLatest`);
  of every lock anywhere, in memory, in Redis or on its way, the trades that made it
  are known (`Causes`); what is stored or about to be is in memory, ending no sooner,
  until it expires or is cleared (`StoredInMemory`). An evaluation then finds a cause
  in the window exactly if there is one, because pruned locks have expired.
- *Parent orders.* The status follows from where the task is (`StatusOfTask`),
  slices behind the task were tried (`Tried`), slices and children agree
  (`Agrees`), a rejected child has executed nothing.
- *Research jobs* (`JobsInv`). How far a job has come is known from what it marks, and
  with it what its record, its artifact and its notice say (`Control`, `RecordGoes`,
  `ArtifactGoes`, `NoticeGoes`). Of an eviction under way it is known how many records
  its deletes will leave, with and without those written since it counted, and that
  whoever wrote one since then counts later and knows of it (`EvictionGoes`); so the
  number of records is bounded by who still trims and by faults (`RecordsBound`).
- *Instances.* A live task has a running instance (`LiveIsRunning`), an id leads to a
  call of its own (`RegisteredIsOwn`), a loading call knows of those that return
  meanwhile (`LoadingKnows`), and the daily count plus the checked orders under way
  stays below the limit plus the other tasks and what was sent unchecked (`UnderWay`).
- *The loop* (`LoopInv`). Bars in the bucket have its time (`BucketIsOne`), a mark is the
  last thing the feeder sent (`MarksAreLast`), every bar is in exactly the places it
  passed (`NoBarLost`); the failures are those at the end of the history
  (`FailuresCount`), and every decided order is waiting, sent or refused
  (`OrdersCount`).
- *Paper account* (`CashInv`, `BooksInv`). The gateway fills an order when it is placed or
  not at all, so an order still active has filled nothing (`ActiveIsUnfilled`); cash and
  positions are sums over the orders of the book, of which a step changes one summand.
- *Rebalances* (`RebalanceInv`). A preview was computed from a state that was read
  (`PreviewsAreRead`); what an execution reports per leg is what the order of that leg
  became (`OutcomesAreKept`), an execution has traded if one of its orders was filled
  (`TradersTraded`), and as long as nobody else trades, the positions since the snapshot
  are those of its executions (`StoriesAreTrue`); the bounded memory is the end of the claims
  (`ClaimsAreRemembered`).
- *Backtest broker* (`BrokerInv`). Time and day (`Clock`); the queue is the open orders
  (`QueueIsOpen`), the counter is of the present day (`CountsToday`), refused orders are
  those of the ledger and its overflow (`LedgerKept`); lots have quantities and costs
  that are sums (`BooksTyped`), of which matching takes from the front; dividends and
  borrow fees are never negative (`DividendsAreNat`, `BorrowFeesAreNat`).
- *LLM quota* (`QuotaInv`). The counter of a day lies between the calls that hold a unit
  and those that may (`Bounded`), a key without an expiry has a call that will set one
  or a command that was lost (`Expiring`), and who sets it was the first (`FirstSeen`).
- *Data service* (`DataInv`). The archive holds nothing a source did not serve
  (`OnlyServed`), and a call at a given await knows enough for what it does next
  (`CallIsSafe`): what the holder of the lock has read of the file is at least what the
  file still has, and nothing of it was deleted.
- *Sources* (`SourceInv`). Outside the markets that were lost, missed or stale, what is
  stored, on its way from Redis, in memory or about to be saved is the latest setting, or
  one whose own save is late or failed (`StoredIsSound`, `ReplyIsSound`, `ConfigIsSound`,
  `PayloadIsSound`); while a setting is being saved memory has it, or one to be saved
  after it, or is known to be stale (`SavingIsKnown`).
- *Notification settings* (`NoticeInv`). A version once known is past (`VersionsArePast`);
  a copy that is valid for the present version is what is stored, or its change is
  still to be announced, or one of the named races happened (`CopiesAreKnown`).
- *Reconciliation* (`ReconInv`). The broker's position is the sum of the executions of its
  orders and of what was traded outside, and what a check read of the book is between
  what it was at its start and now (`CheckIsSound`).
- *Inbox* (`BoxInv`). What is listed has a record (`ListedIsRecorded`), a record without a
  list has a reader that is about to remove or mark it (`RequestsAreKnown`); the writers
  that have yet to trim make up for what exceeds the capacity (`RoomFor`), and as long as
  they do not overlap they remove the oldest (`QuietRemoval`).
- *Audit* (`TrailInv`). A call counts as soon as Redis is behind it (`StreamCounted`), and
  the end of an open breaker is at most a cooldown after the last failure
  (`BreakerIsRecent`).
- *OrderMatching.* The extreme of a trailing order is the furthest price of the
  bars before (`ExtremeIsFurthest`), and a trigger was touched by one of them
  (`TriggeredIsTouched`), so that an order works from the opening of the next bar on at
  the latest; the rest says of the history of matches what a bar's
  match was when it was made (`HistoryStays`).
- *Ledgers* (`LedgersInv`). The fee of a lot is a multiple of its original size
  (`FeesAreEven`), so that its shares add up; what the broker closes is what the lots of
  the other side give, since those are the position (`BookedIsClosing`). In the middle of
  a day (`DayIsEven`) the position is the one of the start and the day's fills, only what
  has a price is held, and the equity is that of the last day's end and what the day
  earned so far. A fill and a close move both sides of this by the same amount
  (`DayGrows`), and so does the change of the day.
- *Exits* (`ExitsInv`). A trade is as large as its lots and cost what they cost
  (`TradeIsOfLots`). The gate's best profit is no better than one at a price that was
  seen, on the trade's present cost, as long as no sale changed the average (`TopIsSeen`);
  the framework's peak is the best on the cost it was asked about last, whatever the
  trade costs now (`PeakIsBest`); the mark is the first or the largest value since the
  liquidation (`MarkIsOfValues`). Profits are compared by products of variables:
  `SameGain` says once that two costs of one ratio compare alike.
- *Allocation* (`AllocationInv`). What is spent and what remains are the total; the first
  pass cannot spend more since each asset gets at most its weight, rounded down.
- *Histories* (`AdjustInv`, `PaidInv`, `FuturesInv`). The factors are those that the
  actions define, session by session; after today nothing is paid; a series is stitched
  from contracts with bars.
- *Slices, splits, rotation.* The properties are inductive with their types: one step
  computes the whole result. What is proved is the computation: largest remainders are
  ranks (`DataTheorems`), cuts are initial and final segments of the days, and the best
  and the worst of a ranking do not overlap when those that are sold are replaced.
- *Framework* (`FrameworkInv`). Position and orders together are between the least and
  the greatest target (`Within`); unless a symbol is crossed, its orders go one way
  (`OneWay`), which makes each of their prefixes stay within, too. Where a symbol is headed
  for (`Goal`) is what its view says (`GoalsAreViews`), and both legs of a pair are headed
  somewhere or none, but for a leg the last targets left out (`LegsAgree`).

**Data.** The library's induction theorems take an operator as a parameter, which the
provers cannot instantiate. Where a proof needs an induction over data of the model,
`DataTheorems` makes it: over a subset of `Nat`, by its smallest exception
(`Induction`), over finite sets by a subset of smallest size (`SmallestSubset`). From
these follow that the sum of a function over a finite set exists and adds up
(`SumExists` to `SumPart`), and that ranks name the lowest elements of a set
(`LowestSize`, `LowestAreBelow`). The recursive functions of `PaperRebalance` and
`BacktestBroker` are handled the same way, each for its own recursion. No module
declares a RECURSIVE operator, which would be out of reach of the provers. Products and
quotients of variables are beyond the solvers as well: the lemmas about `\div`, shares
and products are proved once, from the definition of division, and cited.

**Only model-checked:** liveness (`ActiveOrdersSettle`, `ClientsCatchUp`, `AlgoEnds`,
`JobsEnd`, `BucketFires`, `StopsEnd`), which rests on fairness and ENABLED.

## Where code and documentation disagree

Each of these has a run with a counterexample:

1. *T+1.* `broker.py:271` frees A shares at "a new trading day", but the engine
   calls it at every time point: with two bars on a day, shares are sold on the
   day they were bought. (`BTTPlusOne`)
2. *Demo bars.* `data/service.py:134` says that synthetic data are not cached; the
   code caches whatever a source returned, the demo feed included, and the next
   request archives it as real. (`ArchiveIsReal`)
3. *Queues.* `tasks/celery_app.py:56` routes retrainings, loops and validations to
   `compute`; the documented worker listens to `data,strategy,default`. The job
   stays queued, which `tasks/retrain.py:103` rules out. (`JobsNeverRun`)
4. *Dividends, twice.* "On the ex date" is every bar of that date: with two bars a
   share held since before the date is credited at both. (`DividendTwice`)
5. *Trailing stop.* `trade.py:98` resets the extremes when the average cost
   changes, "or the stop fires without any fall"; a partial sale changes it too,
   and does not reset. (`StopWithoutFall`)

The models reproduce the following, which no run states as a property.

Orders:

- `alpaca_gateway.py:231` returns Alpaca's own status strings, while
  `oms/manager.py:431` says that every gateway unifies them: a canceled order
  stays active and is polled for ever. (Set `Gateway = "alpaca"`.)
- `LongOnly` "forbids a negative net position" (`position_controls.py:60`), but
  two sells on their way together both pass; `MaxOrderCount` does not see orders
  that are being placed (`manager.py:229`).
- A submit whose reply is lost leaves a REJECTED order that works at the broker
  (`manager.py:223`); an accepted cancel is shown as CANCELLED, unpolled, even if
  the order fills first (`manager.py:247`).
- A slice whose order is being placed when the parent is cancelled ends SKIPPED,
  which `algos/base.py:38` defines as "not submitted"; later fills never show in
  the parent (`executor.py:184`), and iceberg slices are sent by the clock
  (`executor.py:169`).
- `StoplossGuard` counts exits below `required_profit`, 0 by default, and every
  exit is reported with 0: the guard of `manager.py:559` never acts. A cleared lock
  is made again by the next check (`protections/manager.py:247`).
- Events: two publications may reach the stream in the other order, events
  between two reads from `"$"` are lost, any text of a client ends its
  connection, the message "Redis stream unavailable" is practically unreachable,
  and `_fallback_poll` runs always (`stream.py:195`). An order beyond the newest
  50 is never corrected.
- Reconciliation in the worker finds no gateway registered and an empty book
  (`tasks/reconcile.py`): it tells only of that.

Accounts:

- The paper gateway's limit orders "rest until cancelled"
  (`paper_gateway.py:31`), but the first poll turns them FILLED with a quantity of
  0; its portfolio value is the cash alone (`paper_gateway.py:89`), and a sale of
  more than is held credits the whole proceeds (`:191`).
- The "one-time" token of `endpoints/rebalance.py:104` can be used again while the
  positions are as they were; untargeted holdings let the purchases exceed the
  cash; a round of the copilot may make several drafts.
- Backtests: a purchase is cut to the cash before its fee is known
  (`broker.py:813`), where the recut "shrinks" to what can be paid but is not
  compared with what was asked: with a fee above the price of a share it buys more
  than the order; an order filled in part that expires is in the rejection
  ledger, which `broker.py:239` reserves for orders that were not executed; with
  `allow_short` an exit and a sale of the strategy together turn the position, which
  `broker_adjust.py` rules out; `max_open_positions` counts positions with a
  pending sale as gone; within one queue a sale, a purchase and a sale get around
  T+1.
- Order types: rule 3 of `order_types.py` takes the worse of open and order price,
  but a limit purchase is filled at the lower of both, and a STOP_LIMIT order triggered
  within a bar gets the bar's opening where that is better, though it was over when the
  trigger was touched: the exception of `PriceIsFair`; a `STOP_MARKET` "becomes a
  market order once triggered" (`:26`), but a rest waits for another crossing.
- `max_position` and loss rules: `risk/models.py:38` has HALT stop a strategy, but
  only BLOCK is honoured (`risk/engine.py:497`); with a portfolio value of 0 the
  position rule is skipped; an order of a portfolio strategy for a symbol without a
  price is sent past all rules of the risk engine, the daily limit included
  (`live_runner.py:279`).

Strategies:

- A second portfolio strategy replaces the controls of the first, against
  `strategy/engine.py:283`; a stream that ends leaves its instance RUNNING unless
  it failed; two starts of one id overlap and one task is lost (`:180`).
- "One decision per point" (`live_runner.py:107`): a late bar of a point that was
  fired makes another.
- The framework's groups, executed "whole or not at all", are split by risk
  models, rejections and filters, and by price: every leg is rounded down on its own
  (`portfolio_construction.py:105`), and one that costs more than its share of the equity
  is left out, which `framework/insight.py:8` calls an error (`dear`, which
  `PairsStayPaired` excepts); an immediate execution model that is asked again
  orders the whole difference again while orders of a suspended symbol wait, where
  `execution/base.py` promises the missing rest; risk models run only when the
  strategy decides.
- A symbol whose view ends while its order is still to be filled is forgotten:
  `portfolio_construction.py` "must clear what is held without a view, or it is left
  on the books for ever", but at that moment nothing is held, no target is made, and
  the order fills afterwards into a position nobody watches until the next decision.
  In the model this sets "forgotten", which `Undisturbed` excepts.
- A symbol that is sold while an earlier purchase still rests has orders in both
  directions; if the bar fills the sale first, the position goes below every target it
  was given. This is `crossed`, which `NeverBeyondTargets` excepts for what is held,
  not for the sum of what is held and on its way.

Data, research, services:

- A dividend whose ex date has no bar is never credited, since `_credit_dividend` is
  called at bars (`engine.py:231`); `DividendPaidOnce` says so.
- With adjusted prices dividends are credited in cash too; an action after the
  last bar makes the last factor differ from 1.0, against `adjustments.py`; a
  share bought at an ex date's first bar is credited at the next.
- `split_train_holdout` has no embargo, where `sample_split.py` has one; a
  rotation that holds fewer than TopK can sell without buying.
- A hole inside the archive answers with no bars, where `service.py` promises that
  the platform never runs out; Celery workers never load the source settings
  (`main.py:56`), and `active_source` ignores a pin.
- Two PUTs of source settings for different markets that overlap lose one of them
  (`source_registry.py:155`).
- Notification settings: `set_active_config` keeps the old version
  (`dispatcher.py:55`), a read that fails caches the default (`:80`), and a PUT that
  cannot read what is stored loses its secret (`notify/store.py:27`). A mark
  written after a removal leaves a record nothing lists (`inbox.py:143`).
- The audit breaker "lets one probe through" (`audit.py:202`), but resets the
  counter: three more attempts fail before it opens again, a success that was
  under way closes it, and a cancelled call is in no counter, against the
  "nothing is silent" of the module's comment.

## What is not modelled

- Numbers as numbers: average prices, slippage, commissions as amounts,
  indicators, factors, models, optimizers, metrics and tests of significance.
  They are floating-point computation over arrays, which TLC cannot evaluate;
  where control depends on them, they are left open or replaced by small
  integers and fractions.
- Providers, feeds, broker SDKs, LLM clients, database access: input and output
  without a protocol of their own. What they may answer is enumerated where it
  matters.
- Endpoints that validate, read and render; roles and users; the symbol
  dictionary, screener, pair lists, calendars; alerts and the conversation of the
  copilot; AI reports; the websocket channels of bars, portfolio and risk, which
  repeat what they read; `strategy/paper_sim.py`.
- Gateways that no start-up wires (IB, XTP, futures), and set-ups in which one OMS
  has paper and broker gateways at once.
- The trading controls that look at a single order.
- The frontend.

This is most of the 65 thousand lines: about a third is numerical, a fifth are
endpoints, and the rest of the unmodelled part is input and output. The map
covers about a tenth; what is stateful, concurrent or has an invariant is what
was modelled first.

## Plan

Done, in this order: the OMS with its ledger and proofs; what sends and refuses
orders; the paper account; live strategies; the services; research jobs; the
backtest broker; the algorithms; proofs of the quota, the strategy engine, the
algo executor, order matching and the audit trail; proofs of the protections, the
research jobs, the loop, the paper account with its rebalances, the backtest broker,
the data service, the sources, the reconciliation, the notification settings and the
inbox; proofs of the algorithms: allocation, samples, histories, slices, the framework
strategy, the rotation, the ledgers, the exits.

Left, in this order:

1. The OMS in front of paper and broker gateways at once, with `OrderStream` over
   its book instead of an abstract one.
2. `strategy/context.py`: what target weights and the live shortcuts (`sell_all`
   as a sale of 9999) make of one strategy in backtest and live trading.
3. Users and roles (the last administrator), alerts, and the drafts of the
   copilot's conversation.
