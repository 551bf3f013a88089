# A TLA+ model of the Binance spot trading bot

Modules, TLC runs and machine-checked proofs about the program under `src/app`.
The reference is the code at this commit; every definition that models code has
an entry in `PROJECT.json` ("map") naming the file and lines it stands for.

Run everything from this directory:

    tlc -workers 2 -config OrchestratorBooks.cfg MCOrchestrator.tla
    tlapm TradingProofs.tla

## 1. The system

The program is a command-line tool (`app/cli.py`) with a web console. Candles are
downloaded into a database, strategies are optimised and validated on them,
approved, and then traded on paper over a live candle feed. Each command is one
process with one asyncio event loop; concurrency is between coroutines at their
awaits, between the console and the child processes it starts, and between
commands that share the database.

| Component | State it keeps | Operations | Talks to |
|---|---|---|---|
| Orchestrator, `services/orchestrator.py` | running flag, processed candles, buffers, last closes, open positions with their grid levels | `start`, `stop`, `process_candle`, `replay_candles` | called by the WebSocket client; calls strategy, risk engine, broker, repositories, notifier |
| Paper broker, `execution/paper_broker.py` | balances per asset, one aggregated position per symbol, filled orders | `submit_order`, `cancel_order`, equity and balance getters | orchestrator |
| Risk engine, `risk/risk_engine.py`, `risk/rules.py` | open-position counter, daily PnL, losing streak, last trade time per symbol, errors of the day, kill switch | `check`, `record_trade_result`, `record_error`, `position_opened/closed`, kill switch, daily reset | orchestrator |
| Hybrid grid/DCA strategy, `strategies/hybrid_grid_dca.py` | none between calls: it replays its baskets over the candle buffer every time | `generate_signals`, `generate_latest_signal` | orchestrator, backtest engine |
| Other strategies, `strategies/` | none between calls: cooldown and regime are replayed with the buffer | `generate_signals` | orchestrator, backtest engine |
| WebSocket client, `data/websocket_client.py` | connection, reconnect attempts | `subscribe_klines`, `stop` | Binance; orchestrator callback |
| Runtime persistence, `persistence/` | rows for candles, signals, orders, trades, snapshots, grid positions, regimes, approvals | repositories, one session per write | orchestrator, command line, web pages |
| Backtest engine, `backtesting/engine.py` | one position, cash, equity curve of a run | `run` | optimiser, command line |
| Approval pipeline, `backtesting/optimizer.py`, `backtesting/parity_auditor.py`, `cli.py` | the table of approved combinations, and what each command has read of it | optimise, audit, readiness gate, routing of `paper-trade` | database |
| Historical loader, data quality, `data/`, `backtesting/data_quality.py` | cursor of the paging loop, candle rows | download, upsert, gap and staleness checks | Binance REST, database |
| Command runner, `web/command_runner.py`, `web/routes/commands.py` | process, lock, output buffer, history, connected tabs | `run`, `stop`, WebSocket stream | browsers, child processes |
| Dashboard login, `web/auth.py`, `web/routes/auth.py` | the pending one-time code, the times of requests | request, verify | browsers, Telegram |
| Order validator, Binance broker, `execution/` | exchange filters | rounding and validation, REST orders | not wired to a command |
| Validation, ranking, metrics | none | walk-forward split, qualification, Monte Carlo, scores | optimiser |
| Notifications, reporting, configuration, web pages | none that matters | output and parsing | all |

### Behaviours that are hard

* **Three books of one position.** The orchestrator (`_open_positions`), the
  broker (`positions`) and the wallet (`balances`) each record a position, and
  the risk engine counts positions in a fourth place. Each is updated by a
  statement of its own; several early returns and one exception lie between.
* **A strategy that never hears back.** The grid strategy replays its baskets
  from candles alone. When the risk engine, the lifecycle check, the broker or
  an early return drops a signal, the strategy still believes in its basket and
  the orchestrator does not.
* **One candle, two exits.** A stop-loss or take-profit exit precedes the
  strategy call in the same candle, so the signal that follows meets a symbol
  whose position has just gone.
* **Halts by counters.** Errors, losses, streaks and cooldowns are counters that
  several symbols move; whether a halt holds depends on the order of candles.
* **Partial failure.** The broker charges the balance before it looks up the
  base asset; if that raises, the money is gone and no position was opened.
* **Coroutines that re-read state after an await.** `stop()` waits five seconds
  and looks at `_process` again; `run()` accepts a command whose task takes the
  lock only later; a broadcast walks over a set of tabs that changes; a login
  code is replaced before it is known whether it arrives.
* **Processes that share a table.** `optimize` replaces the approvals,
  `audit-approved` withdraws rows it read long before, `paper-trade` reads them
  twice with a long replay in between.
* **Two machines for one strategy.** Approval rests on a backtest that scans a
  history once; trading scans a growing buffer at every candle.
* **Restart and reconnection.** Positions, buffers, cooldowns, codes and rate
  limits live in memory; candles that close while nobody is connected are lost.

`PROJECT.json` ("hazards") lists each of these at its line, with the properties
that would catch it going wrong, or the reason why none does.

### What makes each component correct

* Orchestrator and broker: the books agree after every step, no money appears or
  disappears, an exit is never refused for lack of the asset, a candle trades at
  most once after an exit, a grid level is bought once, a basket stays within its
  allocation, its stop bounds its loss.
* Risk engine: its counter is the number of open positions; entries stop while a
  halt holds; the position limit holds over all symbols.
* Grid strategy with the orchestrator: the position never holds a level or a
  basket the strategy did not ask for, and always has a stop and a target around
  its average entry.
* Backtest: the account and the trades tell one story; it obeys the same money
  laws as paper trading, and its signals are the runtime's.
* Approvals: one batch at a time; approved means earned; what trades is approved.
* Research data: what the quality checks accept is complete and final.
* Feed: candles in order, each once, missing only for a reason; it comes back.
* Command runner: one process at a time, every tab sees the output in order and
  once, a stop ends its own process only, every run leaves its record and the
  lock.
* Login: the request limit holds, and a session needs the newest, young code.
* Persistence: the rows tell the position while no write fails; a lost write or a
  kill leaves a bounded, explainable difference.

## 2. Modules

| Module | Models | Uses |
|---|---|---|
| `Market` | candles, signals, the constants of the runtime | |
| `PaperBroker` | `submit_order`: fills, refusals, the failure half-way, equity | `Market` |
| `RiskEngine` | the nine default rules and the counters | `Market` |
| `Orchestrator` | `process_candle` with the broker and the risk engine | `PaperBroker`, `RiskEngine` |
| `PositionLedger` | abstract specification: what trading promises about money | |
| `GridTrading` | the grid strategy's baskets against the orchestrator | `Orchestrator` |
| `PersistedTrading` | the rows of every trade, failed writes, kills and restarts | `GridTrading` |
| `BacktestEngine` | the backtest's candle loop | `PositionLedger` (refined) |
| `StrategySignals` | eight strategies, and their two consumers | |
| `ApprovalPipeline` | `optimize`, `audit-approved` and `paper-trade` over one table | |
| `ResearchData` | paged download, upsert, quality checks | |
| `WebSocketFeed` | reconnect loop, the exchange, admission of candles | |
| `CommandRunner` | command runner, broadcasts, tabs, child processes | |
| `DashboardLogin` | one-time codes and their limits | |
| `Validation` | walk-forward windows, qualification thresholds | |
| `TradingProofs` | theorems about `Orchestrator`, `GridTrading` and `PersistedTrading` | `PersistedTrading` |
| `SignalProofs`, `ResearchProofs` | theorems about `StrategySignals`; `ResearchData` and `Validation` | those |
| `BacktestEngineProofs`, `ApprovalPipelineProofs`, `CommandRunnerProofs`, `WebSocketFeedProofs`, `DashboardLoginProofs` | theorems | the module they are named after |
| `MC...` | constants for TLC | |

### Orchestrator

`process_candle` awaits in several places, but only one await can suspend it
between two changes of state with a consequence: the notification that follows a
stop-loss or take-profit exit. The WebSocket client awaits the callback before it
reads the next message, so candles are never processed concurrently. A candle is
therefore two steps:

1. **Feed.** `CandleWhileStopped`, `CandleUnderKillSwitch`, `DuplicateCandle`
   are the early returns; `AdmitCandle` records the candle, and `AdmitAndExit`
   also closes the position when the candle touches its stop or its target
   (`ClosePosition`: the broker's SELL, the position's removal, the risk
   counter, the trade's result).
2. **Pipeline.** `Buffering`, `RegimeBlocked`, `StrategyError`, `NoSignal`, or
   the fate of a signal: `SellWithoutPosition`, `LifecycleBlocked`,
   `RiskRejected`, `OpenPosition`, `ScaleIn`, `SellSignal`, `BuyOrderRejected`,
   `BuyExecutionError`.

`Interrupt` is Ctrl+C with the `stop()` that follows: it cancels the task between
candles or, at the await above, in the middle of one, losing the rest of it.

State corresponds one to one to the attributes named beside each VARIABLE. The
abstractions:

* **Money** is integer. Fees and slippage are whole percentages, rounded down.
  Prices and quantities in the configurations are chosen so that costs and fees
  come out whole. The proofs hold with the rounding, for any percentages.
* **Average entry** is kept as total cost: averaging two fills is then a sum, and
  the code's `entry_price * quantity` is the variable itself.
* **Lots are indivisible.** The code divides the budget by the price without
  rounding; the model buys the most whole lots the budget pays for. A budget
  below one lot is not explored, except where the allocation is used up and the
  code submits an order for nothing.
* **Floating point** shows in one place: an order for the entire balance may be
  found affordable or not, so `BuyRefused` and `BuyFills` overlap at equality.
* **The regime filter** may block any candle when it is configured, and the
  strategy may raise or return any signal of `Signals`.
* **Time** is counted in bars. `HOLD` signals are left out: no strategy returns
  one.
* **Rows and messages** are left out of this module: neither is read back. The
  rows are the subject of `PersistedTrading`.

### RiskEngine

Each rule is an operator named for its class; `Approved` is their conjunction, as
in `check`. Equity and available balance are parameters because the orchestrator
assigns both right before every check. `deactivate_kill_switch` and `reset_daily`
have no caller in the repository and are not actions; the kill switch is chosen
in `Init`, as the `paper-trade` command sets it before the feed starts.

### GridTrading

`generate_latest_signal` replays the whole buffer at every candle and returns the
signal of the last bar. Since the replay is deterministic, the strategy's state
after a bar is a function of the candles, and one step of it per buffered candle
(`StrategyBar`, inside `GridAdmit`) is the same computation. What the pipeline
does with the signal does not reach it: `SignalLost` and the refusals inside
`OnSignal` leave the basket as the strategy believes it to be. Indicators,
spacing and level prices only decide whether a branch is taken, and at what
price; both are left open. The order of checks within a bar, the cooldowns, the
unfilled level chosen next, the allocation and the numbering of baskets are
modelled.

### PersistedTrading

A step of `GridTrading` that fills an order also writes four rows, in this order:
`LogTrade` (`trades`), `LogEvent` (`grid_events`), `SaveBasket` (`grid_states`,
an upsert by grid_id) and `TakeSnapshot` (`account_snapshots`). Each write has a
session of its own: in `TradeRecorded` any of them may fail and be swallowed, in
`KilledWhileRecording` the process dies after some of them. Ctrl+C during the
notification of an entry, which loses the snapshot, leaves the same rows as a
kill before the last write. `Restart` starts the command again: a fresh wallet,
fresh counters, an empty buffer, baskets numbered from 1 (`MemoryLost`), and the
database as it was. The feed then delivers later candles only. Of a row the model
keeps what the properties compare: status, quantity, levels and the run that
wrote it; of the logs, the net quantity. Signal and rejection rows carry no
quantity and are left out.

### BacktestEngine

`run` is a loop over candles with three stretches that change the account:
`CheckStops` (the open position against the bar's low and high; the stop counts
on a bar that reaches both), `ProcessSignal` (the signal mapped to the bar, then a
point of the equity curve) and, once, `EndOfData` (what is open is sold at the
last close, without slippage). A bar whose position was just stopped may buy
again, as in the code. `MaxInvest` and `Filled` are `_buy_fill` and the two ways a
fill enters a position; the average entry is kept as a total cost, and quantities
are whole lots, with prices large enough for rounding not to turn an order into
none. An order for nothing ends the bar early (`SkipBar`) and leaves the variable
`equity` as it was: only a strategy all of whose orders are for nothing
(`base_order_pct` 0) gets there, and it never trades, which is why strategies are
a parameter here and not just signals.

### StrategySignals

Eight strategies share a skeleton: walk over the bars from a first one, skip a
bar that is not ready or within the cooldown of the last signal, look at filters
and at a condition to buy or to sell, stamp the signal with its bar. `Scan` is
the skeleton; `EmaAtr`, `Bollinger` and the others decide on one bar, in the
order of the code's `continue`s. A bar is what the indicators say of a candle.
They depend on where a buffer starts: an EWM begins with the first close it sees
(`adjust=False`) and never quite forgets it, a rolling window and the ADX are NaN
until they are full. So every candle comes with two readings (`ReadingsOf`), one
by a scan of the whole history and one by a buffer begun later; they share the
price and nothing else. `candles` holds the first, `buffer` the bars since
`start` as the process reads them. `SelectCurrentSignal` and `SignalMap` are the
two ways of choosing among signals; `Candle` is the orchestrator scanning its
buffer, `Restart` an empty one. The buffer is never trimmed, so only a restart
moves its start. `breakout` looks at bars from `lookback_period + 1` on
(`Lookback`), and like all of them at histories of `min_periods` or more.

### ApprovalPipeline

Three commands, each a process, share one table. `optimize` up to its batch is
one step (`OptimizeEvaluate`), since nothing it computes is shared; the choice of
parameter set is any that none is preferred to, because among equals the first
worker to finish wins. `OptimizeSave` is `save_batch` with its commit: SQLite
shows other connections both statements or none. `audit-approved` replays
(`AuditReplay`), then finds the rows of its results (`AuditFind`) and updates
them (`AuditCommit`); a select locks nothing, so a new batch may come between,
and the ids it found may be gone. `paper-trade` passes its gate (`TraderGate`),
reads the table again and routes (`TraderResolve`). `earned` and `proven` are
history. A replay's outcome is a record of counts (`Diagnostics`), and the
verdict is computed from it.

### ResearchData

`Download`, `Answer`, `Take` are a pass of the paging loop: the request, the
exchange's answer at its own moment, and what is kept by our clock read after it.
`Save` is the upsert. Of a candle the store keeps whether its values are final.
What research reads (`Frame`) and refuses (`Passed`) are operators, since reading
changes nothing. The clock is bounded by `MaxNow`. A request takes less than half a
candle (`DataAssumption`): with the client's timeout of 30 seconds that holds of
every interval but one minute, where nothing is claimed.

### WebSocketFeed

`Connected`, `ConnectFails`, `Drained`, `WakeUp` are the reconnect loop;
`Receive` reads a message and takes a closed candle in, `ReceiveRaises` is the
pipeline raising on it, which the client's `except Exception` turns into a
reconnection. The exchange closes candles, repeats the last, sends updates and
noise, and closes the connection, with a normal code (the loop goes round without
counting an attempt) or without. `Interrupt` and `Stop` are Ctrl+C and the
`stop()` of the command.

### CommandRunner

An action is what a coroutine does between two awaits. `Run` is the body of
`run()`, which creates a task; `TakeLock`, `Spawned`, `ReadLine`, `Fault`,
`CloseExited`/`CloseFaulted` and `Release` are the stretches of `_execute`;
`Connect`, `Send`, `Disconnect` the WebSocket endpoint and the broadcast;
`StopRequest`, `StopReturns`, `StopTimeout` the three ends of `stop()`;
`ChildWrites` and `ChildExits` the external process, which ends with status zero
or another. Runs are numbered in the order of acceptance, so the newest number
stands for `_current_command`. The history is a deque: `Recorded` drops the oldest
of `HistoryCap` records. `overtaken` and `faults` are history variables: the runs
that had not taken the lock when a later one was accepted, and those whose spawn
or reader raised.

### DashboardLogin

Times are ages that stop growing at the end of the rate window; a time stamp is
named by the code it was taken for, so that the list of stamps is a set of codes
and pruning it is a filter. `RequestOtp` is `generate` (the new code takes the pending one's place before it is sent),
`SendEnds` the answer of Telegram, which tells nothing of whether the message
arrives; `VerifyOtp` consumes the pending code whatever the answer; `Restart`
empties the store. A code is the number of its request, so collisions of random
codes are left out.

### Validation

Pure functions: where `walk_forward_validate` cuts a history, with the rounding
of `int(size * 0.7)` left open by one, and `check_qualification`. A window whose
backtest raises is skipped with a warning (`validation.py:214`, 223) and leaves
the aggregates to the others; `WindowsSound` is about the cuts, not about those.

### PositionLedger and the refinements

The ledger knows cash, what is invested per symbol and the realised profit. It
allows two things: some cash is invested in a symbol, or all that is invested in
a symbol comes back, with the profit booked in the same step. Paper trading
implements it (`Orchestrator!LedgerSpec`) under

    cash <- quote,  invested[s] <- bpos[s].cost + bpos[s].fee,  realised <- dailyPnl

when every symbol is traded against the quote asset (without that assumption the
broker's failure half-way takes cash that nobody holds), and the backtest
implements it (`BacktestEngine!LedgerSpec`) for its one symbol: the two engines
keep the same money laws although no code is shared between them.

## 3. Runs

| Run | Question | Bounds |
|---|---|---|
| `orchestrator_books` | Do books, counter and cash stay together through every fill, refusal, error and interrupt, and does the pipeline implement the ledger? | one symbol, prices 10/20/40, five bars, 8 signals, buffer of 2, four orders, one strategy error |
| `orchestrator_halts` | Do the position limit and the halts hold over several symbols? | three symbols (one misquoted), two prices, two bars each, one position, one loss, two errors |
| `persisted_trading` | Does the position stay within what the strategy asked for, protected, does the database tell it, and how far do lost writes and kills take the two apart? | one symbol, four bars over two runs of the command, two baskets, three levels, allocation cut short at the last level, one failed write per run, a kill between any two writes |
| `backtest` | Do account and trades add up, does a stop lose the stop's share, is the ledger implemented? | five bars of five shapes, twelve signals and a strategy of empty orders |
| `signals` | Does the runtime act on the backtest's signals, and does a restarted one come back to them? | every history of five bars of eight strategies, two or three bars each that a later buffer reads otherwise, cooldown and warm-up of two, one restart |
| `approvals` | Do approvals stay of one batch and earned, and is what is routed approved? | two datasets (one configured), two parameter sets that tie, three replays, two optimize runs, any number of audits and trading sessions |
| `research` | Is what research accepts complete and final? | two candles a day, two days, two candles a page, at most one candle missing, three days of clock |
| `feed` | Which candles may be missing, when does a session give up, does the feed return? | two symbols, three candles each, two messages under way, three attempts |
| `runner` | Are commands kept apart, is output complete and ordered, do stops and runs end? | two commands, two stops, two tabs, two lines, one fault, a history of one record |
| `login` | Is the limit on codes kept, and who gets in? | four codes where three are allowed, a window of three ticks, codes of one, one restart |
| `grid_orphan_scale_in` | violation: see section 5 | two symbols, two bars |
| `approval_stale_gate` | violation | as `approvals` |

Why the bounds are enough to be interesting:

* *orchestrator_books.* Five bars allow open, two scale-ins, a protective exit
  and a new entry after the cooldown; three prices allow stop and target on
  either side of the average entry of every mix of fills; `AllIn` is refused by
  the broker at equality; the last scale-in finds the allocation spent. One
  symbol is enough for the books: no action reads the book of another symbol,
  and the proofs cover any number.
* *orchestrator_halts.* Three symbols are the fewest with an entry refused for
  the limit, and a misquoted one whose orders raise; one loss or two errors
  reach each halt, and the bars after them try to trade.
* *persisted_trading.* Two baskets let the strategy be one basket ahead of the
  position, which is where stale scale-ins and stale exits come from; four bars
  allow three fills and an exit, or a basket the strategy gave up while the
  position lives; a second run meets whatever rows the first left.
* *backtest.* Five bars hold two fills at different prices, an exit of each
  kind, a second entry and the sale at the end; one shape spans stop and target.
* *signals.* A cooldown of two in five bars separates two signals by less, as
  much and more; the restart may fall inside a cooldown or between regimes. A bar
  read otherwise gives the new process a signal the backtest has not, or takes one
  away, or settles another regime; without `Alike` in it `RestartResyncs` is
  violated.
* *approvals.* Two batches are the fewest where one replaces another under a
  reader; two parameter sets of one strategy are what the audit's query confuses;
  tied scores make the order of rows free.
* *research.* Four rows over two or three pages, and a clock that moves during
  every request, put the closing of a candle at every point of the loop; the
  whole history may be downloaded again and repaired.
* *feed.* Two symbols share bar numbers, so a candle of one may be taken for the
  other's; three attempts can be used up by refusals, losses or both.
* *runner.* Two commands put one task behind the lock; two stops can await the
  same process or consecutive ones; a tab can connect, leave and return during a
  broadcast; the buffer is full when the error line comes, and the second record
  drops the first.
* *login.* A fourth request meets the limit at every age of the first three; the
  window is longer than the life of a code, as 15 minutes is than 5.

Deadlock checking is off in the configurations that say so: the program may really stop (interrupted, out of
accepted commands) and the bounds end every run.

Every property has a mutant in `PROJECT.json`: a change of one definition like
a plausible bug (`..._Forgotten`, `..._OffByOne`, `TakenByTime`,
`SaveBatchAppending`) with which TLC finds the property violated under the run's
own configuration.

## 4. Properties

Books and money: `BooksAgree`, `CounterAgrees`, `CashIdentity`, `LedgerSpec`,
`FinalEquityIsPnl`. Order within a candle: `NoFillAfterExit`. Grid positions:
`LevelBoughtOnce`, `GridAllocationCapped`, `GridLossBounded`,
`GridLossIsStopShare`, `PositionFollowsStrategy`, `GridProtected`. Risk: `ExposureCapped`, `NoEntryWhileHalted`. Database:
`StoreFollowsBooks`, `LogLeadsRows`, `StrayRowsCounted`. Signals: `RuntimeIsBacktest`,
`RestartResyncs`. Approvals: `SingleSource`, `ApprovedEarned`, `RoutedApproved`,
`GateRespected`, `DowngradeLands`. Data: `PagingComplete`, `AcceptedFrameFinal`,
`BackfillSuffices`. Feed: `GapsExplained`, `GivesUpOnlyUnreachable`,
`FeedReturns`. Commands: `OneChildUnlessFaulted`, `StreamFaithful`,
`StopKillsItsTarget`, `HistoryComplete`, `StopEnds`, `RunsFinish`. Login:
`RateLimited`, `FreshLogin`. Each is stated in words above its definition.

Some say less than one might hope, because the code does less:

* `CashIdentity` is conditional: after an execution error on a symbol that does
  not end with the quote asset, cash is missing.
* `ExposureCapped` is checked without a grid, where it holds; with one it does
  not (section 5).
* `OneChildUnlessFaulted` and `StopKillsItsTarget` stop at the first exception of
  a reader (section 5).
* `RestartResyncs` needs a quiet cooldown, a settled regime, and a bar that the
  indicators of the new buffer read as the backtest's do: right after a restart
  the process may buy where the backtest is still cooling down, and wherever an
  EWM still remembers another first close the two may differ. What it says is
  that nothing else parts them: a bar read differently earlier leaves no trace
  beyond the cooldown and the regime.
* `HistoryComplete` gives a record the name of its own command only if no later
  command was accepted before its task took the lock; otherwise it does not have
  it, because the finally block reads `_current_command`.
* `StoreFollowsBooks` and `LogLeadsRows` are about a run in which no write failed;
  of one with failures `StrayRowsCounted` says how far the rows can be off. A kill
  after the sale was logged leaves the row of what was sold (`LogLeadsRows`).
* `AcceptedFrameFinal` excepts the newest row, which may hold values from before
  its candle closed, and the oldest, where the newest candle is missing.
* `RoutedApproved` is about the moment a session starts; approvals withdrawn
  later do not stop it.
* `DowngradeLands` is about an audit whose batch is still there when it ends. When
  it was replaced, the audit either writes nothing or withdraws rows of the new
  batch it never replayed; it never approves any (`ApprovedEarned`).

Definitions that no listed run checks, kept beside the others because the
modules satisfy them under the same constants: the type invariants of the modules
without one in a run, `StoreTypeOK`, `CurvePerCandle` and `AllocationKept`
(BacktestEngine), `BuffersInOrder` (WebSocketFeed), `OneTryPerCode`
(DashboardLogin), `BasketAllocationCapped` (GridTrading) and `EntriesBracketed`
(StrategySignals), all of which are proved (section 6); `LimitLifts`
(DashboardLogin), which is not.

### Fairness

* `CommandRunner`: weak fairness of a run's task, of each send and of the two
  ends of `stop()`: the event loop resumes every coroutine that can go on, a send
  completes or its connection is dropped, and `asyncio.wait_for` fires. Nothing
  is assumed of commands: `ChildExits` is not fair, a command may print and run
  for ever, and `StopEnds` holds because SIGKILL follows the timeout. Nothing
  makes a user run, stop or connect. `Fault` is not fair either.
* `WebSocketFeed`: weak fairness of the client as a whole. Its one task is
  resumed when what it waits for ends: `websockets.connect` has a timeout, so an
  attempt succeeds or fails; a sleep ends. Nothing is assumed of the exchange: it
  may refuse every connection, and then the feed gives up, which `FeedReturns`
  counts as an answer.
* `DashboardLogin`: time passes.

## 5. Findings

Listed with a run:

* `grid_orphan_scale_in`: the scale-in exemption of the position limit assumes
  an open position, and the check that would require one is unreachable. A
  scale-in of a basket whose open was refused opens a position beyond the limit.
* `approval_stale_gate`: the readiness gate of `paper-trade` passes dataset keys
  and the rows are read again after it; a batch committed in between makes the
  session trade parameters the gate never replayed.

Found by other configurations of the same modules, each checking one property
that a document or comment of the repository states:

* `CommandRunnerDouble.cfg` (`RunningReported`, `command_runner.py:83`): two
  commands accepted back to back both get past `run()`, because the task takes
  the lock only when it is first scheduled. The end of the first sets
  `_finished`; the second then executes while `is_running` is False.
* `CommandRunnerOrphan.cfg` (`OneChild`, `command_runner.py:4`): when the reader
  raises, the lock is released and `_process` forgotten while the process lives;
  the next command runs beside it.
* `PersistedHistory.cfg` (`HistoryKept`, `models.py:193`): baskets are numbered
  from 1 in every process and rows are found by that number, so a new run
  overwrites the history of an old one.
* `PersistedEvents.cfg` (`BasketEventsBalance`, `models.py:225`): the basket of an
  exit signal is not compared with that of the position it closes; the event log
  files the exit under the wrong basket.
* `OrchestratorExitReported.cfg` (`ExitReported`, `orchestrator.py:210`): a
  protective exit is called the authoritative result of its candle, but the early
  returns after it report their own.

Comments the models contradict without a run of their own: `auth.py:62` says a
code is consumed "on success or expiry", line 68 consumes it on any answer;
`validation.py:184` says walk-forward windows overlap, and `WindowsAreSound`
proves that they never do; `validation.py:320` says an alpha of zero asks to
match buy-and-hold, and line 393 takes zero for no threshold
(`EasierThresholds`).

## 6. What is proved

The theorems hold for every value of the constants that the named assumptions of
the modules allow (`MarketAssumption`, `BrokerAssumption`, `RiskAssumption`,
`OrchestratorAssumption`, `GridAssumption`, `StoreAssumption`,
`EngineAssumption`, `RunnerAssumption`, `FeedAssumption`, `LoginAssumption`,
`DataAssumption`, `SignalsAssumption` and the four of ApprovalPipeline); TLC
evaluates them in the runs. A theorem that needs more says so in its `ASSUME`,
and the tables below repeat it. Every safety property of a passing run is a
theorem; what only TLC checks is listed at the end.

The induction schema is not available to the provers (it takes an operator as a
parameter). Where data grow without bound - sums over sets of positions, scans of
a history - the proofs take the least element of a set of counterexamples
instead: a set of natural numbers that is not empty has one (`LeastNat`), and
that is enough (`SetInduction` for sums, `ScanExists` and `ScanTraced` for scans).

### Orchestrator (`TradingProofs`)

For every number of symbols, all prices, balances, fees, slippages, limits and
signals:

| Theorem | Says |
|---|---|
| `InvariantHolds` | `Spec => []IInv` |
| `TypeCorrect` | no balance, quantity or counter leaves its type; none is negative |
| `BooksAlwaysAgree`, `CounterAlwaysAgrees` | `BooksAgree`, `CounterAgrees` |
| `HaltsStopEntries` | `Spec => NoEntryWhileHalted` |
| `ExitIsLast` | with `Cooldown > 0`, `Spec => NoFillAfterExit` |
| `LevelsBoughtOnce` | `Spec => LevelBoughtOnce` |
| `ExposureWithinLimit` | without scale-in signals, `Spec => []ExposureCapped` |
| `GridLossIsBounded` | `Spec => GridLossBounded`, with any fee and any slippage |
| `CashConserved` | `Spec => []CashIdentity`: the quote balance, plus what the open positions cost, is the initial balance plus what was realised |
| `GridAllocationRespected` | `Spec => GridAllocationCapped` |
| `LedgerRefined` | with `QuotedSymbols = Symbols`, `Spec => LedgerSpec` |

`TypeOK` is not inductive: that a SELL of `pos[s].qty` leaves a natural balance
and no position needs the three books to be equal, and that the counter does not
stick at zero needs it to be exact. So `IInv == TypeOK /\ BooksAgree /\
CounterAgrees`. It is split into `TradeInv`, the part a trade can disturb, and
`FeedTypeOK`, the rest. `ExitKeepsBooks`, `OpenKeepsBooks` and
`ScaleInKeepsBooks` say that the three trades preserve `TradeInv`; `NoTrade` and
`ErrorOnly` cover the other actions; `FeedStep` and `PipelineStep` go through the
disjuncts of `Next`.

`HaltsStopEntries` rests on `OnlyBuysTakeCash` (a step that lowers the quote
balance is an approved BUY, or one that raises half-way) and `HaltRefusesBuys`
(approval contradicts a halt). `ExitIsLast` needs a second invariant,
`ExitStartsCooldown`: while `exited` holds, the symbol's last trade time is the
candle's own time, so the cooldown refuses a BUY, and the symbol has no position,
so nothing is sold. Without a positive cooldown it would be false; the default is
60 seconds. `ExposureWithinLimit` excludes scale-ins because with them the limit
does not hold: `_scale_position` asks no exposure rule. `GridLossIsBounded` needs
`StopsAnchored` (a grid position's stop is the configured share of the average
price it was bought at, also after a scale-in refreshed it) and three lemmas on
rounded percentages (`SaleAtStop`, `LessFee`, `ProceedsBound`). `LedgerRefined`
maps every action to `Enter`, `Exit` or a stutter.

`CashConserved` adds up over the open positions. `SumExists` shows that the sum
over a finite set is a function of the set that counts each member once, in
whatever order the members are taken (`SumAnyOrder`), so that one changed member changes
the sum by its own difference (`SumChanges`). `Worth` is the balance with the
investments, `Kept` says that a step moves it by what it realises;
`WorthAfterFill`, `WorthAfterExit` and `WorthUnmoved` show it of the trades and
of everything else. `GridAllocationRespected` follows the order of a scale-in
through the lot arithmetic: the lots bought are the most whose price with the fee
fits the budget, and the budget is what the allocation leaves at that equity
(`ScaleInWithinRoom`).

### The grid and its database (`TradingProofs`)

| Theorem | Says |
|---|---|
| `GridInvariant`, `PersistedGridInvariant` | `GridInv` of both specifications |
| `PositionsFollow` | `PersistedSpec => []PositionFollowsStrategy` |
| `GridPositionsProtected` | with `PricesFine`, `PersistedSpec => []GridProtected` |
| `PersistedInvariant`, `StoreTypeCorrect` | `PersistedInv`, and every type of trader and store |
| `LogLeads` | `PersistedSpec => []LogLeadsRows` |
| `StoreFollows` | with `QuotedSymbols = Symbols`, `PersistedSpec => []StoreFollowsBooks` |
| `StraysCounted` | `PersistedSpec => []StrayRowsCounted` |
| `GridRefinesTrading` | with `StrategySignals \subseteq Signals`, `GridSpec => Spec` |
| `GridTraderInherits` | the same, `GridSpec =>` `CashIdentity`, `NoEntryWhileHalted`, `LevelBoughtOnce`, `GridAllocationCapped`, `BasketAllocationCapped`, `GridLossBounded` |

`GridInv` joins the orchestrator's `IInv` and `StopsAnchored` to what the
strategy keeps of its own: `BasketsOpened` (a basket it is in has a number and a deepest level) and
`EmittedFollows` (a signal still under way is of the strategy's present basket).
Both are needed for `PositionFollowsStrategy`: the strategy commits its level
before the orchestrator decides, and the two meet again only through the signal.
`CostCoversStop` adds that a position's cost is at least its quantity at the
stop, from which `GridProtected` follows; `PricesFine` says that every buy price
leaves at least one unit of price between itself and the stop, which prices of
one or two units would not.

`PersistedInv` adds `RowsBounded` (no row was written by a run to come),
`RowsFollow` (while no write failed, the rows of this run and the trade log are
those of the open positions) and `LogLeadsRows`. A crash empties the memory and keeps the database
(`FreshMemory`); a kill between two writes is a step of its own.
`SnapshotFollows` says what the account snapshot must agree with while no
write has failed; without a quote for every held symbol the balance is not the
snapshot's, hence the hypothesis. `StraysCounted` is a count of its own
(`StrayBounded`): a trade whose state was not written leaves at most one row that is
wrong, and has counted a failure.

`GridRefinesTrading` says that the grid trader is the orchestrator with one
particular strategy: each action of `GridNext` is one of `Next` with the
strategy's variables beside it, and what the strategy emits is a signal
(`GridInv`). Its hypothesis is about `Signals`, the signals that the abstract
orchestrator may see, on which `GridSpec` does not depend: the runs of the grid
leave `Signals` empty because nothing reads it there. `GridAllocationCapped` is
about the signal a fill executes, whichever of `Signals` that is;
`BasketAllocationCapped` says it of the strategy's own allocation and without
`Signals`: the signal under way names `MaxAllocation` (`EmittedFollows`), and
`ScaleInWithinRoom` does the rest (`BasketAllocated`).

### Backtest (`BacktestEngineProofs`)

| Theorem | Says |
|---|---|
| `BacktestInvariant`, `BacktestTypeOK` | `IInv`; cash and equity are never negative |
| `BacktestCurve` | `Spec => []CurvePerCandle` |
| `BacktestRefinesLedger` | `Spec => LedgerSpec` |
| `FinalEquity` | `Spec /\ [][NoStaleEquity]_vars => []FinalEquityIsPnl` |
| `GridLossIsShare` | `Spec => GridLossIsStopShare` |
| `AllocationIsKept` | if every scale-in names a target and a positive allocation, `Spec => AllocationKept` |

`IInv == TypeOK /\ AccountAddsUp /\ NothingHeld /\ GridStopAnchored /\
BarUnderWay /\ CurvePerCandle`. `AccountAddsUp` (cash plus what the position was
bought for is the capital plus what was realised) is the heart; `BarUnderWay`
says how far a bar has come, so that one point is added for each.

`FinalEquity` has a hypothesis about the behaviour. A BUY that comes to nothing
leaves its bar with `continue` (`engine.py` 376-378): the curve gets the cash, but
`equity`, which is reported as `final_equity`, is not assigned. If a position was
closed earlier in the same bar and this was the last bar, what is reported is the
equity of the bar before. `NoStaleEquity` says that no bar takes that path with cash
and equity apart. The order comes to nothing only when the share or the cash is
nothing; the run satisfies the hypothesis throughout.

### Approvals (`ApprovalPipelineProofs`)

`PipelineInvariant`, `PipelineTypeOK`, `PipelineSingleSource`,
`PipelineApprovedEarned`, and the action properties `PipelineRoutedApproved`,
`PipelineGateRespected`, `PipelineDowngradeLands`. `SingleSource` and
`ApprovedEarned` are about the table; the invariant must say them of the batch
still in memory as well (`OneSource`, `AllEarned`), that runs are numbered in
order (`RunOrder`), that an auditor's downgrades are of rows it read
(`AuditTracks`), and that a passed gate is still backed by diagnostics on record
(`GateHolds`).

### Command runner (`CommandRunnerProofs`)

`RunnerCore`, `RunnerTypeOK`, `RunnerOneChild`, `RunnerStopKillsItsTarget` and
`RunnerHistoryComplete` follow from `CoreInv`: `TasksInOrder` (the lock admits
tasks one after another, in the order of `run()`), `ProcessIsReaders` (`_process` is
the child of the task that reads, or of one whose reader raised), `ChildrenRead`
(without an exception, a live child is one that is still read), `HistoryOrdered`
(the records are those of the last tasks that ended, in order). For
`RunnerHistoryComplete`, `RecordsInv` adds that a record is true when it is
written (`OvertakenKnown`: the newest command is a task's own exactly if it was not
overtaken; `FaultsKnown`) and stays true (`StaysTruthful`: a process ends once,
and a task that ended is neither overtaken nor faulted later). `RunnerStream` and `RunnerStreamFaithful` add
`StreamInv`: for every tab, what it has is in order, what it lacks is in its
queue or in the send under way, across a replay that a new line interrupts.

### WebSocket client (`WebSocketFeedProofs`)

`FeedInvariant`, `FeedTypeOK`, `FeedGapsExplained`, `FeedGivesUpOnlyUnreachable`,
`FeedBuffersInOrder`. `LoopInv` says that nothing is on the wire without a
connection and that attempts are counted from the last one; `OrderInv` that the
closed candles of a symbol are in the order of time on the wire, and what is
buffered is no later than what is still to come. `FinalsAppend`, `FinalsSplit` and
`FinalsTail` say what the queue operations do to the closed candles on the wire.

### Dashboard login (`DashboardLoginProofs`)

`LoginInvariant`, `LoginTypeOK`, `LoginRateLimited`, `LoginOneTryPerCode`,
`LoginFresh`. `RateLimited` counts messages; the code counts stamps, and prunes
them. `StampsCover` says that every message younger than the window still has
its stamp. `PendingIsLast` says that the pending code is the last one drawn by
this process, so that an answer can only be spent on that one.

### Signals (`SignalProofs`)

For every strategy of `Strategies`, every cooldown and warm-up, and histories of
any length over any set of candles, read by a later buffer in any other way:

| Theorem | Says |
|---|---|
| `SignalsInvariant` | `Spec => []SignalsInv` |
| `RuntimeFollowsBacktest` | `Spec => []RuntimeIsBacktest` |
| `RestartFollowsBacktest` | `Spec => []RestartResyncs` |
| `EntriesAreBracketed` | with `BarsMove`, `Spec => []EntriesBracketed` |

`SignalsInv` says that what was acted on at each candle is what the scan of the
buffer said at that candle, and that the first buffer is the history. The rest is about the scan, a recursive function of
the position: `ScanPrefix` (what a scan says up to a bar does not depend on the
bars after it) is why a runtime that scans a growing buffer and keeps the signal
of its newest bar does what one scan of the whole history does. `DecideSays` (a
strategy says one thing of a bar, whatever its position) and `ScanTraced` (a scan
takes at most one signal of a bar) let the signal of the newest bar stand for it.
After a restart the scans start at different bars. `QuietIsReady` says that after
a quiet cooldown both are free to signal, `RegimeSettles` that from a ready bar
outside the thresholds on the regime is the same as long as both read the bars
alike; these are the hypotheses `RestartResyncs` names.
`BarsMove` says that a bar that passes the filters has an ATR above zero and
a price of at least 20 units, so that a share of it is not rounded to nothing;
momentum, pullback and volatility breakout test for a zero ATR themselves and
need no hypothesis.

### Research data and validation (`ResearchProofs`)

| Theorem | Says |
|---|---|
| `DataInvariant` | `Spec => [](DataInv /\ StoreClosed)` |
| `PagesComplete` | `Spec => []PagingComplete` |
| `AcceptedFramesFinal` | with `NoTwoMissing`, `Spec => []AcceptedFrameFinal` |
| `BackfillIsEnough` | `Spec => BackfillSuffices` |
| `WindowsAreSound` | `WindowsSound`, for every history of a hundred candles or more and every number of windows |
| `EasierThresholds` | lower thresholds qualify whatever higher ones did |

`DataInv` is `DataTypeOK`, `Loading` (the clock a download started at bounds what
it holds and what was stored before), `Paging` (until the last page the rows are
all the candles before the next one to ask for, and the one that is not final
closed so recently that the next cannot close in time to be asked for), `Answered`
and `Complete`. `StoreClosed` says that a stored row is of a candle that the
exchange has and that has closed. `PageInOrder` and `PageFull` say that a page is
the least candles there are and that one of fewer than the limit is the last. Why a
row that is not final cannot stay inside an accepted frame is `StoreFinal`: such a
row is the newest stored, or so far back that the newest frame begins with it or
after it; `FrameIsNewest`, `NewerFew` and `PassedFrame` relate a frame that passes
the checks to the candles of the clock. It needs `NoTwoMissing`, that the exchange
never lacks two candles in a row: with the two newest missing, TLC finds a frame of
the newest rows that reaches back before the start of the download that would have
repaired the row it has inside; with one missing, that row is its oldest.

`WindowsAreSound`: `WindowsFit` shows that the windows are at least fifty candles
long and together no longer than the history, so that the step from one to the
next, (total - size) / (count - 1), is at least a window (`DivAtLeast`,
`DivBounds`, `MulMono`). `EasierThresholds` is first-order reasoning over the
conjuncts of `check_qualification`.

### Only model-checked

* Liveness (`StopEnds`, `RunsFinish`, `FeedReturns`; `LimitLifts` beside them):
  the prover does not do fairness or ENABLED.
* The properties of the runs that expect a violation, which are false, and those
  of section 5 like them.

## 7. Not modelled, and the plan

Left to prove: the action properties of the orchestrator under `PersistedSpec`,
for the steps between two restarts: the invariants have
been carried over a restart, but a restart itself gives the wallet back its first
balance, so the properties of cash have to be stated of one run.

Not modelled:

* Indicator values and the regime filter's verdict: functions of prices; any
  outcome is allowed instead.
* Metrics, ranking, Monte Carlo, benchmark, the matrix: floating-point statistics
  over finished backtests, with no state and no order of events.
* `grid_diagnostics`, reports, pages, notifications: output.
* The order validator, the Binance broker and the portfolio service: no command
  reaches them (`live-trade` prints a refusal).
* Session tokens and the middleware: signed, checked, without state.
* `replay_candles`' summary: the replay itself is `process_candle`, its counts
  are the `Diagnostics` of ApprovalPipeline.
* The `--strategy` override of `paper-trade`, which trades everything without
  asking anybody, and the fallback to a qualified winner, which stays in cash.
* Two instances of the same command over one database: the console's lock keeps
  them apart; a shell does not.
* Command-line parsing and configuration.
