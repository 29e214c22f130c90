# PyEA in TLA+

PyEA (`src/`) is an algorithmic trading program: a FastAPI server that attaches
to one broker (MetaTrader 5 or Interactive Brokers), feeds the broker's ticks to
one engine, lets a strategy and a risk manager turn ticks into orders, keeps a
journal in SQLite, and trains the strategies' models in a background thread.
The modules here model the parts of it where order of events matters, the
configurations check them on small instances with TLC, and the proof modules
hold theorems checked by TLAPS.

File names are relative to `src/pyea/` unless they start with `src/`.

## 1. The system

Everything runs in one asyncio event loop, except: calls to the MetaTrader
terminal and writes of the journal (threads of the default executor, awaited),
the synchronous backtest route (the server's thread pool) and the training
thread.  A coroutine is interrupted only where it awaits, so the modules take
the code between two awaits as one step, and a thread as a step of its own.

| Component | State | Operations | Talks to |
|---|---|---|---|
| Live engine, `live/live_engine.py` | strategies, `_inflight`, `_day_start` | `start`, `stop`, `process_tick`, `on_execution` | bus (ticks), gateway (positions, account, orders), risk manager, journal, daily reference |
| Risk manager, `risk/risk_manager.py` | none | `evaluate` | called by the engine |
| Daily reference, `storage/storage_daily_equity.py` | table `daily_equity` | `day_start_equity` | called by the engine in a thread |
| Trading switches, `storage/storage_trading_state.py` | table, cache | `is_trading_enabled`, `set_trading_enabled` | engine, API |
| Journal, `storage/storage_trades.py` | table `trades` | `record_trade` | `on_execution`, in a thread |
| Live runtime, `live/live_runtime.py` | `_engine`, `_feed`, `_running` | `start`, `stop` | API requests, gateway, feed, bus |
| Market feed, `data/data_market_feed.py` | `_symbols` | `start`, `stop`, `_relay` | gateway (subscriptions), bus |
| Event bus, `core/core_events.py` | subscribers | `subscribe`, `unsubscribe`, `publish` | engine, web sockets |
| Broker runtime, `brokers/broker_runtime.py` | active gateway | `select`, `connect`, `disconnect` | API |
| MetaTrader gateway, `brokers/broker_metatrader.py` | session, `_md`, `_deals_task`, `_seen_deals` | connection, positions, orders, price and deal polling | terminal |
| Interactive Brokers gateway, `brokers/broker_interactive_brokers.py` | session, `_md`, `_reported` | connection, positions, orders, status callbacks, tickers | TWS |
| Trainings, `api/api_training.py`, `training/` | jobs, table `training_runs`, model files | start, cancel, delete, the walk-forward thread | SQLite, disk |
| Choice of the live model, `live/live_models.py` | none | `resolve_live_model` | runs table, disk |
| Candles, `live/live_candles.py`, and the buffer of a strategy, `strategies/strategy_couleuvre_v0_1.py` | candle in progress, last candles | `add`, `_append_candle` | engine (ticks), strategies |
| Downloader, `data/data_history_downloader.py` | a Parquet file per symbol and year | `download_history`, `load_history` | the source, a process of its own; trainings, backtests and warm-up read the files |
| Walk-forward, `training/training_walkforward.py` | none | `split_walkforward`, `_split_frames`, `run_walkforward` | trainings |
| Backtest, `backtest/backtest_engine.py` | the bridge: entry, exit to come, trades, refusals | `next`, `notify_order`, `notify_trade` | `src/lib/backtrader` (bars, broker, trades), strategy, risk manager; web requests and trainings run it |
| Labels, `strategies/strategy_couleuvre_labeling.py` | none | `triple_barrier_labels` | trainings |
| Web API, pages, web sockets, dashboard | | | |

What makes each correct, and what makes it hard:

- **Live engine.**  Between the decision and the registration of its order a
  tick awaits four times.  Reports arrive early, late or never; the terminal may
  take an order and answer with an error; an order without report is given up
  after a minute; a restart forgets the registry.  A symbol must not have two
  orders in flight, the registry must forget none and block no pair for ever, the
  caps must hold, the day's loss must be measured against one reference, and the
  journal must hold the executions and nothing else.
- **Live runtime, feed, gateways.**  `start` and `stop` are interrupted between
  the reading and the writing of `_running`; connections are lost without
  notice; streams outlive sessions; a start may raise halfway, and the request
  that asked for it only logs it.  Engine, feed, bus, callback and streams must
  agree, and no price be relayed twice or not at all.
- **Deal polling.**  The poller is cancelled while a thread it started still
  writes; gateway objects come and go while the deals stay in the terminal.  A
  deal must be journalled once, and in the end.
- **Trainings.**  A thread works against cancellations, deletions, failing
  writes and crashes.  Row, job, thread and files must agree; the model of a
  symbol changes only by a completed run or a deletion.
- **Ticks, candles, switches.**  A task started for a tick runs later than the
  tick; in between the pair is disarmed, the engine stops or the broker leaves.
  Candles end only when a later tick comes, history and live candles meet in one
  bucket, and the switch is cached beside its table.  A candle must be its ticks,
  the buffer in order, each candle decided on once, each decision licensed.
- **Backtest.**  Barriers, the signal of the bar and the close of the week may
  meet on one bar, and the orders of a bar are executed at the next one, in
  order, by a broker that refuses some.  Money must add up, no barrier outlive
  its position, no position its week, and the recorded trades be the real ones.
- **Labels.**  What the model learns must be what the backtest would earn.
- **Downloader and walk-forward.**  A year is requested day by day; requests fail,
  the script is interrupted, the year ends.  Files must have no holes; folds must
  not learn from their future and must test each bar once.

`PROJECT.json` lists every component with its status, and the hazards of the
code at their lines.

## 2. The modules

| Module | Models | State and actions |
|---|---|---|
| `RiskManager` | `risk_manager.py`, the values of `core_domain.py` | operators only: `Evaluate` is `evaluate`, with `DailyLossReached` and `PositionRoom` |
| `LiveEngine` | `live_engine.py` with the gateway, the reference, the switches, the journal, the broker and the clock around it | `lane[<<symbol, worker>>]` is an activation of `process_tick` and its local variables: `Begin`, `CheckInflight`, `ReadPositions`, `ReadSummary`, `SelectReference`, `InsertReference`, `Submit`, `PlaceFails`, `Register` are its steps from await to await. `OnExecution`, `RecordTrade`, `RecordFails` close the loop. `Execute`, `Kill`, `StopOut`, `LoseReport`, `Age`, `Midnight`, `Arm`, `Disarm`, `Outage`, `Reconnect`, `Probe`, `Restart` are the world: `online` is whether the broker answers, `connected` what `is_connected` last said of it |
| `OrderSlots` | what the in-flight registry promises, nothing more | each symbol is a slot with at most one live order; `Submit`, `SubmitUnknown`, `Release` |
| `LiveRuntime` | `live_runtime.py`, `data_market_feed.py`, connect and disconnect of `api_rest.py`, subscriptions and sessions of both gateways | `request[r]` is where an HTTP request is suspended; `Connect`, `Attach`, `Start`, `StartRaises`, `Subscribe`, `Disconnect`, `StopSymbol`, `Detach` and so on are its steps; `Lose`, `Recover`, `StreamEnds` are the broker |
| `DealPolling` | the deal poller of `broker_metatrader.py`, with `BrokerRuntime.select` and restarts | `gateway[g]` is a gateway object with its task; `Poll`, `HandOver`, `Resume` are a round of the poller, `RecordTrade` its thread |
| `TrainingJobs` | `api_training.py`, `training_jobs.py`, the loop of `training_walkforward.py`, `storage_training_runs.py`, `live_models.py` | `job[r].at` is where the thread is; `Start`, `Cancel`, `DeleteRow`, `RemoveFiles`, `RemoveRaises`, `Crash` are the requests and the server |
| `Candles` | `CandleAggregator.add`, `_append_candle` | operators: a candle is the sequence of its ticks; `Kept` filters a sequence |
| `LiveData` | `core_events.py`, `_relay`, the head of `process_tick`, `storage_trading_state.py`, `on_tick` and the warm-up of a strategy, with connections and restarts | `tasks` are the handlers `publish` started, `strategies[g]` the candle and buffer of engine g, `table` and `cache` the switch; `Tick` publishes, `Handle` runs a task up to the decision, `SetTrading` is the switch, `Connect`, `StopFeed`, `StopEngine`, `Outage`, `Recover`, `Restart` the rest |
| `BackBroker` | what the backtest uses of backtrader's broker, positions, commissions and orders | `cash`, `position`, `submitted`, `pending`; `CheckSubmitted` is `check_submitted`, `TryOrder` one turn of the loop of `next` with `_try_exec` and `_execute` |
| `TripleBarrier` | `triple_barrier_labels` | `Scan` is one bar of the window |
| `StrategyBridge` | `backtest_engine.py` over the bars of a history, with backtrader's notifications and trades | `phase` is what comes next in a bar: `Advance` (feed), `Broker`, `Pass` (orders), `Notify` (`_notify`, with `AddNotification`, `NotifyOrder`, `NotifyTrade`), `NextBar` (`next`), `Phantom` |
| `HistoryDownload` | `data_history_downloader.py` | `script` is where the script is, `files[s][y]` a Parquet file; `Launch`, `Skip`, `DownloadYear`, `Answer`, `Retry`, `GiveUp`, `OpenFile`, `CloseFile`, `Crash`, `DeleteFile` |
| `WalkForward` | `split_walkforward`, `_split_frames` | operators: `Pool` and `Trimmed` choose symbols and range, `SplitFrames` cuts, `LabelWindow` is what the label of a bar reads |
| `Offline` | the target of `start_training` up to the folds, beside the script | `job`: `Request`, `Load` (a symbol at a time), `Split`, `Finish` |
| `LiveEngineProofs`, `LiveEngineSlots`, `LiveRuntimeProofs`, `DealPollingProofs`, `TrainingJobsProofs`, `OfflineProofs`, `LiveDataProofs`, `StrategyBridgeProofs` | | theorems, section 4 |
| `MC...` | | instances for TLC |

Composition: `LiveEngine` uses the operators of `RiskManager` and instantiates
`OrderSlots` (`Slots`, with `live` and `used` mapped to the live orders of each
symbol and the ids handed out).  `LiveRuntime`, `DealPolling` and
`TrainingJobs` are separate: they share with the engine the callback
(`LiveRuntime.callback`, `DealPolling.gateway[g].wired`) and the journal.
`LiveData` is what comes before `LiveEngine`: its decision is the action with
which `LiveEngine.Begin` starts.  `StrategyBridge` extends `BackBroker` with the
same `RiskManager` as the engine and with `TripleBarrier`, so that engine and
backtest are limited by one text, and label and trade are compared.  `Offline`
extends `HistoryDownload` and `WalkForward`: script and training share the files.

Variables marked "history" (`placed`, `reported`, `untracked`, `halted`,
`misread`, `lost`, `broken`, `cut`, `overlapped`, `taken`, `decided`, `latest`, `late`,
`weekStart`, `label`, and the `asOf` of a file) are read by properties only and by no guard.  A line marked
"mutant" is a plausible mistake in the definition below it; no behaviour uses it.

Abstractions worth knowing:

- A strategy's decision is any action; a signal that is not HOLD starts an
  activation.  Prices, barriers, order types and quantities other than the fixed
  size of the configuration are left out.
- MetaTrader awaits the handling of a tick before it polls the next one of that
  symbol (`_poll_ticks`), so it is one lane per symbol.  Interactive Brokers
  schedules a task per tick (`_schedule`), so it is two.
- The minute after which an order is given up is a flag of the registry's entry
  (`aged`), raised by `Age`.
- `LocalName` is how the gateway names a symbol in positions and reports.
- MetaTrader's `is_connected` answers from a probe that is two seconds old at
  most: in `LiveEngine` the answer and the terminal may differ until `Probe`.
  `LiveRuntime` does not change the broker, and reads `is_connected` without that
  cache.  In `DealPolling` only PyEA's own deals exist and time counts minutes.  In `TrainingJobs` there is one strategy.
- `LiveData` follows one symbol with a model; connecting and disconnecting are
  one or two steps there (`LiveRuntime` has the others).
- In `BackBroker` prices and sizes are integers and cash counts in units of
  1/`Leverage`, so that nothing is rounded.  The history is chosen bar by bar, so
  every history of the given length and prices is checked.
- A file is the set of the days it holds, a frame the set of the moments it has a
  bar at.  The labels' horizon is counted in bars.

## 3. The runs

| Run | Shows | Bounds |
|---|---|---|
| `LiveEngineMT` | `OneLiveOrder`, `NoForgottenOrder`, `SlotInv`, `SymbolCap`, the refinement of `OrderSlots` | MetaTrader, 1 symbol, 3 orders, a cap of one position; outages, lost answers, lost reports, restarts, stops; a terminal that is down reads as no position |
| `LiveEngineIB` | `JournalIsReal`, `OneReference` | 1 symbol, 2 ticks in progress, 1 order, 2 days, 2 values of the equity on both sides of the loss limit; failing writes, restarts |
| `LiveEngineLive` | `PairUnfrozen`, `ExecutionsJournalled` | MetaTrader, 2 orders, under fairness; disarming, outages, failing reads, lost reports (an execution whose report is lost is left aside), stops |
| `LiveRuntime` | `NothingRunsDetached`, `TerminalFlowAlive`, `OneStream` as long as no two requests have overlapped | both gateways, 2 instruments, 2 requests in progress, 3 starts, 3 sessions |
| `DealPolling` | `OncePerGateway`, `PollerAtWork` | 2 deals, 2 gateway objects, 2 minutes; outages, disconnections, changes of broker, restarts, failing writes |
| `DealPollingLive` | `DealsJournalled` | 2 deals, 3 minutes (the shortest time in which a deal falls before a horizon), 1 gateway object, under fairness |
| `TrainingJobs` | `RowHasJob`, `VerdictEarned`, `ServedWasKept`, `NoOrphanFiles`, `ModelKept`, `RunsEnd` | 3 assets (a pooled run may drop one and keep the two it needs), 2 runs, 1 fold, under fairness; failing trainings, failing writes, files that cannot be removed, crashes |
| `LiveData` | `CandlesHoldTheirTicks`, `BufferInOrder`, `OneDecisionPerCandle`, `DecisionsAreLicensed` | both gateways, 3 buckets, 4 ticks, 2 engines, a buffer of 2; late ticks, failing writes, outages, restarts |
| `Backtest` | `MoneyConserved`, `BarriersGuardPosition`, `CarriedOnlyFromTheLastBar`, `TradeIsExplained`, `LabelIsOutcome`, `NoSilentEntry` | every history of 4 bars over 4 prices with any ends of weeks, 2 distances of the barriers, a leverage of 2, a cost of 1, a capital that allows a first entry and not always a second |
| `Offline` | `NoHoles`, `NothingFromTheFuture`, `LabelsAreWhole`, `TestedOnce` | 3 symbols, 2 years of 3 days, 5 worlds of coverages, 2 launches, 2 faults, 1 retry, 2 folds, labels that look 2 bars ahead |
| `LiveEngineDoubleOrder`, `LiveDataStale` | a counterexample each, see section 5 | the smallest that shows it |

Why the bounds are enough.  The registry looks at one symbol, and the guards of
a symbol's lane read nothing of another's except the positions, which only the
account's cap counts; three orders let one be given up while another is
registered and a third decided.  Two activations are what an overlap needs; a
third adds no reading the first two do not do.  The reference needs a midnight
and two equities.  A stream, a request and a session interact through `md`, one
entry per symbol, and the second start is the first that finds something left
behind; the third starts from what the second left.  A deal poller abandoned
with its thread and a second one on the same deals are two objects and two
deals.  Two trainings are the first that succeed each other, one older and one
newer.  A candle, the one before and the one after are three buckets, and a
fourth tick lets one of them have two; two engines are a connection and the next.
In four bars an entry, a barrier or a week's end, a second entry and the last bar
follow each other, and four prices let a bar gap over a barrier, reach both or
none; the risk manager's one position makes longer histories a sequence of these.
Two years of three days have a year in progress with days behind and before it;
of the five worlds one gives all symbols the same range, two force the pool to
drop one, one has gaps on the boundaries of the folds, and one a range so short
that the remainder of the division shows.  Runs state `CHECK_DEADLOCK FALSE` where the bound on orders, starts,
deals or runs makes the model stop, or where a server at rest is normal.

Fairness.  `LiveEngine.FairSpec`: the activations in progress go on (the event
loop runs every ready coroutine, the terminal's calls return), time passes
(`Age`), a report at the gateway is handled, a thread ends, and the broker
executes a market order it took.  Ticks, arming, outages and stops are not fair.
`DealPolling.FairSpec`: a sleeping poller wakes, an answer and a thread come
back; the terminal owes nothing, so `DealsJournalled` has `<>[]alive` as its
hypothesis.  `TrainingJobs.FairSpec`: a thread goes on until it ends or the
server dies.  The other modules have none: they have safety properties only, and
`StrategyBridge` ends in a state that `Finished` repeats, so that a backtest that
stopped before its last bar would be a deadlock.

## 4. The proofs

Each theorem holds for every value of the constants that the named ASSUME of
its modules allows; a further hypothesis is stated in the theorem and named
here.  TLC checked every inductive invariant on the run of its module before it
was proved.

| Module | Proves | Inductive invariant |
|---|---|---|
| `LiveEngineProofs` | `TypeCorrect`, `OneReferenceHolds`, `JournalIsRealHolds` | `TypeOK`; `ReferenceInv`; `JournalInv` |
| `LiveEngineSlots` | with one lane per symbol: `SlotInvariant`, `OneLiveOrderHolds`, `NoForgottenOrderHolds`, `EngineImplementsSlots` | `SlotInv` |
| the same | with two more hypotheses: `SymbolCapHolds` | `CapInv` |
| `LiveRuntimeProofs` | `TypeCorrect`, `NothingRunsDetachedHolds`, `TerminalFlowAliveHolds`, `OneStreamHolds` | `Resolving` with `TypeOK`; `RuntimeInv` |
| `DealPollingProofs` | `TypeCorrect`, `OncePerGatewayHolds`; without overlapping connections `PollerAtWorkHolds` | `Untouched`, `RowsAreSeen`; `PollersHaveSessions` |
| `TrainingJobsProofs` | `TypeCorrect`, `RowHasJobHolds`, `VerdictEarnedHolds`, `NoOrphanFilesHolds`, `ServedWasKeptHolds`, `ModelKeptHolds` | `FoldInRange` with `TypeOK`; `RunsInv` |
| `OfflineProofs` | `FoldsInOrder`, `FoldsCoverOnce` of the operators; `NoHolesHolds`, `NothingFromTheFutureHolds`, `TestedOnceHolds` | `Downloading`; `Cut` |
| `LiveDataProofs` | `TypeCorrect`, `BufferInOrderHolds`, `OneDecisionPerCandleHolds`, `CandlesHoldTheirTicksHolds`; when a committed row can be read again `DecisionsAreLicensedHolds` | `Linked`, `InOrder`; `CacheTrue` |
| `StrategyBridgeProofs` | `TypeCorrect`, `NoSilentEntryHolds`; one position at a time: `QuietShape`, `MoneyConservedHolds`, `BarriersGuardPositionHolds`, `CarriedOnlyFromTheLastBarHolds`, `TradeIsExplainedHolds`; when every entry has barriers `LabelIsOutcomeHolds` | `BarKnown` with `TypeOK`, `TraceInv`; `QuietInv` |

**The reference of the day** (any number of ticks in progress).  That a decision
used the reference of its day is not inductive: an activation read the equity,
or the row, some awaits ago.  `ReferenceInv` says what it knows: before the
insertion the equity it holds was read, and not zero; when it decides, and when
the engine remembers a start, that start is the row.  The rest is
`WrittenOnce`: `InsertReference` is the only writer, and finds no row.

**The journal.**  `JournalInv` adds to `JournalIsReal` the reports that are still at
the gateway: FILLED means that the broker executed the order.

**The registry** (`Workers = {w}`: MetaTrader).  `OneLiveOrder` does not say that
a lane past the in-flight check has found its slot empty, nor that the ids the
broker will hand out are new.  `SlotInv` adds both:

- `IdsBelowNext`: every id in the system is below the next one;
- `LaneOwnsSlot`: while its lane decides, a symbol has no live order; once the
  order is placed the only live one is the lane's ticket; at rest or before the
  check the only one is the registered one.

A step that neither places an order nor moves an activation past the check only
shrinks the live orders, one lemma (`OnlyAcceptPlaces` and its companions) for
all of those.  The refinement takes each step to `Submit`, `SubmitUnknown`,
`Release` or a stutter of `OrderSlots`.  With two lanes it is false
(`LiveEngineDoubleOrder`).

**The cap of a symbol.**  `CapInv` strengthens `SymbolCap`: on a symbol of which
the engine has lost track of no order and misread no position, the net position
is within one order, an order at the broker opens it or closes it whole (`OneOrder`), and what a lane
has read of the positions is still what there is, but for a stop that closed
them (`LaneFits`).  `WorkingUnreported` says that no order still at the broker
has a report, so that a report never frees a slot too early.  `SlotInv` does the
rest: while a lane decides no order of the symbol is live.  Each hypothesis has
its counterexample: one lane per symbol (`LiveEngineDoubleOrder`), and in
section 5 the names of the broker and a cap of two.  What a failed read hides is
left aside by the property itself: a terminal that answers nothing, and answers
again when the order is sent, breaks the cap (`NoPileUp`, section 5).

**The runtime.**  `RuntimeInv` speaks as long as no two requests have overlapped,
which is what its properties suppose (section 5 has what happens otherwise).
`Alone`: at most one request is in progress.  `Stages`: what that request
finds at each of its stages.  `Assembly`: engine, feed, listeners and callback
are all there while the runtime runs and all gone when it does not, but for
the request that builds or removes them, and for the engine of a start that
raised, which `_engine` keeps and which hears nothing.  `FedHeld`: on MetaTrader a symbol of
the feed is subscribed at the gateway.  `Noted`: a stream that delivers is the
one its gateway notes, in the session it was opened in, so two of a symbol are
one.  `Resolving`, with the types: a request that waits for a contract is on an
instrument.

**The poller.**  `Untouched`: gateway objects to come are fresh.  `RowsAreSeen`: a
deal with a row, or with a thread writing one, is among those its gateway has
seen, unless that gateway died with a server and polls no more; a deal being
written has no row yet.  A second round reads the same set, so a round that was
cancelled and its late thread change nothing.  `PollersHaveSessions`: a
poller has a session until it is cancelled, and a session a poller but while it
is opened or closed.  `PollerAtWork` supposes that no connection overlaps a
disconnection (section 5).

**The trainings.**  `RunInv(r)` relates the copies of what a run is: the job and the
row (`RowAndJob`, a failed write being the exception), the verdict in the row
and the one the thread earned (`Earned`), the files and the row, or the deletion
in progress (`Owned`; a deletion that stopped halfway is in `cut`), the assets a
thread kept, those its models learned from and those its report and its row name
(`Seen`).  That a model learned from *every* asset its run kept is not true
(`ServedHasSeen`, section 5): `ServedWasKept` is what remains.  `ModelKept` is an action
property: the model of a symbol is read off the completed rows and their reports,
a step that neither completes nor deletes a run changes neither, and one that does
moves a symbol to the run it completes, or from the run it deletes, and to or
from no other.

**The downloader and the folds.**  `Downloading` says what the script has in hand
between two awaits: every published day of the year it no longer waits for.
`FoldsInOrder` and `FoldsCoverOnce` are about `SplitFrames`, on any frames with
any number of folds: a moment lies in a part of a fold as its position in the
timeline lies between two bounds, and the bounds of the folds follow each other.
`Cut` says that the folds of a training are those `SplitFrames` cuts
from its frames; the two properties follow.  `LabelsAreWhole` needs bounds of the
range the pool shares, which `Pool` computes by recursion on the symbols, so it
is only model-checked.

**The path of a tick.**  `Linked`: tasks and handlers belong to engines that were
built, only the latest engine has a strategy, only no candle starts at no
bucket.  `InOrder` speaks as long as no tick has come late (section 5):
`MarketInOrder` and `TasksInOrder` (what was published and what waits),
`Buffered` (the buffer is in order and passes neither the candle in progress
nor a tick that waits), `InProgress` (nor does the candle), `Holds` (each candle
holds what was taken of its bucket) and `Decided` (a bucket decided on is behind
the candle and behind every tick that waits, so it is not decided on again).
`CacheTrue` is that the cached switch is the row; a committed row that cannot be
read again breaks it (`"lostRefresh"`, section 5).

**The backtest.**  The five properties speak of a backtest in which no order has
been refused so far (`Quiet`).  `QuietBefore` lets the induction go backwards:
a step that ends quiet began quiet, since a refusal is notified and every
notification counted.  Then `Shape` lists what orders, position, trade and cash
can be together.  Between two bars (`Between`): nothing; an entry and its barriers
submitted; a position with its two barriers pending; a position whose close is
submitted.  Within a bar (`Passing`), from one order to the next: the entry
filled, the stop or the limit tried and not reached, and `Over(price)`, a position
that closed at a price the bridge has not heard of yet.  Each shape says what the
cash is (`HeldCash`, `LeftCash`), so that `RoundTrip` gives the money: opening at
one price and closing at another leaves the difference less two commissions,
whatever the leverage.  `LabelFits` follows the scan of the label beside the
orders of the same bar; `StopOutcome` and `LimitOutcome` compare what a barrier is
filled at with what the scan answers.  The two name the same barrier but for a
short on a bar that reaches both, of which `LabelIsOutcome` says what happens: the
label is 0 and the account loses (`LabelIsObtained`, section 5).  The bridge derives the
exit price of a barrier from the result, so what `TradeIsExplained` says of it is
that the bar traded there (`Traded`); of a forced exit it compares two prices that
were noted apart.  `InTime` is that a position that a week's
end finds was entered on its last bar.  The hypothesis `OneAtATime` is one
position per symbol or per account, which `config.yaml` ships, and a strategy
that does not exit on the bar that closes a week.  Without the second the close
is doubled (section 5).  Without the first the risk manager, which counts a netted
position as one, lets a second entry through, which the bridge takes as the close
of the first (`_apply_order`): decided on the bar that closes a week it is doubled
as an EXIT is, and with both caps at two and `InitialCapital = 40` TLC shows
`TradeIsExplained` and `CarriedOnlyFromTheLastBar` violated.  `LabelIsOutcomeHolds` supposes barriers on
every entry, as the run does: a position without them has no barrier to end at.

`NoSilentEntry` needs none of that and holds after any refusal, with orders of an
entry that was refused still about.  `TraceInv` follows one order: `Underway`, the
market order of an entry is in a queue of the broker until it was answered, since
nothing cancels an order without a group (`SiblingsSpare`) and the check of the
cash refuses it aloud (`CheckSpares`); `Follows`, the trade the strategy is to be
told of has the size of the position, fill by fill, so that an entry that was
filled and holds nothing has closed a trade; `Dated`, that trade was not the
latest one before.

The assumptions on constants are what the code gives: limits and sizes that the
configuration requires to be positive, finite lists of symbols, a list of
instruments without repetition.  The library's induction takes an operator as
its parameter, which these provers do not instantiate; where an induction over
naturals is needed it is replaced by a least counterexample (`FromZeroUp`,
from `WFMin` of `WellFoundedInduction`).  What a proof says of a
queue is said of recursive functions: `Kept` of `Candles` is a filter that
unfolds to its last element, `Fold` of `BackBroker` works a queue off from its
head (`FoldSteps`, `FoldType`); `SelectSeq` and `FoldLeft` unfold to nothing the
provers can use.

Only model-checked is liveness: `PairUnfrozen`, `ExecutionsJournalled`,
`DealsJournalled`, `RunsEnd`.  ENABLED and fairness are outside what TLAPS proves
here.  Every invariant and every action property of the passing runs has its theorem,
under the hypotheses the table names, but `LabelsAreWhole`.  The type invariant of
`DealPolling` is proved and in no run; the others are both.

## 5. Where the code and its texts disagree

Two have a run.  In the others the property is defined in the module and a
configuration with the constants named here violates it.

| The text | What happens | How to see it |
|---|---|---|
| "tant qu'un ordre n'a pas reçu son compte rendu, aucun autre ordre n'est soumis sur ce symbole" (`live_engine.py:27`) | Two ticks of a symbol on Interactive Brokers pass the check before either registers | run `LiveEngineDoubleOrder` |
| "`max_open_positions` borne l'exposition totale" (`risk_manager.py:110`) | Two symbols decide on the same positions | `LiveEngine`: `AccountCap`, 2 symbols, `MaxOpenPositions = 1`, no fault |
| "Démarre le flux live (idempotent)" (`live_runtime.py:144`) | Two connect requests build two engines on the bus | `LiveRuntime`: `OneEngine`, two requests, Interactive Brokers |
| "Démarrage du flux live […] : la connexion vient de réussir" (`api_rest.py:128`) | After a loss of TWS, connecting again starts nothing | `LiveRuntime`: `FlowAlive`, one request, Interactive Brokers, `MaxSessions = 2` |
| "`max_positions_per_symbol` évite d'empiler des entrées sur la même paire" (`risk_manager.py:109`) | The terminal is down when the positions are read, which reads as no position, and answers again before `place_order` asks `is_connected`: an entry goes out on top of the one that was not seen | `LiveEngine`: `NoPileUp`, MetaTrader, `Faults = {"outage"}` |
| the same | Positions are reported as EUR.USD, signals say EURUSD | `LiveEngine`: `SymbolCap`, Interactive Brokers, one worker, `LocalName <- BrokerName`, `MaxOpenPositions = 2` |
| the same | Entries that were netted are one position, so a cap of two or more stops none | `LiveEngine`: `SymbolCap`, MetaTrader, `MaxPositionsPerSymbol = MaxOpenPositions = 2`, no fault |
| "Le registre se vide sur `ExecutionReport`" (`live_engine.py:28`) | The report says EUR.USD and frees nothing | `LiveEngine`: `ReportFrees`, same constants |
| "plus aucune entrée aujourd'hui" (`risk_manager.py:150`) | The limit is not latched | `LiveEngine`: `NoEntryAfterLoss`, `Equities = {97, 100}` |
| "rien ne trade sans les trois feux verts" (`live_engine.py:144`) | They are read before the awaits | `LiveEngine`: `GreenLights`, `Faults = {"disarm"}` |
| "Le flux n'a de sens que broker connecté" (`live_runtime.py:6`) | A disconnect request overtakes a start, which then runs detached | `LiveRuntime`: `NothingRunsDetached` without its exception, two requests |
| "déjà journalisées" (`broker_metatrader.py:457`) | A restart within a minute journals a deal twice | `DealPolling`: `JournalOnce`, `Faults = {"restart"}` |
| "ceux […] qu'on n'a pas encore vus" (`broker_metatrader.py:432`) | A deal polled with no engine wired is seen and dropped | `DealPolling`: `SeenIsReported` |
| "On relit donc périodiquement l'historique des deals" (`broker_metatrader.py:432`) | A connect inside a disconnect leaves a finished poller in `_deals_task` | `DealPolling`: `PollerAtWork`, `Faults = {"disconnect", "overlap"}` |
| "409 s'il est encore « running » […] annuler l'entraînement d'abord" (`api_training.py:258`) | A `finish_run` that raises leaves a row that can be neither cancelled nor deleted | `TrainingJobs`: `RowHasJob` without its exception, `Faults = {"lostWrite"}` |
| "ligne SQL + artefacts disque" (`api_training.py:256`) | A crash between the two leaves files; so does `shutil.rmtree` (`:278`) when it raises, and the request repeated answers 404 | `TrainingJobs`: `NoOrphanFiles` without its exception, `Faults = {"crash"}` or `{"stuckFiles"}` |
| "Un modèle mutualisé ne couvre que les actifs qu'il a vus" (`live_models.py:50`) | The assets a run keeps include those of the test blocks alone, from which no fold learns | `TrainingJobs`: `ServedHasSeen`, 2 assets, 1 run, no fault |
| "la décision se prend juste après la clôture" (`live_candles.py:12`) | A pair that was stopped decides on a candle that closed before, without its last ticks | run `LiveDataStale` |
| "La bougie retournée est complète (aucun tick futur ne la modifiera)" (`live_candles.py:71`) | A late tick closes the candle in progress and opens the old bucket again | `LiveData`: `OneDecisionPerCandle` and `BufferInOrder` without `~late`, `Faults = {"late"}` |
| "Le cache mémoire ne doit jamais mentir sur ce qui est persisté" (`src/tests/storage/test_storage_trading_state.py:44`) | The row is read again after the commit; when that fails the table has changed and the cache has not | `LiveData`: `DecisionsAreLicensed`, `Faults = {"lostRefresh"}` |
| "C'est exactement la convention du moteur d'exécution […] la cible doit décrire ce que PyEA obtiendra vraiment" (`strategy_couleuvre_labeling.py:17`), "la convention du moteur d'exécution (stop prioritaire)" (`src/tests/strategies/test_strategy_couleuvre_labeling.py:89`) | On a bar that reaches both barriers the label is 0, a short's win, and the short is stopped out | `StrategyBridge`: `LabelIsObtained`, the constants of `Backtest` |
| "on remet à zéro l'état d'entrée" (`backtest_engine.py:199`) | The entry is refused, its barriers are accepted: one of them opens a position the bridge does not know and never closes | `StrategyBridge`: `HeldIsEntered`, `InitialCapital = 5`, `Leverage = 1` |
| "pas de double clôture" (`backtest_engine.py:116`) | An EXIT on the bar that closes a week closes twice: the second close opens the opposite position | `StrategyBridge`: `CarriedOnlyFromTheLastBar`, `ClosingBarExits = TRUE` |
| "jamais de portage week-end, position résiduelle liquidée" (`backtest_engine.py:20`, `src/docs/strategie_couleuvre.md:22`) | A position entered on the last bar of a week is carried over; one entered on the very last bar is never closed | `StrategyBridge`: `FlatOverWeekend`, `InitialCapital = 20`; its second half is the last conjunct of `CarriedOnlyFromTheLastBar` |
| "une année déjà présente sur disque est sautée […] ; l'année en cours est toujours re-téléchargée" (`data_history_downloader.py:269`), "relancer le script ne reprendra que les années manquantes" (`:309`) | A year fetched while in progress is on the disk, incomplete, and from the next year on it is skipped; so is a file cut short by an interruption | `HistoryDownload`: `SkippedIsWhole`, the constants of `Offline` |
| "on l'écarte plutôt que de sacrifier tout le run" (`training_walkforward.py:124`) | Symbols are put aside one at a time, and two that share a range may both go | `Offline`: `PoolWhenPossible`, 4 symbols covering `<<{1,2}, {1,2}, {3,4}, {5,6}>>`, `Dates = {7}`, one fold |

Met while modelling, without a property: when `engine.start` raises
(`live_runtime.py:163`) the connect request answers success (`api_rest.py:131`) with
nothing running, and only asking again starts it; the stop of a short trade is refused
when its own take-profit was refused, for the two share a group; a signal to
enter while a position is open closes it when `max_positions_per_symbol` is two
or more; on Interactive Brokers an order filled in part and then cancelled is
reported CANCELLED and leaves no row in the journal.

## 6. Plan

1. Done: the order path (`RiskManager`, `LiveEngine`, `OrderSlots` and their
   proofs), the runtime and the feed, the deal poller, the trainings, the path of
   a tick (`Candles`, `LiveData`), the backtest (`BackBroker`, `TripleBarrier`,
   `StrategyBridge`), the history (`HistoryDownload`, `WalkForward`, `Offline`).
2. Could follow: `BrokerRuntime.select` in `LiveRuntime`, which makes the gateway an
   object; partial fills and repeated statuses of Interactive Brokers; the model of
   a run deleted while a backtest loads it.
3. Proofs that could follow: what else remains true of a backtest after a refusal.

## 7. Not modelled

- The models themselves (LightGBM on floating-point features): a strategy's
  decision is any action.
- The equity curve and the statistics of a backtest: floating-point sums of what
  the trades and `AccountValue` give.
- Of the vendored backtrader, all that this program never calls, which is most
  of it: live stores (`ibstore.py`, `oandastore.py`), resampling, indicators,
  plotting, optimisation, the order types other than Market, Stop and Limit.
  `src/lib/backtrader` holds four fifths of the lines of the implementation, so the
  share of the lines that the modules stand for stays small although the program's
  own code in `pyea/` is covered component by component.
- Pages and dashboard (they display what the API answers), credentials, logging,
  the reading of the configuration.
