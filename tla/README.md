# A specification of vespyr

vespyr trades crypto-currencies on GDAX: importers fill a table of one-minute
candlesticks, and a bot per product runs the trading strategies whose tick has
come. These TLA+ modules model that program (`src/pkg/vespyr`); TLC checks them on
small instances and TLAPS proves the main results for all.

File names below are relative to `src/pkg/vespyr`.

## 1. Inventory

Processes: `vespyr bot` (cli.go:77-108, three Bots for BTC, ETH and LTC in one
process), `vespyr realtime-import` (one importer per product), and the commands one
runs by hand: `import`, `optimize-strategy`, `backtest-*`, `create-*`, `migrate` and
`rollback`. They share nothing but the Postgres database and the exchange account.

| component | state | operations | talks to | hard parts | correct when |
|---|---|---|---|---|---|
| Bot (bot.go) | currentCandlestick, models and services of a tick | poll, initialize, process due strategies, reschedule | database, TradingStrategy | every call can fail; retry of a candlestick; crash between two writes | each due strategy acts once per tick; memory agrees with the rows |
| TradingStrategy (strategy.go) | indicator sets; the row's State, Budget, Invested | SeedIndicators, TryBuy, TrySell | order strategy, database | two writes of one sale; truncation | trades alternate, whole positions, no money that is not there, stops at .7 of the budget |
| MarketOrderStrategy (order_strategies.go) | market_orders rows | PerformOrder | exchange, database | order placed, row not | every order has a row |
| GDAX client (gdax.go) | none (orders live at GDAX) | CreateMarketOrder with polling, that of FakeGDAXExchange, GetMessageChan, GetCandlesticks | GDAX | polling gives up; reply lost; done before settled; the feed closes | one order at most, an answer only when it is final, and always a return |
| Realtime importer (realtime_importer.go) | map of candlestick builders | ProcessExchangeMessage, Flush | exchange stream, database | two goroutines, reads outside the mutex | no trade is lost, stored candlesticks are final |
| Backend (backend.go, models.go) | the tables | upsert, find, update | Postgres | whole-row updates | last writer holds the newest model |
| Candlesticks (candlesticks.go) | builder | bucket, reproject, build | - | partial periods, zero as "unset" | projection equals direct building |
| Strategies (ema_crossover, rsi, s1) | parameters | Buy, Sell, genetic operators | indicator sets | values not there yet | decide or say data is missing |
| Indicators (ema, macd, rsi) | running sums | AddCandlestick, Value | - | warm-up counts, period 0 | as their definitions |
| Kraken stream (kraken.go) | lastID | StreamCandlesticks | Kraken | errors between pages | no candlestick skipped |
| Historical importer | channel, workers | Import | exchange, database | retries, dropped batches, stale data | the range is stored |
| Backtester, results | replay position | Backtest | cached database | diverges from the bot | trades as the bot would |
| Caching backend (cacheing_backend.go) | map of answers | FindCandlesticks | database | look-up outside the lock, errors cached | all later backtests see one answer |
| Optimizer (optimization.go, optimize-strategy) | populations of genomes, the best | Generate, Evaluate, Crossover, Mutate | Backtester, caching backend, gago | goroutines of gago; NaN scores; operators that treat each gene by itself | the best is the best of all; parameters stay meaningful |
| Migrations (migrations.go, migrate, rollback) | schema, schema_migrations | First, Next, Prev, ReadUp, ReadDown; the two commands | migrate library, database, beside the importer | version and schema are written apart; death in between; forced versions | version and schema agree; candlesticks survive |
| CLI, Slack, charts | - | wiring | all | - | - |

`PROJECT.json` lists each with its status, and the hazards, line by line.

## 2. Modules

```
Bot --> BotProps --> BotInv --> BotLedger --> MCBot      (TLC)
                                  |   +-----> BotProofs   (TLAPS)
                                  +-- INSTANCE TradeLedger  (abstract)

GdaxOrder --> GdaxOrderProofs                             (TLC, TLAPS)
    +-- INSTANCE MarketOrder  (abstract)

CacheingBackend --+
                  +--> Optimizer --> MCOptimizer          (TLC)
        Genomes --+        +-------> OptimizerProofs      (TLAPS)

RealtimeImporter   --> RealtimeImporterProofs             (TLC, TLAPS)
HistoricalImporter --> HistoricalImporterProofs           (TLC, TLAPS)
KrakenStream       --> KrakenStreamProofs                 (TLC, TLAPS)
Migrations         --> MigrationsProofs                   (TLC, TLAPS)

Indicators --> Strategies --+
                            +--> Backtester --> BacktesterResults --> MCBacktester   (TLC)
              Candlesticks -+                           +-----> BacktesterProofs     (TLAPS)
```

### Bot

The state of the database (`candles`, `rows`, `recorded`), of the exchange
(`account`, `placed`) and of one Bot. `pc` names the call the bot is about to make:

| pc | code |
|---|---|
| poll, sleep | Run, FindMostRecentCandlestick (bot.go:40-74) |
| init | initializeStrategies (bot.go:76-118) |
| scan | the loop of ProcessTick (bot.go:126-141) |
| decide | processTick up to Buy/Sell (bot.go:147-164, strategy.go:164-222) |
| order, fill, record | PerformOrder: CreateOrder, polling, insert (order_strategies.go:56-105, gdax.go:195-249) |
| book, floor | the writes of TryBuy/TrySell (strategy.go:235-242, 294-343) |
| schedule, retire | the writes of processTick (bot.go:164-196) |
| down | the process is dead |

One action per call, and one for its failure: a failed write may have been
committed or not; a failed `CreateOrder` may have been taken (`PlaceOrderReplyLost`) or
not. `FaultKinds` says which kinds may fail in an instance. A failure
returns up to Run; nothing reads the bot's models again before they are reloaded, so
they keep their value in the model and `todo` is emptied. Crash may come before any
call. S1's nil dereference (`BuyPanics`) is no fault of the environment: it happens by
itself, and needs no fault kind.

Abstractions. Time is in minutes, a candlestick is its end time, money is an integer.
`Dust` is the number of smallest exchange units per 8-decimal unit of the database, so
truncation really loses something. What Buy and Sell compute is a free choice of
the action `Decide`, limited to strategies with enough data. Indicators skip
candlesticks without volume, so `sets` holds the periods with a stored minute, and
`Warmup` counts those. What an order is filled with is chosen from a set when the
exchange takes it, which stands for price, fees and slippage. Importers store minutes
in any order and may leave some out (no trades, importer down).

History variables: `booked` (orders whose result reached the row), `sinceTick` (orders
since NextTickAt moved).

### TradeLedger and BotLedger

TradeLedger is what a strategy promises with ticks, database and retries left out: it
holds cash or coin, an order swaps all of one for the other, a sale below .7 of the
initial budget is its last trade. BotLedger maps the Bot to it: the ledger trades when
the exchange takes the order, the row follows. The property `KeepsLedger` says that
the Bot implements it.

### RealtimeImporter

The reader goroutine (`reader`) and the ticker goroutine (`flusher`) over the map of
builders (`open`, `counted`). Insert and delete are made under the mutex and take two
steps each, so that the reads made without it (realtime_importer.go:111, 123, 137) can meet
them: the Go runtime may then end the process (`MapRace`), or the read returns either
value. `NilBuilderPanics` is the call on a builder that was deleted between the mutex and
the look-up. A builder is the set of trades it counted; prices are left out.
`Skew` is how many minutes late a message may be.

### HistoricalImporter

`producer` is Import's own goroutine, `worker` the goroutines it starts, `stored` the
table. Handing a batch over the unbuffered channel is one step of both. A worker's
batch is one fetch and one step per upsert, each of which may fail; `Fail` counts the retry or
drops the batch. Of a candlestick only one thing is kept: whether it was fetched while
its minute was in progress ("partial"). The realtime importer writes final
candlesticks meanwhile (`RealtimeUpsert`). Whether GDAX counts the end of the range in
is left open. The pauses between retries (up to 2^19 seconds) are time in which anything may happen.

### KrakenStream

`stream` is the goroutine of StreamCandlesticks, `importer` the loop of
StartProcessingCandlesticks at the other end of the channel: it holds the candlestick whose
upsert is under way, and the next can be handed over when it is done. Kraken's
answer to an OHLC call (`OHLC`, external) is taken from what the code assumes of it: the last entry is
the minute in progress (kraken.go:85-86) and `Last` is the entry before. A crash loses the page and
the candlestick under way, and the stream starts anew from `Last`.

### Candlesticks, Indicators, Strategies

The pure algorithms, as operators. A CandlestickBuilder or an indicator is a record, and adding a
trade or a candlestick to it a function (`ProcessMessage`, `ProcessCandlestickModel`, `AddToEMA`,
`AddToRSI`). Floats are exact fractions: rounding errors are not modelled. Mean prices are taken four times, which no
indicator's value depends on but the EMA's own, and that only by the factor. The 14 that
the RSI divides by (rsi.go:90-99) is the constant `RSISmoothing`; it is also S1's period, but an RSI
strategy may have another (`RSIPeriod`), and then its averages are not Wilder's. The periods of
the EMAs are taken to be different: with equal ones their names, by which a
TradingStrategy keeps its indicators, are equal too. An RSI period of 0, which `Rand` can
produce, is left out.

### Backtester and BacktesterResults

Backtest from the query to the last tick, one action per call that changes something:
`FindCandlesticks`, `GenerateIndicatorSets`, and for each set `BeginTick`, then
`Hold`, `Buy` or `Sell` in the range proper, and `NextResult`. The market is chosen at the start: the trades
of every minute, from which the stored candlesticks are built. Amounts are integers and
fills are fractions, truncated as the rows are. `Results` is a fold over the noted results. Ratios computed
from its fields (NetProfit, SharpeRatio ...) and the CSV are left out.

`DecidesAsSeeded` compares the replay with a TradingStrategy that `SeedIndicators`
feeds the same candlesticks. This is not all a bot does: its window has
HistoryTicks periods and moves (bot.go:99-111), so that its EMAs begin anew each tick;
and it stops when a strategy is deactivated, while the loop of Backtest does not look at DeactivatedAt.
Whether a backtest is to buy or to sell next is told by its orders and not by its holdings, for a purchase that is
truncated to nothing leaves neither. The loops over candlesticks and results are folds (`FoldLeft` with an operator for one
round each), which TLC runs and proofs can follow.

### GdaxOrder and MarketOrder

`MarketOrder` is what the order strategies take a call of `Exchange.CreateMarketOrder` for, and what
Bot's `PlaceOrder`, `PlaceOrderRejected`, `PlaceOrderReplyLost`, `AwaitFill` and `AwaitFillFails` do in one step
each: at most one order, an answer only when the order is settled, and an error that says
nothing about the order. `GdaxOrder` is the call itself. `GDAXExchange` creates the order and
polls it (`GetOrderAgain`, `Sleep`, `GetOrderSettled`, `GetOrderFails`), at most `GdaxRetries`
times, while GDAX works at its own pace (`Work`, external): it executes more, raises the fees, is
done, settles, or rejects. Size, executed value and fees are one kind of integer. `FakeGDAXExchange` opens a message feed and
takes the price of the next match; a feed that closes yields nil, on which it panics (`NilMessage`).
The pauses, 1 second shifted by the number of the poll, are not counted: the last is 2^20 s.
It never closes the connection it opened.

### CacheingBackend, Genomes and Optimizer

`CacheingBackend` is FindCandlesticks for one key, which is all an optimization asks for. An answer is named by
how often the importer had changed the range when it was queried; `Failed` is an error, cached like an answer. The
look-up is made outside the mutex: it may meet a write (`MapRace`, or either value), and callers that missed query one
after the other, for the entry is not looked for again.

`Genomes` has Rand, Mutate and Crossover of the three strategies as the sets of what they may return.
A genome maps genes to integers. EMA thresholds may take any value and are left out; where a float is
cast to an integer, one less than exact is allowed. S1's Crossover crosses its own entrance threshold with itself
(s1_strategy.go:203, `Mate`). `MaxPeriod` bounds the RSI's period, which the code does not. An EMA period may become 0: such an EMA has no value ever, and the genome never trades.

`Optimizer` composes the two with gago's loop (external: `Less`, `Heads`, `BetterOf`, `FindBest`). The score of
a backtest is a free choice, or 0 after an error, or `NaN`: a strategy that never trades has
the Sharpe ratio 0/0 (backtesting.go:306). No score depends on a genome here and no genome on a
score, so a behaviour follows either the scores or one line of descent (`genome`), never both. The error of the
command for populations of fewer than 4 (gago's tournament) and the evaluation of the winner that is
printed (cli.go:542) are left out.

### Migrations

The texts of migrations.go are records: what each creates, drops and truncates; `Applies` says when
Postgres accepts it. `schema` and `rows` are the tables, `version` and `dirty` the row of
schema_migrations. The commands `migrate` and `rollback` take one step per statement of the
migrate library (external): SetVersion's TRUNCATE and INSERT, which commit one by one on connections
of the pool, and the text. Each may fail, with its effect or without (`SetVersionFails`, `RunBreaks`),
and the command may die at any of them (`Crash`). A text that fails leaves its connection in an aborted transaction, so that the Force of `rollback` may fail with
it (`FailedText`). The importer stores candlesticks all the while. An unsigned version is counted modulo `UintSize`.

## 3. Runs

| run | instance | shows |
|---|---|---|
| bot_faults | fair, periods 2 and 1, 3 minutes, every kind of fault, 2 of them, orders taken or lost | type; orders per tick bounded by failures; rows of orders; books against the exchange; models current; ticks advance; due strategies are served, the bot catches up |
| bot_ledger | 4 minutes, with S1, faults outside an executing order and its booking, orders too small | the Bot implements TradeLedger; no buy below the minimum budget; only due strategies trade; dead top-up |
| importer | fair, 2 trades, 3 minutes, messages up to 1 minute late, 1 crash, 1 failed upsert | but for late trades: nothing lost except memory at the crash, no nil builder, stored candlesticks are final and in order; trades get stored |
| historical | fair, 2 workers, 2 batches of 2 minutes and one minute after them, 2 attempts, any number of errors | Import returns; what it returns from is stored or was dropped after all attempts; nothing older than the call is damaged |
| kraken_stream | fair, 7 minutes, pages of 3, 1 crash, 2 failed calls | pages join, candlesticks whole, once and in order; the stream catches up |
| backtest | 3 strategies, 4096 markets of 7 periods of 2 minutes, 2 of them history | projection, warm-up, EMA and RSI as defined; no decision sees the future; results explain holdings and profit |
| gdax_order | fair, both exchanges, 4 polls, sizes 0 to 2 | CreateMarketOrder implements MarketOrder; it returns |
| optimizer | 2 populations of 2, 3 generations, one change of the range, 4 failed queries; periods below 4 | from the first bred generation on all scores are of the same candlesticks; the best individual is the best of all, but for NaN; descendants keep to the operators' limits |
| migrations | fair, 2 products, 2 times, 3 faults of every kind, 2 rollbacks | a clean version never promises more than there is; no candlestick is lost but to a rollback that went wrong; what can be retried gets to the newest version |

Runs that end in a counterexample, each the disagreement of a comment with the code:

| run | comment | what happens |
|---|---|---|
| bot_two_orders | order_strategies.go:34-35 "using a single market order" | polling fails, the retry orders again |
| bot_panics | strategy.go:55 "returned when there isn't enough data" | S1 dereferences values that are not there yet |
| rollback | cli.go:674 "rolling back the last migration" | two products make the down text of migration 3 fail, and the Force after it; the next migrate repeats migration 2, which truncates the candlesticks |

Deadlock is checked in every run but the realtime importer's: Run and the Kraken stream loop
for ever, a database can always be migrated again, and `import`, a backtest, CreateMarketOrder and an optimization
may only stop once they have returned. In the realtime importer the modelled market
ends after `MaxMinute` and the exchange may fall silent.

Each module states the types of its variables (`TypeOK`); of those only the Bot's is a run's invariant.

Bounds. Two strategies of different periods are enough for one to be due while
the other is not, for both, and for an error of one to stop the other. Four minutes (bot_ledger)
are two periods of the slow and four ticks of the fast strategy: buy, sell,
fall below the minimum, and buy again; the three of bot_faults are a tick, the one that
recovers it, and one more. Two faults allow a failure during the recovery
from another. BuyFills and SellFills hold amounts on both sides of 14 = .7 * 20 after
truncation (13 becomes 12; 15 becomes 14, which is the minimum itself and still allowed). The opening position 4
is that of an S1 strategy created with --invested. In the realtime importer two trades in three minutes
give a flush with several builders, one with a builder that only
other messages opened, and one that meets an insert (3 trades in 4 minutes without
liveness, 1.9 million states, show nothing else). In the historical importer two
workers meet at a batch boundary, the range ends on the start of a batch, and Import is called
in the range's last minute or after it. In backtest the four kinds of
periods (nothing, low, falling, rising) give every order of gains and losses, empty periods between traded ones, a
profit and a loss in one run, a sale below .7 and a purchase after it, S1 kept from entering again, and a range with
nothing stored; the first period is cut by the start of the range. In kraken_stream seven minutes are two full pages and one that is cut.

In gdax_order four polls see an order that is open, done and settled, each with another size, and one more than
they allow. In optimizer two individuals per population are the least that have a head and a rest; two populations are what gago's findBest
chooses between, and the least that race for the cache, within which nothing tells a third caller from the second (it too waits
for the lock and writes later). Three generations are the first, which may be scored on different answers,
and two that must not. Four failures let each population fail at both of its first
individuals. With periods below 4, drawn below 2, mutation wraps, and exchanges the order of the two. In
migrations two products at two times make the index of migration 2 impossible, or possible after a rollback of everything; three faults are a fault in a command, in the recovery
from it, and in the recovery from that; two rollbacks reach the version from which a repeated migration destroys.

Fairness. Bot: `WF(Step)`, because Run loops for ever and its calls return, and
`WF(Restart)`, because the Deployment restarts the container. Nothing is assumed of the
market, and faults are finitely many. bot_faults has no S1 strategies, whose panic repeats for as
long as the candlesticks stay the same, and no orders too small, which are refused again at each retry: one strategy's refused order then
ends every attempt before the turn of the others (bot.go:137), for as long as the candlestick stays the newest.
Realtime importer: `WF` of each goroutine's steps; the exchange need not send anything.
Historical importer: `WF` of each worker and of Import; calls return, but may fail for ever (the
bound on retries is the code's). Kraken: `WF` of both goroutines, finitely many failures.
CreateMarketOrder: `WF(Client)`, its calls return; of GDAX nothing is assumed, so polls may never see a settled order; `WF(Match)` for
the fake exchange, whose loop has no bound: its product is traded as long as the feed is open. Migrations: `WF(MigrateStep)`, because the chart's
hook runs migrate after every installation and upgrade; rollbacks and faults are finitely many. Optimizer: no liveness is checked.

## 4. Proofs

`BotProofs` proves, for all strategies, periods, histories, markets, fills, fault
kinds and numbers of faults (assuming only `BotAssumption`, the types of the constants):

| theorem | property |
|---|---|
| TypeCorrect | TypeOK |
| ModelsStayCurrent | ModelsCurrent |
| TicksOnlyAdvance | TicksAdvance |
| OrdersBounded | OrdersPerTickBounded |
| OrdersAreRecorded | OrdersRecorded |
| OnlyDueTrade | OnlyDueStrategiesTrade |
| TopUpIsDead | TopUpNeverRuns |

The argument. None of the properties is inductive. That a tick costs one order
relies on NextTickAt really moving when `ScheduleNextTick` writes it, which needs the
strategy to have been due *by its row*. So the invariant is `Coherent` (BotInv): a model
still in `todo` is its row (`ModelsCurrent`), the strategy being processed is due and
among them (`SelfDue`), active until its sale is booked (`SelfActive`), and its candlestick is in the table
(`TickStored`). It is inductive because every failure ends the attempt
(`FailureEndsTick`), and the only rows written during a tick are those of `self`, whose
model is written with them. `OrderCount` adds the order that is in progress to the
bound, `RecordCount` that it has no row yet. For the dead top-up, `SeedsReachTick`: the
projection of a window that contains anything contains the tick's own minute, whose
period ends at or after the tick (`SeedsReach`, from `BucketBounds`). The
conjuncts were checked by TLC before they were proved.

And of the ledger, from the same assumption:

| theorem | property | provided |
|---|---|---|
| BooksMatch | BooksMatchExchange | |
| BudgetFloor | NoBuyBelowMinimum | nothing fails at the two writes of a sale: no faults of kind book, floor or crash |
| LedgerKept | KeepsLedger | no faults but of kind read, reject, schedule or retire |

The provisos are those of the runs, and needed: a sale whose second write fails leaves a strategy
active with too little, and an order whose answer is lost is made again. For the books `OneSided`
says that a strategy holds only cash or only coin, so that the cost of its order is everything, and
`Balanced` what the books will be once the order in flight is booked; each booking truncates by less than `Dust`
(`SlackGrows`). A step either leaves the books alone, takes an order, or books one (`Kinds`). For the floor
`AboveMinimum` allows a budget that is too low only between the two writes of TrySell. The
refinement rests on both `Coherent` and `AboveMinimum`: taking an order is the ledger's trade (`LedgerTrade`), a strategy without data its
retirement (`LedgerRetire`), and every other step leaves what BotLedger maps as it was (`Stutter`).

`GdaxOrderProofs` (assuming `GdaxAssumption`: there is at least one poll and one unit of size):

| theorem | property |
|---|---|
| TypeCorrect | TypeOK of GdaxOrder |
| MarketOrderKept | KeepsMarketOrder |

A call maps to the step of MarketOrder its order and its response make. What has to be known of the call is in
`Progress`: there is no order before `create` or `dial` is over, there is one while it is polled,
the fake exchange's is not settled while it waits, and an answer is given only when it is. `Sound` says of the order
that its fees are part of what was executed, so that no net is negative, and that
only an order that is done is settled, so that nothing changes after an answer.

`OptimizerProofs` (assuming `CacheAssumption`, `GenomesAssumption` and `OptimizerAssumption`: two populations, limits that fit the operators' own):

| theorem | property |
|---|---|
| AllScoredAlike | ScoresComparable |
| BestOfAll | BestIsBest |
| DescentInRange | GenomesInRange |

For the first: the cache is not looked up again under the lock, so an entry may be replaced, but only by a caller that
missed before there was one. `Busy` says that a population is in FindCandlesticks only while it has
individuals to evaluate, so once every population is through nobody is; `Answered` that an
answer somebody was given is in the cache or about to be written. Together: when the first generation is over
there is an entry and no writer, and `Settled` says that this lasts, for who looks now finds it.
For the second, `BestSoFar`: without NaNs, a score that the best one does not beat is among those of the generation in progress. For the third the lemmas follow the operators
gene by gene: `MutatedInValue` and `BetweenInValue` keep each gene to its values, and the
last statement of each operator restores the order of the periods (`MutateKeepsMeant`, `CrossoverKeepsMeant`).

`RealtimeImporterProofs` (assuming `ImporterAssumption`):

| theorem | property |
|---|---|
| TypeCorrect | TypeOK of RealtimeImporter |
| NoTradeLost | TradesAccountedFor |
| BuilderIsThere | BuilderNeverNil |
| StoredOnce | StoredIsFinal |
| RemovedIsStored | NothingRemovedUnstored |
| InOrder | StoredInOrder |

Why the reads outside the mutex do no harm: whatever the flusher has in hand is of an earlier minute than `now`, and only it removes
builders (`Clock`), while a message the reader has in hand is of the minute `now` or late (`Reading`). So of a
minute without late trades the builder no longer changes once it is to be flushed, and `Agree` can say that
what it counted, what was built from it and what is stored are the same. `Counted` (a builder holds the
trades of its minute) makes TradesAccountedFor inductive. `Sorted` adds for the order that an earlier minute with trades
is stored or will be flushed first; it needs that the flusher takes the earliest of its minutes (`EarliestIsLeast`).

`HistoricalImporterProofs` (assuming `HistoricalAssumption`: some workers, batches, attempts, and a range):

| theorem | property |
|---|---|
| TypeCorrect | TypeOK of HistoricalImporter |
| RangeImported | ImportComplete |
| OnlyFreshDamaged | OnlyFreshMinutesDamaged |

ImportComplete speaks of the end only. `NoBatchLost` strengthens it to all states: a minute with a candlestick is stored, noted as dropped, in a
batch that is still to be handed over, or in one a worker has. `Batches` says that the batches are whole ones from the start, from which
every minute is in exactly one (`InBatch`, `SameMultiple`), and that nobody works on one at the end. `Timely`
orders the call, the fetches and the clock: what was fetched while in progress is of a minute that had not ended when Import was called.

`KrakenStreamProofs` (assuming `KrakenAssumption`):

| theorem | property |
|---|---|
| AllPagesJoin | PagesJoin |
| OnlyWholeStored | OnlyWholeCandlesticks |
| InOrder | StoredOnceInOrder |

The page in hand is what is left of the minutes up to `next`, without gaps, all of them over
(`Contiguous`, from `Answer`: what Kraken answers, less its last entry). `Handed` is the last minute that was handed
over; nothing after it is stored, and what the importer has in hand is the newest (`Ordered`).

`MigrationsProofs` (assuming `MigrationsAssumption`: the unsigned version does not wrap within the migrations there are):

| theorem | property |
|---|---|
| TypeCorrect | TypeOK of Migrations |
| NeverAhead | VersionNeverAhead |
| RowsKept | RowsSurvive |

As long as no rollback was botched, the schema is that of some version but for the primary key (`Shape`), a clean version `Fits` it, which means
that it is that version's or the next one's, and a dirty version fits one lower, so that migrate may
force it back (`Marked`). `Pending` says the same of the version about to be written. That migration 2, whose text truncates, may be applied and
not marked needs more: the table is then empty, for its text truncated it and the importers' upserts need the schema of migration 3, so that applying it again takes nothing.

Each strengthened invariant was checked by TLC before it was proved.

`BacktesterProofs` (assuming `IndicatorsAssumption`, `StrategiesAssumption` and `BacktesterAssumption`: of the
market, that trades have positive prices and sizes):

| theorem | property | provided |
|---|---|---|
| TypeCorrect | TypeOK of Backtester | |
| HoldingsExplained | OrdersExplainHoldings | |
| ProfitBooked | ProfitIsBooked | |
| DecisionsSeeded | DecidesAsSeeded | |
| SetsBegin | SetsBeginAfterWarmup | ShortPeriod # 0 |
| AveragesWeighted | EMAIsWeightedMean | ShortPeriod # 0 |
| IndexIsWilders | RSIIsWilders | |
| MarketKept | ProjectionKeepsMarket | |

The proviso is the code's: an EMA of period 0 waits for 2^64 - 1 candlesticks (ema.go:64), which a warm-up
counted in the periods does not say. Three invariants, each with the one before:

- `ReplayInv`: the replay has come no further than the sets (`Prepared`), exchange and trader are at the same
  candlestick, the one after the results during a tick (TypeOK), the current result is of that candlestick and has what the model holds (`Replayed`), only one of
  budget and investment is not 0 (`OneSided`), and every result explains the next. It takes the types of everything
  the replay goes over, so the projection has to be followed from the trades to candlesticks that have prices wherever they have
  volume and come in order without overlap (`ReprojectedArePeriods`).
- `DecisionInv` adds `Decided`: each noted order is the one its own set asks for, and the model is trying to buy
  exactly when no purchase waits for its sale. Neither is visible in one result: the next order depends on all before it.
- `BacktestInv` adds `SetsGathered`: the sets are those of generateIndicatorSets, round by round. Then each
  set is the newest of the history a seeded strategy has at that candlestick (`SetsAreGathered`), and a strategy that looks
  back, which is S1 at the set before, finds there what the seeded one finds, as soon as all have values (`DecisionsAreSeeded`). For the warm-up
  `IndicatorsAfter` counts the candlesticks each indicator has had. An EMA stores 0 for "no value", so that it also has to be shown that a mean of positive
  prices never comes to 0 (`AddToEMAAfter`).

The code's loops are folds in the model, and induction theorems that take an operator cannot be
instantiated by the provers. So a set takes the operator's place: `NatSetInduction` is induction for a set of numbers, from the
well-foundedness of <, and `FoldHasTrace` gives for a fold the sequence of values
it goes through, from what FoldLeft is defined to be. Every loop then has a lemma (`BuildersTrace`, `GeneratedTrace` ...) with its trace, and what it ends with
follows by `IntervalInduction`.

The last three theorems say that what the loops compute one step at a time is what a definition gives at once:

- An EMA's references are weighted sums. A further price multiplies each earlier weight by (period - 1) / (period + 1)
  and adds one of its own (`EMAWeightNext`, `WeightedEMANext`), which is what AddToEMA does to the last value
  (`AddToEMAOver`); the RSI's averages likewise (`WildersNext`, `AddToRSIOver`). `IndicatorsOver` says so of all
  indicators of a strategy and the prices of the candlesticks with volume so far, and `GatheredOver` leads it
  along the trace of generateIndicatorSets.
- A market's reference is the sequence of a period's trades. `JoinSumsUp` is the one step: what sums up some trades, joined
  with what sums up some more, sums up both one after the other. With a trade it gives the candlestick of a minute (`MinuteSumsUp`), with a
  minute's candlestick that of a period (`BuildersSumUp`), where the minutes without trades, which the database does
  not have, add nothing, and each other minute is in the one period its bucket says (`WholeTicks`). That the stored minutes
  are in order (`StoredInOrder`) gives the first and last period, between which the others leave no gap (`BucketsAre`).
  `CandlesFound` carries this to the state after FindCandlesticks.

Model-checked only: the liveness properties (fairness and ENABLED are beyond the prover), and the
violations that three of the runs expect.

## 5. Not modelled, and the plan

Left out for good: Slack messages, logging, flag parsing and wiring, the CSV and the ratios of a backtest, the MACD indicators (macd.go), which no
strategy uses, the finders by ID and ValidateCandlesticks, which only tests use, and the vendored code, of which only what
the program relies on is modelled. Two bots of one product at a time are outside the
deployment, which keeps one replica and removes the old pod first; nothing in the code promises anything of two.

Plan, in order:

1. `TradingSystem`: RealtimeImporter and Bot composed over one candlesticks table, instead of Bot's own importer step,
   which allows more (any order, gaps) than StoredInOrder leaves;
2. proofs about it: that each of the two keeps its invariants when composed.

Differences between comment, name and code that no run shows: a sale whose second write fails (strategy.go:341) leaves a strategy active below
the budget that strategy.go:49-50 calls the lowest allowed, which is why bot_ledger has no fault there; the period that bot.go:150 calls complete is
one that has just begun when its last minute was never stored; GetCandlesticks' check
for too many rates (gdax.go:105) never fires; ResultsCSV of a backtest without results indexes an empty slice
(backtesting.go:393); the continue after ErrNotEnoughData in Backtest (line 243) is never reached.

## 6. Running it

`tlc -config BotFaults.cfg MCBot` (and so on; PROJECT.json pairs each cfg with its module), and `tlapm` with any of the modules
whose name ends in Proofs.
Operators marked "(altered: ...)" are faulty variants of the definition
below them. No specification uses them: they are for checking that each property
fails when the code is changed that way (PROJECT.json, "mutants").
