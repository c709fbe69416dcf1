---------------------------------- MODULE Bot ----------------------------------
(******************************************************************************)
(* One Bot of `vespyr bot` (bot.go): the loop that wakes up every second,     *)
(* looks for a new one-minute candlestick of its product and, when there is   *)
(* one, runs every trading strategy of the product that is due: the strategy  *)
(* decides (strategy.go), an order goes to the exchange and into the          *)
(* market_orders table (order_strategies.go, gdax.go), and the strategy's row *)
(* of trading_strategies is rewritten (backend.go).                           *)
(*                                                                            *)
(* Every call that leaves the process is a step of its own, because it may    *)
(* fail, and because the process may die between any two of them.  A failed   *)
(* write may or may not have reached the database.  Failures and crashes are  *)
(* limited to the kinds of FaultKinds and to MaxFaults of them per behaviour. *)
(*                                                                            *)
(* Time is counted in minutes from candlestickBaseTime, a candlestick is      *)
(* named by its EndTime, and 0 stands for Go's zero time.  The candlesticks   *)
(* table belongs to the importers: a minute is stored at most once here, in   *)
(* any order, and a minute without trades is never stored.                    *)
(******************************************************************************)
EXTENDS Integers, FiniteSets

CONSTANTS
    Strategies,      \* ids of the product's trading_strategies rows
    TickSize,        \* TickSizeMinutes of each strategy
    HistoryTicks,    \* HistoryTicks of each strategy
    Warmup,          \* candlesticks its slowest indicator needs for a value
    S1Strategies,    \* which of them are of type s1
    InitialBudget,   \* InitialBudget of each strategy
    OpeningPositions,\* sizes `create-s1 --invested` opens with; 0 for none
    BuyFills,        \* sizes a buy order may be filled with
    SellFills,       \* proceeds, less fees, a sell order may be filled with
    Dust,            \* exchange units in one unit of 8 decimals
    MinOrder,        \* smallest cost the exchange takes an order for
    MaxTime,         \* bound: last minute of the modelled market
    FaultKinds,      \* which calls may fail, and whether the process may crash
    MaxFaults        \* bound: failures and crashes in one behaviour

AllFaultKinds == {"read", "reject", "reply", "poll", "insert", "book",
                  "floor", "schedule", "retire", "crash"}

ASSUME BotAssumption ==
    /\ TickSize \in [Strategies -> Nat \ {0}]
    /\ HistoryTicks \in [Strategies -> Nat]
    /\ Warmup \in [Strategies -> Nat]
    /\ S1Strategies \subseteq Strategies
    /\ InitialBudget \in [Strategies -> Nat \ {0}]
    /\ OpeningPositions \subseteq Nat
    /\ BuyFills \subseteq Nat
    /\ SellFills \subseteq Nat
    /\ Dust \in Nat \ {0}
    /\ MinOrder \in Nat
    /\ MaxTime \in Nat
    /\ FaultKinds \subseteq AllFaultKinds
    /\ MaxFaults \in Nat

VARIABLES
    candles,   \* candlesticks table: end times of the stored minutes
    rows,      \* trading_strategies table
    recorded,  \* market_orders table: rows per strategy
    account,   \* exchange: what each strategy's orders hold there
    placed,    \* exchange: orders taken per strategy
    pc,        \* the call the bot is about to make
    current,   \* Bot.currentCandlestick
    tick,      \* EndTime of the candlestick being processed
    models,    \* Bot.tradingStrategyModels
    sets,      \* TradingStrategy.indicatorSets: start times, per strategy
    todo,      \* models the loop of ProcessTick has not reached
    self,      \* the model being processed
    fill,      \* FilledSize of the order being executed
    faults,    \* failures and crashes so far
    booked,    \* history: orders whose result reached the strategy's row
    sinceTick  \* history: orders placed since NextTickAt last moved

tables == <<rows, recorded>>
exchange == <<account, placed>>
memory == <<models, sets, self, fill>>
history == <<booked, sinceTick>>
vars == <<candles, tables, exchange, pc, current, tick, memory, todo, faults,
          history>>

NoTime == 0
TryingToBuy == "trying-to-buy"
TryingToSell == "trying-to-sell"

Row == [State : {TryingToBuy, TryingToSell}, Budget : Nat, Invested : Nat,
        NextTickAt : Nat, LastTickAt : Nat, Deactivated : BOOLEAN]

TypeOK ==
    /\ candles \subseteq 1..MaxTime
    /\ rows \in [Strategies -> Row]
    /\ recorded \in [Strategies -> Nat]
    /\ account \in [Strategies -> [cash : Int, coin : Int]]
    /\ placed \in [Strategies -> Nat]
    /\ pc \in {"poll", "init", "scan", "decide", "order", "fill", "record",
               "book", "floor", "schedule", "retire", "sleep", "down"}
    /\ current \in Nat
    /\ tick \in Nat
    /\ models \in [Strategies -> Row]
    /\ sets \in [Strategies -> SUBSET Nat]
    /\ todo \subseteq Strategies
    /\ self \in Strategies
    /\ fill \in Nat
    /\ faults \in 0..MaxFaults
    /\ booked \in [Strategies -> Nat]
    /\ sinceTick \in [Strategies -> Nat]

--------------------------------------------------------------------------------
(* The pure helpers. *)

\* CandlestickBucket: start of the period of `size` minutes that t falls in.
CandlestickBucket(t, size) == (t \div size) * size

\* TruncateFloat at tradeCurrencyPrecision decimals.
TruncateFloat(x) == x - (x % Dust)

\* FindCandlesticks' WHERE clause: stored minutes within [start, end].
Stored(start, end) == {e \in candles : start <= e - 1 /\ e <= end}

\* ReprojectCandlesticks: the start times of the periods with a stored minute.
\* The periods between them are built too, but with no volume, and no indicator
\* counts such a candlestick.
Reproject(minutes, size) == {CandlestickBucket(e - 1, size) : e \in minutes}

FindCandlesticks(s, start, end) == Reproject(Stored(start, end), TickSize[s])

\* (altered: up to the minute before)
SeedCandlesticksBefore(s) ==
    FindCandlesticks(s, tick - HistoryTicks[s] * TickSize[s], tick - 1)

\* The candlesticks initializeStrategies seeds the indicators of s with.
SeedCandlesticks(s) ==
    FindCandlesticks(s, tick - HistoryTicks[s] * TickSize[s], tick)

\* processTick's top-up: the candlesticks since the last seeded one, when that
\* one ended a whole number of periods before t.
TopUp(s) ==
    UNION {FindCandlesticks(s, b + TickSize[s], tick) :
              b \in {b \in sets[s] :
                        /\ \A a \in sets[s] : a <= b
                        /\ b + TickSize[s] < tick
                        /\ (tick - b - TickSize[s]) % TickSize[s] = 0}}

\* (altered: against the budget of the row, not the initial one)
BelowMinimumOfRow(s, budget) == 10 * budget < 7 * rows[s].Budget

\* (altered: the minimum itself is too little)
BelowOrAtMinimum(s, budget) == 10 * budget <= 7 * InitialBudget[s]

\* minimumBudgetProportion is .7.
BelowMinimum(s, budget) == 10 * budget < 7 * InitialBudget[s]

\* What the order of model m is for: the whole budget or the whole position.
Cost(m) == IF m.State = TryingToBuy THEN m.Budget ELSE m.Invested

\* (altered: leaves the Budget column alone)
UpdateAllButBudget(s, m) ==
    rows' = [rows EXCEPT ![s] = [m EXCEPT !.Budget = rows[s].Budget]]

\* UpdateTradingStrategy rewrites the whole row.
UpdateTradingStrategy(s, m) == rows' = [rows EXCEPT ![s] = m]

\* Count a failure of one of the modelled kinds.
Fault(kind) ==
    /\ kind \in FaultKinds
    /\ faults < MaxFaults
    /\ faults' = faults + 1

\* History: the orders of a strategy count afresh when its NextTickAt moves.
CountFrom(m) ==
    sinceTick' = [sinceTick EXCEPT ![self] =
                     IF m.NextTickAt = rows[self].NextTickAt THEN @ ELSE 0]

\* A failed write of row m for s, reported as an error: lost, or committed.
LostOrCommitted(s, m) == UNCHANGED rows \/ UpdateTradingStrategy(s, m)

\* An error returned up to Run, which logs it and sleeps.  Nothing reads the
\* models, services or remaining work again before initializeStrategies
\* replaces them.
GiveUp == pc' = "sleep" /\ todo' = {}

--------------------------------------------------------------------------------
(* The rows the CLI creates, and the rest of the initial state. *)

\* create-ema, create-s1: created at minute 0; create-s1 --invested opens a position.
CreatedRow(s, invested) ==
    [State |-> IF invested > 0 THEN TryingToSell ELSE TryingToBuy,
     Budget |-> IF invested > 0 THEN 0 ELSE InitialBudget[s],
     Invested |-> invested,
     NextTickAt |-> CandlestickBucket(0, TickSize[s]) + TickSize[s],
     LastTickAt |-> NoTime,
     Deactivated |-> FALSE]

Init ==
    /\ candles = {}
    /\ \E opening \in [Strategies -> OpeningPositions] :
        /\ \A s \in Strategies \ S1Strategies : opening[s] = 0
        /\ rows = [s \in Strategies |-> CreatedRow(s, opening[s])]
        /\ account = [s \in Strategies |->
              [cash |-> CreatedRow(s, opening[s]).Budget, coin |-> opening[s]]]
    /\ recorded = [s \in Strategies |-> 0]
    /\ placed = [s \in Strategies |-> 0]
    /\ pc = "poll"
    /\ current = NoTime
    /\ tick = NoTime
    /\ models = rows
    /\ sets = [s \in Strategies |-> {}]
    /\ todo = {}
    /\ self \in Strategies
    /\ fill = 0
    /\ faults = 0
    /\ booked = [s \in Strategies |-> 0]
    /\ sinceTick = [s \in Strategies |-> 0]

--------------------------------------------------------------------------------
(* The importers' side: a candlestick is stored. *)

ImportCandlestick(e) ==
    /\ candles' = candles \cup {e}
    /\ e \notin candles
    /\ UNCHANGED <<tables, exchange, pc, current, tick, memory, todo, faults,
                   history>>

--------------------------------------------------------------------------------
(* Bot.Run and Bot.ProcessTickForNewCandlestick. *)

\* FindMostRecentCandlestick finds nothing, or nothing new.
NothingNew ==
    /\ pc = "poll"
    /\ \A e \in candles : e <= current
    /\ pc' = "sleep"
    /\ UNCHANGED <<candles, tables, exchange, current, tick, memory, todo,
                   faults, history>>

\* (altered: the candlestick counts as processed before it is)
FindAndKeepCandlestick ==
    /\ pc = "poll"
    /\ tick' \in candles
    /\ \A e \in candles : e <= tick'
    /\ tick' # current
    /\ current' = tick'
    /\ pc' = "init"
    /\ UNCHANGED <<candles, tables, exchange, memory, todo, faults, history>>

\* FindMostRecentCandlestick finds a candlestick that is not the current one.
FindMostRecentCandlestick ==
    /\ pc = "poll"
    /\ tick' \in candles
    /\ \A e \in candles : e <= tick'
    /\ tick' # current
    /\ pc' = "init"
    /\ UNCHANGED <<candles, tables, exchange, current, memory, todo, faults,
                   history>>

\* Load the active rows and seed their indicators; a strategy without a single
\* candlestick in its window fails the whole tick.
InitializeStrategies ==
    LET loaded == {s \in Strategies : ~rows[s].Deactivated} IN
    /\ pc = "init"
    /\ IF \A s \in loaded : SeedCandlesticks(s) # {}
       THEN /\ models' = rows
            /\ sets' = [s \in Strategies |->
                           IF s \in loaded THEN SeedCandlesticks(s) ELSE {}]
            /\ todo' = loaded
            /\ pc' = "scan"
       ELSE UNCHANGED <<models, sets>> /\ GiveUp
    /\ UNCHANGED <<candles, tables, exchange, current, tick, self, fill, faults,
                   history>>

\* One of the reads of those two fails.
ReadFails ==
    /\ pc \in {"poll", "init"}
    /\ Fault("read")
    /\ GiveUp
    /\ UNCHANGED <<candles, tables, exchange, current, tick, memory, history>>

\* (altered: due at every candlestick)
DueAlways(m) == m.NextTickAt # NoTime /\ ~m.Deactivated

Due(m) == m.NextTickAt # NoTime /\ ~m.Deactivated /\ m.NextTickAt <= tick

\* The loop of ProcessTick; the query has no ORDER BY, so any order.
SkipStrategy(s) ==
    /\ pc = "scan"
    /\ s \in todo
    /\ ~Due(models[s])
    /\ todo' = todo \ {s}
    /\ UNCHANGED <<candles, tables, exchange, pc, current, tick, memory, faults,
                   history>>

BeginStrategy(s) ==
    /\ pc = "scan"
    /\ s \in todo
    /\ Due(models[s])
    /\ self' = s
    /\ pc' = "decide"
    /\ UNCHANGED <<candles, tables, exchange, current, tick, models, sets, todo,
                   fill, faults, history>>

\* (altered: the candlestick is never done with)
FinishTickForgetful ==
    /\ pc = "scan"
    /\ todo = {}
    /\ pc' = "sleep"
    /\ UNCHANGED <<candles, tables, exchange, current, tick, memory, todo,
                   faults, history>>

\* Every strategy was processed: only now is the candlestick done with.
FinishTick ==
    /\ pc = "scan"
    /\ todo = {}
    /\ current' = tick
    /\ pc' = "sleep"
    /\ UNCHANGED <<candles, tables, exchange, tick, memory, todo, faults,
                   history>>

Sleep ==
    /\ pc = "sleep"
    /\ pc' = "poll"
    /\ UNCHANGED <<candles, tables, exchange, current, tick, memory, todo,
                   faults, history>>

--------------------------------------------------------------------------------
(* Bot.processTick up to the decision of TryBuy and TrySell. *)

\* ValidateIndicatorSets, and the strategy's own ErrNotEnoughData.
EnoughData(seeded) == seeded # {} /\ Cardinality(seeded) >= Warmup[self]

\* Buy or Sell may answer either way: what they compute is not modelled here.
Decide ==
    LET seeded == sets[self] \cup TopUp(self) IN
    /\ pc = "decide"
    /\ sets' = [sets EXCEPT ![self] = seeded]
    /\ IF EnoughData(seeded) THEN pc' \in {"order", "schedule"}
                             ELSE pc' = "retire"
    /\ UNCHANGED <<candles, tables, exchange, current, tick, models, todo, self,
                   fill, faults, history>>

\* The process dies.
Die == pc' = "down" /\ current' = NoTime /\ todo' = {}

\* S1Strategy.Buy reads the indicators of the candlestick before the last without
\* looking whether they had a value yet: a nil pointer ends the process.
BuyPanics ==
    /\ pc = "decide"
    /\ self \in S1Strategies
    /\ models[self].State = TryingToBuy
    /\ Warmup[self] > 1
    /\ Cardinality(sets[self] \cup TopUp(self)) = Warmup[self]
    /\ Die
    /\ UNCHANGED <<candles, tables, exchange, tick, memory, faults, history>>

\* ErrNotEnoughData deactivates the strategy.
RetiredModel == [models[self] EXCEPT !.Deactivated = TRUE]

Retire ==
    /\ pc = "retire"
    /\ models' = [models EXCEPT ![self] = RetiredModel]
    /\ UpdateTradingStrategy(self, RetiredModel)
    /\ todo' = todo \ {self}
    /\ pc' = "scan"
    /\ UNCHANGED <<candles, recorded, exchange, current, tick, sets, self, fill,
                   faults, history>>

RetireFails ==
    /\ pc = "retire"
    /\ Fault("retire")
    /\ LostOrCommitted(self, RetiredModel)
    /\ GiveUp
    /\ UNCHANGED <<candles, recorded, exchange, current, tick, memory, history>>

--------------------------------------------------------------------------------
(* MarketOrderStrategy.PerformOrder and the exchange. *)

\* The exchange takes the order of the strategy being processed and fills it:
\* the size is known to the bot only once it has read the settled order.
ExchangeTakesOrder ==
    LET s == self
        m == models[s]
    IN  /\ Cost(m) >= MinOrder
        /\ placed' = [placed EXCEPT ![s] = @ + 1]
        /\ sinceTick' = [sinceTick EXCEPT ![s] = @ + 1]
        /\ \/ /\ m.State = TryingToBuy
              /\ fill' \in BuyFills
              /\ account' = [account EXCEPT ![s].cash = @ - Cost(m),
                                            ![s].coin = @ + fill']
           \/ /\ m.State = TryingToSell
              /\ fill' \in SellFills
              /\ account' = [account EXCEPT ![s].cash = @ + fill',
                                            ![s].coin = @ - Cost(m)]

PlaceOrder ==
    /\ pc = "order"
    /\ ExchangeTakesOrder
    /\ pc' = "fill"
    /\ UNCHANGED <<candles, tables, current, tick, models, sets, todo, self,
                   faults, booked>>

\* The exchange refuses an order that is too small, every time.
OrderTooSmall ==
    /\ pc = "order"
    /\ Cost(models[self]) < MinOrder
    /\ GiveUp
    /\ UNCHANGED <<candles, tables, exchange, current, tick, memory, faults,
                   history>>

\* CreateOrder fails before the exchange has taken the order...
PlaceOrderRejected ==
    /\ pc = "order"
    /\ Fault("reject")
    /\ GiveUp
    /\ UNCHANGED <<candles, tables, exchange, current, tick, memory, history>>

\* ...or after it has: the answer is lost.
PlaceOrderReplyLost ==
    /\ pc = "order"
    /\ Fault("reply")
    /\ ExchangeTakesOrder
    /\ GiveUp
    /\ UNCHANGED <<candles, tables, current, tick, models, sets, self, booked>>

\* The polling of GDAXExchange.CreateMarketOrder sees the order settled, or
\* gives up on an error, an unknown status or after its last retry.
AwaitFill ==
    /\ pc = "fill"
    /\ pc' = "record"
    /\ UNCHANGED <<candles, tables, exchange, current, tick, memory, todo,
                   faults, history>>

AwaitFillFails ==
    /\ pc = "fill"
    /\ Fault("poll")
    /\ GiveUp
    /\ UNCHANGED <<candles, tables, exchange, current, tick, memory, history>>

\* (altered: no row)
InsertNothing == UNCHANGED recorded

\* Backend.CreateMarketOrder: one row per order.
InsertOrder == recorded' = [recorded EXCEPT ![self] = @ + 1]

RecordOrder ==
    /\ pc = "record"
    /\ InsertOrder
    /\ pc' = "book"
    /\ UNCHANGED <<candles, rows, exchange, current, tick, memory, todo, faults,
                   history>>

RecordOrderFails ==
    /\ pc = "record"
    /\ Fault("insert")
    /\ InsertOrder \/ UNCHANGED recorded
    /\ GiveUp
    /\ UNCHANGED <<candles, rows, exchange, current, tick, memory, history>>

--------------------------------------------------------------------------------
(* TryBuy and TrySell after the order; the end of Bot.processTick. *)

\* (altered: the spent budget stays)
BoughtModelOnCredit ==
    [models[self] EXCEPT !.Invested = TruncateFloat(fill),
                         !.State = TryingToSell]

BoughtModel ==
    [models[self] EXCEPT !.Invested = TruncateFloat(fill), !.Budget = 0,
                         !.State = TryingToSell]

\* (altered: takes the proceeds, not the size, from the position)
SoldModelByProceeds ==
    [models[self] EXCEPT !.Invested = @ - fill, !.Budget = TruncateFloat(fill),
                         !.State = TryingToBuy]

SoldModel ==
    [models[self] EXCEPT !.Invested = 0, !.Budget = TruncateFloat(fill),
                         !.State = TryingToBuy]

BookedModel ==
    IF models[self].State = TryingToBuy THEN BoughtModel ELSE SoldModel

\* The first UpdateTradingStrategy of a trade.
BookTrade ==
    /\ pc = "book"
    /\ models' = [models EXCEPT ![self] = BookedModel]
    /\ UpdateTradingStrategy(self, BookedModel)
    /\ booked' = [booked EXCEPT ![self] = @ + 1]
    /\ pc' = IF /\ models[self].State = TryingToSell
                /\ BelowMinimum(self, BookedModel.Budget)
             THEN "floor" ELSE "schedule"
    /\ UNCHANGED <<candles, recorded, exchange, current, tick, sets, todo, self,
                   fill, faults, sinceTick>>

BookTradeFails ==
    /\ pc = "book"
    /\ Fault("book")
    /\ \/ UNCHANGED <<rows, booked>>
       \/ /\ UpdateTradingStrategy(self, BookedModel)
          /\ booked' = [booked EXCEPT ![self] = @ + 1]
    /\ GiveUp
    /\ UNCHANGED <<candles, recorded, exchange, current, tick, memory,
                   sinceTick>>

\* The second one, when the budget fell below the minimum proportion.
DeactivateBelowMinimum ==
    /\ pc = "floor"
    /\ models' = [models EXCEPT ![self] = RetiredModel]
    /\ UpdateTradingStrategy(self, RetiredModel)
    /\ pc' = "schedule"
    /\ UNCHANGED <<candles, recorded, exchange, current, tick, sets, todo, self,
                   fill, faults, history>>

DeactivateBelowMinimumFails ==
    /\ pc = "floor"
    /\ Fault("floor")
    /\ LostOrCommitted(self, RetiredModel)
    /\ GiveUp
    /\ UNCHANGED <<candles, recorded, exchange, current, tick, memory, history>>

\* (altered: the start of the current period, not of the next)
ScheduledModelNow ==
    [models[self] EXCEPT
        !.LastTickAt = tick,
        !.NextTickAt = CandlestickBucket(tick, TickSize[self])]

ScheduledModel ==
    [models[self] EXCEPT
        !.LastTickAt = tick,
        !.NextTickAt = CandlestickBucket(tick, TickSize[self]) + TickSize[self]]

ScheduleNextTick ==
    /\ pc = "schedule"
    /\ models' = [models EXCEPT ![self] = ScheduledModel]
    /\ UpdateTradingStrategy(self, ScheduledModel)
    /\ CountFrom(ScheduledModel)
    /\ todo' = todo \ {self}
    /\ pc' = "scan"
    /\ UNCHANGED <<candles, recorded, exchange, current, tick, sets, self, fill,
                   faults, booked>>

ScheduleNextTickFails ==
    /\ pc = "schedule"
    /\ Fault("schedule")
    /\ \/ UNCHANGED <<rows, sinceTick>>
       \/ /\ UpdateTradingStrategy(self, ScheduledModel)
          /\ CountFrom(ScheduledModel)
    /\ GiveUp
    /\ UNCHANGED <<candles, recorded, exchange, current, tick, memory, booked>>

--------------------------------------------------------------------------------
(* The container dies, and Kubernetes starts it again. *)

Crash ==
    /\ pc # "down"
    /\ Fault("crash")
    /\ Die
    /\ UNCHANGED <<candles, tables, exchange, tick, memory, history>>

Restart ==
    /\ pc = "down"
    /\ pc' = "poll"
    /\ UNCHANGED <<candles, tables, exchange, current, tick, memory, todo,
                   faults, history>>

--------------------------------------------------------------------------------

\* What the bot does when nothing fails.
Step ==
    \/ NothingNew \/ FindMostRecentCandlestick \/ InitializeStrategies
    \/ \E s \in Strategies : SkipStrategy(s) \/ BeginStrategy(s)
    \/ FinishTick \/ Sleep \/ Decide \/ Retire
    \/ PlaceOrder \/ OrderTooSmall \/ AwaitFill \/ RecordOrder
    \/ BookTrade \/ DeactivateBelowMinimum \/ ScheduleNextTick

\* What may fail.
Failure ==
    \/ ReadFails \/ RetireFails \/ PlaceOrderRejected \/ PlaceOrderReplyLost
    \/ AwaitFillFails \/ RecordOrderFails \/ BookTradeFails
    \/ DeactivateBelowMinimumFails \/ ScheduleNextTickFails
    \/ BuyPanics \/ Crash

Next ==
    \/ \E e \in 1..MaxTime : ImportCandlestick(e)
    \/ Step
    \/ Failure
    \/ Restart

Spec == Init /\ [][Next]_vars

\* Run never stops calling ProcessTickForNewCandlestick, every call it makes
\* returns, and a Deployment restarts a container that died.
FairSpec == Spec /\ WF_vars(Step) /\ WF_vars(Restart)

================================================================================
