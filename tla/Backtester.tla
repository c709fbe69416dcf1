------------------------------- MODULE Backtester -------------------------------
(******************************************************************************)
(* One backtest (backtesting.go): the stored minutes of the range are         *)
(* projected to candlesticks of the strategy's tick size, the indicators are  *)
(* computed over all of them beforehand, and then a TradingStrategy is led    *)
(* from one indicator set to the next, with an exchange that fills orders at  *)
(* the candlestick's close and a backend that notes what it is told.          *)
(*                                                                            *)
(* Amounts are integers, the smallest a row can hold; what an order is filled *)
(* with is a fraction, truncated when it enters the row.  exchangeSlippage    *)
(* is 0.  The CLI's and the optimizer's models start with cash.               *)
(******************************************************************************)
EXTENDS Candlesticks, Strategies

CONSTANTS
    TickSize, HistoryTicks, InitialBudget,  \* of the TradingStrategyModel
    StartTime, EndTime,                     \* the range to test
    Markets,                                \* trades of each minute, sequences
                                            \* of [price, size]: those tested
    DayMinutes                              \* minutes in a day

TryingToBuy == "trying-to-buy"
TryingToSell == "trying-to-sell"

actualStartTime == StartTime - TickSize * HistoryTicks
startBucket == CandlestickBucket(StartTime, TickSize)

ASSUME BacktesterAssumption ==
    /\ TickSize \in Nat \ {0} /\ DayMinutes \in Nat \ {0}
    /\ InitialBudget \in Nat \ {0}
    /\ HistoryTicks \in Nat /\ StartTime \in Nat /\ EndTime \in Nat
    /\ 0 <= actualStartTime /\ StartTime < EndTime
    /\ \A market \in Markets :
          /\ DOMAIN market = actualStartTime..(EndTime - 1)
          /\ \A m \in DOMAIN market :
                market[m] \in Seq([price : Nat \ {0}, size : Nat \ {0}])

(* The minutes that the query for actualStartTime to EndTime takes in. *)
Minutes == actualStartTime..(EndTime - 1)

VARIABLES
    kind,      \* type of the strategy
    market,    \* trades of each minute
    pc,        \* where Backtest is
    candles,   \* what FindCandlesticks answered
    sets, validCandles,   \* what generateIndicatorSets returned
    trader,    \* trader.currentTick, from 1
    exchange,  \* exchange.current, from 1
    model,     \* the TradingStrategyModel
    current, results   \* of the backtestResultCalculator

vars == <<kind, market, pc, candles, sets, validCandles, trader, exchange, model,
          current, results>>

NoOrder == [side |-> "none", cost |-> 0, fill |-> <<0, 1>>]
NoResult == [candle |-> NewCandlestickBuilder(0, 0), order |-> NoOrder,
             budget |-> 0, invested |-> 0]

Candle == [start : Nat, end : Nat, low : Nat, high : Nat, open : Nat, close : Nat,
           volume : Nat]
Order == [side : {"none", "buy", "sell"}, cost : Nat, fill : Nat \X (Nat \ {0})]
Result == [candle : Candle, order : Order, budget : Nat, invested : Nat]

(* The types, and that the trader and the exchange are at the same tick, one  *)
(* ahead of the results while there is a current one (backtesting.go:236-237  *)
(* and 250).                                                                  *)
TypeOK ==
    /\ kind \in Kinds
    /\ pc \in {"find", "generate", "replay", "process", "next", "done", "failed"}
    /\ candles \in Seq(Candle) /\ validCandles \in Seq(Candle)
    /\ Len(sets) = Len(validCandles)
    /\ exchange = trader
    /\ trader = Len(results) + (IF pc \in {"process", "next"} THEN 1 ELSE 0)
    /\ model \in [State : {TryingToBuy, TryingToSell}, Budget : Nat,
                  Invested : Nat, Deactivated : BOOLEAN]
    /\ current \in Result /\ results \in Seq(Result)

Init ==
    /\ kind \in Kinds
    /\ market \in Markets
    /\ pc = "find"
    /\ candles = <<>> /\ sets = <<>> /\ validCandles = <<>>
    /\ trader = 0 /\ exchange = 0
    /\ model = [State |-> TryingToBuy, Budget |-> InitialBudget, Invested |-> 0,
                Deactivated |-> FALSE]
    /\ current = NoResult /\ results = <<>>

--------------------------------------------------------------------------------
(* The market as the database has it: the builder's candlestick of each       *)
(* minute with trades.                                                        *)

TradesOf(m) ==
    [i \in DOMAIN market[m] |->
        [time |-> m, price |-> market[m][i].price, size |-> market[m][i].size]]

MinuteCandlestick(m) ==
    FoldLeft(ProcessMessage, NewCandlestickBuilder(m, m + 1), TradesOf(m))

StoredCandlesticks ==
    WithVolume([i \in 1..(EndTime - actualStartTime) |->
                   MinuteCandlestick(actualStartTime + i - 1)])

(* FindCandlesticks from actualStartTime to EndTime; projecting no            *)
(* candlestick at all is an error.                                            *)
FindCandlesticks ==
    /\ pc = "find"
    /\ IF StoredCandlesticks = <<>>
       THEN pc' = "failed" /\ UNCHANGED candles
       ELSE /\ candles' = ReprojectCandlesticks(StoredCandlesticks, TickSize)
            /\ pc' = "generate"
    /\ UNCHANGED <<kind, market, sets, validCandles, trader, exchange, model,
                   current, results>>

(* One round of generateIndicatorSets' loop: only sets in which no indicator  *)
(* lacks a value are kept.                                                    *)
AddSet(acc, c) ==
    LET ind == AddCandlestick(kind, acc.ind, c)
        set == IndicatorSet(kind, ind)
    IN  IF c.volume = 0 THEN acc
        ELSE IF HasValues(kind, set)
        THEN [ind |-> ind, sets |-> Append(acc.sets, set), valid |-> Append(acc.valid, c)]
        ELSE [acc EXCEPT !.ind = ind]

GeneratedSets ==
    FoldLeft(AddSet, [ind |-> NewIndicators, sets |-> <<>>, valid |-> <<>>], candles)

GenerateIndicatorSets ==
    /\ pc = "generate"
    /\ sets' = GeneratedSets.sets
    /\ validCandles' = GeneratedSets.valid
    /\ pc' = "replay"
    /\ UNCHANGED <<kind, market, candles, trader, exchange, model, current, results>>

--------------------------------------------------------------------------------
(* The loop of Backtest. *)

(* (altered: the trader is not led on in the history before the start) *)
BeginTickOfRange ==
    LET c == validCandles[Len(results) + 1]
        inRange == c.end > startBucket
    IN  /\ pc = "replay"
        /\ Len(results) < Len(sets)
        /\ current' = [current EXCEPT !.candle = c, !.budget = model.Budget,
                                      !.invested = model.Invested]
        /\ trader' = IF inRange THEN trader + 1 ELSE trader
        /\ exchange' = exchange + 1
        /\ pc' = IF inRange THEN "process" ELSE "next"
        /\ UNCHANGED <<kind, market, candles, sets, validCandles, model, results>>

BeginTick ==
    LET c == validCandles[Len(results) + 1]
    IN  /\ pc = "replay"
        /\ Len(results) < Len(sets)
        /\ current' = [current EXCEPT !.candle = c, !.budget = model.Budget,
                                      !.invested = model.Invested]
        /\ trader' = trader + 1
        /\ exchange' = exchange + 1
        /\ pc' = IF c.end > startBucket THEN "process" ELSE "next"
        /\ UNCHANGED <<kind, market, candles, sets, validCandles, model, results>>

(* ProcessTick does nothing.  Every set has all values and the trader is at   *)
(* one of them: ErrNotEnoughData does not come up.                            *)
Hold ==
    /\ pc = "process"
    /\ IF model.State = TryingToBuy THEN ~Buys(kind, sets, trader)
                                    ELSE ~Sells(kind, sets, trader)
    /\ pc' = "next"
    /\ UNCHANGED <<kind, market, candles, sets, validCandles, trader, exchange, model,
                   current, results>>

(* exchangeFee is .0025, 1 / 400. *)
BuyFill(cost, price) == <<cost * 399, price * 400>>
SellFill(cost, price) == <<cost * price * 399, 400>>

Truncate(x) == x[1] \div x[2]

(* PerformOrder and the update of the row: BacktesterBackend notes both. *)
Register(order) ==
    /\ current' = [current EXCEPT !.order = order, !.budget = model'.Budget,
                                  !.invested = model'.Invested]
    /\ pc' = "next"
    /\ UNCHANGED <<kind, market, candles, sets, validCandles, trader, exchange, results>>

Buy ==
    LET fill == BuyFill(model.Budget, validCandles[exchange].close)
    IN  /\ pc = "process"
        /\ model.State = TryingToBuy
        /\ Buys(kind, sets, trader)
        /\ model' = [model EXCEPT !.Invested = Truncate(fill), !.Budget = 0,
                                  !.State = TryingToSell]
        /\ Register([side |-> "buy", cost |-> model.Budget, fill |-> fill])

(* Below .7 of the initial budget the model is deactivated, which the loop    *)
(* does not look at.                                                          *)
Sell ==
    LET fill == SellFill(model.Invested, validCandles[exchange].close)
        budget == Truncate(fill)
    IN  /\ pc = "process"
        /\ model.State = TryingToSell
        /\ Sells(kind, sets, trader)
        /\ model' = [State |-> TryingToBuy, Budget |-> budget, Invested |-> 0,
                     Deactivated |-> model.Deactivated
                                     \/ 10 * budget < 7 * InitialBudget]
        /\ Register([side |-> "sell", cost |-> model.Invested, fill |-> fill])

(* (altered: goes on with the same result) *)
NextResultOfSame ==
    /\ pc = "next"
    /\ results' = Append(results, current)
    /\ pc' = "replay"
    /\ UNCHANGED <<kind, market, candles, sets, validCandles, trader, exchange, model,
                   current>>

(* backtestResultCalculator.next *)
NextResult ==
    /\ pc = "next"
    /\ results' = Append(results, current)
    /\ current' = NoResult
    /\ pc' = "replay"
    /\ UNCHANGED <<kind, market, candles, sets, validCandles, trader, exchange, model>>

Finish ==
    /\ pc = "replay"
    /\ Len(results) = Len(sets)
    /\ pc' = "done"
    /\ UNCHANGED <<kind, market, candles, sets, validCandles, trader, exchange, model,
                   current, results>>

(* Backtest has returned: nothing happens any more. *)
Returned == pc \in {"done", "failed"} /\ UNCHANGED vars

Next ==
    \/ FindCandlesticks \/ GenerateIndicatorSets
    \/ BeginTick \/ Hold \/ Buy \/ Sell \/ NextResult
    \/ Finish \/ Returned

Spec == Init /\ [][Next]_vars
================================================================================
