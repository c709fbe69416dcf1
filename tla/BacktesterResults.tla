---------------------------- MODULE BacktesterResults ----------------------------
(******************************************************************************)
(* What Backtester.Results says about the results noted so far, and what must *)
(* hold of a backtest.  Filled sizes of sales are in 400ths, as the fee is.   *)
(******************************************************************************)
EXTENDS Backtester

(* (altered: every sale is against the first budget)                          *)
BudgetNeverMoved(budget, order) == budget

(* currentBudget: what the next sale's profit is reckoned against. *)
BudgetAfter(budget, order) ==
    IF order.side = "sell" THEN Truncate(order.fill) ELSE budget

(* What the portfolio is worth in a result: its budget or, at the close and   *)
(* less the fee, what is invested.                                            *)
PortfolioValue(r) ==
    IF r.budget # 0 THEN <<r.budget, 1>> ELSE SellFill(r.invested, r.candle.close)

(* The first result of another weekday; a gap of whole weeks goes unnoticed.  *)
NewDay(day, r) ==
    /\ day > StartTime
    /\ r.candle.start > day
    /\ (r.candle.start \div DayMinutes) % 7 # (day \div DayMinutes) % 7

(* A result's part in Results, which goes through them in order. *)
AddResult(acc, r) ==
    LET sold == r.order.side = "sell"
        diff == r.order.fill[1] - 400 * acc.budget
    IN  [profit |-> acc.profit + (IF sold /\ diff >= 0 THEN diff ELSE 0),
         loss |-> acc.loss + (IF sold /\ diff < 0 THEN -diff ELSE 0),
         profits |-> acc.profits + (IF sold /\ diff >= 0 THEN 1 ELSE 0),
         losses |-> acc.losses + (IF sold /\ diff < 0 THEN 1 ELSE 0),
         budget |-> BudgetAfter(acc.budget, r.order),
         final |-> IF sold THEN Truncate(r.order.fill) ELSE acc.final,
         day |-> r.candle.start,
         perDay |-> IF NewDay(acc.day, r)
                    THEN Append(acc.perDay, PortfolioValue(r)) ELSE acc.perDay]

Results ==
    FoldLeft(AddResult,
             [profit |-> 0, loss |-> 0, profits |-> 0, losses |-> 0,
              budget |-> InitialBudget, final |-> 0, perDay |-> <<>>,
              day |-> IF results = <<>> THEN 0 ELSE Head(results).candle.start],
             results)

--------------------------------------------------------------------------------
(* The replay. *)

(* What the trader held before the i-th result. *)
HeldBefore(i) ==
    IF i = 1 THEN [budget |-> InitialBudget, invested |-> 0]
    ELSE [budget |-> results[i - 1].budget, invested |-> results[i - 1].invested]

(* Without an order a result holds what was held before, an order is for all  *)
(* of that, at the close of the result's own candlestick and with its fee,    *)
(* and what it brought is held afterwards, less than one unit off.            *)
Explains(held, r) ==
    LET price == r.candle.close
    IN  CASE r.order.side = "none" ->
                r.budget = held.budget /\ r.invested = held.invested
          [] r.order.side = "buy" ->
                /\ r.order.cost = held.budget /\ held.invested = 0
                /\ r.budget = 0
                /\ 400 * price * r.invested <= 399 * held.budget
                /\ 399 * held.budget < 400 * price * (r.invested + 1)
          [] r.order.side = "sell" ->
                /\ r.order.cost = held.invested /\ held.budget = 0
                /\ r.invested = 0
                /\ 400 * r.budget <= 399 * price * held.invested
                /\ 399 * price * held.invested < 400 * (r.budget + 1)

(* The results explain one another: no order is reported twice or never, or   *)
(* with another tick's candlestick (backtesting.go:229-251, 462-465).         *)
OrdersExplainHoldings ==
    \A i \in DOMAIN results : Explains(HeldBefore(i), results[i])

(* GrossProfit less GrossLoss is what the budget has grown by, but for the    *)
(* fractions cut off at each sale, and FinalBudget is the budget after the    *)
(* last sale (backtesting.go:338-356).                                        *)
ProfitIsBooked ==
    LET end == Results
        sales == end.profits + end.losses
        cut == end.profit - end.loss - 400 * (end.final - InitialBudget)
    IN  sales > 0 =>
            /\ 0 <= cut /\ cut < 400 * sales
            /\ model.State = TryingToBuy /\ pc = "done" => end.final = model.Budget

--------------------------------------------------------------------------------
(* The decisions. *)

(* A TradingStrategy of the bot that SeedIndicators feeds candlestick after   *)
(* candlestick: a set for each, with or without volume or values.             *)
SeedIndicators(acc, c) ==
    LET ind == AddCandlestick(kind, acc.ind, c)
    IN  [ind |-> ind, history |-> Append(acc.history, IndicatorSet(kind, ind))]

Seeded(cs) == FoldLeft(SeedIndicators, [ind |-> NewIndicators, history |-> <<>>], cs)

SeededHistory(n) == Seeded(SubSeq(candles, 1, n)).history

(* The backtest buys and sells exactly when a bot's TradingStrategy, seeded   *)
(* with the same candlesticks up to the one of the decision and with none     *)
(* after it, would (unless that one panics, s1_strategy.go:63): the sets made *)
(* beforehand and without empty periods let no decision see later ones or     *)
(* another set before it (backtesting.go:169-200, strategy.go:127-148).  A    *)
(* strategy that has bought sells next, even if what it bought truncated to   *)
(* nothing.                                                                   *)
DecidesAsSeeded ==
    pc = "done" =>
        \A i \in DOMAIN results :
            LET c == results[i].candle
                n == CHOOSE k \in DOMAIN candles : candles[k] = c
                history == SeededHistory(n)
                holdsCash == \A j \in 1..(i - 1) : results[j].order.side = "buy" =>
                                 \E k \in j..(i - 1) : results[k].order.side = "sell"
            IN  c.end > startBucket /\ ~BuyPanics(kind, history, n) =>
                    results[i].order.side =
                        IF holdsCash
                        THEN IF Buys(kind, history, n) THEN "buy" ELSE "none"
                        ELSE IF Sells(kind, history, n) THEN "sell" ELSE "none"

--------------------------------------------------------------------------------
(* The indicators and candlesticks, against what they are defined to be. *)

Generated == pc = "replay" /\ results = <<>>

Total(s) == FoldLeft(LAMBDA sum, x : sum + x, 0, s)
Product(s) == FoldLeft(LAMBDA product, x : product * x, 1, s)
Power(b, e) == Product([i \in 1..e |-> b])

(* Mean prices of the candlesticks with volume, up to the i-th valid one. *)
PricesUpTo(i) ==
    LET n == CHOOSE k \in DOMAIN candles : candles[k] = validCandles[i]
        counted == WithVolume(SubSeq(candles, 1, n))
    IN  [k \in DOMAIN counted |-> MeanPrice(counted[k])]

(* Candlesticks that the slowest indicator of a strategy needs. *)
Warmup == CASE kind = "ema" -> LongPeriod
            [] kind = "rsi" -> RSIPeriodOf(kind) + 1
            [] kind = "s1" -> IF LongPeriod > RSIPeriodOf(kind) THEN LongPeriod
                              ELSE RSIPeriodOf(kind) + 1

(* The first set is that of the candlestick that completes the slowest        *)
(* indicator, and there is one for every candlestick with volume from then on *)
(* (ema.go:63-74, rsi.go:51-86 and 130): no value is early or missing.      *)
SetsBeginAfterWarmup ==
    Generated =>
        LET counted == WithVolume(candles)
        IN  validCandles = SubSeq(counted, Warmup, Len(counted))

(* An EMA of n prices with period p is the mean of the first p weighted with  *)
(* (1 - a)^(n-p), and each later one, the k-th, with a (1 - a)^(n-k), where   *)
(* a = 2 / (p + 1) (ema.go:52-80).                                            *)
EMAWeight(p, n, k) ==
    IF k <= p THEN Power(p - 1, n - p)
    ELSE 2 * p * Power(p - 1, n - k) * Power(p + 1, k - p - 1)

WeightedEMA(p, prices) ==
    LET n == Len(prices)
    IN  <<Total([k \in 1..n |-> EMAWeight(p, n, k) * prices[k]]),
          p * Power(p + 1, n - p)>>

SameNumber(x, y) == AtMost(x, y) /\ AtMost(y, x)

EMAIsWeightedMean ==
    Generated /\ kind # "rsi" =>
        \A i \in DOMAIN sets :
            /\ SameNumber(sets[i].short, WeightedEMA(ShortPeriod, PricesUpTo(i)))
            /\ SameNumber(sets[i].long, WeightedEMA(LongPeriod, PricesUpTo(i)))

(* Wilder's index of period p: the share of gains among all moves, the first  *)
(* p of them averaged, later ones weighted as in his average (rsi.go:35-121). *)
(* It is S1's, whose period is the 14 that the code divides by; that of an    *)
(* RSI strategy with another period weighs its moves differently.             *)
RSIWeight(p, n, k) ==
    IF k <= p THEN Power(p - 1, n - p) ELSE Power(p - 1, n - k) * Power(p, k - p)

WildersAverage(p, moves) ==
    LET n == Len(moves)
    IN  Total([k \in 1..n |-> RSIWeight(p, n, k) * moves[k]])

Ups(prices) ==
    [k \in 1..(Len(prices) - 1) |->
        IF prices[k] < prices[k + 1] THEN prices[k + 1] - prices[k] ELSE 0]
Downs(prices) ==
    [k \in 1..(Len(prices) - 1) |->
        IF prices[k + 1] < prices[k] THEN prices[k] - prices[k + 1] ELSE 0]

WildersRSI(p, prices) ==
    LET gains == WildersAverage(p, Ups(prices))
        losses == WildersAverage(p, Downs(prices))
    IN  IF gains + losses = 0 THEN <<50, 1>> ELSE <<100 * gains, gains + losses>>

RSIIsWilders ==
    Generated /\ RSIPeriodOf(kind) = RSISmoothing /\ kind # "ema" =>
        \A i \in DOMAIN sets :
            SameNumber(sets[i].rsi, WildersRSI(RSIPeriodOf(kind), PricesUpTo(i)))

MinutesInOrder == [i \in 1..(EndTime - actualStartTime) |-> actualStartTime + i - 1]

(* The trades before `end` from `start` on, minute by minute. *)
AddTrades(ts, m, start, end) == IF start <= m /\ m < end THEN ts \o market[m] ELSE ts
TradesFrom(start, end) ==
    FoldLeft(LAMBDA ts, m : AddTrades(ts, m, start, end), <<>>, MinutesInOrder)

(* c says of trades what a candlestick has to say. *)
SumsUp(c, ts) ==
    LET prices == {ts[i].price : i \in DOMAIN ts}
    IN  IF ts = <<>> THEN c = NewCandlestickBuilder(c.start, c.end)
        ELSE /\ c.open = ts[1].price /\ c.close = ts[Len(ts)].price
             /\ c.low \in prices /\ c.high \in prices
             /\ \A p \in prices : c.low <= p /\ p <= c.high
             /\ c.volume = Total([i \in DOMAIN ts |-> ts[i].size])

(* A projected candlestick is what its period's trades say: no trade of the   *)
(* range is left out or counted twice by way of the minutes, and open and     *)
(* close are the first and last (candlesticks.go:48-83, 134-222).             *)
ProjectionKeepsMarket ==
    pc = "generate" =>
        /\ \A i \in DOMAIN candles :
              SumsUp(candles[i], TradesFrom(candles[i].start, candles[i].end))
        /\ \A i \in 1..(Len(candles) - 1) : candles[i].end = candles[i + 1].start
        /\ \A m \in Minutes : market[m] # <<>> =>
              \E i \in DOMAIN candles : candles[i].start <= m /\ m < candles[i].end
================================================================================
