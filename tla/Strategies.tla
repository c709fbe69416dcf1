------------------------------- MODULE Strategies -------------------------------
(******************************************************************************)
(* The three trading strategies: which indicators they look at and when they  *)
(* buy and sell (ema_crossover_strategy.go, rsi_strategy.go, s1_strategy.go). *)
(* An indicator set is what the indicators of a strategy say after a          *)
(* candlestick: [dema, short, long, rsi], of which each strategy reads its    *)
(* own.                                                                       *)
(******************************************************************************)
EXTENDS Indicators

CONSTANTS
    ShortPeriod, LongPeriod,      \* of the EMAs
    RSIPeriod,                    \* of the RSI of the RSI strategy
    UpThreshold, DownThreshold,   \* for the DEMA, as fractions
    BuyThreshold, SellThreshold   \* for the RSI, as fractions

(* The EMAs have different periods, so that their names, the keys of          *)
(* TradingStrategy.indicators, differ.                                        *)
ASSUME StrategiesAssumption ==
    /\ ShortPeriod \in Nat /\ LongPeriod \in Nat
    /\ ShortPeriod < LongPeriod
    /\ RSIPeriod \in Nat \ {0}
    /\ \A t \in {UpThreshold, DownThreshold, BuyThreshold, SellThreshold} :
           t \in Int \X (Nat \ {0})

Kinds == {"ema", "rsi", "s1"}

NewIndicators == [short |-> NewEMA, long |-> NewEMA, rsi |-> NewRSI]

(* S1's rsiPeriod is the 14 that the RSI itself has for a constant. *)
RSIPeriodOf(kind) == IF kind = "s1" THEN RSISmoothing ELSE RSIPeriod

(* AddCandlestick of each indicator; one without volume changes none. *)
AddCandlestick(kind, ind, c) ==
    IF c.volume = 0 THEN ind
    ELSE [short |-> AddToEMA(ind.short, ShortPeriod, MeanPrice(c)),
          long |-> AddToEMA(ind.long, LongPeriod, MeanPrice(c)),
          rsi |-> AddToRSI(ind.rsi, RSIPeriodOf(kind), MeanPrice(c))]

IndicatorSet(kind, ind) ==
    [dema |-> DEMA(ind.short, ind.long), short |-> ind.short.last,
     long |-> ind.long.last, rsi |-> RSI(ind.rsi, RSIPeriodOf(kind))]

EMAIndicators == {"dema", "short", "long"}
RSIIndicators == {"rsi"}
S1Indicators == EMAIndicators \cup RSIIndicators

IndicatorsOf(kind) ==
    CASE kind = "ema" -> EMAIndicators
      [] kind = "rsi" -> RSIIndicators
      [] kind = "s1" -> S1Indicators

(* No indicator of the strategy lacks a value. *)
HasValues(kind, set) == \A name \in IndicatorsOf(kind) : set[name] # None

--------------------------------------------------------------------------------
(* Buy and Sell, of an indicator set with values. *)

EMABuys(set) == Less(UpThreshold, set.dema)
EMASells(set) == Less(set.dema, DownThreshold)

RSIBuys(set) == AtMost(set.rsi, BuyThreshold)
RSISells(set) == AtMost(SellThreshold, set.rsi)

(* S1 does not enter again a trade it has just left by its RSI. *)
JustExited(history, current) ==
    /\ current > 1
    /\ AtMost(UpThreshold, history[current - 1].dema)
    /\ AtMost(SellThreshold, history[current - 1].rsi)

(* Its thresholds for the RSI are RSIEntranceThreshold and RSIExitThreshold.  *)
S1Buys(history, current) ==
    /\ ~JustExited(history, current)
    /\ RSIBuys(history[current]) \/ EMABuys(history[current])

S1Sells(set) == RSISells(set) \/ EMASells(set)

(* (altered: the newest of all sets is looked at, not the current one) *)
BuysOnNewest(kind, history, current) == EMABuys(history[Len(history)])

Buys(kind, history, current) ==
    CASE kind = "ema" -> EMABuys(history[current])
      [] kind = "rsi" -> RSIBuys(history[current])
      [] kind = "s1" -> S1Buys(history, current)

Sells(kind, history, current) ==
    CASE kind = "ema" -> EMASells(history[current])
      [] kind = "rsi" -> RSISells(history[current])
      [] kind = "s1" -> S1Sells(history[current])

(* What S1.Buy does not look out for: the set before the current one has no   *)
(* values yet, and it dereferences them.                                      *)
BuyPanics(kind, history, current) ==
    kind = "s1" /\ current > 1 /\ ~HasValues(kind, history[current - 1])
================================================================================
