------------------------------- MODULE Indicators -------------------------------
(******************************************************************************)
(* The indicators the strategies use (ema.go, rsi.go): each is a state to     *)
(* which AddCandlestick adds a candlestick, and a Value.  Floats are exact    *)
(* fractions here, pairs <<numerator, denominator>>.  No value yet is None.   *)
(******************************************************************************)
EXTENDS Integers, Sequences

CONSTANTS
    MaxUint,       \* the largest uint: what period - 1 is for a period of 0
    RSISmoothing   \* the 14 that the RSI divides by, whatever its periods are

ASSUME IndicatorsAssumption ==
    MaxUint \in Nat \ {0} /\ RSISmoothing \in Nat \ {0}

None == <<>>

(* Four times MeanPrice: every indicator is used as a ratio of prices. *)
MeanPrice(c) == c.open + c.high + c.low + c.close

Less(x, y) == x[1] * y[2] < y[1] * x[2]
AtMost(x, y) == x[1] * y[2] <= y[1] * x[2]

--------------------------------------------------------------------------------
(* EMAIndicator: lastEMA, which is None for 0, and the values kept before it. *)

NewEMA == [last |-> None, sum |-> 0, count |-> 0]

(* (altered: one price more) *)
BeforeLate(period) == IF period = 0 THEN MaxUint ELSE period

Before(period) == IF period = 0 THEN MaxUint ELSE period - 1

Known(num, den) == IF num = 0 THEN None ELSE <<num, den>>

(* (altered: the weight is 2 / period) *)
MovedHeavily(last, period, price) ==
    Known(2 * price * last[2] + (period - 2) * last[1], period * last[2])

(* constant * (price - lastEMA) + lastEMA, the constant being 2 / (period + 1) *)
Moved(last, period, price) ==
    Known(2 * price * last[2] + (period - 1) * last[1], (period + 1) * last[2])

(* The average of the first `period` prices, moved by each price after them.  *)
AddToEMA(ema, period, price) ==
    IF ema.last # None
    THEN [ema EXCEPT !.last = Moved(@, period, price)]
    ELSE IF ema.count < Before(period)
    THEN [ema EXCEPT !.sum = @ + price, !.count = @ + 1]
    ELSE [last |-> Known(ema.sum + price, period), sum |-> 0, count |-> 0]

(* DEMAIndicator.Value: (short - long) / (short + long) / 2. *)
DEMA(short, long) ==
    IF short.last = None \/ long.last = None
    THEN None
    ELSE LET s == short.last[1] * long.last[2]
             l == long.last[1] * short.last[2]
         IN  <<s - l, 2 * (s + l)>>

--------------------------------------------------------------------------------
(* RSIIndicator: gain and loss are the averages, over the denominator `over`. *)

NewRSI == [iterations |-> 0, price |-> 0, gain |-> 0, loss |-> 0, over |-> 1]

Gain(diff) == IF diff >= 0 THEN diff ELSE 0

(* (altered: losses are summed as they are, negative) *)
LossSigned(diff) == IF diff < 0 THEN diff ELSE 0

Loss(diff) == IF diff < 0 THEN -diff ELSE 0

(* Gains and losses are summed over the first `periods` differences, averaged *)
(* at the last of them, and smoothed from then on.                            *)
AddToRSI(rsi, periods, price) ==
    LET diff == IF rsi.iterations = 0 THEN 0 ELSE price - rsi.price
        smooth == rsi.iterations > periods
        Average(average, x) ==
            IF smooth THEN average * (periods - 1) + x * rsi.over ELSE average + x
    IN  [iterations |-> rsi.iterations + 1,
         price |-> price,
         gain |-> Average(rsi.gain, Gain(diff)),
         loss |-> Average(rsi.loss, Loss(diff)),
         over |-> IF smooth THEN rsi.over * RSISmoothing
                  ELSE IF rsi.iterations = periods THEN periods ELSE 1]

(* 100 - 100 / (1 + gain / loss); 50 when the price has not moved. *)
RSI(rsi, periods) ==
    IF rsi.iterations <= periods THEN None
    ELSE IF rsi.gain + rsi.loss = 0 THEN <<50, 1>>
    ELSE <<100 * rsi.gain, rsi.gain + rsi.loss>>
================================================================================
