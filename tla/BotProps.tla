-------------------------------- MODULE BotProps --------------------------------
(******************************************************************************)
(* What the Bot is expected to guarantee.  Each property names the code it is *)
(* about; those that hold whatever fails count what the failures may cost.    *)
(******************************************************************************)
EXTENDS Bot

\* An order the exchange has taken and whose result is not in the row yet.
InFlight(s) == self = s /\ pc \in {"fill", "record", "book"}

\* Every tick of a strategy costs at most one order, plus one for each failure
\* or crash so far: TryBuy/TrySell, the retry of a failed candlestick by
\* ProcessTickForNewCandlestick and the NextTickAt of processTick together
\* never order again on their own (bot.go:60-74, 121-144, 190-196).
OrdersPerTickBounded == \A s \in Strategies : sinceTick[s] <= 1 + faults

\* Every order the exchange took is a row of market_orders, or was lost to a
\* failure, or is the one PerformOrder is about to insert; and there is no row
\* without an order (order_strategies.go:67-93).
OrdersRecorded ==
    \A s \in Strategies :
        /\ recorded[s] <= placed[s]
        /\ placed[s] - recorded[s] <=
               faults + (IF self = s /\ pc \in {"fill", "record"} THEN 1 ELSE 0)

\* As long as every order's result reached the row, Budget and Invested are what
\* the exchange holds for the strategy, short of what truncation left behind,
\* never more: the bot never orders for money it does not have
\* (strategy.go:235-242, 294-301).
BooksMatchExchange ==
    \A s \in Strategies :
        placed[s] = booked[s] =>
            /\ account[s].cash - rows[s].Budget \in 0..((Dust - 1) * booked[s])
            /\ account[s].coin - rows[s].Invested \in 0..((Dust - 1) * booked[s])

\* A model still to be processed in this tick is its row: nothing, the other
\* strategies' trades and the failures of earlier ticks included, leaves the bot
\* with a stale copy it would write back (bot.go:84-115, backend.go:117-120).
ModelsCurrent ==
    pc \in {"scan", "decide", "order", "fill", "record", "book", "floor",
            "schedule", "retire"} =>
        \A s \in todo : models[s] = rows[s]

\* processTick's top-up never runs: the last candlestick initializeStrategies
\* seeds ends at or after the tick, so bot.go:148-162 is dead code and the
\* indicators are those of initializeStrategies alone.
TopUpNeverRuns == pc = "decide" => TopUp(self) = {}

\* An order is placed only for an active strategy whose tick has come, at the
\* end of a candlestick that is stored, on the side its row says and for all of
\* that side (bot.go:127-131, strategy.go:225-230, 284-289).
OnlyDueStrategiesTrade ==
    [][\A s \in Strategies : placed'[s] # placed[s] =>
          /\ ~rows[s].Deactivated
          /\ rows[s].NextTickAt <= tick
          /\ tick \in candles
          /\ IF rows[s].State = TryingToBuy
             THEN account'[s].cash = account[s].cash - rows[s].Budget
             ELSE account'[s].coin = account[s].coin - rows[s].Invested]_vars

\* NextTickAt only moves forward, past the candlestick just processed and by at
\* most one period beyond it, and onto a period boundary; a deactivated strategy
\* never comes back (bot.go:190-194).
TicksAdvance ==
    [][\A s \in Strategies :
          /\ rows[s].Deactivated => rows'[s].Deactivated
          /\ rows'[s].NextTickAt # rows[s].NextTickAt =>
                /\ rows'[s].NextTickAt > rows[s].NextTickAt
                /\ rows'[s].NextTickAt - tick \in 1..TickSize[s]
                /\ rows'[s].NextTickAt % TickSize[s] = 0]_vars

\* No buy order is placed with a budget below .7 of the initial one, "the lowest
\* we're allowed to let our budget drop down to" (strategy.go:49-51, 325-343).
\* This holds only if nothing fails between the two writes of TrySell.
NoBuyBelowMinimum ==
    [][\A s \in Strategies :
          placed'[s] # placed[s] /\ rows[s].State = TryingToBuy =>
              10 * rows[s].Budget >= 7 * InitialBudget[s]]_vars

--------------------------------------------------------------------------------
(* Liveness. *)

\* A strategy that is due is processed: its tick moves on or it is deactivated,
\* whatever finite number of failures and crashes comes first.  This is what
\* keeping currentCandlestick until the tick succeeded is for (bot.go:65-72).  It
\* takes an exchange that does not refuse any strategy's orders for ever.
DueIsServed ==
    \A s \in Strategies, m \in 1..MaxTime :
        (rows[s].NextTickAt = m /\ \E e \in candles : e >= m)
            ~> (rows[s].NextTickAt # m \/ rows[s].Deactivated)

\* Once candlesticks and failures cease, the bot is done with the newest one.
CatchesUp == <>[](\A e \in candles : e <= current)

--------------------------------------------------------------------------------
(* What comments of the code say, and the code does not do. *)

\* order_strategies.go:34-35: an order strategy "executes a buy/sell order using
\* a single market order": one decision, at most one order.
SingleMarketOrder == \A s \in Strategies : sinceTick[s] <= 1

\* strategy.go:55: ErrNotEnoughData "is returned when there isn't enough data": a
\* strategy that lacks data to decide is told so, the process goes on.
ShortDataIsAnError == [][pc = "decide" => pc' # "down"]_vars

================================================================================
