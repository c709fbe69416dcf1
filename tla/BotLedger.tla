------------------------------- MODULE BotLedger -------------------------------
(******************************************************************************)
(* The Bot keeps the promise of TradeLedger, seen from the exchange: a trade  *)
(* happens when the exchange takes the order, and the strategy's row agrees   *)
(* once the result is booked.                                                 *)
(******************************************************************************)
EXTENDS BotInv

Swapped(state) == IF state = TryingToBuy THEN TryingToSell ELSE TryingToBuy

\* The position the exchange has already given the strategy.
Position(s) ==
    IF InFlight(s) THEN Swapped(rows[s].State) ELSE rows[s].State

AmountHeld(s) ==
    IF InFlight(s) THEN TruncateFloat(fill) ELSE Cost(rows[s])

\* A sale below the minimum retires the strategy at once, though the row says so
\* only after TrySell's second write.
HasRetired(s) ==
    \/ rows[s].Deactivated
    \/ Position(s) = TryingToBuy /\ BelowMinimum(s, AmountHeld(s))

Ledger == INSTANCE TradeLedger WITH
    holding <- [s \in Strategies |->
                   IF Position(s) = TryingToBuy THEN "cash" ELSE "coin"],
    amount <- [s \in Strategies |-> AmountHeld(s)],
    retired <- [s \in Strategies |-> HasRetired(s)]

\* TryBuy and TrySell, over all the ticks, retries and failures that come before
\* an order is taken or after its result is booked, alternate full-position
\* trades as TradeLedger says (strategy.go:212-351, bot.go:146-199).
KeepsLedger == Ledger!Spec
================================================================================
