------------------------------ MODULE TradeLedger ------------------------------
(******************************************************************************)
(* What the trading strategies promise, with the database, the ticks and the  *)
(* retries left out: each strategy holds either cash or coin, and all of one  *)
(* becomes the other in a single order, less what truncation drops; a sale    *)
(* that leaves less than .7 of the initial budget is the strategy's last      *)
(* trade (strategy.go:212-351).                                               *)
(******************************************************************************)
EXTENDS Naturals

CONSTANTS Strategies, InitialBudget, OpeningPositions, BuyFills, SellFills,
          Dust, MinOrder

VARIABLES
    holding,  \* what each strategy holds: "cash" or "coin"
    amount,   \* how much of it
    retired   \* whether it has stopped trading

vars == <<holding, amount, retired>>

TypeOK ==
    /\ holding \in [Strategies -> {"cash", "coin"}]
    /\ amount \in [Strategies -> Nat]
    /\ retired \in [Strategies -> BOOLEAN]

Kept(fill) == fill - (fill % Dust)

Init ==
    /\ \E opening \in [Strategies -> OpeningPositions] :
        /\ holding = [s \in Strategies |->
                         IF opening[s] > 0 THEN "coin" ELSE "cash"]
        /\ amount = [s \in Strategies |->
                        IF opening[s] > 0 THEN opening[s] ELSE InitialBudget[s]]
    /\ retired = [s \in Strategies |-> FALSE]

Trade(s, into, fill) ==
    /\ ~retired[s]
    /\ holding[s] # into
    /\ amount[s] >= MinOrder
    /\ holding' = [holding EXCEPT ![s] = into]
    /\ amount' = [amount EXCEPT ![s] = Kept(fill)]

Buy(s) ==
    /\ \E fill \in BuyFills : Trade(s, "coin", fill)
    /\ UNCHANGED retired

Sell(s) ==
    /\ \E fill \in SellFills : Trade(s, "cash", fill)
    /\ retired' = [retired EXCEPT ![s] =
                      10 * amount'[s] < 7 * InitialBudget[s]]

\* There were not enough candlesticks for its indicators.
Retire(s) ==
    /\ ~retired[s]
    /\ retired' = [retired EXCEPT ![s] = TRUE]
    /\ UNCHANGED <<holding, amount>>

Next == \E s \in Strategies : Buy(s) \/ Sell(s) \/ Retire(s)

Spec == Init /\ [][Next]_vars
================================================================================
