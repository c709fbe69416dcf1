------------------------------ MODULE MCBacktester ------------------------------
(* A small instance of Backtester: markets made of four kinds of periods of   *)
(* two minutes, and fractions.                                                *)
EXTENDS BacktesterResults

Trade(price, size) == [price |-> price, size |-> size]

(* Nothing traded; a low price early; falling within a minute; rising within  *)
(* two.                                                                       *)
MCPeriods == {<< <<>>, <<>> >>,
              << <<Trade(4, 1)>>, <<>> >>,
              << <<>>, <<Trade(9, 2), Trade(6, 1)>> >>,
              << <<Trade(8, 1)>>, <<Trade(14, 1)>> >>}

MCMarkets ==
    {[m \in Minutes |-> periods[m \div 2][(m % 2) + 1]] :
        periods \in [0..((EndTime - 1) \div 2) -> MCPeriods]}

MCUpThreshold == <<1, 100>>
MCDownThreshold == <<-1, 100>>
MCBuyThreshold == <<35, 1>>
MCSellThreshold == <<70, 1>>
================================================================================
