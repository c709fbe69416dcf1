--------------------------------- MODULE MCBot ---------------------------------
(* Small instances of Bot: two strategies, with different periods. *)
EXTENDS BotLedger, TLC

CONSTANTS ema, s1   \* the two strategies

MCTickSize == ema :> 2 @@ s1 :> 1
MCHistoryTicks == ema :> 2 @@ s1 :> 2
MCWarmup == ema :> 1 @@ s1 :> 2
MCInitialBudget == ema :> 20 @@ s1 :> 20
================================================================================
