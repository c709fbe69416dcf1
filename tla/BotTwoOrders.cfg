SPECIFICATION Spec
CONSTANTS
  ema = ema
  s1 = s1
  Strategies = {ema, s1}
  TickSize <- MCTickSize
  HistoryTicks <- MCHistoryTicks
  Warmup <- MCWarmup
  S1Strategies = {s1}
  InitialBudget <- MCInitialBudget
  OpeningPositions = {0, 4}
  BuyFills = {5}
  SellFills = {13, 15}
  Dust = 2
  MinOrder = 1
  MaxTime = 3
  FaultKinds = {"poll"}
  MaxFaults = 1
INVARIANTS SingleMarketOrder
