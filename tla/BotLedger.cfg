SPECIFICATION Spec
CONSTANTS
  ema = ema
  s1 = s1
  Strategies = {ema, s1}
  TickSize <- MCTickSize
  HistoryTicks <- MCHistoryTicks
  Warmup <- MCWarmup
  S1Strategies = {s1}
  InitialBudget <- MCInitialBudget
  OpeningPositions = {0, 4}
  BuyFills = {3, 5}
  SellFills = {13, 15}
  Dust = 2
  MinOrder = 3
  MaxTime = 4
  FaultKinds = {"read", "reject", "schedule", "retire"}
  MaxFaults = 1
INVARIANTS TopUpNeverRuns
PROPERTIES OnlyDueStrategiesTrade KeepsLedger NoBuyBelowMinimum
