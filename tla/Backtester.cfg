SPECIFICATION Spec
CONSTANTS
  MaxUint = 7
  RSISmoothing = 2
  ShortPeriod = 1
  LongPeriod = 2
  RSIPeriod = 1
  UpThreshold <- MCUpThreshold
  DownThreshold <- MCDownThreshold
  BuyThreshold <- MCBuyThreshold
  SellThreshold <- MCSellThreshold
  TickSize = 2
  HistoryTicks = 2
  InitialBudget = 2000
  StartTime = 5
  EndTime = 13
  Markets <- MCMarkets
  DayMinutes = 4
INVARIANTS OrdersExplainHoldings ProfitIsBooked DecidesAsSeeded
  SetsBeginAfterWarmup EMAIsWeightedMean RSIIsWilders ProjectionKeepsMarket
