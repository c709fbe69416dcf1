SPECIFICATION FairSpec
CONSTANTS
  ema = ema
  s1 = s1
  Strategies = {ema, s1}
  TickSize <- MCTickSize
  HistoryTicks <- MCHistoryTicks
  Warmup <- MCWarmup
  S1Strategies = {}
  InitialBudget <- MCInitialBudget
  OpeningPositions = {0}
  BuyFills = {5}
  SellFills = {13, 15}
  Dust = 2
  MinOrder = 1
  MaxTime = 3
  FaultKinds = {"read", "reject", "reply", "poll", "insert", "book", "floor", "schedule", "retire", "crash"}
  MaxFaults = 2
INVARIANTS TypeOK OrdersPerTickBounded OrdersRecorded BooksMatchExchange ModelsCurrent
PROPERTIES TicksAdvance DueIsServed CatchesUp
