SPECIFICATION FairSpec
CONSTANTS
  GdaxRetries = 4
  MaxSize = 2
PROPERTIES KeepsMarketOrder CallReturns
