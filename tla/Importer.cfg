SPECIFICATION FairSpec
CONSTANTS
  Trades = {t1, t2}
  NoTrade = NoTrade
  MaxMinute = 3
  Skew = 1
  MaxCrashes = 1
  MaxFailures = 1
INVARIANTS TradesAccountedFor BuilderNeverNil
PROPERTIES StoredIsFinal NothingRemovedUnstored StoredInOrder TradesGetStored
CHECK_DEADLOCK FALSE
