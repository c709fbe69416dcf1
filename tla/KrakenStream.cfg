SPECIFICATION FairSpec
CONSTANTS
  PageSize = 3
  MaxMinute = 7
  MaxCrashes = 1
  MaxFailures = 2
INVARIANTS PagesJoin OnlyWholeCandlesticks
PROPERTIES StoredOnceInOrder StreamCatchesUp
