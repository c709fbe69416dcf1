SPECIFICATION FairSpec
CONSTANTS
  Workers = {w1, w2}
  BatchSize = 2
  MaxRetries = 2
  First = 1
  Last = 3
  MaxMinute = 4
INVARIANTS ImportComplete
PROPERTIES OnlyFreshMinutesDamaged ImportReturns
