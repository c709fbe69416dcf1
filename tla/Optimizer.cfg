SPECIFICATION Spec
CONSTANTS
  Callers = {1, 2}
  MaxChanges = 1
  MaxFailures = 4
  Periods = 4
  RandPeriods = 2
  MaxRSI = 1
  MaxPeriod = 3
  PopSize = 2
  Generations = 2
  Scores <- MCScores
  NaN = 100
INVARIANTS ScoresComparable BestIsBest GenomesInRange
