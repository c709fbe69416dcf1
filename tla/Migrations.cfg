SPECIFICATION FairSpec
CONSTANTS
  Times = {0, 1}
  Products = {btc, eth}
  UintSize = 16
  FaultKinds = {"crash", "write", "run"}
  MaxFaults = 3
  MaxRollbacks = 2
INVARIANTS VersionNeverAhead
PROPERTIES RowsSurvive MigrateRecovers
