SPECIFICATION Spec
CONSTANTS
  Times = {0}
  Products = {btc, eth}
  UintSize = 16
  FaultKinds = {}
  MaxFaults = 0
  MaxRollbacks = 2
PROPERTIES RowsAlwaysSurvive
