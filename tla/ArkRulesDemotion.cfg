SPECIFICATION MCSpec
CONSTANTS
  Cells = 2
  Treatment = {2}
  Works = {"tests", "green"}
  None = none
  MaxCrashes = 2
  Key <- Key2
  EdgeOf <- OwnEdge
  MaxDebt = 2
  ConcentratedFrom = 2
  NoBaseline = none
  NoJob = none
  none = none
  spoiled = spoiled
INVARIANT DemotionIsAcknowledged
CHECK_DEADLOCK FALSE
