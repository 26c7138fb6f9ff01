SPECIFICATION MCSpec
CONSTANTS
  Cells = 2
  Treatment = {1}
  Works = {"tests", "green"}
  None = none
  MaxCrashes = 2
  Key <- Key2
  EdgeOf <- OwnEdge
  MaxDebt = 2
  ConcentratedFrom = 2
  NoBaseline = none
  NoJob = none
  none = none
  spoiled = spoiled
INVARIANTS LedgerIsHonest CyclesAreExact LossIsAcknowledged ValidIsExact RatchetIsExact SurfacesAgree RemedySound RulesVerdictIsExact FactsAreSound ReshapeIsSound
CHECK_DEADLOCK FALSE
