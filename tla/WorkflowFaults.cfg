SPECIFICATION MCFairSpec
CONSTANTS
  Name <- MCName
  StepName = {pay, ship, mail}
  StepsOf <- MCStepsOf
  Run = {r1, r2, r3, r4}
  Id = {"a", "b", "c"}
  NoStep = none
  NoSnapshot = absent
  r1 = r1
  r2 = r2
  r3 = r3
  r4 = r4
  pay = pay
  ship = ship
  mail = mail
  none = none
  absent = absent
  Triggered = {"order"}
  WorkflowOf <- MCOrderAndTwice
  ByEvent = {r1}
  IdOf <- MCIdOf
  Faults = {"step", "timeout", "compensate", "save", "audit", "subscribe"}
  MaxCrashes = 1
INVARIANTS
  TypeOK
  CompensationSound
  FailedIsCompensated
  StoreIsTruthful
  HandleIsTruthful
PROPERTIES
  NoRepeatAfterSuccess
  NothingAfterSettlement
  ImplementsContract
  Settles
CHECK_DEADLOCK FALSE
