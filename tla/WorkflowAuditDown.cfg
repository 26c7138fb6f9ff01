SPECIFICATION MCSpec
CONSTANTS
  Name <- MCName
  StepName = {pay, ship, mail}
  StepsOf <- MCStepsOf
  Run = {r1, r2, r3, r4}
  Id = {"a", "b", "c"}
  NoStep = none
  NoSnapshot = absent
  r1 = r1
  r2 = r2
  r3 = r3
  r4 = r4
  pay = pay
  ship = ship
  mail = mail
  none = none
  absent = absent
  Triggered = {}
  WorkflowOf <- MCBriefAndSolo
  ByEvent = {}
  IdOf <- MCIdOf
  Faults = {"audit"}
  MaxCrashes = 0
INVARIANTS
  FinalAuditFailureEndsFailed
CHECK_DEADLOCK FALSE
