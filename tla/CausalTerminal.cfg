SPECIFICATION Spec
CONSTANTS
  Cells = 2
  Treatment = {1}
  Works = {"tests", "green"}
  None = None
  MaxCrashes = 2
INVARIANT NoInvalidTerminal
CHECK_DEADLOCK FALSE
