SPECIFICATION MCSpec
CONSTANTS
  Event = {e1, e2, e3}
  Projection = {orders, totals}
  Definitions <- MCDefinitions
  Listens <- MCListens
  MaxClears = 1
  Faults = {"load", "project", "save", "audit"}
  e1 = e1
  e2 = e2
  e3 = e3
  orders = orders
  totals = totals
  r1 = r1
  r2 = r2
  pay = pay
  mail = mail
  none = none
  absent = absent
  n1 = n1
  n2 = n2
  n3 = n3
  bare = bare
INVARIANTS
  FoldIsExact
PROPERTIES
  KernelRecordsAreSound
CHECK_DEADLOCK FALSE
