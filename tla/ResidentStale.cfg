SPECIFICATION MCSpec
CONSTANTS
  Server = {s1, s2}
  s1 = s1
  s2 = s2
  Client = {c1}
  Watched = {config}
  Governed = {source}
  Resolution = {rules}
  Nobody = Nobody
  MaxVersion = 1
  MaxRequests = 2
  a1 = a1
  a2 = a2
  k1 = k1
  k2 = k2
  f1 = f1
  f2 = f2
  settings = settings
  Junk = Junk
  Smell = Smell
  Plain = Plain
  none = none
  Broken = Broken
INVARIANT StaleFallsBack
CHECK_DEADLOCK FALSE
