SPECIFICATION FairSpec
CONSTANTS
  Process = {p1}
  Accept = {}
  Asset = {skill, gate}
  Order <- MCOrder
  Manifest = manifest
  Content = {old, new, mine}
  Absent = absent
  NoEntry = none
  User = user
  Template <- MCTemplate
  Identity <- MCIdentity
  Skill = {skill}
  Legacy = {}
  Disk <- MCOldProject
  Edits = {mine, absent}
  MaxEdits = 2
  Faults = {"stage", "rename", "restore", "crash"}
  p1 = p1
  p2 = p2
  skill = skill
  gate = gate
  manifest = manifest
  absent = absent
  none = none
  user = user
  old = old
  new = new
  stamped = stamped
  newer = newer
  mine = mine
PROPERTIES
  ChangedFileIsNotOverwritten
CHECK_DEADLOCK FALSE
