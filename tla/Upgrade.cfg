SPECIFICATION MCSpec
CONSTANTS
  Process = {p1, p2}
  Accept = {p2}
  Asset = {skill, gate}
  Order <- MCOrder
  Manifest = manifest
  Content = {old, new, stamped, newer, mine}
  Absent = absent
  NoEntry = none
  User = user
  Template <- MCNextTemplate
  Identity <- MCIdentity
  Skill = {skill}
  Legacy = {old}
  Disk <- MCBareProject
  Edits = {mine, old, absent}
  MaxEdits = 1
  Faults = {"stage", "rename", "restore", "crash"}
  p1 = p1
  p2 = p2
  skill = skill
  gate = gate
  manifest = manifest
  absent = absent
  none = none
  user = user
  broken = broken
  nobody = nobody
  old = old
  new = new
  stamped = stamped
  newer = newer
  mine = mine
INVARIANTS
  CommitIsAtomic
  NextUpgradeContinues
  InstallSettles
  MergeClaimHolds
  HealthIsHonest
  DoctorIsSound
PROPERTIES
  EditsAreKept
  UserTextSurvives
CHECK_DEADLOCK FALSE
