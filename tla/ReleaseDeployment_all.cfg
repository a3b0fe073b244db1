SPECIFICATION Spec

CONSTANTS
  o1 = o1
  o2 = o2
  legacy = legacy
  fix = fix
  feature = feature
  None = None
  Damaged = Damaged
  Operators = {o1, o2}
  Releases = {legacy, fix, feature}
  Ancestry <- Line
  First = fix
  Faults = {"claim", "command", "start", "disk", "flap"}
  KillAt <- KillPoints
  MaxCommands = 3
  MaxWrites = 1

SYMMETRY Symmetry

INVARIANTS
  BackupCoversStart
  RuntimeCoversData
  OutageIsRecorded
  UsedReleaseSealed

PROPERTY
  ForwardOnly

CHECK_DEADLOCK FALSE
