SPECIFICATION Spec
CONSTANTS
  i1 = i1
  r1 = r1
  v1 = v1
  None = None
  DayCount = 3
  CallDays = {1, 2, 3}
  Inputs = {i1}
  Versions = {v1}
  Replays = {r1}
  Snapshots = {}
  CrashPoints <- AtCommit
  RaisePoints = {}
  MaxFaults = 1
  MaxDrifts = 0
  MaxLosses = 0
INVARIANT ArchiveReopens
CHECK_DEADLOCK FALSE
