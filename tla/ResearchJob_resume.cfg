SPECIFICATION ResumeSpec
CONSTANTS
  i1 = i1
  r1 = r1
  v1 = v1
  None = None
  DayCount = 3
  CallDays = {1, 2, 3}
  Inputs = {i1}
  Versions = {v1}
  Replays = {r1}
  Snapshots = {}
  CrashPoints <- MendableCrash
  RaisePoints <- MendableRaise
  MaxFaults = 3
  MaxDrifts = 0
  MaxLosses = 1
PROPERTY StartedDayCompletes
CHECK_DEADLOCK FALSE
