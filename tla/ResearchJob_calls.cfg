SPECIFICATION Spec
CONSTANTS
  i1 = i1
  r1 = r1
  v1 = v1
  None = None
  DayCount = 3
  CallDays = {2, 3}
  Inputs = {i1, i2}
  Versions = {v1, v2}
  Replays = {r1, r2}
  Snapshots <- OneImport
  CrashPoints <- EveryPoint
  RaisePoints <- PendingMarked
  MaxFaults = 1
  MaxDrifts = 1
  MaxLosses = 1
INVARIANT AckedIsDurable
INVARIANT OneIdentity
PROPERTY Immutable
PROPERTY ImplementsLedger
CHECK_DEADLOCK FALSE
