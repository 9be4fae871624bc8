SPECIFICATION FairSpec
CONSTANTS
  s1 = s1
  s2 = s2
  SymbolOrder <- TwoIssuers
  Watched = {s2}
  Host = Host
  Periods = {1, 2}
  Recent = {2}
  Batches = {0}
  Eventful = {s1}
  MaxVersion = 2
  MaxSymbols = 1
  MaxRequests = 4
  MaxFilings = 2
  BlockedThreshold = 1
  MaxTries = 2
  CatalogAttempts = 2
  InfraThreshold = 2
  Blank = {}
  Unwritable = {s2}
  QuietPoints = {}
  FaultKinds = {}
  MaxFaults = 0
  MaxMonths = 1
PROPERTY Converges

