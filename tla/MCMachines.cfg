SPECIFICATION MachinesSpec
CONSTANTS
  VmSlots = {s1, s2}
  MaxLaunches = 2
  MaxVolumes = 2
  ProvisionAttempts = 2
  AutoRetries = 1
  MaxOperations = 1
  MaxVmFaults = 1
  Gateways = {g1, g2}
  Callers = {c1, c2}
  Chunks = 2
  MaxSockets = 2
  MaxExecFaults = 1
  Owners = {"front", "task"}
  WebSites = {"d1"}
  MaxWindows = 2
  Pages = {p1, p2}
  MaxRequests = 2
  Reads = {r1}
  Writes = {w1}
  FileChunks = 2
  MaxLines = 2
  MaxVersion = 2
  Broken = {1}
  Works = {c1}
  RollbackStarts = 2
  MaxConnects = 3
  PageControls = {f1, s1}
  Fields = {f1}
  Selects = {s1}
  MaxSteps = 2
  NoProgress = 2
  SameStep = 2
  MinDecided = 1
  TabCallers = {t1, t2}
  MaxDocs = 2
  MaxAsks = 1
  MaxUnread = 2
  MaxTabCommands = 2
  MaxTabFaults = 1
  LinkGateways = {g1, g2}
  CliCalls = {i1}
  MaxLinks = 2
  MaxLinkFaults = 2
  MaxActs = 1
  MaxMoves = 1
  Invocations = {v1, v2}
  MaxNames = 5
  Stamps = {1, 2}
  MaxCliFaults = 1
VIEW MachinesView
INVARIANTS
  MachinesTypeOK
     TransfersKept  
CHECK_DEADLOCK FALSE
