CONSTANTS
  s1 = s1
  s2 = s2
  s3 = s3
  d1 = d1
  d2 = d2
  a1 = a1
  w1 = w1
  w2 = w2
  Servers = {s1, s2}
  NoServer = NoServer
  Devices = {d1, d2}
  Apps = {a1}
  Configs <- MCConfigs
  Groups = {a1}
  NoGroup = NoGroup
  MaxGroupRules = 2
  MaxRestarts = 1
  MaxLinks = 2
  MaxCalls = 2
  WinServers = {s1, s2}
  WinDevices = {d1, d2}
  MaxLost = 0
  SysRows <- MCSysRows
  IfMetric <- MCIfMetric
  Excludable <- MCExcludable
  ULONG_MAX = 3
  MacServers = {s1, s2, s3}
  MacNoServer = NoServer
  MacAddress <- MCMacAddress
  MacIfs = {1, 2}
  MaxRtMessages = 2
  SplitApps = {p1, p2, p3}
  UnknownApps = {p3}
  Adapters = {w1, w2}
SPECIFICATION PartsSpec
INVARIANTS
  PartsTypeOK
  
  FilterRight
  ResolversRight
  KillSwitchRight
  
  
  SplitTunnelHonest
PROPERTIES
  HandshakeReported
  ImplementsService
CHECK_DEADLOCK FALSE
