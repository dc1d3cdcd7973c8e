CONSTANTS
  s1 = s1
  s2 = s2
  d1 = d1
  d2 = d2
  a1 = a1
  Servers = {s1, s2}
  NoServer = NoServer
  Devices = {d1, d2}
  Apps = {a1}
  Configs <- MCConfigs
SPECIFICATION DaemonSpec
INVARIANT ConnectionHasInterface
CHECK_DEADLOCK FALSE
