CONSTANTS
  t1 = t1
  t2 = t2
  t3 = t3
  t4 = t4
  t5 = t5
  s1 = s1
  s2 = s2
  s3 = s3
  Tasks = {t1, t2, t3, t4, t5}
  NoTask = NoTask
  Policy <- MCPolicy
  MaxPaused = 2
  ForcedModes = {TRUE, FALSE}
  Ids = {i1, i2, i3}
  NoId = NoId
  Names = {n1, n2}
  MaxProfiles = 2
  PING_STATS_WINDOW = 2
  SeqTurn = 4
  LossLimit = 0
  NoSignalTime = 2
  StatusFaults = {TRUE}
  MaxQueries = 1
  MaxPongs = 1
  ByDistance <- MCByDistance
  CityOf <- MCCityOf
  MAX_PARALLEL = 2
  MAX_RETRIES = 1
  LATENCY_TIMEOUT = 2
  COOLDOWN = 2
  LatSeqTurn = 8
  Addresses = 2
  MaxDetections = 3
  MAX_INTERVAL = 2
  MaxLines = 2
  LateReplies = TRUE
  Edits = {1, 2}
  NonceLimit = 3
  MaxSalts = 2
  TokenLength <- MCTokenLength
SPECIFICATION ClientSpec
INVARIANTS
  ClientTypeOK
  ProfilesSound
PROPERTIES
  TasksServed
  HealthShown
  
  PortalDetects
  
  SettingsKept
CHECK_DEADLOCK FALSE
