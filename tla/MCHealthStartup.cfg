CONSTANTS
  PING_STATS_WINDOW = 2
  SeqTurn = 4
  LossLimit = 0
  NoSignalTime = 2
  StatusFaults = {FALSE}
  MaxQueries = 1
  MaxPongs = 1
SPECIFICATION StartupSpec
PROPERTIES LossNoticed
CHECK_DEADLOCK FALSE
