CONSTANTS
  Keys = {k1, k2}
  NoKey = NoKey
  CONNECTION_MAX_RETRY = 2
  MultihopSupported = FALSE
  MultihopModes = {FALSE}
  ProfileModes = {TRUE}
  DeviceModes = {FALSE}
  MaxActivations = 2
  MaxRx = 1
  MaxInFlight = 2
  Users = {"ClientUser"}
  Patient = FALSE
SPECIFICATION SysSpec
INVARIANTS OffIsIdle
CHECK_DEADLOCK FALSE
