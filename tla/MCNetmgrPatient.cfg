CONSTANTS
  Keys = {k1, k2}
  NoKey = NoKey
  CONNECTION_MAX_RETRY = 2
  MultihopSupported = FALSE
  MultihopModes = {FALSE}
  ProfileModes = {TRUE}
  DeviceModes = {FALSE}
  MaxActivations = 3
  MaxRx = 1
  MaxInFlight = 2
  Users = {"ClientUser"}
  Patient = TRUE
SPECIFICATION SysFairSpec
INVARIANTS OffIsIdle OnIsTunnel
PROPERTY NetmgrProgress
CHECK_DEADLOCK FALSE
