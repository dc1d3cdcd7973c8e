CONSTANTS
  Keys = {k1, k2}
  NoKey = NoKey
  CONNECTION_MAX_RETRY = 2
  MultihopSupported = FALSE
  MultihopModes = {FALSE}
  ProfileModes = {TRUE}
  DeviceModes = {FALSE}
  MaxInFlight = 2
  MaxStops = 1
  Users = {"ClientUser", "ExtensionUser"}
SPECIFICATION LinuxFairSpec
INVARIANTS
  LinuxTypeOK
  EndIsUnderWay
  ShownIsDaemons
PROPERTIES
  LinuxAttemptEnds
CHECK_DEADLOCK FALSE
