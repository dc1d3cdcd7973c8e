CONSTANTS
  Keys = {k1}
  NoKey = NoKey
  CONNECTION_MAX_RETRY = 2
  MultihopSupported = FALSE
  MultihopModes = {FALSE}
  ProfileModes = {TRUE, FALSE}
  DeviceModes = {FALSE}
  MaxTasks = 2
  Conducts = {"extension"}
SPECIFICATION AppSpec
PROPERTIES ExtensionKeepsProtection
CHECK_DEADLOCK FALSE
