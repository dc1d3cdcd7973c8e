CONSTANTS
  Keys = {k1}
  NoKey = NoKey
  CONNECTION_MAX_RETRY = 2
  MultihopSupported = FALSE
  MultihopModes = {FALSE}
  ProfileModes = {TRUE, FALSE}
  DeviceModes = {FALSE}
  MaxTasks = 2
  Conducts = {"window", "hasty"}
  MaxHistory = 5
  MaxMessages = 2
  StateTurn = 2
SPECIFICATION UserPartsSpec
INVARIANTS
  UserPartsTypeOK
  TaskIsTimed
PROPERTIES
  WishesObeyed
  
  NavigationHolds
  ExtensionServed
CHECK_DEADLOCK FALSE
