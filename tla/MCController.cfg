CONSTANTS
  Keys = {k1, k2}
  NoKey = NoKey
  CONNECTION_MAX_RETRY = 2
  MultihopSupported = TRUE
  MultihopModes = {TRUE, FALSE}
  ProfileModes = {TRUE, FALSE}
  DeviceModes = {TRUE, FALSE}
SPECIFICATION CtlSpec
INVARIANTS TypeOK TimerHasHop RetriesEnd  ShownIsTrue
SYMMETRY Symmetry
CHECK_DEADLOCK FALSE
