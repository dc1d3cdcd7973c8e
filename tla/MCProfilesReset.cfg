CONSTANTS
  Ids = {i1, i2}
  NoId = NoId
  Names = {n1}
  MaxProfiles = 2
SPECIFICATION ResetSpec
INVARIANTS ResetForgets
CHECK_DEADLOCK FALSE
