SPECIFICATION Spec
CHECK_DEADLOCK FALSE
CONSTANTS
  Names = {"m1"}
  Labels = {"l1"}
  Specs <- Overlapping
  UserOps = {}
  Resync = FALSE
  MaxEdits = 0
  MaxFaults = 0
  MaxLag = 2
PROPERTY ProxyConverges
