SPECIFICATION Spec
CHECK_DEADLOCK FALSE
CONSTANTS
  Names = {"m1"}
  Labels = {"l1"}
  Specs <- Selecting
  UserOps = {"configMap"}
  Resync = FALSE
  MaxEdits = 1
  MaxFaults = 0
  MaxLag = 2
INVARIANT MountedWhenQuiet
