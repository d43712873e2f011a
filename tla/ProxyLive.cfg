SPECIFICATION Spec
CHECK_DEADLOCK FALSE
CONSTANTS
  Names = {}
  Labels = {}
  Specs <- SizeOrNoPorts
  UserOps = {"edit", "delete", "foreground", "create", "scaleDep", "deleteDep", "deleteSvc"}
  Resync = FALSE
  MaxEdits = 2
  MaxFaults = 1
  MaxLag = 1
PROPERTY ProxyConverges
PROPERTY Settles
PROPERTY DeletionCompletes
PROPERTY DependentsCollected
