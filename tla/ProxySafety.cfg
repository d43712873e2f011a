SPECIFICATION Spec
CHECK_DEADLOCK FALSE
CONSTANTS
  Names = {}
  Labels = {}
  Specs <- SizeAndPorts
  UserOps = {"edit", "delete", "foreground", "create", "rollDep"}
  Resync = FALSE
  MaxEdits = 2
  MaxFaults = 1
  MaxLag = 1
INVARIANT TypeOK
PROPERTY FinalizedFirst
PROPERTY NoLostEdit
PROPERTY ForegroundKept
PROPERTY StampKept
