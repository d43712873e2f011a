SPECIFICATION Spec
CHECK_DEADLOCK FALSE
CONSTANTS
  Deps = {}
  Labels = {}
  UserOps = {"edit", "delete", "foreground", "create", "editCM", "deleteCM"}
  MaxEdits = 2
  MaxTouches = 0
  MaxFaults = 2
  MaxLag = 2
PROPERTY ConfigMapConverges
PROPERTY DeletionCompletes
PROPERTY ConfigMapCollected
