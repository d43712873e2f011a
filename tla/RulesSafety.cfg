SPECIFICATION Spec
CHECK_DEADLOCK FALSE
CONSTANTS
  Deps = {}
  Labels = {l1}
  UserOps = {"edit", "relabel", "delete", "foreground", "create", "deleteCM", "createCM"}
  MaxEdits = 3
  MaxTouches = 0
  MaxFaults = 1
  MaxLag = 2
INVARIANT TypeOK
INVARIANT RulePinned
PROPERTY NoLostEdit
PROPERTY ImplementsMirror
