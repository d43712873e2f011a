SPECIFICATION Spec
CONSTANTS
  Deps = {d1}
  Labels = {}
  UserOps = {"edit", "createCM"}
  MaxEdits = 1
  MaxTouches = 2
  MaxFaults = 1
  MaxLag = 2
PROPERTY RolloutKeepsMounts
PROPERTY ConfigMapConverges
