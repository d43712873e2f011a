SPECIFICATION Spec
CONSTANTS
  Deps = {d1}
  Labels = {}
  UserOps = {"edit"}
  MaxEdits = 2
  MaxTouches = 0
  MaxFaults = 0
  MaxLag = 2
PROPERTY PodsUpToDate
