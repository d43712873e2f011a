SPECIFICATION Spec
CONSTANTS
  Deps = {}
  Labels = {}
  UserOps = {}
  MaxEdits = 0
  MaxTouches = 0
  MaxFaults = 1
  MaxLag = 2
PROPERTY AvailableReported
