SPECIFICATION Spec
CONSTANTS
  Names = {"m1"}
  Labels = {"l1"}
  Specs <- Selecting
  UserOps = {"edit", "rollDep", "configMap", "makeDep", "makeSvc"}
  Resync = TRUE
  MaxEdits = 2
  MaxFaults = 1
  MaxLag = 2
PROPERTY MountsConverge
PROPERTY StampKept
PROPERTY HandMadeConverge
