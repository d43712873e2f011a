SPECIFICATION Spec
CHECK_DEADLOCK FALSE
CONSTANTS
  RuleName = m1
  ProxyName = d1
  Labels = {}
  Specs <- AllOrNone
  RuleOps = {"edit", "delete", "create"}
  ProxyOps = {"edit", "delete", "create"}
  MaxEdits = 1
  MaxFaults = 1
  MaxLag = 2
PROPERTY MountsSelected
PROPERTY PodsNotStuck
PROPERTY ComesToRest
