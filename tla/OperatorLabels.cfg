SPECIFICATION Spec
CHECK_DEADLOCK FALSE
CONSTANTS
  RuleName = m1
  ProxyName = d1
  Labels = {"l1"}
  Specs <- ByLabel
  RuleOps = {"relabel"}
  ProxyOps = {}
  MaxEdits = 1
  MaxFaults = 0
  MaxLag = 2
PROPERTY RuleLabelsCount
