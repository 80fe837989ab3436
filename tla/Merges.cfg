SPECIFICATION Spec
CONSTANTS
  Branch = {"main", "c", "d"}
  Root = "main"
  NoReversion = noreversion
  Name = {x, y}
  Field = {f}
  AnchorName = {"a"}
  MaxDepth = 1
  KeyWeight = 33
  Capacities = {150}
  Strategies <- AllStrategies
  Stmts <- Reconciling
  Disciplined = TRUE
  MaxValue = 2
  MaxGroups = 0
SYMMETRY Names
CHECK_DEADLOCK FALSE
PROPERTY MergeDelivers
PROPERTY MergeKeepsConsumed
