SPECIFICATION Spec
CONSTANTS
  Branch = {main, c}
  Root = main
  NoReversion = noreversion
  Name = {x}
  Field = {f}
  AnchorName = {}
  MaxDepth = 1
  KeyWeight = 1
  Capacities = {1000}
  Strategies <- EntanglementStrategies
  Stmts <- Decaying
  Disciplined = TRUE
  MaxValue = 1
  MaxGroups = 1
CHECK_DEADLOCK FALSE
INVARIANT UnifiedEntropy
