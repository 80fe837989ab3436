SPECIFICATION Spec
CONSTANTS
  Branch = {main}
  Root = main
  NoReversion = noreversion
  Name = {x, y}
  Field = {f, g}
  AnchorName = {}
  MaxDepth = 2
  KeyWeight = 33
  Capacities = {130, 220}
  Strategies <- EntanglementStrategies
  Stmts <- Budgeting
  Disciplined = TRUE
  MaxValue = 3
  MaxGroups = 0
SYMMETRY Names
CHECK_DEADLOCK FALSE
INVARIANT TypeOK
INVARIANT FootprintCounted
PROPERTY GrowthWithinCapacity
