SPECIFICATION Spec
CONSTANTS
  Branch = {main, c, d}
  Root = main
  NoReversion = noreversion
  Name = {x, y}
  Field = {f}
  AnchorName = {}
  MaxDepth = 2
  KeyWeight = 1
  Capacities = {1000}
  Strategies <- EntanglementStrategies
  Stmts <- Entangling
  Disciplined = TRUE
  MaxValue = 1
  MaxGroups = 1
SYMMETRY Symmetry
CHECK_DEADLOCK FALSE
INVARIANT SpentOnce
