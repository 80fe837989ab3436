SPECIFICATION Spec
CONSTANTS
  Branch = {b1, b2}
  NoBranch = nobranch
  Var = {x, y}
  AnchorName = {a1}
  Chan = {c}
  Absent = absent
  Consumed = consumed
  NoAnchor = noanchor
  CommitMode = "Full"
  Stmts <- SendSpeculations
  Scoped = TRUE
  OneShot = FALSE
  MaxValue = 2
  MaxId = 2
  MaxHistory = 2
  MaxDepth = 1
  MaxCommits = 1
  MaxQueue = 2
SYMMETRY Symmetry
CHECK_DEADLOCK FALSE
INVARIANT OneOwner
