SPECIFICATION Spec
CONSTANTS
  Branch = {b1, b2}
  NoBranch = nobranch
  Var = {x}
  AnchorName = {a1}
  Chan = {c}
  Absent = absent
  Consumed = consumed
  NoAnchor = noanchor
  CommitMode = "Selective"
  Stmts <- Speculations
  Scoped = TRUE
  OneShot = FALSE
  MaxValue = 1
  MaxId = 1
  MaxHistory = 3
  MaxDepth = 2
  MaxCommits = 1
  MaxQueue = 2
CHECK_DEADLOCK FALSE
INVARIANT OneOwner
