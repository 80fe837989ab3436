SPECIFICATION Spec
CONSTANTS
  Branch = {b1, b2}
  NoBranch = nobranch
  Var = {x}
  AnchorName = {a1}
  Chan = {c}
  Absent = absent
  Consumed = consumed
  NoAnchor = noanchor
  CommitMode = "Full"
  Stmts <- Speculations
  Scoped = TRUE
  OneShot = FALSE
  MaxValue = 1
  MaxId = 2
  MaxHistory = 2
  MaxDepth = 3
  MaxCommits = 1
  MaxQueue = 2
SYMMETRY Symmetry
CHECK_DEADLOCK FALSE
INVARIANT OneOwner
INVARIANT HorizonClosed
INVARIANT AnchorInLog
PROPERTY AbortRestores
