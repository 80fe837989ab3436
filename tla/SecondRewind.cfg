SPECIFICATION Spec
CONSTANTS
  Branch = {b1, b2}
  NoBranch = nobranch
  Var = {x}
  AnchorName = {a1}
  Chan = {c}
  Absent = absent
  Consumed = consumed
  NoAnchor = noanchor
  CommitMode = "Selective"
  Stmts <- ChannelRewinds
  Scoped = TRUE
  OneShot = FALSE
  MaxValue = 1
  MaxId = 1
  MaxHistory = 3
  MaxDepth = 0
  MaxCommits = 0
  MaxQueue = 2
CHECK_DEADLOCK FALSE
INVARIANT SingleDelivery
