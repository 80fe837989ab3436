SPECIFICATION FairSpec
CONSTANTS
  Branch = {b1, b2}
  NoBranch = nobranch
  Var = {x}
  AnchorName = {a1}
  Chan = {c}
  Absent = absent
  Consumed = consumed
  NoAnchor = noanchor
  CommitMode = "Selective"
  Stmts <- ChannelSpeculations
  Scoped = TRUE
  OneShot = FALSE
  MaxValue = 1
  MaxId = 1
  MaxHistory = 2
  MaxDepth = 1
  MaxCommits = 1
  MaxQueue = 2
CHECK_DEADLOCK FALSE
PROPERTY RollbackEnds
