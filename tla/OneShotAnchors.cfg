SPECIFICATION Spec
CONSTANTS
  Branch = {b1, b2, b3}
  NoBranch = nobranch
  Var = {x}
  AnchorName = {a1}
  Chan = {c}
  Absent = absent
  Consumed = consumed
  NoAnchor = noanchor
  CommitMode = "Selective"
  Stmts <- OneShotChannels
  Scoped = TRUE
  OneShot = TRUE
  MaxValue = 1
  MaxId = 2
  MaxHistory = 4
  MaxDepth = 0
  MaxCommits = 0
  MaxQueue = 2
SYMMETRY Symmetry
CHECK_DEADLOCK FALSE
INVARIANT OneOwner
PROPERTY RewindUndoesAll
