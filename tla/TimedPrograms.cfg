SPECIFICATION Spec
CONSTANTS
  Names = {"c", "x", "y", "yielded", "splitmap_results"}
  Routines = {"f", "g"}
  Fields = {"v", "w"}
  Unlimited = 1000
  MaxIterations = 8
  CloneCost = 3
  Handlers = {"Log", "Fetch"}
  Capabilities = {"Log", "Fetch", "Entropy", "Files"}
  Families <- MCFamilies
CHECK_DEADLOCK FALSE
INVARIANT TypeOK
INVARIANT NothingLeftOpen
INVARIANT SecretKeepsTime
INVARIANT OnlyBlindSpotsReuse
INVARIANT SpansCoverMachine
INVARIANT AcceptedContractsHold
INVARIANT RefusedAssertionsFail
PROPERTY WithinEstimate
PROPERTY ContractsKept
PROPERTY BudgetNeverGrows
PROPERTY PromisesKept
PROPERTY LimitsKept
