SPECIFICATION Spec
CONSTANTS
  Queries = {q1, q2}
  NoQuery = NoQuery
  QueryTimeout = 2
  RequestBudget = 2
  MinRetry = 1
  CutOffAfter = 3
  StepLimit = 1
  MaxDeploys = 1
  MaxLost = 1
  Faults = {"create"}
  MaxTime = 6
SYMMETRY Symmetry
VIEW QueryView
INVARIANT NoRecordNotSent
CHECK_DEADLOCK FALSE
