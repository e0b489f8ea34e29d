SPECIFICATION Spec
CONSTANTS
  m1 = m1
  m2 = m2
  m3 = m3
  Messages = {m1, m2, m3}
  Jobs = {}
  NoTurn = NoTurn
  SessionTimeout = 9
  CutOffAfter = 2
  Grace = 1
  HealOrphans = TRUE
  LongRunningTurns = {}
  RunLimit = 1
  StepLimit = 0
  MaxInFlight = 2
  Faults = {}
  MaxTime = 4
  MaxLost = 1
SYMMETRY MessageSymmetry
VIEW RunsView
INVARIANTS
  HealedRunsAreOver
  AnsweredRunsNotReported
PROPERTY
  OldMarkersAreReported
CHECK_DEADLOCK FALSE
