SPECIFICATION Spec
CONSTANTS
  m1 = m1
  m2 = m2
  j1 = j1
  Messages = {m1, m2}
  Jobs = {j1}
  NoTurn = NoTurn
  SessionTimeout = 1
  CutOffAfter = 2
  Grace = 1
  HealOrphans = TRUE
  LongRunningTurns = {j1}
  RunLimit = 1
  StepLimit = 0
  MaxInFlight = 1
  Faults = {"drop", "clear"}
  MaxTime = 5
  MaxLost = 2
SYMMETRY MessageSymmetry
VIEW TalkView
INVARIANTS
  TypeOK
  ConversationContinues
PROPERTIES
  CallsFollowLedger
  HealedSessionsReplay
CHECK_DEADLOCK FALSE
