\* A dispatcher and a caller, a crash, and any access failing but the lock's.
CONSTANTS
  d1 = d1
  c1 = c1
  a = a
  Dispatchers = {d1}
  Callers = {c1}
  Ids = {a}
  FreshId = FreshId
  LockTimeout = 2
  Faults <- Tolerated
  MaxFailed = 1
  MaxCrashes = 1
SPECIFICATION FairSpec
INVARIANTS TypeOK MiscountsNeedOverlap
PROPERTIES OverlapsHaveACause DueJobIsTaken
