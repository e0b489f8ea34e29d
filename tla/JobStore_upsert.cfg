\* Three calls of any kind on the jobs of one user, any access failing.
CONSTANTS
  c1 = c1
  c2 = c2
  c3 = c3
  a1 = a1
  u1 = u1
  p1 = p1
  upper = upper
  lower = lower
  other = other
  standup = standup
  digest = digest
  Calls = {c1, c2, c3}
  Agents = {a1}
  Users = {u1}
  Spellings = {upper, lower, other}
  Names = {standup, digest}
  Prompts = {p1}
  NormalName <- Folded
  Kinds = {"create", "update", "set_enabled", "patch", "delete", "remove"}
  ReadsFail = TRUE
  Nothing = Nothing
SPECIFICATION Spec
SYMMETRY Symmetry
CHECK_DEADLOCK FALSE
INVARIANTS TypeOK DuplicatesOnlyFromOverlaps
PROPERTIES DeletedStaysDeleted PausesHold
