\* The update tool of the scheduler MCP, called with some of its fields.
CONSTANTS
  c1 = c1
  c2 = c2
  c3 = c3
  a1 = a1
  u1 = u1
  p1 = p1
  upper = upper
  lower = lower
  other = other
  standup = standup
  digest = digest
  Calls = {c1, c2, c3}
  Agents = {a1}
  Users = {u1}
  Spellings = {upper, lower, other}
  Names = {standup, digest}
  Prompts = {p1}
  NormalName <- Folded
  Kinds = {"create", "update"}
  ReadsFail = FALSE
  Nothing = Nothing
SPECIFICATION Spec
SYMMETRY Symmetry
CHECK_DEADLOCK FALSE
PROPERTIES PartialUpdatesPreserve
