\* Two agents and two tokens, two edits, two faults, a message for each agent.
CONSTANTS
  a1 = a1
  a2 = a2
  d1 = d1
  d2 = d2
  Agents = {a1, a2}
  Tokens = {k1, k2}
  Dms = {d1, d2}
  To <- Recipient
  MaxEdits = 2
  MaxFaults = 2
  Nothing = Nothing
SPECIFICATION Spec
INVARIANTS EachDmOnce
PROPERTIES NoBotStoppedForNothing Converges
