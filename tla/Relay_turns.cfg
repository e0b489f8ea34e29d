\* A message of every kind in Wires, requested up to twice; the
\* agent reads images; a long text on Discord is split in up to two posts.
CONSTANTS
  Messages = {m1}
  Samples <- Wires
  Mimes = {"image", "pdf"}
  Accepted = {"image"}
  Streams <- Runs
  MaxDeliveries = 2
  MaxParts = 2
  Nothing = Nothing
SPECIFICATION Spec
INVARIANTS TypeOK LoggedWasSeen SlackAskedOnce AgentSeesTheFile OneAnswerPerTurn ReplyIsTheLastWord
PROPERTIES AcceptedTurnsEnd
