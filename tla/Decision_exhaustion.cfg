CONSTANTS
  Node = {"a", "b"}
  Field = {"name"}
  Objection = {"here", "anywhere"}
  Nil = Nil
  Document <- MCDocument
  Decision <- MCDecision
  Whitelisted = {}
  Voice <- MCVoice
  MaxWindow = 3
  Threshold = 2
  MaxVersions = 2
  MaxTurns = 3
  MaxFaults = 1
SPECIFICATION Spec
PROPERTIES ExhaustionEscalates
CHECK_DEADLOCK FALSE
