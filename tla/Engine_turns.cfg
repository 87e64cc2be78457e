CONSTANTS
  Document <- MCDocument
  Guardrails <- MCGuardrails
  Node = {"ask", "offer", "price"}
  Objection = {"price"}
  Field = {"name", "hot"}
  Nil = Nil
  Broken = Broken
  MaxMsgs = 3
  MaxSupersteps = 3
  MaxFaults = 1
SPECIFICATION FairSpec
INVARIANTS TypeOK HistoryIsFaithful
PROPERTIES AnswersAllowed OnlyNodesMove TurnEnds
CHECK_DEADLOCK FALSE
