\* The adapter raises once.
SPECIFICATION FairSpec
CONSTANTS
  e1 = e1 e2 = e2 e3 = e3
  Entry = {e1}
  FieldOf <- OneEntry
  Value = {v1}
  Runner = {r1}
  NoId = NoId
  MaxIds = 1
  MAX_ATTEMPTS = 3
  MaxTries = 3
  MaxTurns = 1
  MaxFaults = 1
PROPERTY FailureRetried
\* After the last turn there is nothing left to do.
CHECK_DEADLOCK FALSE
