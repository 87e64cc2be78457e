\* Three entries on two fields, two turns, two coroutines, three faults.
SPECIFICATION FairSpec
CONSTANTS
  e1 = e1 e2 = e2 e3 = e3
  Entry = {e1, e2, e3}
  FieldOf <- SharedField
  Value = {v1}
  Runner = {r1, r2}
  NoId = NoId
  MaxIds = 3
  MAX_ATTEMPTS = 3
  MaxTries = 3
  MaxTurns = 2
  MaxFaults = 3
INVARIANTS TypeOK EffectOnce EffectOfCommittedTurn
PROPERTIES ExecutingEnds
\* After the last turn there is nothing left to do.
CHECK_DEADLOCK FALSE
