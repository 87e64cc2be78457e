\* One worker process as it is shipped: two jobs of the lead share its pool.
SPECIFICATION FairSpec
CONSTANTS
  s1 = s1 s2 = s2 g1 = g1 w1 = w1 w2 = w2
  Msg = {1, 2}
  Window = 1
  OptOut = {2}
  Audio = {1}
  Worker = {w1}
  Slot = {s1, s2}
  Guest = {g1}
  WorkerOf <- OneProcess
  Conn = {c1, c2}
  NoConn = NoConn
  NoMsg = NoMsg
  FirstStatus = {"pending_assignment", "active"}
  AfterRollback = {"unlock", "handle"}
  Faults = {"llm", "unreachable", "messaging", "snapshot", "crash", "web_crash"}
  MaxFaults = 1
INVARIANTS TypeOK TurnMutex FoldedWasRead
PROPERTIES KeepsPromise JobsEnd
