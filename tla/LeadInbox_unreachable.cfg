\* The recipient is unreachable once, as SQLAlchemy lets the handler see it.
SPECIFICATION Spec
CONSTANTS
  s1 = s1 s2 = s2 g1 = g1 w1 = w1 w2 = w2
  Msg = {1, 2}
  Window = 1
  OptOut = {}
  Audio = {}
  Worker = {w1, w2}
  Slot = {s1, s2}
  Guest = {}
  WorkerOf <- OneJobPerProcess
  Conn = {c1, c2}
  NoConn = NoConn
  NoMsg = NoMsg
  FirstStatus = {"active"}
  AfterRollback = {"unlock"}
  Faults = {"unreachable"}
  MaxFaults = 1
PROPERTY UnreachableRecorded
