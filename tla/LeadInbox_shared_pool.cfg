\* Two jobs of the lead and a coroutine of another lead in one process, no fault.
SPECIFICATION Spec
CONSTANTS
  s1 = s1 s2 = s2 g1 = g1 w1 = w1 w2 = w2
  Msg = {1, 2}
  Window = 1
  OptOut = {}
  Audio = {}
  Worker = {w1}
  Slot = {s1, s2}
  Guest = {g1}
  WorkerOf <- OneProcess
  Conn = {c1, c2, c3}
  NoConn = NoConn
  NoMsg = NoMsg
  FirstStatus = {"active"}
  AfterRollback = {"handle"}
  Faults = {}
  MaxFaults = 0
INVARIANT SerialDrain
