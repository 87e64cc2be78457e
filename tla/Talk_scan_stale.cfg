\* A turn answers between the two phases of the scan job.
SPECIFICATION Spec
CONSTANTS
  MaxTalks = 2
  Drain = {d1}
  NoDrain = NoDrain
  Client = {o1, o2}
  ClientMsg = {m1}
  Inactivity = 0
  Duration = 3
  MaxClock = 2
  MaxTurns = 2
  MaxFaults = 0
PROPERTY ClosedWhileSilent
