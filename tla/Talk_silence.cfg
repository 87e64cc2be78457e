\* One console request and the scan job, with the fairness of the scheduler.
SPECIFICATION FairSpec
CONSTANTS
  MaxTalks = 2
  Drain = {d1}
  NoDrain = NoDrain
  Client = {o1}
  ClientMsg = {m1}
  Inactivity = 0
  Duration = 1
  MaxClock = 2
  MaxTurns = 2
  MaxFaults = 1
PROPERTY SilentTalkEnds
