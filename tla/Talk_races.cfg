\* One drain, two console requests and the scan job, over two Talks.
SPECIFICATION Spec
CONSTANTS
  MaxTalks = 2
  Drain = {d1}
  NoDrain = NoDrain
  Client = {o1, o2}
  ClientMsg = {m1}
  Inactivity = 0
  Duration = 1
  MaxClock = 2
  MaxTurns = 3
  MaxFaults = 0
INVARIANTS TypeOK OneOpenTalk DeliveriesRecorded
PROPERTIES AiSpeaksInItsOwnTalk HeldStaysOpen
SYMMETRY ClientSymmetry
