CONSTANTS
  Nil = Nil
  Pending = Pending
  Lead = {a}
  Start <- MCStart
  Task = {t1, t2}
  QueueMax = 1
  MaxMsgs = 2
  MaxChanges = 1
  MaxDrops = 1
  MaxFaults = 1
SPECIFICATION FairSpec
INVARIANTS TypeOK TabsMatchBadges
PROPERTIES EventIsShown BubbleSettles
CHECK_DEADLOCK FALSE
