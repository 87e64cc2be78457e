CONSTANTS
  Config <- MCConfig
  Run = {r1, r2}
  SendResult <- MCSendResult
  MaxMsgs = 2
  MaxJobs = 4
  MaxTime = 2
  MaxHolds = 2
  MaxFaults = 1
SPECIFICATION FairSpec
INVARIANTS TypeOK TemplateOnce ColdIsEarned
PROPERTIES StaleChainsDie EveryDueJobEnds
CHECK_DEADLOCK FALSE
