CONSTANTS
  queueing = queueing
  overlapping = overlapping
  skipping = skipping
  Ids = {queueing, overlapping, skipping}
  Policy <- AllPolicies
  Misfire <- SomeMisfires
  Triggers <- SomeTriggers
  MAX_CONCURRENT_AUTOMATION_RUNS = 1
  MaxTime = 3
  MaxOps = 3
  MaxFaults = 2
SPECIFICATION FairSpec
CHECK_DEADLOCK FALSE
INVARIANT TypeOK
PROPERTY KeepsLedger DueIsRun RunsSettle
