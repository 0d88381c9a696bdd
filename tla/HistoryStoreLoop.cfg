SPECIFICATION FairSpec
CONSTANTS
  MaxJobs = 5
  Broken <- MCBroken
  Transient = TRUE
  QueueMax = 3
  BatchMax = 2
  Callers = {}
  Loop = loop
  Closer = closer
  MayClose = TRUE
  MaxCrashes = 1
CHECK_DEADLOCK FALSE
INVARIANTS NoSilentLoss LogIsSound
PROPERTIES LossIsBounded WritesEnd ImplementsFairDurableLog
