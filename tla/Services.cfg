SPECIFICATION MCSpec
CONSTANTS
  MaxJobs = 3
  Broken <- MCBroken
  Transient = FALSE
  QueueMax = 2
  BatchMax = 2
  Callers = {c1}
  Loop = loop
  Closer = closer
  MayClose = TRUE
  MaxCrashes = 0
  Types <- MCTypes
  Handlers = {h1}
  Wrappers = {w1}
  MaxEvents = 2
  MaxSubs = 2
  Stubborn = TRUE
  SwallowsCancel = TRUE
CHECK_DEADLOCK FALSE
INVARIANTS TxnHasOwner DeliveriesSound
PROPERTIES FlushTerminates BusProgresses
