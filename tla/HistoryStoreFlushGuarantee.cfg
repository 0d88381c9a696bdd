SPECIFICATION Spec
CONSTANTS
  MaxJobs = 4
  Broken <- MCNone
  Transient = FALSE
  QueueMax = 3
  BatchMax = 2
  Callers = {c1}
  Loop = loop
  Closer = closer
  MayClose = FALSE
  MaxCrashes = 0
CHECK_DEADLOCK FALSE
PROPERTY FlushGuarantee
