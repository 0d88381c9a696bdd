SPECIFICATION BusSpec
CONSTANTS
  Types <- MCTypes
  Handlers <- MCNone
  Wrappers = {w1}
  MaxEvents = 2
  MaxSubs = 1
  Stubborn = FALSE
  SwallowsCancel = FALSE
CHECK_DEADLOCK FALSE
INVARIANT OnceRunsOnce
