SPECIFICATION MCSpec
CONSTANTS
  Zones <- MCZones
  TypeOf <- MCTypeOf
  NoType = NoType
  Near <- MCNear
  Tasks = {t1, t2}
  PHolds <- MCPHolds
  Weights <- MCWeights
  Given <- MCGiven
  Statuses <- MCStatuses
  TopK = 1
  MaxOps = 3
  MaxZoneFails = 1
  Debates = {d1, d2}
  Life = 2
  Window = 2
  BatchMax = 1
  QueueMax = 2
  MaxRetries = 1
  MaxFails = 2
  MaxCrashes = 1
CHECK_DEADLOCK FALSE
INVARIANTS ZonesSound ArchiveSound
PROPERTIES ZonesExpire DueIsSettled
