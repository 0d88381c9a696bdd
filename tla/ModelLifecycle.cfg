SPECIFICATION MCSpec
CONSTANTS
  Kinds <- MCKinds
  Gaps = {1, 2}
  Horizon = 1
  ZoneHoldBars = 2
  CacheMax = 2
  Limit = 1
  MaxBars = 3
  MaxPreds = 2
  MaxBackfills = 1
  MaxZoneMoves = 1
  Grades <- MCGrades
  MaxRuns = 3
  MaxKills = 1
  MaxDownloadKills = 1
  Losses = {1, 2, 4}
  MinDelta = 1
  Patience = 2
  NumEpochs = 3
  ShortTTL = 1
  LongTTL = 2
  Bars = {b1}
  MaxStarts = 2
  MaxTime = 2
CHECK_DEADLOCK FALSE
INVARIANTS DownloadsHonest LatentSound OutcomesSound
PROPERTY ArtifactsSound
