SPECIFICATION MCSpec
CONSTANTS
  MaxSize <- MCMaxSize
  Threshold <- MCThreshold
  DynamicK = TRUE
  MaxK <- MCMaxK
  KPeriod <- MCKPeriod
  MaxTicks <- MCMaxTicks
  Timeframes <- MCTimeframes
  Base = "M1"
  Seconds <- MCSeconds
  Prices <- MCPrices
  MaxTime = 8
  MaxBarTicks = 5
  Late = 3
  NoBar = NoBar
  Lookback = 4
  Minor = 0
  Moderate = 1
  MaxInterpolation = 2
  NoAnswer = NoAnswer
  Loops = {l1, l2}
  StaleAfter = 2
  MaxDelay = 3
  PipeMax = 2
  MaxTick = 2
  MaxStops = 2
  MaxErrors = 1
  Token = 2
  Rate = 1
  Capacity = 4
  Secret = TRUE
  Bodies <- MCBodies
  MaxRequests = 5
  MaxClock = 5
CHECK_DEADLOCK FALSE
INVARIANTS QueueIsWindow NothingVanishes BarsSound MarketSound RateIsBounded
PROPERTIES DeliveredInOrder FeedFlows
