SPECIFICATION MCSpec
CONSTANTS
  High <- MCHigh
  Calendars <- MCCalendars
  Caches <- MCAnyCache
  Pre = 3
  Window = 1
  Post = 6
  Cluster = 6
  Forget = 12
  MaxGap = 2
  MaxTime = 20
  MaxChanges = 1
  Sections <- MCSections
  BarGap = 1
  AlertGap = 1
  InitialBackoff = 1
  MaxBackoff = 2
  MaxConns = 2
  MaxEvents = 2
  MaxWrites = 1
  MaxFaults = 1
  MaxMounts = 1
  MaxRequests = 1
CHECK_DEADLOCK FALSE
INVARIANTS GuardrailExplained PunctualIsTight FeedSound
PROPERTIES GuardrailCovers GuardrailEnds Reconnects
