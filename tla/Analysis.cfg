SPECIFICATION MCSpec
CONSTANTS
  Days <- MCDays
  Window = 4
  MaxBuffer = 8
  MergeVI = TRUE
  RawA <- MCRawA
  Evidence = {0, 10}
  Markets <- MCMarkets
  RawB = {30, 90}
  Samples <- MCSamples
  Blocks <- MCBlocks
  Dim <- MCDim
  Given <- MCGiven
  Ids <- MCIds
  PointLabels = {"NORMAL", "HIGH"}
  Similarities <- MCSimilarities
  K = 2
  Initial = 80
  Lowered = 75
  Today = 2
  RagKeys <- MCRagKeys
  MaxPoints = 3
CHECK_DEADLOCK FALSE
INVARIANTS PivotsSound LiquidityAhead DecisionsCautious ThresholdIsBest BlocksAligned HitsAreNearest
