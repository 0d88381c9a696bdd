SPECIFICATION MCSpec
CONSTANTS
  Symbols = {gold}
  AgentAnswers <- MCAgentAnswers
  CriticAnswers <- MCCriticAnswers
  RateLimit = 2
  Period = 1
  Budget = 1
  MaxDebates = 2
  MaxTime = 2
  MaxDays = 1
  MaxStarts = 1
  Features <- MCFeatures
  Macros <- MCMacros
  PrecedentCounts = {0, 3, 6}
  Widths = {20, 40}
  Limits = {100, 150, 151, 300, 600, 2000}
CHECK_DEADLOCK FALSE
PROPERTY DebatesAreTold
