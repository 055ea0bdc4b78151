SPECIFICATION LogSpec
CONSTANTS
  Models = {"m"}
  Sources = {"openai"}
  Workers = {w1}
  NoProvider = NoProvider
  Quotes <- OldAndNew
  Rank <- AnyOrder
  UnderlyingProvider <- Direct
  Batches <- OneSource
  Scale = 1
  Overlap = FALSE
  PendingTTL = 1
  MaxFetches = 4
  MaxClock = 0
  MaxFaults = 0
  MaxRestarts = 0
PROPERTY ConfirmedByConsecutiveFetches
CHECK_DEADLOCK FALSE
