SPECIFICATION SpecRestart
CONSTANTS
  Models = {"m"}
  Sources = {"openai"}
  Workers = {w1}
  NoProvider = NoProvider
  Quotes <- FreeQuotes
  Rank <- Alphabetical
  UnderlyingProvider <- AggregatorProvider
  Batches <- OneSourceBatches
  Scale = 1
  Overlap = FALSE
  PendingTTL = 1
  MaxFetches = 4
  MaxClock = 2
  MaxFaults = 0
  MaxRestarts = 1
PROPERTIES StaleEntriesSwept
CHECK_DEADLOCK FALSE
