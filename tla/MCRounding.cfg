SPECIFICATION Spec
CONSTANTS
  Models = {"m"}
  Sources = {"openai"}
  Workers = {w1}
  NoProvider = NoProvider
  Quotes <- FineQuotes
  Rank <- Alphabetical
  UnderlyingProvider <- AggregatorProvider
  Batches <- OneSourceBatches
  Scale = 10
  Overlap = FALSE
  PendingTTL = 1
  MaxFetches = 4
  MaxClock = 0
  MaxFaults = 0
  MaxRestarts = 0
INVARIANT WritesChangeTheColumn
CHECK_DEADLOCK FALSE
