SPECIFICATION Spec
CONSTANTS
  Models = {"m"}
  Sources = {"openai"}
  Workers = {w1}
  NoProvider = NoProvider
  Quotes <- GateQuotes
  Rank <- Alphabetical
  UnderlyingProvider <- AggregatorProvider
  Batches <- OneSourceBatches
  Scale = 1
  Overlap = FALSE
  PendingTTL = 1
  MaxFetches = 4
  MaxClock = 0
  MaxFaults = 1
  MaxRestarts = 0
INVARIANT SingleScrapeCannotOverwrite
CHECK_DEADLOCK FALSE
