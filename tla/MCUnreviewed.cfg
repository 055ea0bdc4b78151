SPECIFICATION Spec
CONSTANTS
  Models = {"m"}
  Sources = {"litellm", "openai"}
  Workers = {w1}
  NoProvider = NoProvider
  Quotes <- ReviewQuotes
  Rank <- Alphabetical
  UnderlyingProvider <- AggregatorProvider
  Batches <- OneSourceBatches
  Scale = 1
  Overlap = FALSE
  PendingTTL = 1
  MaxFetches = 2
  MaxClock = 0
  MaxFaults = 0
  MaxRestarts = 0
INVARIANT StoredDisagreementReviewed
CHECK_DEADLOCK FALSE
