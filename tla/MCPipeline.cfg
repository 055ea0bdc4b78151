SPECIFICATION Spec
CONSTANTS
  Models = {"m"}
  Sources = {"openai", "openrouter"}
  Workers = {w1, w2}
  NoProvider = NoProvider
  Quotes <- GateQuotes
  Rank <- Alphabetical
  UnderlyingProvider <- AggregatorProvider
  Batches <- OneSourceBatches
  Scale = 1
  Overlap = TRUE
  PendingTTL = 1
  MaxFetches = 3
  MaxClock = 0
  MaxFaults = 0
  MaxRestarts = 0
INVARIANTS TwoSightingsPerConfirmation
SYMMETRY WorkerSymmetry
CHECK_DEADLOCK FALSE
