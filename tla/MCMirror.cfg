SPECIFICATION SpecRestart
CONSTANTS
  Models = {"m"}
  Sources = {"openai", "litellm"}
  Workers = {w1, w2}
  NoProvider = NoProvider
  Quotes <- InputChanges
  Rank <- Alphabetical
  UnderlyingProvider <- AggregatorProvider
  Batches <- OneSourceBatches
  Scale = 1
  Overlap = FALSE
  PendingTTL = 1
  MaxFetches = 3
  MaxClock = 2
  MaxFaults = 0
  MaxRestarts = 1
INVARIANTS HashOutlivesItsEntries MirrorKeepsNoGhost
VIEW MirrorView
SYMMETRY WorkerSymmetry
CHECK_DEADLOCK FALSE
