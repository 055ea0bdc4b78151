SPECIFICATION Spec
CONSTANTS
  Models = {"m"}
  Sources = {"litellm", "openai"}
  Workers = {w1}
  NoProvider = NoProvider
  Quotes <- BothColumns
  Rank <- Alphabetical
  UnderlyingProvider <- AggregatorProvider
  Batches <- JointBatch
  Scale = 1
  Overlap = FALSE
  PendingTTL = 1
  MaxFetches = 1
  MaxClock = 0
  MaxFaults = 0
  MaxRestarts = 0
INVARIANT UnchangedColumnPreserved
CHECK_DEADLOCK FALSE
