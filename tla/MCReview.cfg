SPECIFICATION Spec
CONSTANTS
  Models = {"m"}
  Sources = {"huggingface", "litellm", "openai"}
  Workers = {w1}
  NoProvider = NoProvider
  Quotes <- ReviewQuotes
  Rank <- Alphabetical
  UnderlyingProvider <- AggregatorProvider
  Batches <- JointBatch
  Scale = 1
  Overlap = FALSE
  PendingTTL = 1
  MaxFetches = 2
  MaxClock = 0
  MaxFaults = 0
  MaxRestarts = 0
INVARIANTS RowIsLatestSnapshot
PROPERTIES DisagreementFlagged ReviewDecidedOnce
CHECK_DEADLOCK FALSE
