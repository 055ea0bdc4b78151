SPECIFICATION FairSpec
CONSTANTS
  Models = {"m"}
  Sources = {"openai", "openrouter"}
  Workers = {w1, w2}
  NoProvider = NoProvider
  Quotes <- BothColumns
  Rank <- Alphabetical
  UnderlyingProvider <- AggregatorProvider
  Batches <- OneSourceBatches
  Scale = 1
  Overlap = FALSE
  PendingTTL = 1
  MaxFetches = 3
  MaxClock = 0
  MaxFaults = 0
  MaxRestarts = 0
INVARIANTS SingleScrapeCannotOverwrite UnchangedColumnPreserved
  AnnouncedInCommitOrder
PROPERTIES CommitsAnnounced
CHECK_DEADLOCK FALSE
