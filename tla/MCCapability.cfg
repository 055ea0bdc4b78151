CONSTANTS
  m1 = m1
  Models = {m1}
  NoModel = NoModel
  NoName = 9
  None = None
  Unset = Unset
  NoUseCase = NoUseCase
  Dimensions <- MCDimensions
  Weights <- MCWeights
  Boards <- MCBoards
  Manual <- MCManual
  Catalog <- MCCatalog
  Rivals <- MCRivals
  Primary <- MCPrimary
  Modality <- MCModality
  Wishes <- MCWishes
  PoolSize = 3
  MinScore = 2
  Grain = 2
  StaleAfter = 0
  MaxClock = 1
  MaxChanges = 1
  MaxFaults = 1
  MaxActive = 2
SPECIFICATION Spec
INVARIANTS ScoresMatchEvidence RecommendationSound
PROPERTIES NoStaleOverwrite EvidenceReflected
