SPECIFICATION LegacySpec
CONSTANTS
  Tags <- TwoTags
  NoTag = 0
  MaxSteps = 2
  ME = 1
  Listed <- TableOfCells
  Common <- StorageAndTransport
  Offers <- OfferedBy
  Tokens <- Numbers
  Recipes <- RecipeBook
  ToStorage <- StorageSteps
  FirstTags <- TwoProducts
  MaxBatch = 2
  StackInfo <- Filling
  Stays = TRUE
  Travels = TRUE
INVARIANT CallsListedCells
INVARIANT LoadedIsOnTag
PROPERTY StartsTheStep
CHECK_DEADLOCK FALSE
