SPECIFICATION LegacySpec
CONSTANTS
  Tags <- TwoTags
  NoTag = 0
  MaxSteps = 2
  ME = 1
  Listed <- TableOfCells
  Common <- StorageAndTransport
  Offers <- OfferedBy
  Tokens <- Numbers
  Recipes <- RecipeBook
  ToStorage <- StorageSteps
  FirstTags <- OneWithRecipe
  MaxBatch = 2
  StackInfo <- Filling
  Stays = TRUE
  Travels = TRUE
PROPERTY OnlyProgress
CHECK_DEADLOCK FALSE
