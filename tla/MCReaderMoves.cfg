SPECIFICATION Spec
CONSTANTS
  Tags <- OneTag
  NoTag = 0
  MaxSteps = 2
  ME = 1
  Listed <- TableOfCells
  Recipes <- RecipeBook
  ToStorage <- StorageSteps
  FirstTags <- FilledOrHalfway
  MaxBatch = 2
  StackInfo <- Filling
  Stays = FALSE
  Travels = FALSE
PROPERTY OwedUntilWritten
CHECK_DEADLOCK FALSE
