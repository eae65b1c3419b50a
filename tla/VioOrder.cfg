SPECIFICATION Spec
CONSTANTS
  Tags <- TwoTags
  NoTag = 0
  MaxSteps = 2
  ME = 1
  Listed <- TableOfCells
  Recipes <- RecipeBook
  ToStorage <- StorageSteps
  FirstTags <- AllFilled
  MaxBatch = 4
  StackInfo <- Filling
  Stays = TRUE
  Travels = TRUE
PROPERTY OrderIsForTheProduct
CHECK_DEADLOCK FALSE
