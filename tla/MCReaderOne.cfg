SPECIFICATION Spec
CONSTANTS
  Tags <- OneTag
  NoTag = 0
  MaxSteps = 2
  ME = 1
  Listed <- TableOfCells
  Recipes <- RecipeBook
  ToStorage <- StorageSteps
  FirstTags <- AnyTag
  MaxBatch = 5
  StackInfo <- Filling
  Stays = TRUE
  Travels = TRUE
INVARIANT TypeOK
INVARIANT TwiceOnlyUnheard
INVARIANT ProgressIsEarned
INVARIANT SyncLeavesNothing
PROPERTY RecipeIsKept
PROPERTY TransportIsMarked
CHECK_DEADLOCK FALSE
