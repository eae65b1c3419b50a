SPECIFICATION Spec
CONSTANTS
  MaxSteps = 3
  MaxEdits = 2
INVARIANT TypeOK
INVARIANT VerifiesAtOnce
INVARIANT SyncedIsOnTag
INVARIANT LoadedIsOnTag
PROPERTY OnlyTheRange
