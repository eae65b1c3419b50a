CONSTANTS
  id1 = id1
  id2 = id2
  id3 = id3
  noId = noId
  Id <- TwoIds
  Params <- AcceptedOrNot
  Product <- ItemsOfParams
  emptyItem <- NoItem
  Called <- ReaderCalls
  SelectWhile <- Ungated
  SubQueueCount = 2
  PriorityCount = 2
  HistoryLength = 1
SPECIFICATION Spec
SYMMETRY TwoIdsAlike
PROPERTIES ImplementsService AnswersFromTheLists
