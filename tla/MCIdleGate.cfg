CONSTANTS
  id1 = id1
  id2 = id2
  id3 = id3
  noId = noId
  Id <- TwoIds
  Params <- Supported
  Product <- ItemsOfParams
  emptyItem <- NoItem
  Called <- EnteringCalls
  SelectWhile <- WhenIdle
  SubQueueCount = 2
  PriorityCount = 1
  HistoryLength = 2
SPECIFICATION FairSpec
INVARIANT ActiveIsRunning
PROPERTIES RemovalIsExact HandshakeEnds WorkStarts ServedInTurn
