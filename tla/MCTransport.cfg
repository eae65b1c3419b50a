CONSTANTS
  id1 = id1
  id2 = id2
  noId = noId
  Id <- TwoIds
  Params <- ShortAndNone
  Product <- Items
  emptyItem <- NoItem
  Called <- AllMethods
  SelectWhile <- WhenIdle
  From <- Cells
  Timed <- Short
  Trips <- OneUntimed
  SubQueueCount = 2
  PriorityCount = 3
  HistoryLength = 1
  StatusPolls = 1
  MaxLost = 1
  MaxTrips <- SecondReturns
SPECIFICATION FairTransportSpec
INVARIANTS TransportTypeOK FailsOnlyInTrouble
PROPERTIES StuckForGood CarriedFromItsCell RemovesWhatItRan WaitEnds
