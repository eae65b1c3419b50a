CONSTANTS
  id1 = id1
  id2 = id2
  id3 = id3
  noId = noId
  Id <- ThreeIds
  Params <- SupportedAndNot
  Product <- ItemsOfParams
  emptyItem <- NoItem
  Called <- Methods
  SelectWhile <- Gated
  SubQueueCount = 2
  PriorityCount = 2
  HistoryLength = 1
SPECIFICATION Spec
SYMMETRY ThreeIdsAlike
INVARIANTS TypeOK QueuesConsistent NoDoubleEntry
PROPERTIES OfferIsKept ReservationsExact
