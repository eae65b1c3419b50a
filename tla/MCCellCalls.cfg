CONSTANTS
  id1 = id1
  id2 = id2
  noId = noId
  made = made
  refused = refused
  Id <- TwoIds
  Params <- Known
  Accepted <- Known
  Passing <- Made
  Capacity = 2
  PriorityCount = 2
  StatusPolls = 3
  MaxLost = 2
SPECIFICATION Spec
INVARIANTS TypeOK StartedOnce MarkedIsReserved
