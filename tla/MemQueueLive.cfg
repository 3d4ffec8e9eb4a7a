SPECIFICATION FairSpec
CONSTANTS
  p1 = p1
  p2 = p2
  Nil = Nil
  Producers = {p1}
  AckProducers = {p1}
  DropOnCancel = {}
  Events = 2
  MaxGetRequest = 2
  FlushTimeout = TRUE
  InputQueueSize = 1
  MinInputQueueSize = 1
  CancelChanSize = 1
  MayClose = TRUE
  MaxPublish = 3
INVARIANT AckExact
PROPERTIES EventuallyAcked PublishReturns
CHECK_DEADLOCK FALSE
