SPECIFICATION Spec
CONSTANTS
  p1 = p1
  p2 = p2
  Nil = Nil
  Producers <- BothProducers
  AckProducers <- BothProducers
  DropOnCancel = {p1}
  Events = 2
  MaxGetRequest = 2
  FlushTimeout = TRUE
  InputQueueSize = 1
  MinInputQueueSize = 1
  CancelChanSize = 1
  MayClose = FALSE
  MaxPublish = 2
INVARIANTS TypeOK BatchIntact UnreadIntact AckedDelivered AckExact
PROPERTY OldestMonotone
CHECK_DEADLOCK FALSE
