CONSTANTS
  i1 = i1
  i2 = i2
  i3 = i3
  NoOne = NoOne
  TheWorker = TheWorker
  Item <- MCItem
SPECIFICATION FairSpec
INVARIANTS
  QueueTypeOK
  NothingLostOrReordered
  StopLeavesNothing
PROPERTIES
  EnqueuedIsHandled
  StopReturns
