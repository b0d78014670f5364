SPECIFICATION FairSpec
CONSTANTS
  a1 = a1
  a2 = a2
  b1 = b1
  x1 = x1
  x2 = x2
  A = A
  B = B
  None = None
  Requests <- MCRequests
  Instances <- MCInstances
  Batch <- MCBatch
  InstanceOf <- MCInstanceOf
  InstanceLimit <- MCInstanceLimit
  GlobalLimit = 2
  ShareNum = 1
  ShareDen = 2
INVARIANTS
  NeverOversubscribed
  ChargedExactly
  QueuesHoldWaiters
  NoWaiterFits
PROPERTIES
  InteractiveFirst
  InteractiveServed
  ImplementsPool
