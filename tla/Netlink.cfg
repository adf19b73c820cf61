SPECIFICATION NlFairSpec
CONSTANTS
  v1 = v1
  v2 = v2
  NPorts = 2
  VfIds <- MCVfIds
  Pf = Pf
  None = None
  QueueMax = 1
  Restorers <- MCRestorers
  MaxFound = 1
  MaxEvents = 3
  MaxStarts = 2
INVARIANT
  DevicesFollowTable
PROPERTY
  DevicesAppear
  ShutsDown
\* The bounds stop the model, and so does a null pointer in the kernel.
CHECK_DEADLOCK FALSE
