SPECIFICATION RqFairSpec
CONSTANTS
  v1 = v1
  v2 = v2
  None = None
  VfIds <- MCVfIds
  Sent <- MCSent
  Added = {v1}
  Slots = {1}
  Nodes = {11, 12}
  MaxMsgs = 2
  MaxReqs = 2
INVARIANTS
  RqTypeOK
  OneEntryPerVf
  DropFollowsQueue
  LossIsRemembered
PROPERTIES
  RestoresWhenReady
  PendingIsServed
  CallbacksEnd
\* A null pointer that is followed ends the program.
CHECK_DEADLOCK FALSE
