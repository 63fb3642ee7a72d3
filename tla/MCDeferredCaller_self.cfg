CONSTANTS
  l1 = l1
  l2 = l2
  None = None
  Loops = {l1, l2}
  Users = {u1}
  Jobs = {j1, j2, j3}
  CrossPost <- NoCrossPost
SPECIFICATION FairSpec
INVARIANTS
  TypeOK
  CallbacksGuarded
  NoLostWakeup
  HoldersNeverWait
PROPERTIES
  FifoExactlyOnce
  AcceptedCallsRun
  DeferredCallReturns
CHECK_DEADLOCK FALSE
