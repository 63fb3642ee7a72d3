CONSTANTS
  Kinds = {"tcp"}
  HasTimeout = FALSE
  StartFailures = {}
  WriteStates <- WhileDisconnected
  ExpireStates <- Never
  MaxWrites = 2
  MayReconnect = {TRUE}
  MaxDeferred = 2
SPECIFICATION Spec
INVARIANTS
  PendingIsSent
