CONSTANTS
  Kinds = {"tcp", "unix", "accepted"}
  HasTimeout = TRUE
  StartFailures = {"refused"}
  WriteStates <- CarefulWrites
  ExpireStates <- CarefulExpiry
  MaxWrites = 3
  MayReconnect = {TRUE, FALSE}
  MaxDeferred = 2
SPECIFICATION FairSpec
INVARIANTS
  HandlesMatchState
  NoSleepingData
  WireIsPrefix
  GracefulCloseSentAll
  AppInformed
PROPERTIES
  Reconnects
  GracefulCloseHappens
