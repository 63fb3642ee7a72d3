CONSTANTS
  None = None
  Server = s
  Clients = {c1, c2}
  Loops = {s, l1}
  MaxCloses = 2
  MayOverlap = FALSE
SPECIFICATION FairSpec
INVARIANTS
  ClientsKept
  RemovalOnItsWay
PROPERTIES
  ClosedClientsAreDestroyed
CHECK_DEADLOCK FALSE
