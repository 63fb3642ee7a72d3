CONSTANTS
  Hosts = {h1, h2}
  Peers = {p1, p2}
  MaxWrites = 4
  OtherThread = FALSE
  None = None
SPECIFICATION Spec
INVARIANTS
  ContextsMatchQueries
  DatagramOnce
PROPERTIES
  NamedWritesEnd
CHECK_DEADLOCK FALSE
