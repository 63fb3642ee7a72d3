CONSTANTS
  MaxRequests = 3
  MaxChunks = 2
  StartResults = {"started"}
  RequestInCanceled = FALSE
SPECIFICATION Spec
INVARIANTS
  HandlesMatchRequest
  BodyIsWhole
PROPERTIES
  ImplementsSingleRequest
CHECK_DEADLOCK FALSE
