CONSTANTS
  l1 = l1
  l2 = l2
  None = None
  Main = main
  Loops = {l1, l2}
  Users = {main}
  Jobs = {j1, j2, j3, j4}
  CrossPost <- OneWayCrossPost
  ioservices <- TwoServices
SPECIFICATION ContainerSpec
INVARIANTS
  NoDeadlockedSet
  NothingRunsAfterRun
PROPERTIES
  StopEndsRun
CHECK_DEADLOCK FALSE
