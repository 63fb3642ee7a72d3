CONSTANTS
  Ids = {i1, i2}
  Others = {t1}
  Loop = loop
  MaxSets = 3
  RemoteOps = {"new"}
  None = None
SPECIFICATION Spec
INVARIANTS
  EventsMatchMap
PROPERTIES
  FiresAsSet
  TimersFire
  OthersReturn
CHECK_DEADLOCK FALSE
