CONSTANTS
  LineBuffer = 6
  StreamSize = 3
  IoBuf = 11
  MaxPackets = 4
  AnyCut = FALSE
  Channels <- AllChannels
  Frames <- SomeFrames
  Lists <- SomeLists
  Lines <- SomeLines
  Documents <- SomeDocuments
SPECIFICATION Spec
INVARIANTS
  PacketsIntact
  NothingHeldBack
CHECK_DEADLOCK FALSE
