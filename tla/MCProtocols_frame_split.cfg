CONSTANTS
  LineBuffer = 6
  StreamSize = 3
  IoBuf = 11
  MaxPackets = 4
  AnyCut = TRUE
  Channels <- FrameStream
  Frames <- SomeFrames
  Lists <- SomeLists
  Lines <- SomeLines
  Documents <- SomeDocuments
SPECIFICATION Spec
INVARIANTS
  PacketsIntact
CHECK_DEADLOCK FALSE
