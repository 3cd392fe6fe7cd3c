SPECIFICATION FairSpec
CONSTANTS
  HeaderSize = 2
  MaxFrame = 3
  BufferSize = 4
  BufferCount = 3
  StreamLength = 14
  RecvErrors = {"reset", "other"}
INVARIANTS
  TypeOK
  RoomForNextRecv
  UnreadIntact
  MoveDisjoint
  HeaderAtFrameStart
PROPERTIES
  FrameDispatched
CHECK_DEADLOCK FALSE
