SPECIFICATION HistorySpec
CONSTANTS
  Sessions = {s1, s2}
  Nicknames = {n1, n2}
  RoomCapacity = 2
  Workers = 2
  Disciplined = FALSE
  MaxUsers = 2
  MaxRooms = 2
SYMMETRY Symmetry
INVARIANTS
  TypeOK
  NicknamesExact
  CountCoversMembers
  EmptyRoomAwaitsHost
  CurrentRoomHasUser
  AssertsHold
  QuietSessionsCleanUp
PROPERTIES
  ClosedForGood
  FaultsAreOwn
  OnlyReentryMiscounts
CHECK_DEADLOCK FALSE
