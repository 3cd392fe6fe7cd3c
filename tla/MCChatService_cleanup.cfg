SPECIFICATION Spec
CONSTANTS
  Sessions = {s1, s2}
  Nicknames = {n1, n2}
  RoomCapacity = 2
  Workers = 2
  Disciplined = TRUE
  MaxUsers = 2
  MaxRooms = 2
INVARIANTS
  CleanedUp
CHECK_DEADLOCK FALSE
