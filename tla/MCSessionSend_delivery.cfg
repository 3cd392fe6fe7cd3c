SPECIFICATION FairSpec
CONSTANTS
  Threads = {t1, t2}
  Packets = {p1, p2, p3}
  NoPacket = NoPacket
  SendErrors = {"reset"}
INVARIANTS
  NoStrandedPacket
PROPERTIES
  Delivered
CHECK_DEADLOCK FALSE
