SPECIFICATION Spec
CONSTANTS
  Threads = {t1, t2}
  Packets = {p1, p2}
  NoPacket = NoPacket
  SendErrors = {"other"}
INVARIANTS
  NoStrandedPacket
CHECK_DEADLOCK FALSE
