SPECIFICATION Spec
CONSTANTS
  Threads = {t1, t2, t3}
  Packets = {p1, p2, p3, p4}
  NoPacket = NoPacket
  SendErrors = {"reset", "other"}
SYMMETRY Symmetry
INVARIANTS
  TypeOK
  ExclusiveSendEvent
  KernelBatchPinned
PROPERTIES
  ImplementsChannel
CHECK_DEADLOCK FALSE
