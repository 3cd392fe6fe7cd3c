SPECIFICATION Spec
CONSTANTS
  Threads = {t1, t2}
  Chunks = {c1, c2, c3}
  Buffers = {b1, b2, b3}
  ChunkSize = 4
  HeaderSize = 1
  Word = 16
  BodySizes = {2, 18}
  NoChunk = NoChunk
  NoBuffer = NoBuffer
SYMMETRY Symmetry
INVARIANT HoldsPacket
CHECK_DEADLOCK FALSE
