SPECIFICATION Spec
CONSTANTS
  Threads = {t1, t2}
  Chunks = {c1, c2, c3}
  Buffers = {b1, b2, b3}
  ChunkSize = 4
  HeaderSize = 1
  Word = 16
  BodySizes = {0, 2, 4, 16}
  NoChunk = NoChunk
  NoBuffer = NoBuffer
SYMMETRY Symmetry
INVARIANTS
  TypeOK
  LiveDisjoint
  NoChunkLost
  ShortOnlyByOverflow
  OnlyOversizeKills
CHECK_DEADLOCK FALSE
