\* The error exit of libjpeg while JpegRenderingDevice::Init starts it.
CONSTANTS
  Heights = {0, 1, 2, 3}
  Junk = junk
  DestSize = 3
  BufferSize = 9
  ChunkOffset = 4
  MaxChunkSize = 3
  Base = 2
  MaxBurst = 4
SPECIFICATION Spec
INVARIANTS
  ErrorExitArmed
CHECK_DEADLOCK FALSE
