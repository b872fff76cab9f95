\* Pages of up to three rows, swept either way, in grey or colour; the buffers
\* of libjpeg and of the connection are filled exactly, overrun and left partly
\* filled.  A chunk of three bytes has two digits in base 2, as 0xff8 has three.
CONSTANTS
  Heights = {0, 1, 2, 3}
  Junk = junk
  DestSize = 3
  BufferSize = 9
  ChunkOffset = 4
  MaxChunkSize = 3
  Base = 2
  MaxBurst = 4
SPECIFICATION Spec
INVARIANTS
  RowsInOrder
  WholeImageSent
  BodyOnlyOfRendered
\* A response ends with the last chunk, and a process with one without a frame to jump to.
CHECK_DEADLOCK FALSE
