\* Blocks of two bytes and streams of up to three, one clone; two file streams
\* on a document of three bytes and temporary files, copied through a buffer of
\* two to memory with room for less, or for all; an int32 up to 3.
CONSTANTS
  Streams = {f1, f2}
  Documents = {"doc"}
  Temporaries = {"t1", "t2"}
  Inodes = {i1, i2, i3}
  NoInode = none
  Bytes <- FileBytes
  DocumentBytes <- Text
  MaxTries = 2
  MaxLength = 2
  IntMax = 3
  Memories <- SmallMemories
  CopySizes = {0, 3}
  BufSize = 2
  N = 2
  DynamicBytes = {"a", "b"}
  Junk = "?"
  DynamicStreams = {s1, s2}
  First = s1
  MaxSize = 3
  MaxData = 3
SYMMETRY Symmetry
SPECIFICATION Spec
INVARIANTS
  ActsAsByteStream
  ReadersUndisturbed
  TransfersWhole
  TemporaryKept
  CopiedInOrder
