SPECIFICATION Spec
CONSTANTS
  Writers = {w1}
  Readers = {r1}
  Files <- FilesOfAllKinds
  ChunkSize = 2
  LinksPerBlock = 2
  Slices <- SomeSlices
  Buffers = {1, 4}
  None = None
  MaxAdds = 2
INVARIANTS
  TypeOK
  ReadsTheFile
  SameBytesSameRoot
  
CHECK_DEADLOCK FALSE
