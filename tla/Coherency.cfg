\* Both boards; three bytes stand for a buffer of 64 that fills a cache line.
SPECIFICATION FairSpec
CONSTANTS
  Boards = {"versal", "zynqmp"}
  ByteCount = 3
  Residue = {0, 170}
INVARIANT TypeOK
PROPERTIES
  ImplementsSharedMemory
  ReadbackGenuine
  Terminates
  CopyArrives
