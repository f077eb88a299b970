SPECIFICATION FairSpec
CONSTANTS
  Threads = {"app"}
  Channels = {"tx"}
  Buffers <- MCBuffers
  FileOf <- MCOwnFile
  GarbageDone = {0, 1}
  PrepCanFail = TRUE
  SubmitCanFail = TRUE
  MaxSubmits = 3
INVARIANTS
  TypeOK
  NoErrorQuiescent
  NoLostCompletion
PROPERTIES
  ImplementsService
  IoctlReturns
