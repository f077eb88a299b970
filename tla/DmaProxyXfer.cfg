SPECIFICATION Spec
CONSTANTS
  Threads = {"app"}
  Channels = {"tx"}
  Buffers <- MCBuffers
  FileOf <- MCOwnFile
  GarbageDone = {0}
  PrepCanFail = TRUE
  SubmitCanFail = FALSE
  MaxSubmits = 3
INVARIANTS
  XferPerforms
