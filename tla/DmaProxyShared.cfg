SPECIFICATION FairSpec
CONSTANTS
  Threads = {"app", "other"}
  Channels = {"tx"}
  Buffers <- MCBuffers
  FileOf <- MCOneFile
  GarbageDone = {0}
  PrepCanFail = FALSE
  SubmitCanFail = FALSE
  MaxSubmits = 2
PROPERTIES
  XferOneBuffer
