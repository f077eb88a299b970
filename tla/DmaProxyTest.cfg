SPECIFICATION SpecDevice
CONSTANTS
  Threads = {"tx", "rx"}
  Channels = {"tx", "rx"}
  Buffers <- MCBuffers
  FileOf <- MCFileOf
  GarbageDone = {0}
  PrepCanFail = FALSE
  SubmitCanFail = FALSE
  MaxSubmits = 12
  TX_BUFFER_COUNT = 1
  RX_BUFFER_COUNT = 3
  BUFFER_INCREMENT = 1
  Transfers = 6
  StreamDepth = 1
  LateStop = FALSE
  SlowFor = {"rx"}
INVARIANTS
  TypeOKDevice
  GracefulShutdown
  VerifyInOrder
  MemoryLive
  FreshStart
PROPERTIES
  NoWriteInFlight
  Terminates
