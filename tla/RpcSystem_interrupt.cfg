SPECIFICATION RpcSpec
CONSTANTS
  Connections = {s1}
  Clients = {k1}
  NoSocket = NoSocket
  Concurrent = FALSE
  LastId = 2
  Interrupts = TRUE
  Frames <- ClientFrames
  Window = 3
PROPERTY OneStaleResponse
