SPECIFICATION FairRpcSpec
CONSTANTS
  Connections = {s1, s2}
  Clients = {k1}
  NoSocket = NoSocket
  Concurrent = FALSE
  LastId = 1
  Interrupts = FALSE
  Frames <- ClientFrames
  Window = 1
INVARIANTS
  ClientTypeOK
  IdsAgree
PROPERTY ImplementsPolicy
