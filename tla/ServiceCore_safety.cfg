SPECIFICATION Spec
CONSTANTS
  Connections = {c1, c2}
  Concurrent = FALSE
  Frames <- EveryFrame
  Window = 1
SYMMETRY Interchangeable
INVARIANTS
  TypeOK
  NoFreeUnderCall
  NoSessionLeak
  OneInference
  LockHeldWhileRunning
PROPERTY ClosedIsFinal
