SPECIFICATION FairSpec
CONSTANTS
  Connections = {c1, c2}
  Concurrent = FALSE
  Frames <- CallFrames
  Window = 1
PROPERTIES
  RequestsFinish
  SessionsReclaimed
