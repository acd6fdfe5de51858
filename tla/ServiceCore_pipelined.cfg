SPECIFICATION Spec
CONSTANTS
  Connections = {c1}
  Concurrent = TRUE
  Frames <- EveryFrame
  Window = 2

INVARIANT AnswersInOrder

