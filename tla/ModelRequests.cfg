SPECIFICATION Spec
CONSTANTS
  MaxU64 = 4095
  MaxSeek = 2047
  MaxInt = 31
  NotFinite = NotFinite
  Background = Background
  Patch = 2
  PromptTokens = 2
  HeadDim = 2
  Audited <- MCAudited
  WamParts <- MCWamParts
  WamCounts <- MCWamCounts
  Loads <- MCLoads
  Requests <- MCRequests
  Cores <- MCCores
  TestValues <- MCTestValues
  MaxDraws = 2
CHECK_DEADLOCK FALSE
INVARIANTS
  TypeOK
  PayloadInside
  InputContractHolds
  AcceptedImagesCompose
  CanvasExact
  ClippedActionBounded
  DecodeInverts
  PrefixClosed
