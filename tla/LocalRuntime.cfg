SPECIFICATION Spec
CONSTANTS
  Models = {m1, m2}
  Sessions = {s1, s2, s3}
  Tensors <- MCTensors
  PrefixOf <- MCPrefixOf
  BytesOf <- MCBytesOf
  Configs <- MCConfigs
  Capacity = 10
SYMMETRY Interchangeable
INVARIANTS WeightsAlive DeviceAccounted
CHECK_DEADLOCK FALSE
