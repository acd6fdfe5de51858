SPECIFICATION Spec
CONSTANTS
  s1 = s1
  s2 = s2
  m1 = m1
  m2 = m2
  v1 = v1
  v2 = v2
  Nothing = Nothing
  Torn = Torn
  Planned <- Repeated
  Shards = {s1}
  Manifests = {m1}
  Models = {v1, v2}
  Counts = {0, 1}
  MaxClients = 1
  MaxDamaged = 1
CHECK_DEADLOCK FALSE
INVARIANT
  OneModel
