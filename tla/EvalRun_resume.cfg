SPECIFICATION Spec
CONSTANTS
  s1 = s1
  s2 = s2
  m1 = m1
  m2 = m2
  v1 = v1
  v2 = v2
  Nothing = Nothing
  Torn = Torn
  Planned <- TwoTasks
  Shards = {s1, s2}
  Manifests = {m1}
  Models = {v1}
  Counts = {0, 2}
  MaxClients = 1
  MaxDamaged = 1
CHECK_DEADLOCK FALSE
SYMMETRY Interchangeable
INVARIANTS
  TypeOK
  RecordsComplete
  MergeComplete
PROPERTY
  TornLinesStayLast
