SPECIFICATION Spec
CONSTANTS
  t1 = t1
  t2 = t2
  s1 = s1
  s2 = s2
  o1 = o1
  o2 = o2
  e1 = e1
  e2 = e2
  Threads = {t1, t2}
  Sessions = {s1, s2}
  Observations = {o1, o2}
  Embeddings = {e1, e2}
  Tokens <- TwoLengths
  Reset = Reset
  Given = Given
  Drawn = Drawn
  Nothing = Nothing
  Unwritten = Unwritten
  Failed = Failed
  MaxDraws = 2
SYMMETRY Interchangeable
INVARIANTS
  TypeOK
  OneOnDevice
  GraphFits
PROPERTY
  ImplementsPolicy
