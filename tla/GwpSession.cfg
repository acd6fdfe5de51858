SPECIFICATION Spec
CONSTANTS
  o1 = o1
  o2 = o2
  p1 = p1
  p2 = p2
  p3 = p3
  n1 = n1
  n2 = n2
  Observations = {o1, o2}
  Prompts = {p1, p2, p3}
  Noises = {n1, n2}
  Nothing = Nothing
  Failed = Failed
  FixedPrompt = p1
  Steps = 2
  Configs <- AllConfigs
  Fragile <- Everything
INVARIANTS
  TypeOK
  FreshAnswer
  PromptCacheSound
  SignatureHonest
  GraphsInStorage
  DiesOnlyStarved
