SPECIFICATION Spec
CONSTANTS
  Callers = {c1, c2, c3}
  Instructions <- MCInstructions
  PromptOf <- MCPromptOf
  MaskOf <- MCMaskOf
  MaxTokens = 3
  Capacities <- MCCapacities
SYMMETRY Interchangeable
INVARIANTS AnswerIsEncoding KeepsMostRecent
