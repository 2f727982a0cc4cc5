SPECIFICATION Spec
CONSTANTS
  h1 = h1
  s1 = s1
  s2 = s2
  Handlers = {h1}
  Schedulers = {s1, s2}
  Processes <- TwoProcesses
  Texts = {hi, ask}
  DegenerateTexts = {}
  FastPathTexts = {}
  Verdicts = {v1}
  MaxTickets = 2
  MaxRetries = 2
  StuckAfter = 2
  FreshAge = 1
  BatchSize = 2
  Prompt = TRUE
  Revivals = TRUE
  MaxLost = 1
INVARIANTS SingleOwner LlmBudget
PROPERTIES KeepsContract AiUsedKept
CHECK_DEADLOCK FALSE
