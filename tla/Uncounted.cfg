SPECIFICATION Spec
CONSTANTS
  h1 = h1
  s1 = s1
  s2 = s2
  Handlers = {h1}
  Schedulers = {s1}
  Processes <- NoCrash
  Texts = {ask}
  DegenerateTexts = {}
  FastPathTexts = {}
  Verdicts = {v1}
  MaxTickets = 1
  MaxRetries = 1
  StuckAfter = 1
  FreshAge = 0
  BatchSize = 2
  Prompt = TRUE
  Revivals = FALSE
  MaxLost = 1
INVARIANTS EveryFailureCounts
CHECK_DEADLOCK FALSE
