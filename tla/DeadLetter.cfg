SPECIFICATION FairSpec
CONSTANTS
  h1 = h1
  s1 = s1
  s2 = s2
  Handlers = {h1}
  Schedulers = {s1, s2}
  Processes <- TwoProcesses
  Texts = {ask}
  DegenerateTexts = {}
  FastPathTexts = {}
  Verdicts = {v1}
  MaxTickets = 1
  MaxRetries = 1
  StuckAfter = 1
  FreshAge = 0
  BatchSize = 2
  Prompt = FALSE
  Revivals = FALSE
  MaxLost = 1
PROPERTIES DeadLetterTerminal
CHECK_DEADLOCK FALSE
