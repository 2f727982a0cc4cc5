SPECIFICATION Spec
CONSTANTS
  h1 = h1
  s1 = s1
  s2 = s2
  Handlers = {h1}
  Schedulers = {s1}
  Processes <- OneProcess
  Texts = {ask}
  DegenerateTexts = {}
  FastPathTexts = {}
  Verdicts = {v1}
  MaxTickets = 3
  MaxRetries = 1
  StuckAfter = 1
  FreshAge = 0
  BatchSize = 1
  Prompt = FALSE
  Revivals = FALSE
  MaxLost = 1
INVARIANTS DuplicatesBounded
CHECK_DEADLOCK FALSE
