SPECIFICATION FairSpec
CONSTANTS
  h1 = h1
  s1 = s1
  s2 = s2
  Handlers = {h1}
  Schedulers = {s1}
  Processes <- OneProcess
  Texts = {ask}
  DegenerateTexts = {}
  FastPathTexts = {}
  Verdicts = {v1}
  MaxTickets = 2
  MaxRetries = 2
  StuckAfter = 1
  FreshAge <- WestOfUtc
  BatchSize = 2
  Prompt = FALSE
  Revivals = FALSE
  MaxLost = 1
PROPERTIES StaysSettled
CHECK_DEADLOCK FALSE
