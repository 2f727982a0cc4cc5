SPECIFICATION Spec
CONSTANTS
  h1 = h1
  s1 = s1
  s2 = s2
  Handlers = {h1}
  Schedulers = {s1}
  Processes <- OneProcess
  Texts = {noise, word, ask}
  DegenerateTexts = {noise}
  FastPathTexts = {noise, word}
  Verdicts = {v1, v2}
  MaxTickets = 2
  MaxRetries = 2
  StuckAfter = 1
  FreshAge = 0
  BatchSize = 2
  Prompt = FALSE
  Revivals = TRUE
  MaxLost = 1
INVARIANTS TypeOK RetryLedger AnswersFit LlmCallsLimited
PROPERTIES SettledNotClaimed
CHECK_DEADLOCK FALSE
