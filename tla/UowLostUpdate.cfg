SPECIFICATION Spec
CONSTANTS
  t1 = t1
  t2 = t2
  Tasks = {t1, t2}
  MaxBlocks <- OneEach
INVARIANTS ReturnedIsSaved
CHECK_DEADLOCK FALSE
