SPECIFICATION FairSpec
CONSTANTS
  t1 = t1
  t2 = t2
  Tasks = {t1, t2}
  MaxBlocks <- TwoAndOne
INVARIANTS TypeOK AloneKeepsPromise
PROPERTIES ConnectionsReturn
CHECK_DEADLOCK FALSE
