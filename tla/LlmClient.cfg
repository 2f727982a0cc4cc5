SPECIFICATION Spec
CONSTANTS
  Jobs = {j}
  Requests = {r}
INVARIANTS TypeOK ResultOrNone 
CHECK_DEADLOCK FALSE
