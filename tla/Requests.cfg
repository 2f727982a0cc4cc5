SPECIFICATION FairSpec
CONSTANTS
  Requests = {r1, r2}
  Capacity = 2
  MaxOutages = 1
INVARIANTS TypeOK NothingKept SuccessIsCommitted RefusedIsNotStored AcceptedIsStored 
PROPERTIES EveryRequestEnds
