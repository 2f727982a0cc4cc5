SPECIFICATION FairSpec
CONSTANTS
  Containers = {a, b}
  FirstImages = {1, 2, 4}
  MaxFaults = 2
  MaxByHand = 1
INVARIANTS TypeOK SchemaMatchesVersion NeverServesOlderSchema
PROPERTIES  EveryoneServes
