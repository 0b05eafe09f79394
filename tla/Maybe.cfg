SPECIFICATION FairSpec
CONSTANTS
  Null = Null
  Nobody = Nobody
  Clients = {a}
  Values = {v}
  MaxMaybes = 3
  Trapping = {1}
  Ending = {2}
INVARIANT TypeOK
PROPERTIES KeepsPromises Settles Answered
CHECK_DEADLOCK FALSE
