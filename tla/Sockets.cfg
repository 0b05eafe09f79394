SPECIFICATION FairSpec
CONSTANTS
  c = c
  d = d
  Consumers = {c, d}
  Ending = {d}
  Sizes = {0, 2}
  MaxSent = 3
  MaxTraps = 1
INVARIANTS TypeOK InOrder TailIsOld
PROPERTIES ClosedIsLast Answered Reclaimed
CHECK_DEADLOCK FALSE
