SPECIFICATION FairSpec
CONSTANTS
  a = a
  b = b
  Trap = Trap
  Nothing = Nothing
  Never = Never
  Clients = {a, b}
  Values <- Numbers
  Callbacks <- Counting
  Timeouts <- Timed
  MaxCalls = 2
  MaxEvents = 2
  MaxTag = 2
INVARIANT TypeOK
PROPERTIES KeepsValue Answered
CHECK_DEADLOCK FALSE
