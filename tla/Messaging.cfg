SPECIFICATION FairSpec
CONSTANTS
  a = a
  b = b
  Clients = {a, b}
  Busy = {a}
  MaxCalls = 2
  MaxPosts = 2
  MaxSpawns = 2
INVARIANTS NoCrossTalk PostsInOrder
PROPERTIES RequestsEnd KeepsPromise
CHECK_DEADLOCK FALSE
