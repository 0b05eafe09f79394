SPECIFICATION Spec
CONSTANTS
  a = a
  b = b
  Clients = {a}
  Busy = {a}
  MaxCalls = 2
  MaxPosts = 1
  MaxSpawns = 2
INVARIANT TagsAreUnique
CHECK_DEADLOCK FALSE
