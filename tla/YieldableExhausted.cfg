SPECIFICATION FairSpec
CONSTANTS
  a = a
  b = b
  NoPid = NoPid
  Nothing = Nothing
  Never = Never
  Holders = {a}
  Handles = {h1, h2}
  Exiting = {}
  Crashing = {}
  Lengths = {0, 1}
PROPERTIES Exhausted
CHECK_DEADLOCK FALSE
