SPECIFICATION FairSpec
CONSTANTS
  a = a
  b = b
  NoPid = NoPid
  Holders = {a, b}
  Handles = {h1, h2}
  Exiting = {a, b}
  Crashing = {a, b}
INVARIANTS Covered Balanced
PROPERTIES ReturnsUnclaimed Reclaimed
CHECK_DEADLOCK FALSE
