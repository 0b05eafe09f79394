SPECIFICATION FairSpec
CONSTANTS
  a = a
  b = b
  NoPid = NoPid
  Nothing = Nothing
  Never = Never
  Holders = {a, b}
  Handles = {h1, h2}
  Exiting = {b}
  Crashing = {b}
  Lengths = {2}
INVARIANTS Covered Balanced
PROPERTIES KeepsStream ReturnsUnclaimed Answered Reclaimed
CHECK_DEADLOCK FALSE
