SPECIFICATION FairSpec
CONSTANTS
  a = a
  b = b
  k = k
  l = l
  v = v
  Absent = Absent
  Nothing = Nothing
  Never = Never
  Creator = a
  Clients = {a, b}
  Keys = {k, l}
  Values = {v}
  MaxEvents = 2
INVARIANT TypeOK
PROPERTIES KeepsMap Answered
CHECK_DEADLOCK FALSE
