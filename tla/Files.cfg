SPECIFICATION FilesFairSpec
CONSTANTS
  a = a
  b = b
  f = f
  g = g
  Absent = Absent
  Closed = Closed
  First = First
  Root = Root
  Clients = {a, b}
  Names = {f, g}
  Lengths = {1, 2}
  Capacity = 1
  Behind = {b}
  MaxChanges = 3
INVARIANTS FilesTypeOK OneWrite
PROPERTIES ReadsWhole ListsDirectory CallsEnd
CHECK_DEADLOCK FALSE
