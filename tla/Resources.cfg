SPECIFICATION ResourcesSpec
CONSTANTS
  Error = Error
  Nobody = Nobody
  Processes = {p, q}
  Objects = {o1, o2, o3, o4}
  Streams = {s}
  Datagrams = {d}
  Listeners = {l}
  Others = {m}
  SpentIds = {1}
SYMMETRY Symmetry
INVARIANTS Accounted DropsOnce
CHECK_DEADLOCK FALSE
