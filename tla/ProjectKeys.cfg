SPECIFICATION Spec
CONSTANTS
  Projects = {p, q}
  Keys = {k1, k2}
  NoKey = NoKey
  Requests = {r1, r2}
  NoProject = NoProject
INVARIANTS
  RowsAreMeant
  EventsWereAllowed
  ShownOnce
SYMMETRY Symmetry
CHECK_DEADLOCK FALSE
