SPECIFICATION Spec
CONSTANTS
  Projects = {p}
  Keys = {k1, k2}
  NoKey = NoKey
  Requests = {r1}
  NoProject = NoProject
INVARIANTS
  RotatedKeyIsDead
CHECK_DEADLOCK FALSE
