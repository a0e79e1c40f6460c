SPECIFICATION Spec
CONSTANTS
  o = o
  p = p
  q = q
  e1 = e1
  Owners = {o}
  Projects = {p}
  Events = {e1}
  OwnerOf <- MCOwnerOf
  ProjectOf <- MCProjectOf
  Global = Global
  NoScope = NoScope
  Asked = {p}
  Readers = {r1}
  MaxFaults = 0
  Capacity = 2
INVARIANTS
  NewEventForcesRecompute
CHECK_DEADLOCK FALSE
