SPECIFICATION FairSpec
CONSTANTS
  o = o
  p = p
  q = q
  e1 = e1
  Owners = {o}
  Projects = {p, q}
  Events = {e1}
  OwnerOf <- MCOwnerOf
  ProjectOf <- MCProjectOf
  Global = Global
  NoScope = NoScope
  Asked = {o, p, q}
  Readers = {r1}
  MaxFaults = 1
  Capacity = 2
INVARIANTS
  FreshWhileOneCounterHolds
  NoCrossScope
PROPERTIES
  StalenessEnds
CHECK_DEADLOCK FALSE
