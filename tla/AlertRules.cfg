SPECIFICATION Spec
CONSTANTS
  p = p
  q = q
  e1 = e1
  e2 = e2
  Projects = {p, q}
  Events = {e1, e2}
  Details <- ErrorDetails
  Edits <- OverlappingEdits
  Requests = {r1, r2}
  MaxTime = 2
  MaxFaults = 1
INVARIANTS
  ColumnsAreMeant
  BurstsAreNoticed
  RatesArePercentages
PROPERTIES
  FiresAsItIs
  ImplementsLedger
SYMMETRY Symmetry
CHECK_DEADLOCK FALSE
