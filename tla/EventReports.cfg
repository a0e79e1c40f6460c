SPECIFICATION Spec
CONSTANTS
  Hour = 2
  Day = 4
  Week = 8
  Month = 9
  SlowThreshold = 9
  PageSize = 2
  History <- MCHistory
  Bodies <- MCBodies
  Requests <- MCRequests
  Owned = {"p"}
  NoProject = NoProject
  Recent = 2
  Retention = 7
  Start = 13
  MaxChanges = 3
INVARIANTS
  ReportAgrees
  PercentilesOrdered
  DatesAreWholeDays
  WholeRangesAreAnswered
  PagesMissNothing
CHECK_DEADLOCK FALSE
