\* Both versions, two scenarios of the first language and one of the second.
CONSTANTS
  Scenarios <- TwoAndOne
  Clients = 2
  Messages = 1
  MaxAverage = 1
SPECIFICATION Spec
INVARIANTS TypeOK RowsOfWholeRuns OneRowEach HeaderIsThere RowHidesNoFault
CHECK_DEADLOCK FALSE
