\* Does a success rate of 100% mean that no connection failed?
CONSTANTS
  Scenarios <- TwoAndOne
  Clients = 2
  Messages = 1
  MaxAverage = 1
SPECIFICATION Spec
INVARIANT RateMeansNoFailure
CHECK_DEADLOCK FALSE
