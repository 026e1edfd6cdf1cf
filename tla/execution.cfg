SPECIFICATION LiveSpec
CONSTANTS
  Calls = {"a", "b", "c", "d"}
  Sinks = {"s1", "s2"}
  defaultSink = "s1"
  path <- MCPath
  awaits <- MCAwaits
  sink <- MCSink
INVARIANT TrapsReachTheirCall
INVARIANT BlamesOwnQueries
INVARIANT ConsoleRestored
INVARIANT OutputsOfAccepted
PROPERTY ExecutionsSettle
\* every call is made once: the system stops when all have settled
CHECK_DEADLOCK FALSE
