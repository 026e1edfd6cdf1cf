SPECIFICATION TaskLiveSpec
CONSTANTS
  Callers = {a, b}
  Plugins = 2
  Lazy = {1, 2}
  Programs = {p}
  Tests = {s, t}
  MaxFixtureRuns = 2
  MaxSetups = 2
  MaxSnapshots = 1
INVARIANTS
  NothingLeftBehind
  SessionMatchesChain
  FixtureOnce
  EveryHandlerRan
PROPERTIES
  CategoryShared
  ContextsSettle
CHECK_DEADLOCK FALSE
