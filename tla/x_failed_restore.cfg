SPECIFICATION TaskSpec
CONSTANTS
  Callers = {a, b}
  Plugins = 1
  Lazy = {1}
  Programs = {p}
  Tests = {t}
  MaxFixtureRuns = 0
  MaxSetups = 2
  MaxSnapshots = 1
INVARIANT NoShortCircuit
CHECK_DEADLOCK FALSE
