SPECIFICATION Spec
CONSTANTS
  Threads = {t1, t2, t3}
  Values = {0, 1}
  Initial = 0
  NoValue = NoValue
  NoOne = NoOne
  MaxCalls = 3
  Menu <- MCMenu
SYMMETRY Symmetry
CHECK_DEADLOCK FALSE
INVARIANTS TypeOK Exclusive NobodyStranded BroadcastReachesAll SignalReachesWaiter
PROPERTIES ImplementsCondwait
