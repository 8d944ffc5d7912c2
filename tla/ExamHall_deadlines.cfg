SPECIFICATION Spec
CONSTANTS
  Attempts = {a1, a2}
  Requests = {r1}
  Null = Null
  PoolSize = 1
  WarmCount = 1
  Duration = 1
  MaxTime = 2
  MaxExtensions = 1
  MaxPodLosses = 0
  Events = {"void", "extend", "sweep", "close"}
SYMMETRY Symmetry
INVARIANTS AutoCollectedWasOverdue 
PROPERTIES SubmittedIsFinal RowsKeepTheirPromise
CHECK_DEADLOCK FALSE
