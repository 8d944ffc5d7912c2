SPECIFICATION Spec
CONSTANTS
  Attempts = {a1, a2, a3}
  Requests = {r1}
  Null = Null
  PoolSize = 2
  WarmCount = 1
  Duration = 1
  MaxTime = 1
  MaxExtensions = 0
  MaxPodLosses = 0
  Events = {"expire", "package"}
SYMMETRY Symmetry
INVARIANTS TypeOK SeatInv RunningIsPlaced ReleasedSlotsAreSubmitted
PROPERTIES NoOvertaking SeatsAreAllocated
CHECK_DEADLOCK FALSE
