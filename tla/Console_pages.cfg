CONSTANTS
  Batches = {b1, b2}
  Tabs = {t1}
  Operators = {t1}
  Importers = {t1}
  Universities = {}
  TTL = 1
  FetchTime = 0
  MaxChanges = 2
  None = None
SPECIFICATION Spec
SYMMETRY Symm
INVARIANTS EnvFollowsStatus 
PROPERTIES ResultsAreLabelled
CHECK_DEADLOCK FALSE
