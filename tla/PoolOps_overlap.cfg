SPECIFICATION Spec
CONSTANTS
  Spring = Spring
  Autumn = Autumn
  Ada = Ada
  Bo = Bo
  Cleo = Cleo
  Batches = {Spring, Autumn}
  Attempts = {Ada, Cleo}
  BatchOf <- MCBatchOf
  Operators = {1}
  PoolSize = 1
  WarmCount = 1
  MaxKeys = 2
  Rules = {"close"}
  Events = {}
  Null = Null
INVARIANTS OnePodOneStudent
CHECK_DEADLOCK FALSE
