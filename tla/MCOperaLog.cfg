CONSTANTS
  c1 = c1
  c2 = c2
  c3 = c3
  c4 = c4
  Consumer = Consumer
  Callers = {c1, c2, c3}
  Capacity = 1
  BatchSize = 2
  PoolSize = 1
  MaxStops = 1
SPECIFICATION MCSpec
INVARIANTS
  EntriesAccounted
PROPERTIES
  ClearingIsOnRecord
  CallersEnd
  EntriesSettle
CHECK_DEADLOCK FALSE
