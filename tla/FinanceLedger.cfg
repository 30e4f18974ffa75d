SPECIFICATION Spec
CONSTANTS
  b1 = b1
  Backfill = {b1}
  Hours = 3
  LastDay = 2
  LastHour = 3
  MaxFaults = 1
  MaxResyncs = 1
  RefreshDays = 1
  MaxSold = 2
CHECK_DEADLOCK FALSE
INVARIANTS TypeOK Guarded MessagesAddUp
PROPERTY Rerun
