SPECIFICATION Spec
CONSTANTS
  i1 = i1
  i2 = i2
  Invoice = {i1, i2}
  Volume <- MCVolume
  Stocked = {i1, i2}
  NumPlans = 3
  NumSlots = 2
  SlotsPerDay = 1
  Windows <- MCSecondDay
  Priorities = {0}
  MovedByHand = {}
  MaxAttempts = 1
  Volumes = {2, 3}
  RetryRounds = 1
  MaxRestarts = 0
CHECK_DEADLOCK FALSE
INVARIANT CapacityRespected
