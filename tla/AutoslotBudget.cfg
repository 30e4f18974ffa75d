SPECIFICATION FairSpec
CONSTANTS
  i1 = i1
  i2 = i2
  Invoice = {i1, i2}
  Volume <- MCVolume
  Stocked = {i1}
  NumPlans = 2
  NumSlots = 1
  SlotsPerDay = 1
  Windows <- MCAnyDay
  Priorities = {0, 1}
  MovedByHand = {i1}
  MaxAttempts = 2
  Volumes = {2}
  RetryRounds = 1
  MaxRestarts = 1
CHECK_DEADLOCK FALSE
INVARIANTS TypeOK SetBudget ClaimHeld
PROPERTIES ClaimEnds LifecycleKept
