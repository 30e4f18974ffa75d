SPECIFICATION Spec
CONSTANTS
  i1 = i1
  i2 = i2
  a1 = a1
  a2 = a2
  Invoice = {i1, i2}
  Volume <- MCVolume
  Stocked = {i1}
  NumPlans = 2
  NumSlots = 1
  SlotsPerDay = 1
  Windows <- MCAnyDay
  Priorities = {0}
  MovedByHand = {}
  MaxAttempts = 3
  Attempts = {a1, a2}
  MaxInflight = 2
  LastDay = 1
  Faults = {"restart", "submit", "hang", "database"}
CHECK_DEADLOCK FALSE
SYMMETRY MCSymmetry
INVARIANTS TypeOK OrderListsPlans OneFuturePerPlan
PROPERTY LifecycleKept
