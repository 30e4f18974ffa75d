SPECIFICATION FairSpec
CONSTANTS
  i1 = i1
  i2 = i2
  a1 = a1
  a2 = a2
  Invoice = {i1, i2}
  Volume <- MCVolume
  Stocked = {}
  NumPlans = 2
  NumSlots = 1
  SlotsPerDay = 1
  Windows <- MCAnyDay
  Priorities = {0}
  MovedByHand = {}
  MaxAttempts = 3
  Attempts = {a1, a2}
  MaxInflight = 1
  LastDay = 2
  Faults = {"submit", "hang"}
CHECK_DEADLOCK FALSE
PROPERTIES Attempted FlightEnds
