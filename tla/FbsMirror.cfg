SPECIFICATION FairSpec
CONSTANTS
  o1 = o1
  o2 = o2
  Order = {o1, o2}
  Begins <- MCNewAndLeaving
  Moving = {o1, o2}
  Sweeps <- MCSweeps
  Pressed = {"PACKING"}
  Acted = {o1}
  MaxFaults = 1
CHECK_DEADLOCK FALSE
INVARIANT TypeOK
PROPERTIES SettleSound Converges
