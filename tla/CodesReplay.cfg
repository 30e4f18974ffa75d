SPECIFICATION CodesSpec
CONSTANTS
  u1 = u1
  u2 = u2
  c1 = c1
  c2 = c2
  w1 = w1
  w2 = w2
  User = {u1, u2}
  Code = {c1, c2}
  Durations <- MCDurations
  Limits = {2}
  Worker = {w1}
  MaxLog = 4
  MaxEnd = 2
  TrialEnd = 1
  LastDay = 2
SYMMETRY MCSymmetry
CHECK_DEADLOCK FALSE
INVARIANTS CodesTypeOK ReplayAgrees
PROPERTY LongerIsNoLoss
