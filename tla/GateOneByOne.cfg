SPECIFICATION FairSpec
CONSTANTS
  b1 = b1
  b2 = b2
  r1 = r1
  r2 = r2
  Browser = {b1}
  Request = {r1}
  Horizon = 2
  Overlap = FALSE
CHECK_DEADLOCK FALSE
INVARIANTS TypeOK ChangeReaches NotBlocked
PROPERTY ServedAgain
