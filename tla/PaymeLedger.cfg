SPECIFICATION Spec
CONSTANTS
  o1 = o1
  o2 = o2
  t1 = t1
  t2 = t2
  t3 = t3
  w1 = w1
  Order = {o1, o2}
  Tx = {t1, t2, t3}
  OrderOf <- MCOrderOf
  Days <- MCDays
  Worker = {w1}
  TrialEnd = 1
  Horizon = 2
  Crashes = 1
  Others = {"code", "unlimited", "clear"}
CHECK_DEADLOCK FALSE
INVARIANTS TypeOK LedgerAgrees NoFreeDays
PROPERTY TxForward
