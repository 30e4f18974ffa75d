SPECIFICATION Spec
CONSTANTS
  NumSkus = 3
  Goods <- MCGoods
  Rules <- MCRules
  MaxInvoices = 3
  MaxPresses = 2
  MaxFaults = 1
CHECK_DEADLOCK FALSE
INVARIANTS SupplyTypeOK DraftSound OpenedOnce
