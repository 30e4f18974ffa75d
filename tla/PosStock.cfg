SPECIFICATION Spec
CONSTANTS
    Worker = {a, b, c}
    Row = {1, 2, 3}
    Foreign = {3}
    Id <- MCId
    MaxId = 4
    Opening <- MCOpening
    Baskets <- MCBaskets
    Sheets <- MCSheets
    Unset = Unset
    Keep = 1
    MaxBegun = 4
SYMMETRY MCSymmetry
CHECK_DEADLOCK FALSE
INVARIANTS TypeOK NoWaitCycle
PROPERTIES RecentKept BookKept
