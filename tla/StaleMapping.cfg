SPECIFICATION Spec
CONSTANTS
    p1 = p1
    p2 = p2
    e1 = e1
    e2 = e2
    NoEntry = NoEntry
    NoText = NoText
    Procs = {p1, p2}
    Entries = {e1, e2}
    Texts <- MCTexts
    Sim <- MCSim
    Trust = 9
    Floor = 7
    Batch = 1
    MaxOps = 3
PROPERTIES
    DeletesOnlyDanglingMapping
CHECK_DEADLOCK FALSE
