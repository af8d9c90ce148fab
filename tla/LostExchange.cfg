SPECIFICATION Spec
CONSTANTS
    r1 = r1
    r2 = r2
    Procs = {r1, r2}
    KeepRecent = 1
    HardCap = 2
    MaxExchanges = 2
SYMMETRY RequestSymmetry
INVARIANTS
    AppendedIsRemembered
