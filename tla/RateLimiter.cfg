SPECIFICATION Spec
CONSTANTS
    h1 = h1
    h2 = h2
    alice = alice
    Procs = {h1, h2}
    Buckets = {alice}
    Limit = 2
    Window = 3
    MaxTime = 7
SYMMETRY HandlerSymmetry
INVARIANTS
    TypeOK
    OvershootBounded
PROPERTIES
    NoStampForgottenInWindow
    ResetInFreesASlot
