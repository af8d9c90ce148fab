SPECIFICATION Spec
CONSTANTS
    c1 = c1
    c2 = c2
    harnesses = harnesses
    chunks = chunks
    Calls = {c1, c2}
    Statements <- MCStatements
    Tables <- MCTables
    AllowedTables <- MCAllowed
    MaxRetries = 2
    NoStatement = NoStatement
    FailThreshold = 3
SYMMETRY CallSymmetry
INVARIANTS
    TypeOK
    RetriesBounded
    AnswersShowWhatRan
    TripsAtThreshold
    OpenRunsAreExcused
PROPERTIES
    QuietOnceTripped
    TracedIsUntraced
CHECK_DEADLOCK FALSE
