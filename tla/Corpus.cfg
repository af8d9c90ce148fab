SPECIFICATION IngestSpec
CONSTANTS
    f1 = f1
    f2 = f2
    g1 = g1
    g2 = g2
    Files <- MCFiles
    Versions <- MCVersions
    Glosses = {g1, g2}
    Extracts <- MCExtracts
    NoId = NoId
    MaxRuns = 3
    MaxEdits = 1
    MaxCleans = 1
    Target = 5
    Buffers <- MCBuffers
    Overlap = 2
    RrfK = 2
    Fetch = 3
    TopK = 3
    MinChars = 100
    NoParent = NoParent
    Rows <- MCRows
INVARIANTS
    TypeOK
    CompleteRunIsComplete
    OrphansHaveATwin
    ReferencesResolve
    PackingIsSound
    RankingIsSound
    ResultsAreDistinct
PROPERTIES
    UpsertsAreIdempotent
CHECK_DEADLOCK FALSE
