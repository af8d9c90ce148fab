SPECIFICATION PageSpec
CONSTANTS
    NoOne = NoOne
    MaxSessions = 2
    MaxQuestions = 2
INVARIANTS
    TypeOK
    SessionsKeepTheirOwn
    OneStreamAtATime
PROPERTIES
    StreamingEnds
CHECK_DEADLOCK FALSE
