CONSTANTS
    MaxOffset = 2
    MaxQueue = 2
    Queries = {}
    MaxTrim = 1
SPECIFICATION Spec
INVARIANTS TypeOK AckedStoresSurvive NoHoles SealIsFinal
PROPERTY ImplementsLogServer
CHECK_DEADLOCK FALSE
