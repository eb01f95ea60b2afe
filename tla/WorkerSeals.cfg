CONSTANTS
    MaxOffset = 1
    MaxQueue = 2
    Queries = {"local", "global", "either"}
    MaxTrim = 0
SPECIFICATION FairSpec
PROPERTY SealsAreAnswered
CHECK_DEADLOCK FALSE
