CONSTANTS
    MaxLsn = 3
    MaxIndex = 1
    MaxTrim = 1
    OpenTailsBounded = TRUE
SPECIFICATION FairSpec
INVARIANTS TypeOK ReadsTheLog NothingSkipped
PROPERTY EveryRecordIsRead
CHECK_DEADLOCK FALSE
