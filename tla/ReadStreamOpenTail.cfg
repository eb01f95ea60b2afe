CONSTANTS
    MaxLsn = 3
    MaxIndex = 1
    MaxTrim = 1
    OpenTailsBounded = FALSE
SPECIFICATION Spec
INVARIANT ReadsTheLog
CHECK_DEADLOCK FALSE
