CONSTANTS
    Process = {p1, p2}
    Task = {p1, p2}
    Home <- OneTask
    Ops = {"extend", "tail", "trim", "seal"}
    TrimRequests = {1}
    MaxVersion = 3
    MaxLsn = 3
SYMMETRY Symmetry
SPECIFICATION Spec
INVARIANTS TypeOK AckedRecordsReadable SealedAnswersSeparate VersionsAgree
CHECK_DEADLOCK FALSE
