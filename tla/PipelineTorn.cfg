SPECIFICATION Spec
CONSTANTS
    Url = {a, b}
    MaxPages = 1
    MaxSegments = 2
    SegmentDocs = 1
    MaxKills = 0
    MaxIoErrors = 1
    CommitDocs = 2
    Once = TRUE
    Archive = FALSE
    GraphRoom = 2
    MaxCrashes = 0
    MaxSidecarErrors = 0
INVARIANTS
    NoHalfWrittenFrame
CHECK_DEADLOCK FALSE
