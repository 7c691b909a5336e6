\* One commit per segment, an indexer that is always started again.
SPECIFICATION FairSpec
CONSTANTS
    Url = {a, b}
    MaxPages = 3
    MaxSegments = 3
    SegmentDocs = 2
    MaxKills = 0
    MaxIoErrors = 1
    CommitDocs = 3
    Once = TRUE
    Archive = FALSE
    GraphRoom = 2
    MaxCrashes = 1
    MaxSidecarErrors = 0
PROPERTIES
    HandedIsEventuallyVisible
    VisibleNeverRegresses
CHECK_DEADLOCK FALSE
