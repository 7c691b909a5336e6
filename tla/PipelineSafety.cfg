\* Intermediate commits inside a segment, every kind of failure.
SPECIFICATION Spec
CONSTANTS
    Url = {a, b}
    MaxPages = 3
    MaxSegments = 3
    SegmentDocs = 2
    MaxKills = 1
    MaxIoErrors = 1
    CommitDocs = 1
    Once = FALSE
    Archive = FALSE
    GraphRoom = 1
    MaxCrashes = 1
    MaxSidecarErrors = 1
SYMMETRY Symmetry
INVARIANTS
    TypeOK
    NothingHandedIsLost
    SpoolInCrawlOrder
    DrainedIndexIsCurrent
    TimelineNeverOvercounts
    CountedBeforeVisible
PROPERTIES
    SealedFilesAreFinal
    ImplementsHandoff
CHECK_DEADLOCK FALSE
