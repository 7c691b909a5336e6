\* One worker beside the indexer; the workers share nothing but the index.
SPECIFICATION Spec
CONSTANTS
    a = a  b = b  gil = gil  lock = lock
    Worker = {1}
    Row <- Rows
    Query <- Queries
    Unparsable <- Broken
    Limit = {0, 2}
    Offset = {0, 1}
    MaxEntries = 2
    Warm = TRUE
    Disks <- Indexes
    MaxGens = 3
INVARIANTS
    AnswerIsCurrent
    CacheAgrees
    StatsAreOneGeneration
PROPERTIES
    HandleIsFinal
