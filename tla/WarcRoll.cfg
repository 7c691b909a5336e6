\* One process writes four pages.
SPECIFICATION WarcSpec
CONSTANTS
    RecordSizes = {1, 2}
    HeaderSize = 1
    WarcMax = 4
    SegmentPages = 2
    MaxPages = 4
    MaxFiles = 5
    MaxStops = 0
PROPERTIES
    RolledFilesAreFull
