\* Each part on inputs that reach every branch of it.
SPECIFICATION PartsSpec
CONSTANTS
    \* WarcArchive
    RecordSizes = {1, 2}
    HeaderSize = 1
    WarcMax = 4
    SegmentPages = 2
    MaxPages = 4
    MaxFiles = 5
    MaxStops = 2
    \* Fetcher: three attempts
    Answers <- ServerAnswers
    MaxRetries = 2
    BackoffBase = 1
    BackoffCap = 3
    MaxJitter = 1
    MaxBody = 2
    Second = 1
    Width = 4
    \* RobotsFile
    FileLine <- RobotsLines
    AgentLength <- Agents
    SecondsOf <- Delays
    Covered <- Covering
    LengthOf <- PatternLengths
    Path = {"/", "/a", "/ab"}
    MaxLines = 4
    \* GlobMatch
    Letter = {"/", "a"}
    Star = "*"
    MaxPattern = 3
    MaxText = 3
    \* PageParser
    Boilerplate = {"nav", "script"}
    Plain = {"div"}
    Href <- Links
    BaseHref = {"other", "/rel"}
    Resolved <- Resolving
    Absolute = {"page", "other"}
    PageUrl = "page"
    MaxTokens = 4
    \* Entities
    Named <- NamedCharacters
    Unit <- TextUnits
    MaxEntity = 2
    MaxUnits = 4
    \* SitemapScan
    Value = {"u", "v", "/rel"}
    UrlOf <- SitemapURLs
    MaxRecords = 3
    \* UrlPolicy
    SeedURL <- PolicySeeds
    LinkURL <- PolicyLinks
    TrackingParam = {"utm"}
    DataExtension = {"pdf"}
    AllowedHost = {"other"}
    MaxLinkBatch = 2
    \* LinkGraph
    PageURL = {"a1", "a2", "b1"}
    SiteOf <- Sites
    Persisted <- EarlierCounts
    MaxNodes = 3
    MaxEdges = 3
    Iterations = 3
    Scale = 100000
    Damping = 85
    MaxRecorded = 2
    MaxLinks = 3
    \* StateFile
    Reader = {"r1", "r2"}
    MaxVersions = 4
    \* StartChime: three workers over two windows
    Worker = {"w1", "w2", "w3"}
    Window = 2
    MaxClock = 4
INVARIANTS
    ArchiveCoversSpool
    BodyIsWhole
    StallIsBounded
    BackoffIsExact
    RulesAreTheFiles
    GlobIsSound
    TextIsContent
    LinksAreTheAnchors
    EntitiesDecodeOnce
    
    OneDocumentOneURL
    GraphIsWhole
    ReadsAreFresh
    ChimeOnce
PROPERTIES
    AsksAgainOnlyInTurn
    FetchReturns
CHECK_DEADLOCK FALSE
